------------------------------- MODULE Netcode -------------------------------
(***************************************************************************)
(* One player and the server.  The client predicts its own snake, sends    *)
(* the commands the server has not confirmed, and rolls back when the      *)
(* server's head differs (client_run(), src/src/client.c).  The server     *)
(* holds the snake until its first command is due, executes what arrived   *)
(* in time and predicts what did not (server_instance_run(),               *)
(* process_message() in src/src/server.c).                                 *)
(*                                                                         *)
(* Both use unreliable messages: the network is the set of all that were   *)
(* sent.  A message may arrive late, many times, out of order, or never.   *)
(* Commands travel as differences (CmdCodec).                              *)
(*                                                                         *)
(* A head is the sequence of the commands executed: no two histories are   *)
(* mistaken for each other, so a difference can not go unnoticed.          *)
(***************************************************************************)
EXTENDS CmdQueue, CmdCodec, FiniteSets

CONSTANTS Start,      \* the server's frame number when the player joins
          Wishes,     \* what the player may want: angle, speed and action
          MaxLead,    \* how many frames ahead of it the client may begin
          Chunk,      \* commands in one MSG_COMMANDS (100 in msg_commands())
          MaxPending, \* bound on the commands awaiting confirmation
          MaxFrames   \* bound on the frames of either side

ASSUME NetcodeAssumption == /\ Start \in Frames
                            /\ Cmd = Commands
                            /\ Wishes \subseteq Cmd
                            /\ Chunk \in Nat \ {0}
                            /\ {MaxLead, MaxPending, MaxFrames} \subseteq Nat
                            /\ MaxLead + MaxFrames < H

VARIABLES
  clientFrame,  \* client.frame_number
  command,      \* cmd of client_run(): the command of the frame before
  clientq,      \* cmdq of the client's snake: commands not confirmed
  head,         \* its predicted head
  headAck,      \* its confirmed head
  serverFrame,  \* frame_number of the server's loop
  serverq,      \* cmdq of the server's snake: commands not executed
  serverHead,   \* its head
  hold,         \* whether it is held in place
  lastMsg,      \* last_command_msg_frame of the server's client record
  commandMsgs,  \* all MSG_COMMANDS sent
  headMsgs,     \* all MSG_SNAKE_HEAD sent
  given,        \* history: the player's command for each frame
  executed,     \* history: the server's command for each frame
  mayPass       \* whether the server may execute a frame before the client
                \* has put a command for it: its clock is never so fast, or is

client == <<clientFrame, command, clientq, head, headAck>>
server == <<serverFrame, serverq, serverHead, hold, lastMsg>>
vars == <<client, server, commandMsgs, headMsgs, given, executed, mayPass>>

Spawn == << >>

HeadMsgs == [frame : Frames, head : Seq(Cmd)]

(* f with v added, or replaced.                                            *)
With(f, x, v) == [y \in DOMAIN f \cup {x} |-> IF y = x THEN v ELSE f[y]]

Prefix(s, n) == SubSeq(s, 1, n)

-----------------------------------------------------------------------------

(* The player has joined: the server spawned and holds the snake, and the  *)
(* client chose a frame number ahead of the server's.                      *)
Init == /\ serverFrame = Start
        /\ clientFrame \in {Plus(Start, lead) : lead \in 0 .. MaxLead}
        /\ command = DefaultCmd
        /\ clientq = EmptyQueue /\ serverq = EmptyQueue
        /\ head = Spawn /\ headAck = Spawn /\ serverHead = Spawn
        /\ hold = TRUE
        /\ lastMsg = Start
        /\ commandMsgs = {} /\ headMsgs = {}
        /\ given = << >> /\ executed = << >>
        /\ mayPass \in BOOLEAN

(* msg_commands(): all of the queue, in chunks.  Each chunk is labelled    *)
(* with its own first frame and filled from the start of the queue.        *)
Packed(q) ==
  {Encoded(Plus(q.first, at),
           Prefix(q.cmds, IF Len(q.cmds) - at > Chunk THEN Chunk ELSE Len(q.cmds) - at)) :
     at \in {k * Chunk : k \in 0 .. (Len(q.cmds) - 1) \div Chunk}}

(* A frame of the client: make, put and execute a command; in a network    *)
(* frame, send what is not confirmed.                                      *)
ClientFrame(want, net) ==
  LET c == Make(command, want)
  IN  /\ Len(clientq.cmds) < MaxPending
      /\ Cardinality(DOMAIN given) < MaxFrames
      /\ command' = c
      /\ clientq' = Put(clientq, c, clientFrame)
      /\ head' = Append(head, c)
      /\ commandMsgs' = IF net THEN commandMsgs \cup Packed(clientq') ELSE commandMsgs
      /\ given' = With(given, clientFrame, c)
      /\ clientFrame' = Plus(clientFrame, 1)
      /\ UNCHANGED <<headAck, server, headMsgs, executed>>

(* Commands for past frames not skipped.                                   *)
UnpackAll(q, m, now) ==
  LET cmds == Decoded(m)
      put[i \in 0 .. Len(cmds)] ==
        IF i = 0 THEN q ELSE Put(put[i - 1], cmds[i], Plus(m.first, i - 1))
  IN  put[Len(cmds)]

(* MSG_COMMANDS at the server: commands for frames it has executed are     *)
(* skipped, the others are put in the queue.  Only then is the message     *)
(* found to be an old one; that only matters for the statistics about the  *)
(* client, which the model leaves out.                                     *)
Unpack(q, m, now) ==
  LET cmds == Decoded(m)
      put[i \in 0 .. Len(cmds)] ==
        IF i = 0 THEN q
        ELSE LET f == Plus(m.first, i - 1)
             IN  IF ge_wrap(f, now) THEN Put(put[i - 1], cmds[i], f) ELSE put[i - 1]
  IN  put[Len(cmds)]

ServerRecv(m) ==
  LET last == Plus(m.first, m.count)
  IN  /\ serverq' = Unpack(serverq, m, serverFrame)
      /\ lastMsg' = IF le_wrap(last, lastMsg) THEN lastMsg ELSE last
      /\ UNCHANGED <<client, serverFrame, serverHead, hold, commandMsgs, headMsgs,
                     given, executed>>

(* snake_try_reset_hold()                                                  *)
Held == hold /\ ~ (serverq.cmds # << >> /\ frame_begin(serverq) = serverFrame)

(* A frame of the server: execute or predict a command unless the snake is *)
(* held; in a network frame, send the head.                                *)
ServerFrame(net) ==
  /\ Ahead(serverFrame, Start) < MaxFrames
  /\ mayPass \/ lt_wrap(serverFrame, clientFrame)
  /\ hold' = Held
  /\ IF Held
     THEN UNCHANGED <<serverq, serverHead, executed>>
     ELSE /\ serverq' = TakeOrPredict(serverq, serverFrame)
          /\ serverHead' = Append(serverHead, serverq'.last)
          /\ executed' = With(executed, serverFrame, serverq'.last)
  /\ headMsgs' = IF net /\ ~ Held
                 THEN headMsgs \cup {[frame |-> serverFrame, head |-> serverHead']}
                 ELSE headMsgs
  /\ serverFrame' = Plus(serverFrame, 1)
  /\ UNCHANGED <<client, lastMsg, commandMsgs, given>>

(* Catching up to the frame before f.                                      *)
CatchUpShort(f) ==
  LET caught[i \in 0 .. Ahead(f, frame_begin(clientq))] ==
        IF i = 0 THEN [cmdq |-> clientq, ack |-> headAck]
        ELSE LET q == TakeOrPredict(caught[i - 1].cmdq,
                                    Plus(frame_begin(clientq), i - 1))
             IN  [cmdq |-> q, ack |-> Append(caught[i - 1].ack, q.last)]
  IN  caught[Ahead(f, frame_begin(clientq))]

(* The confirmed head, and the queue, after executing up to frame f.       *)
CatchUp(f) ==
  LET caught[i \in 0 .. Ahead(f, frame_begin(clientq)) + 1] ==
        IF i = 0 THEN [cmdq |-> clientq, ack |-> headAck]
        ELSE LET q == TakeOrPredict(caught[i - 1].cmdq,
                                    Plus(frame_begin(clientq), i - 1))
             IN  [cmdq |-> q, ack |-> Append(caught[i - 1].ack, q.last)]
  IN  caught[Ahead(f, frame_begin(clientq)) + 1]

(* The server's head compared with the predicted one.                      *)
ClientRecvNewest(m) ==
  /\ clientq.cmds # << >>
  /\ ge_wrap(m.frame, frame_begin(clientq))
  /\ le_wrap(m.frame, frame_end(clientq))
  /\ clientq' = CatchUp(m.frame).cmdq
  /\ headAck' = m.head
  /\ head' = IF head = m.head THEN head ELSE m.head
  /\ UNCHANGED <<clientFrame, command, server, commandMsgs, headMsgs, given, executed>>

(* MSG_SNAKE_HEAD at the client: snake_ack_frame(), without the body.      *)
ClientRecv(m) ==
  /\ clientq.cmds # << >>
  /\ ge_wrap(m.frame, frame_begin(clientq))
  /\ le_wrap(m.frame, frame_end(clientq))
  /\ clientq' = CatchUp(m.frame).cmdq
  /\ headAck' = m.head
  /\ head' = IF CatchUp(m.frame).ack = m.head THEN head ELSE m.head \o clientq'.cmds
  /\ UNCHANGED <<clientFrame, command, server, commandMsgs, headMsgs, given, executed>>

Next == /\ \/ \E want \in Wishes, net \in BOOLEAN : ClientFrame(want, net)
           \/ \E m \in commandMsgs : ServerRecv(m)
           \/ \E net \in BOOLEAN : ServerFrame(net)
           \/ \E m \in headMsgs : ClientRecv(m)
        /\ UNCHANGED mayPass

Spec == Init /\ [][Next]_vars

-----------------------------------------------------------------------------

TypeOK == /\ clientFrame \in Frames /\ serverFrame \in Frames
          /\ command \in Cmd
          /\ clientq \in CmdQueues /\ serverq \in CmdQueues
          /\ head \in Seq(Cmd) /\ headAck \in Seq(Cmd) /\ serverHead \in Seq(Cmd)
          /\ hold \in BOOLEAN
          /\ lastMsg \in Frames
          /\ \A m \in commandMsgs : m.first \in Frames /\ PayloadLen(m) <= Allocated(m)
          /\ headMsgs \subseteq HeadMsgs
          /\ mayPass \in BOOLEAN

(* What the server has queued for a frame is what the player did in that   *)
(* frame, whatever was lost, repeated or reordered on the way.             *)
QueueAgrees ==
  \A i \in 1 .. Len(serverq.cmds) :
    LET f == Plus(serverq.first, i - 1)
    IN  f \in DOMAIN given /\ serverq.cmds[i] = given[f]

(* The oldest command the server has queued is the one for the frame it is *)
(* about to execute, or is yet to come while the snake is held.  With a    *)
(* gap, cmd_queue_take_or_predict() would throw commands away, and a held  *)
(* snake would never be released.                                          *)
QueueIsDue ==
  serverq.cmds # << >> => IF hold THEN ge_wrap(serverq.first, serverFrame)
                          ELSE serverq.first = serverFrame

(* The confirmed head is one the server sent, for the frame before the     *)
(* oldest command the client still sends.  (A head for a frame the client  *)
(* has yet to execute leaves the queue one command behind.)                *)
AckIsServers ==
  \/ mayPass
  \/ headAck = Spawn
  \/ \E m \in headMsgs : /\ m.head = headAck
                         /\ clientq.cmds # << >> => clientq.first = Plus(m.frame, 1)

(* The client is corrected only if the server executed something else than *)
(* the player did, in one of the frames the correction is about: loss,     *)
(* delay and reordering of messages alone never move the player's snake.   *)
Confirmed == {Plus(clientq.first, i) : i \in 0 .. Len(clientq.cmds) - 1}
             \ {Plus(clientq'.first, i) : i \in 0 .. Len(clientq'.cmds) - 1}

Differs(f) == f \notin DOMAIN executed \/ executed[f] # given[f]

RollbackIsJustified ==
  [][~ mayPass /\ clientFrame' = clientFrame /\ head' # head =>
       \E f \in Confirmed : Differs(f)]_vars

=============================================================================
