--------------------------------- MODULE Join ---------------------------------
(***************************************************************************)
(* A player joins (client.c, server.c; protocol-joining.tex): the client   *)
(* repeats its request until it is answered, and chooses its frame number  *)
(* from the first acceptance.  It may be told to go away, give up, or quit *)
(* at any time; the server's other players come and go.                    *)
(*                                                                         *)
(* Client and server run their loops at the same rate, with any phase.     *)
(* The packets of the client and the answers are sets: they arrive late,   *)
(* repeatedly, out of order, or never.                                     *)
(***************************************************************************)
EXTENDS Wrap

CONSTANTS SimRate, NetRate, \* sim_tick_rate, net_tick_rate
          Retries,          \* resend_retry_counter of a new message (10)
          MaxPlayers,       \* settings->max_players
          ClientStart, ServerStart, \* frame numbers when the client connects
          MaxLoops          \* bound on the iterations of either loop

NetEvery == SimRate \div NetRate    \* loops for each network update

Buffer == 5 * NetEvery              \* head start added when joining

Patience == NetRate * 5             \* longest plausible round trip

ASSUME JoinAssumption ==
  /\ {SimRate, NetRate, Retries, MaxPlayers} \subseteq Nat \ {0}
  /\ MaxLoops \in Nat
  /\ SimRate % NetRate = 0
  /\ {ClientStart, ServerStart} \subseteq Frames
  /\ Buffer + 2 * MaxLoops < H

VARIABLES
  state,        \* client.state; "ended" when the program is
  clientFrame,  \* client.frame_number
  clientLoops,  \* iterations of the client's loop
  tries,        \* resend_retry_counter of MSG_JOIN_REQUEST
  packets,      \* packets of the client: [leave, frame of the request]
  accepts,      \* MSG_JOIN_ACCEPT: [client, server] frames
  denials,      \* whether a MSG_JOIN_DENY_* was sent
  serverFrame,  \* frame_number of the server's loop
  serverLoops,  \* iterations of the server's loop
  registered,   \* whether the server has a record of the client
  others,       \* how many other players it has
  serverRuns    \* FALSE when it has read a snake that does not exist

clientVars == <<state, clientFrame, clientLoops, tries>>
serverVars == <<serverFrame, serverLoops, registered, others, serverRuns>>
vars == <<clientVars, packets, accepts, denials, serverVars>>

Init == /\ state = "joining"           \* client_connect()
        /\ clientFrame = ClientStart /\ clientLoops = 0
        /\ tries = Retries
        /\ packets = {} /\ accepts = {} /\ denials = FALSE
        /\ serverFrame = ServerStart /\ serverLoops = 0
        /\ registered = FALSE
        /\ others \in 0 .. MaxPlayers
        /\ serverRuns = TRUE

-----------------------------------------------------------------------------

(* The loops are driven by clocks of the same rate.                        *)
ClientDue == clientLoops < MaxLoops /\ clientLoops <= serverLoops
ServerDue == serverLoops < MaxLoops /\ serverLoops <= clientLoops /\ serverRuns

ClientNet == clientLoops % NetEvery = 0
ServerNet == serverLoops % NetEvery = 0

Request(leave) == [leave |-> leave, frame |-> clientFrame]

NextLoop(f) == clientFrame' = Plus(f, 1) /\ clientLoops' = clientLoops + 1

(* The repetitions not counted.                                            *)
SendUncounted ==
  /\ ClientDue /\ ClientNet /\ state = "joining"
  /\ packets' = packets \cup {Request(FALSE)}
  /\ NextLoop(clientFrame)
  /\ UNCHANGED <<state, tries, accepts, denials, serverVars>>

(* Of a network update with nothing received: the request is sent again,   *)
(* unless that was the last try.                                           *)
SendRequest ==
  /\ ClientDue /\ ClientNet /\ state = "joining"
  /\ tries - 1 # 0
  /\ tries' = tries - 1
  /\ packets' = packets \cup {Request(FALSE)}
  /\ NextLoop(clientFrame)
  /\ UNCHANGED <<state, accepts, denials, serverVars>>

(* client_run() after its loop: MSG_LEAVE is sent in any state, together   *)
(* with the request when there is still one.  When there is no socket the  *)
(* assertion of client_send_pending_data() fails.                          *)
Ends(last) == /\ state' = "ended"
              /\ packets' = packets \cup last
              /\ UNCHANGED <<clientFrame, clientLoops, tries, accepts, denials, serverVars>>

Quit ==
  \/ state = "joining" /\ Ends(IF tries - 1 = 0 THEN {} ELSE {Request(TRUE)})
  \/ state = "connected" /\ Ends({[leave |-> TRUE]})
  \/ /\ state = "disconnected"
     /\ state' = "aborted"
     /\ UNCHANGED <<clientFrame, clientLoops, tries, packets, accepts, denials, serverVars>>

(* The last try is used up, and the loop ends.  The counter wraps when     *)
(* MSG_LEAVE is sent: so the request is in that packet.                    *)
GiveUp == /\ ClientDue /\ ClientNet /\ state = "joining" /\ tries - 1 = 0
          /\ Ends({Request(TRUE)})

(* The first acceptance.  What the clock of the client has advanced since  *)
(* the request is the round trip time.                                     *)
RoundTrip(a) == Ahead(clientFrame, a.client)

(* The round trip not made up for.                                         *)
AcceptLate(a) ==
  /\ ClientDue /\ ClientNet /\ state = "joining"
  /\ IF RoundTrip(a) > Patience
     THEN state' = "disconnected" /\ NextLoop(clientFrame)
     ELSE state' = "connected" /\ NextLoop(Plus(a.server, Buffer))
  /\ UNCHANGED <<tries, packets, accepts, denials, serverVars>>

Accept(a) ==
  /\ ClientDue /\ ClientNet /\ state = "joining"
  /\ IF RoundTrip(a) > Patience
     THEN state' = "disconnected" /\ NextLoop(clientFrame)
     ELSE state' = "connected" /\ NextLoop(Plus(a.server, RoundTrip(a) + Buffer))
  /\ UNCHANGED <<tries, packets, accepts, denials, serverVars>>

(* A denial, in whatever state.                                            *)
Denied ==
  /\ ClientDue /\ ClientNet /\ state \in {"joining", "connected"} /\ denials
  /\ state' = "disconnected"
  /\ NextLoop(clientFrame)
  /\ UNCHANGED <<tries, packets, accepts, denials, serverVars>>

(* Any other iteration: no network update, nothing to do, or an acceptance *)
(* that is not the first.                                                  *)
ClientIdle ==
  /\ ClientDue
  /\ \/ state \in {"connected", "disconnected"}
     \/ state = "joining" /\ ~ ClientNet
  /\ NextLoop(clientFrame)
  /\ UNCHANGED <<state, tries, packets, accepts, denials, serverVars>>

-----------------------------------------------------------------------------

Joins(p) == "frame" \in DOMAIN p

(* One packet of the client at the server, message by message.  The record *)
(* of the client is looked up once, before the first.                      *)
Full == others + (IF registered THEN 1 ELSE 0) + 1 > MaxPlayers

Answer(p) == accepts' = accepts \cup {[client |-> p.frame, server |-> serverFrame]}

ServerJoin(p) ==
  /\ ~ p.leave
  /\ IF Full THEN denials' = TRUE /\ UNCHANGED <<registered, accepts>>
     ELSE registered' = TRUE /\ Answer(p) /\ UNCHANGED denials
  /\ UNCHANGED serverRuns

(* MSG_LEAVE from somebody unknown: the rest of the packet is dropped.     *)
ServerLeave(p) ==
  /\ p.leave
  /\ registered' = FALSE
  /\ UNCHANGED <<denials, accepts>>
  /\ serverRuns' = ~ (registered /\ Joins(p) /\ others + 1 <= MaxPlayers)

ServerRecv(p) ==
  /\ serverRuns /\ ServerNet
  /\ ServerJoin(p) \/ ServerLeave(p)
  /\ UNCHANGED <<clientVars, packets, serverFrame, serverLoops, others>>

ServerLoop ==
  /\ ServerDue
  /\ serverFrame' = Plus(serverFrame, 1)
  /\ serverLoops' = serverLoops + 1
  /\ UNCHANGED <<clientVars, packets, accepts, denials, registered, others, serverRuns>>

(* The client is dropped for its silence (module Server has the details).  *)
Forget == /\ serverRuns /\ registered
          /\ registered' = FALSE
          /\ UNCHANGED <<clientVars, packets, accepts, denials, serverFrame, serverLoops,
                         others, serverRuns>>

OthersChange ==
  /\ serverRuns
  /\ others' \in {others - 1, others + 1} \cap (0 .. MaxPlayers - IF registered THEN 1 ELSE 0)
  /\ UNCHANGED <<clientVars, packets, accepts, denials, serverFrame, serverLoops,
                 registered, serverRuns>>

ClientStep == SendRequest \/ GiveUp \/ Quit \/ (\E a \in accepts : Accept(a))
                \/ Denied \/ ClientIdle

ServerStep == ServerLoop \/ (\E p \in packets : ServerRecv(p)) \/ Forget \/ OthersChange

Next == ClientStep \/ ServerStep

Spec == Init /\ [][Next]_vars

-----------------------------------------------------------------------------

TypeOK ==
  /\ state \in {"joining", "connected", "disconnected", "ended", "aborted"}
  /\ clientFrame \in Frames /\ serverFrame \in Frames
  /\ clientLoops \in 0 .. MaxLoops /\ serverLoops \in 0 .. MaxLoops
  /\ tries \in 1 .. Retries
  /\ packets \subseteq [leave : BOOLEAN, frame : Frames] \cup [leave : {TRUE}]
  /\ accepts \subseteq [client : Frames, server : Frames]
  /\ {denials, registered, serverRuns} \subseteq BOOLEAN
  /\ others \in 0 .. MaxPlayers

(* However long request and acceptance were under way, and whichever of    *)
(* the repeated requests was answered: the player starts ahead of the      *)
(* server by at least the buffer, so that its first commands come in time, *)
(* and by no more than the repetitions of the request can last.            *)
StartsAhead ==
  [][state = "joining" /\ state' = "connected" =>
       sub_wrap(clientFrame', serverFrame) \in Buffer .. Buffer + Retries * NetEvery + 1]_vars

(* The budget of repetitions runs out before a round trip is implausible:  *)
(* the client never turns a server away for it.                            *)
NeverImplausible == state = "disconnected" => denials

-----------------------------------------------------------------------------
(* What the repository says, and the model refutes: see the README.        *)

(* protocol-joining.tex:13: the server responds with an acceptance "for    *)
(* every MSG_JOIN_REQUEST it receives, even if the snake has already been  *)
(* spawned": who was accepted is never denied.                             *)
AcceptedIsNotDenied == [][registered => denials' = denials]_vars

(* server.c:588: packets "from clients that are not registered" are not    *)
(* received, "with the exception of the "join game request" message", which*)
(* is for the record of an existing client or creates one.                 *)
RecordsAreLive == serverRuns

(* client.c:219: there is a socket to send with.                           *)
SocketExists == state # "aborted"

(* msg.c:36: a reliable message is sent again ten times "before dropping   *)
(* the connection".                                                        *)
AllRetries == [][GiveUp => Retries - tries = Retries]_vars

=============================================================================
