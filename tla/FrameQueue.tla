------------------------------ MODULE FrameQueue ------------------------------
(***************************************************************************)
(* One command queue in use: commands are put for some frame (by the input *)
(* of the local player, or from a message) and taken for some frame (by    *)
(* the simulation).  The callers stamp frames with wrapped numbers; the    *)
(* history variable base records the real frame number of the oldest       *)
(* command.                                                                *)
(***************************************************************************)
EXTENDS CmdQueue

CONSTANT MaxFrame   \* bound on the real frame numbers

ASSUME MaxFrameAssumption == MaxFrame \in Nat

VARIABLES cmdq,   \* the queue
          base    \* the real frame number of cmdq.first, while not empty

vars == <<cmdq, base>>

Init == /\ cmdq = EmptyQueue
        /\ base = 0

(* The frames a caller can name: the two peers are never half a range      *)
(* (nine minutes) apart.                                                   *)
Near(f) == cmdq.cmds = << >> \/ f - base \in -(H - 1) .. H - 1

PutCommand(c, f) ==
  /\ Near(f)
  /\ cmdq' = Put(cmdq, c, f % M)
  /\ base' = IF cmdq.cmds = << >> THEN f ELSE base

(* The ring buffer has no room and cannot grow.                            *)
LoseCommand(f) ==
  /\ Near(f)
  /\ cmdq' = PutFailed(cmdq, f % M)
  /\ base' = IF cmdq.cmds = << >> THEN f ELSE base

TakeCommand(f) ==
  /\ Near(f)
  /\ cmdq' = TakeOrPredict(cmdq, f % M)
  /\ base' = base + Taken(cmdq, f % M)

Next == \E f \in 0 .. MaxFrame : \/ TakeCommand(f) \/ LoseCommand(f)
                                \/ \E c \in Cmd : PutCommand(c, f)

Spec == Init /\ [][Next]_vars

-----------------------------------------------------------------------------

(* The queue is a record of its type and never spans more than half a      *)
(* range.                                                                  *)
TypeOK == /\ cmdq \in CmdQueues
          /\ Len(cmdq.cmds) <= H
          /\ base \in Nat

(* first_frame, incremented a command at a time and reset by a put on an   *)
(* empty queue, is the stamp of the oldest command.                        *)
FirstIsStamp == cmdq.cmds # << >> => cmdq.first = base % M

(* cmd_queue_find_or_predict() foretells what cmd_queue_take_or_predict()  *)
(* would execute for the same frame: two loops written apart.              *)
FindForetellsTake ==
  \A f \in 0 .. MaxFrame :
    Near(f) => FindOrPredict(cmdq, f % M) = TakeOrPredict(cmdq, f % M).last

(* The queue implements the map of commands by frame, with the stamps      *)
(* unwrapped.  A command that could not be stored is as good as never put: *)
(* the first_frame it leaves in an empty queue is not mistaken for one.    *)
Map == INSTANCE FrameMap
         WITH pending <- [f \in base .. base + Len(cmdq.cmds) - 1 |->
                            cmdq.cmds[f - base + 1]],
              last <- cmdq.last

ImplementsMap == Map!Spec

=============================================================================
