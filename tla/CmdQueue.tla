------------------------------- MODULE CmdQueue -------------------------------
(***************************************************************************)
(* struct cmd_queue: the commands a snake has still to execute, one per    *)
(* frame, oldest first (src/src/cmd_queue.c).  Only the frame of the       *)
(* oldest command is stored; a command's place in the ring buffer tells    *)
(* the frame of the others.                                                *)
(*                                                                         *)
(* A queue is a record:                                                    *)
(*   first   first_frame, a wrapped frame number                           *)
(*   cmds    the contents of the ring buffer                               *)
(*   last    last_command_read, what a missing command is predicted by     *)
(***************************************************************************)
EXTENDS Wrap, Sequences

CONSTANTS Cmd,        \* the commands a player can give
          DefaultCmd  \* cmd_default()

ASSUME CmdAssumption == DefaultCmd \in Cmd

CmdQueues == [first : Frames, cmds : Seq(Cmd), last : Cmd]

EmptyQueue == [first |-> 0, cmds |-> << >>, last |-> DefaultCmd]

frame_begin(q) == q.first

frame_end(q) == Plus(q.first, Len(q.cmds))

(* Without the comparison of frames.                                       *)
PutAnyFrame(q, c, f) ==
  IF q.cmds = << >> THEN [q EXCEPT !.first = f, !.cmds = << c >>]
  ELSE [q EXCEPT !.cmds = Append(@, c)]

(* A command is accepted when the queue is empty, or when its frame is the *)
(* one right after the newest command's; any other is dropped silently.    *)
Put(q, c, f) ==
  IF q.cmds = << >>
  THEN [q EXCEPT !.first = f, !.cmds = << c >>]
  ELSE IF frame_end(q) = f THEN [q EXCEPT !.cmds = Append(@, c)] ELSE q

(* When there is no memory for the command, which put does not report.     *)
PutFailed(q, f) == IF q.cmds = << >> THEN [q EXCEPT !.first = f] ELSE q

(* How many commands the loop of cmd_queue_take_or_predict() removes: none *)
(* for a frame the queue is past, else all up to and including frame f.    *)
Taken(q, f) ==
  LET d == Ahead(f, q.first)
  IN  IF lt_wrap(f, q.first) THEN 0
      ELSE IF d < Len(q.cmds) THEN d + 1 ELSE Len(q.cmds)

(* Without first_frame++.                                                  *)
TakeInPlace(q, f) ==
  LET n == Taken(q, f)
  IN  [q EXCEPT !.cmds = SubSeq(@, n + 1, Len(@)),
                !.last = IF n = 0 THEN @ ELSE q.cmds[n]]

(* The queue after the call.  The value returned is its "last": the        *)
(* command removed last, or the one an earlier call removed last.          *)
TakeOrPredict(q, f) ==
  LET n == Taken(q, f)
  IN  [first |-> Plus(q.first, n),
       cmds  |-> SubSeq(q.cmds, n + 1, Len(q.cmds)),
       last  |-> IF n = 0 THEN q.last ELSE q.cmds[n]]

(* Without the test for a frame the queue is past.                         *)
FindAhead(q, f) ==
  LET d == Ahead(f, q.first)
  IN  IF q.cmds = << >> THEN q.last
      ELSE IF d < Len(q.cmds) THEN q.cmds[d + 1] ELSE q.cmds[Len(q.cmds)]

(* The command of frame f, leaving the queue alone; predicted by the       *)
(* newest one when there is none.                                          *)
FindOrPredict(q, f) ==
  LET d == Ahead(f, q.first)
  IN  IF lt_wrap(f, q.first) \/ q.cmds = << >> THEN q.last
      ELSE IF d < Len(q.cmds) THEN q.cmds[d + 1] ELSE q.cmds[Len(q.cmds)]

=============================================================================
