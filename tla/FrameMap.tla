------------------------------- MODULE FrameMap -------------------------------
(***************************************************************************)
(* What a command queue promises its callers (the contract written down in *)
(* src/include/clither/cmd_queue.h), in terms of frame numbers that never  *)
(* run around: a set of pending commands, one for each frame of a          *)
(* contiguous range, and the command executed last.                        *)
(***************************************************************************)
EXTENDS Integers

CONSTANTS Cmd,        \* the commands a player can give
          DefaultCmd, \* the command executed before any was given
          MaxFrame    \* bound on frame numbers

VARIABLES pending,  \* pending[f] is the command to execute in frame f
          last      \* the command executed last

vars == <<pending, last>>

Init == /\ pending = [f \in {} |-> DefaultCmd]
        /\ last = DefaultCmd

(* A command is only added to an empty map, or right after the newest one. *)
Follows(f) == \/ DOMAIN pending = {}
              \/ f \notin DOMAIN pending /\ f - 1 \in DOMAIN pending

Put(c, f) ==
  /\ pending' = IF Follows(f)
                THEN [g \in DOMAIN pending \cup {f} |->
                        IF g \in DOMAIN pending THEN pending[g] ELSE c]
                ELSE pending
  /\ UNCHANGED last

(* Executing frame f uses up its command and all older ones.  Without a    *)
(* command for f, the newest of those is repeated.                         *)
Take(f) ==
  LET gone == {g \in DOMAIN pending : g <= f}
  IN  /\ pending' = [g \in DOMAIN pending \ gone |-> pending[g]]
      /\ IF gone = {}
         THEN UNCHANGED last
         ELSE \E g \in gone : /\ \A h \in gone : h <= g
                              /\ last' = pending[g]

Next == \E f \in 0 .. MaxFrame : Take(f) \/ \E c \in Cmd : Put(c, f)

Spec == Init /\ [][Next]_vars

=============================================================================
