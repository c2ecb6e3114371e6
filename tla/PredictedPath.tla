---------------------------- MODULE PredictedPath ----------------------------
(***************************************************************************)
(* Client-side prediction of the player's own snake, without its geometry: *)
(* the path the head drew, the commands the server has not confirmed yet,  *)
(* and the two heads kept in struct snake, the predicted one (head) and    *)
(* the newest one the server confirmed (head_ack).  snake_step() extends   *)
(* the path, snake_ack_frame() confirms it or rolls it back and draws its  *)
(* end again.                                                              *)
(*                                                                         *)
(* The path is what the trails of struct snake_data hold, joined; module   *)
(* Snake keeps them apart and implements this one.                         *)
(***************************************************************************)
EXTENDS Integers, Sequences

CONSTANTS Heads,       \* the states of a snake's head: position, angle, speed
          Spawn,       \* the head every snake starts with
          Cmd,         \* the commands a player can give
          Step,        \* Step[h][c] is the head after a frame: snake_step_head()
          MayPass,     \* whether the server may execute a frame of its own
                       \* before the client has put a command for it
          MaxPending,  \* bound on the commands awaiting confirmation
          MaxPoints    \* bound on the path: the length of the snake

ASSUME StepAssumption == /\ Spawn \in Heads
                         /\ Step \in [Heads -> [Cmd -> Heads]]
                         /\ MayPass \in BOOLEAN
                         /\ MaxPending \in Nat \ {0}
                         /\ MaxPoints \in Nat /\ MaxPoints > MaxPending

VARIABLES path,   \* the points drawn so far, oldest first
          cmds,   \* the commands of the frames after the confirmed one
          head,   \* the predicted head
          ack     \* the confirmed head

vars == <<path, cmds, head, ack>>

(* p is drawn by a head that starts at h and executes cs.                  *)
IsRun(p, h, cs) == /\ p[1] = h
                   /\ \A i \in 1 .. Len(cs) : p[i + 1] = Step[p[i]][cs[i]]

(* What it draws.                                                          *)
Run(h, cs) ==
  LET p[i \in 1 .. Len(cs) + 1] ==
        IF i = 1 THEN h ELSE Step[p[i - 1]][cs[i - 1]]
  IN  p

(* The head after executing cs.                                            *)
After(h, cs) == Run(h, cs)[Len(cs) + 1]

First(s, n) == SubSeq(s, 1, n)

Rest(s, n) == SubSeq(s, n + 1, Len(s))

-----------------------------------------------------------------------------

Init == /\ path = << Spawn >>
        /\ cmds = << >>
        /\ head = Spawn
        /\ ack = Spawn

(* A frame that never waits for the server.                                *)
AdvanceUnbounded(c) ==
  /\ cmds' = Append(cmds, c)
  /\ head' = Step[head][c]
  /\ path' = Append(path, head')
  /\ UNCHANGED ack

(* A part compared with the confirmed head after it is gone.               *)
MayLeaveLate(n) == \A i \in 1 .. n - 1 : path[i] # ack

(* The tail may leave the first n points: the confirmed head, which is     *)
(* compared with each part before that goes, is at none of them.  (It is   *)
(* the box of a segment it is compared with, which leaves less to drop.)   *)
MayLeave(n) == \A i \in 1 .. n : path[i] # ack

(* A frame of the client: command c is queued and executed, and the oldest *)
(* part of the path, which the tail has left, is dropped.                  *)
Advance(c) ==
  /\ Len(cmds) < MaxPending
  /\ cmds' = Append(cmds, c)
  /\ head' = Step[head][c]
  /\ \E drop \in 0 .. Len(path) :
       /\ MayLeave(drop)
       /\ path' = Rest(Append(path, head'), drop)
  /\ Len(path') <= MaxPoints
  /\ UNCHANGED ack

(* The commands of the frames up to m.  For the frame after the newest     *)
(* command that command is repeated.                                       *)
Executed(m) == IF m <= Len(cmds) THEN First(cmds, m)
               ELSE Append(cmds, cmds[Len(cmds)])

(* The server's head of frame m (counted from the frame after the confirmed*)
(* one) arrives.  The confirmed head catches up, executing the commands    *)
(* the server has executed.  When it ends up where the server says, the    *)
(* prediction was right.                                                   *)
Confirm(m, auth) ==
  /\ After(ack, Executed(m)) = auth
  /\ cmds' = Rest(cmds, m)
  /\ ack' = auth
  /\ UNCHANGED <<path, head>>

(* A correction that leaves what was drawn as it is.                       *)
RollbackOfAck(m, auth) ==
  /\ After(ack, Executed(m)) # auth
  /\ cmds' = Rest(cmds, m)
  /\ ack' = auth
  /\ UNCHANGED <<path, head>>

(* A correction that executes the confirmed commands once more.            *)
RollbackRedoingAll(m, auth) ==
  LET redo == Run(auth, cmds)
  IN  /\ After(ack, Executed(m)) # auth
      /\ cmds' = Rest(cmds, m)
      /\ ack' = auth
      /\ path' = First(path, Len(path) - Len(redo)) \o redo
      /\ head' = redo[Len(redo)]

(* When it does not, the points drawn in that frame and since are taken    *)
(* back, and the remaining commands are executed again from the server's   *)
(* head.                                                                   *)
Rollback(m, auth) ==
  LET redo == Run(auth, Rest(cmds, m))
  IN  /\ After(ack, Executed(m)) # auth
      /\ cmds' = Rest(cmds, m)
      /\ ack' = auth
      /\ path' = First(path, Len(path) - (Len(cmds) + 1 - m)) \o redo
      /\ head' = redo[Len(redo)]

(* A head is ignored when no command is unconfirmed.  It is accepted for   *)
(* one frame more than there are commands.                                 *)
AckFrame(m, auth) ==
  /\ cmds # << >>
  /\ m = Len(cmds) + 1 => MayPass
  /\ Confirm(m, auth) \/ Rollback(m, auth)

Next == \/ \E c \in Cmd : Advance(c)
        \/ \E m \in 1 .. Len(cmds) + 1 : \E auth \in Heads : AckFrame(m, auth)

Spec == Init /\ [][Next]_vars

-----------------------------------------------------------------------------

TypeOK == /\ path \in Seq(Heads)
          /\ cmds \in Seq(Cmd)
          /\ head \in Heads
          /\ ack \in Heads
          /\ Len(cmds) <= MaxPending

(* However many frames the server is behind, the point the confirmed head  *)
(* drew is still there, so taking back what was drawn since never runs out *)
(* of points: snake_ack_frame() pops without looking, and the tail is only *)
(* kept from taking them as long as the confirmed head is on the path.     *)
EnoughPoints == Len(path) > Len(cmds)

(* The end of the path is what the unconfirmed commands draw from the      *)
(* confirmed head, and it ends in the predicted head.  So a confirmation   *)
(* that finds the heads equal has nothing to repair.                       *)
Faithful == /\ head = path[Len(path)]
            /\ IsRun(Rest(path, Len(path) - Len(cmds) - 1), ack, cmds)

(* After the server's word for a frame, the predicted head is what the     *)
(* server will compute if it gets the remaining commands, whatever had     *)
(* been predicted before.                                                  *)
PredictsServer == head = After(ack, cmds)

=============================================================================
