-------------------------------- MODULE Snake --------------------------------
(***************************************************************************)
(* The player's own snake on the client (struct snake, src/src/snake.c):   *)
(* its body is stepped with predicted commands and rolled back when the    *)
(* server disagrees.                                                       *)
(*                                                                         *)
(* The points drawn by the head are kept in trails, one for each bezier    *)
(* segment, because segments are what is removed when the tail has left    *)
(* them.  Neighbouring trails share a point.  Only positions are stored in *)
(* the code; the model remembers the head that drew each one.  Positions   *)
(* have one dimension, and whether a fit is bad enough to begin a segment, *)
(* or how many segments the tail has left, is any outcome bezier.c can     *)
(* return.                                                                 *)
(***************************************************************************)
EXTENDS CmdQueue, SequencesExt

CONSTANTS Heads,       \* the states of a head: position, angle, speed
          Spawn,       \* snake_head_init()
          Step,        \* Step[h][c]: snake_step_head()
          Place,       \* Place[h], an integer: the position of head h
          MinFit,      \* trails with fewer points fit without error
          MayPass,     \* whether the server may execute a frame of its own
                       \* before the client has put a command for it
          MaxPending,  \* bound on the commands awaiting confirmation
          MaxPoints    \* bound on the points of the body

ASSUME SnakeAssumption == /\ Spawn \in Heads
                          /\ Step \in [Heads -> [Cmd -> Heads]]
                          /\ Place \in [Heads -> Int]
                          /\ MinFit \in Nat /\ MinFit > 1
                          /\ MayPass \in BOOLEAN
                          /\ MaxPending \in Nat \ {0} /\ MaxPending < H
                          /\ MaxPoints \in Nat /\ MaxPoints > MaxPending

VARIABLES body,     \* trails, handles, boxes: struct snake_data
          cmdq,     \* commands not confirmed yet
          head,     \* the predicted head
          headAck,  \* the confirmed head
          frame     \* client.frame_number

vars == <<body, cmdq, head, headAck, frame>>

-----------------------------------------------------------------------------
(* The three ring buffers of struct snake_data.                            *)

(* The bounding box of a trail, as the interval <<lowest, highest>>.       *)
Box(trail) == LET places == {Place[trail[i]] : i \in 1 .. Len(trail)}
              IN  <<Min(places), Max(places)>>

InBox(b, h) == b[1] <= Place[h] /\ Place[h] <= b[2]

NewBody(h) == [trails  |-> << << h >> >>,
               handles |-> << h, h >>,
               boxes   |-> << Box(<< h >>) >>]

(* The point is appended to the newest trail and the newest handle moved   *)
(* there by the fit.                                                       *)
UpdateCurve(b, h) ==
  [b EXCEPT !.trails[Len(b.trails)] = Append(@, h),
            !.handles[Len(b.handles)] = h]

UpdateHeadBox(b) == [b EXCEPT !.boxes[Len(b.boxes)] = Box(Last(b.trails))]

AddSegment(b, h) == [trails  |-> Append(b.trails, << h >>),
                     handles |-> Append(b.handles, h),
                     boxes   |-> Append(b.boxes, Box(<< h >>))]

(* The box brought up to date before the trail grows.                      *)
DrawBoxFirst(b, h, bad) ==
  LET grown == UpdateCurve(UpdateHeadBox(b), h)
  IN  IF bad /\ Len(Last(grown.trails)) >= MinFit
      THEN AddSegment(grown, h) ELSE grown

(* One step of the head.  bezier_fit_trail() reports no error for short    *)
(* trails; for longer ones it may (bad).                                   *)
Draw(b, h, bad) ==
  LET grown == UpdateHeadBox(UpdateCurve(b, h))
  IN  IF bad /\ Len(Last(grown.trails)) >= MinFit
      THEN AddSegment(grown, h) ELSE grown

(* Without the constraint for rollbacks.                                   *)
RemoveAllStale(b, ack, stale) ==
  [trails  |-> SubSeq(b.trails, stale + 1, Len(b.trails)),
   handles |-> SubSeq(b.handles, stale + 1, Len(b.handles)),
   boxes   |-> SubSeq(b.boxes, stale + 1, Len(b.boxes))]

(* Remove up to "stale" segments from the tail, but none that could hold   *)
(* the confirmed head.                                                     *)
RemoveStale(b, ack, stale) ==
  LET n == CHOOSE k \in 0 .. stale :
             /\ \A i \in 1 .. k : ~ InBox(b.boxes[i], ack)
             /\ k < stale => InBox(b.boxes[k + 1], ack)
  IN  [trails  |-> SubSeq(b.trails, n + 1, Len(b.trails)),
       handles |-> SubSeq(b.handles, n + 1, Len(b.handles)),
       boxes   |-> SubSeq(b.boxes, n + 1, Len(b.boxes))]

(* Taking back a point, but not the handle of its segment.                 *)
PopKeepingHandle(b) ==
  LET popped == Front(Last(b.trails))
  IN  IF popped # << >>
      THEN [b EXCEPT !.trails[Len(b.trails)] = popped]
      ELSE [trails  |-> [Front(b.trails) EXCEPT ![Len(b.trails) - 1] = Front(@)],
            handles |-> b.handles,
            boxes   |-> Front(b.boxes)]

(* Taking back a point, but not its copy in the previous trail.            *)
PopKeepingCopy(b) ==
  LET popped == Front(Last(b.trails))
  IN  IF popped # << >>
      THEN [b EXCEPT !.trails[Len(b.trails)] = popped]
      ELSE [trails  |-> Front(b.trails),
            handles |-> Front(b.handles),
            boxes   |-> Front(b.boxes)]

(* Take back the newest point.  If it was the only one of its trail, the   *)
(* segment goes, and with it the same point at the end of the previous one.*)
PopPoint(b) ==
  LET popped == Front(Last(b.trails))
  IN  IF popped # << >>
      THEN [b EXCEPT !.trails[Len(b.trails)] = popped]
      ELSE [trails  |-> [Front(b.trails) EXCEPT ![Len(b.trails) - 1] = Front(@)],
            handles |-> Front(b.handles),
            boxes   |-> Front(b.boxes)]

PopPoints(b, n) ==
  LET popped[i \in 0 .. n] == IF i = 0 THEN b ELSE PopPoint(popped[i - 1])
  IN  popped[n]

(* All points of trails, without the shared ones.                          *)
Joined(trails) ==
  LET path[i \in 1 .. Len(trails)] ==
        IF i = 1 THEN trails[1] ELSE path[i - 1] \o Tail(trails[i])
  IN  path[Len(trails)]

-----------------------------------------------------------------------------

Init == /\ body = NewBody(Spawn)
        /\ cmdq = EmptyQueue
        /\ head = Spawn
        /\ headAck = Spawn
        /\ frame = 0

(* The bounds of the model: how far the server may be behind, and how long *)
(* the body can get.                                                       *)
Points(b) == Len(Joined(b.trails))

(* A frame of the client's main loop: queue the command, step the snake,   *)
(* remove the segments the tail has left.                                  *)
ClientFrame(c) ==
  /\ Len(cmdq.cmds) < MaxPending
  /\ cmdq' = Put(cmdq, c, frame)
  /\ head' = Step[head][c]
  /\ \E bad \in BOOLEAN :
       LET drawn == Draw(body, head', bad)
       IN  \E stale \in 0 .. Len(drawn.handles) - 2 :
             body' = RemoveStale(drawn, headAck, stale)
  /\ Points(body') <= MaxPoints
  /\ frame' = Plus(frame, 1)
  /\ UNCHANGED headAck

(* The confirmed head executes the commands up to frame f, taking them     *)
(* from the queue.                                                         *)
CatchUp(f) ==
  LET n == Ahead(f, frame_begin(cmdq)) + 1
      caught[i \in 0 .. n] ==
        IF i = 0 THEN [cmdq |-> cmdq, ack |-> headAck]
        ELSE LET q == TakeOrPredict(caught[i - 1].cmdq,
                                    Plus(frame_begin(cmdq), i - 1))
             IN  [cmdq |-> q, ack |-> Step[caught[i - 1].ack][q.last]]
  IN  caught[n]

(* All heads from auth on, executing the queue.                            *)
Redo(auth, q) ==
  LET drawn[i \in 0 .. Len(q.cmds)] ==
        IF i = 0 THEN auth ELSE Step[drawn[i - 1]][q.cmds[i]]
  IN  [i \in 1 .. Len(q.cmds) + 1 |-> drawn[i - 1]]

DrawAll(b, heads, bad) ==
  LET drawn[i \in 0 .. Len(heads)] ==
        IF i = 0 THEN b ELSE Draw(drawn[i - 1], heads[i], bad[i])
  IN  drawn[Len(heads)]

(* A head message is ignored when nothing is pending, or when its frame is *)
(* older or newer than what is.                                            *)
Expected(f) == /\ cmdq.cmds # << >>
               /\ ge_wrap(f, frame_begin(cmdq))
               /\ le_wrap(f, frame_end(cmdq))

IgnoreHead(f) == ~ Expected(f) /\ UNCHANGED vars

(* The server's head after frame f arrives.                                *)
Confirm(f, auth) ==
  /\ Expected(f)
  /\ CatchUp(f).ack = auth
  /\ headAck' = auth
  /\ cmdq' = CatchUp(f).cmdq
  /\ UNCHANGED <<body, head, frame>>

Rollback(f, auth) ==
  /\ Expected(f)
  /\ CatchUp(f).ack # auth
  /\ cmdq' = CatchUp(f).cmdq
  /\ headAck' = auth
  /\ LET redo == Redo(auth, cmdq')
         kept == PopPoints(body, Ahead(frame_end(cmdq), f))
     IN  /\ head' = Last(redo)
         /\ \E bad \in [1 .. Len(redo) -> BOOLEAN] :
              body' = DrawAll(kept, redo, bad)
  /\ Points(body') <= MaxPoints
  /\ UNCHANGED frame

(* snake_ack_frame() on a message of the network: any older one, or one of *)
(* a frame the server can have executed.                                   *)
AckFrame(f, auth) ==
  /\ f = frame_end(cmdq) => MayPass
  /\ Confirm(f, auth) \/ Rollback(f, auth)

Next == \/ \E c \in Cmd : ClientFrame(c)
        \/ \E f \in Frames : IgnoreHead(f)
        \/ \E f \in Frames, auth \in Heads : AckFrame(f, auth)

Spec == Init /\ [][Next]_vars

-----------------------------------------------------------------------------

TypeOK == /\ body \in [trails : Seq(Seq(Heads)), handles : Seq(Heads),
                       boxes : Seq(Int \X Int)]
          /\ cmdq \in CmdQueues
          /\ head \in Heads
          /\ headAck \in Heads
          /\ frame \in Frames

(* The three ring buffers describe the same segments: the assertions on    *)
(* their counts in snake.c, the layout snake.h documents, and what         *)
(* bezier_fit_trail() indexes, all rely on it.  They are pushed, popped    *)
(* and trimmed in five places.                                             *)
SegmentsAgree ==
  /\ Len(body.trails) >= 1
  /\ Len(body.handles) = Len(body.trails) + 1
  /\ Len(body.boxes) = Len(body.trails)
  /\ \A i \in 1 .. Len(body.trails) :
       /\ body.trails[i] # << >>
       /\ body.handles[i] = body.trails[i][1]
       /\ body.handles[i + 1] = Last(body.trails[i])

(* The box of each segment holds all of its trail, also after a rollback   *)
(* reopened the segment.                                                   *)
BoxesCover ==
  \A i \in 1 .. Len(body.trails) :
    \A j \in 1 .. Len(body.trails[i]) : InBox(body.boxes[i], body.trails[i][j])

(* The confirmed head is on a segment the snake still has: what the        *)
(* comment in snake_update_head_trail_aabb() is concerned with.            *)
AckOnBody == \E i \in 1 .. Len(body.boxes) : InBox(body.boxes[i], headAck)

(* The trails, joined, are the path of PredictedPath.                      *)
Path == INSTANCE PredictedPath
          WITH path <- Joined(body.trails),
               cmds <- cmdq.cmds,
               ack  <- headAck

ImplementsPath == Path!Spec

=============================================================================
