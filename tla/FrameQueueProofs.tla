--------------------------- MODULE FrameQueueProofs ---------------------------
(***************************************************************************)
(* The command queue, which stores one wrapped frame number, implements    *)
(* the map from real frame numbers to commands: for every set of commands  *)
(* and every range of the counter.                                         *)
(*                                                                         *)
(* First come facts about the wrapped comparisons of wrap.h, for every     *)
(* range of the counter.                                                   *)
(***************************************************************************)
EXTENDS FrameQueue, TLAPS

(* The range of the counter is a positive number.                          *)
LEMMA MPositive == M \in Nat \ {0}
  BY HAssumption, SMT DEF M

(* Of two stamps exactly one of "newer", "equal", "older" holds, even at   *)
(* the distance of exactly half the range, where the sign is arbitrary     *)
(* (the last two branches of u16_gt_wrap and u16_ge_wrap).                 *)
THEOREM Trichotomy ==
  ASSUME NEW a \in Frames, NEW b \in Frames
  PROVE  /\ gt_wrap(a, b) \/ a = b \/ gt_wrap(b, a)
         /\ ~ (gt_wrap(a, b) /\ gt_wrap(b, a))
         /\ ge_wrap(a, b) <=> gt_wrap(a, b) \/ a = b
  BY HAssumption, SMT DEF gt_wrap, ge_wrap, Frames, M

(* Adding to a stamp, and counting back, stay within the counter.          *)
LEMMA PlusType ==
  ASSUME NEW a \in Frames, NEW n \in 0 .. M
  PROVE  Plus(a, n) \in Frames
  BY HAssumption, SMT DEF Plus, Frames, M

LEMMA AheadType ==
  ASSUME NEW a \in Frames, NEW b \in Frames
  PROVE  Ahead(a, b) \in Frames
  BY MPositive, SMT DEF Ahead, Frames

-----------------------------------------------------------------------------
(* The rest relates stamps to the frame numbers f they were made from, as  *)
(* f % M.                                                                  *)

LEMMA DivMod ==
  ASSUME NEW m \in Nat \ {0}, NEW f \in Nat
  PROVE  /\ f % m \in 0 .. m - 1
         /\ f \div m \in Nat
         /\ f = (m * (f \div m)) + (f % m)
  BY SMT

LEMMA SmallMultiples ==
  ASSUME NEW q \in Int, NEW m \in Nat \ {0}
  PROVE  /\ q >= 2 => m * q >= m + m
         /\ q = 1 => m * q = m
         /\ q = 0 => m * q = 0
         /\ q = -1 => m * q = -m
         /\ q <= -2 => m * q <= -(m + m)
  BY SMT

(* A stamp is a value of the counter.                                      *)
LEMMA StampType ==
  ASSUME NEW f \in Nat
  PROVE  f % M \in Frames
  BY DivMod, MPositive DEF Frames

(* Stamps of frames less than a range apart differ by the distance of the  *)
(* frames, up to one lap.                                                  *)
LEMMA StampDistance ==
  ASSUME NEW f \in Nat, NEW g \in Nat, f - g \in -(M - 1) .. M - 1
  PROVE  (f % M) - (g % M) \in {f - g, f - g - M, f - g + M}
<1> DEFINE q == f \div M - g \div M
<1>1. /\ f % M \in 0 .. M - 1 /\ f \div M \in Nat
      /\ g % M \in 0 .. M - 1 /\ g \div M \in Nat
      /\ f = (M * (f \div M)) + (f % M)
      /\ g = (M * (g \div M)) + (g % M)
  BY MPositive, DivMod
<1>2. q \in Int /\ M * q = M * (f \div M) - M * (g \div M)
  BY MPositive, <1>1, SMT
<1>3. f - g = (M * q) + ((f % M) - (g % M))
  BY <1>1, <1>2, MPositive
<1>4. M * q \in {-M, 0, M}
  BY MPositive, <1>1, <1>2, <1>3, SmallMultiples
<1>5. QED
  BY MPositive, <1>1, <1>2, <1>3, <1>4, SMT

(* The server and the client compare each other's wrapped frame numbers    *)
(* with their own.  Neither ever transmits how often its counter ran       *)
(* around: the four comparisons, and the signed difference, are those of   *)
(* the real frame numbers nevertheless, as long as these are less than     *)
(* half a range apart.  At 60 frames per second that is nine minutes.      *)
THEOREM StampsCompareCorrectly ==
  ASSUME NEW f \in Nat, NEW g \in Nat, f - g \in -(H - 1) .. H - 1
  PROVE  /\ gt_wrap(f % M, g % M) <=> f > g
         /\ ge_wrap(f % M, g % M) <=> f >= g
         /\ lt_wrap(f % M, g % M) <=> f < g
         /\ le_wrap(f % M, g % M) <=> f <= g
         /\ sub_wrap(f % M, g % M) = f - g
<1> DEFINE r == f % M
           s == g % M
<1>1. r \in 0 .. M - 1 /\ s \in 0 .. M - 1
  BY MPositive, DivMod
<1>2. f - g \in -(M - 1) .. M - 1
  BY HAssumption DEF M
<1>3. r - s \in {f - g, f - g - M, f - g + M}
  BY <1>2, StampDistance
<1> HIDE DEF r, s
<1>4. /\ gt_wrap(r, s) <=> f > g
      /\ ge_wrap(r, s) <=> f >= g
      /\ lt_wrap(r, s) <=> f < g
      /\ le_wrap(r, s) <=> f <= g
  BY <1>1, <1>3, HAssumption, SMT DEF M, gt_wrap, ge_wrap, lt_wrap, le_wrap
<1>5. sub_wrap(r, s) = f - g
  BY <1>1, <1>3, HAssumption, SMT DEF M, sub_wrap, Ahead
<1>6. QED
  BY <1>4, <1>5 DEF r, s

(* Stamps of frames less than half a range apart compare like the frames,  *)
(* and counting up from the older to the newer one gives their distance.   *)
LEMMA StampOrder ==
  ASSUME NEW f \in Nat, NEW g \in Nat, f - g \in -(H - 1) .. H - 1
  PROVE  /\ lt_wrap(f % M, g % M) <=> f < g
         /\ gt_wrap(f % M, g % M) <=> f > g
         /\ f >= g => Ahead(f % M, g % M) = f - g
<1> DEFINE r == f % M
           s == g % M
<1>1. r \in 0 .. M - 1 /\ s \in 0 .. M - 1
  BY MPositive, DivMod
<1>2. f - g \in -(M - 1) .. M - 1
  BY HAssumption DEF M
<1>3. r - s \in {f - g, f - g - M, f - g + M}
  BY <1>2, StampDistance
<1> HIDE DEF r, s
<1>4. /\ lt_wrap(r, s) <=> f < g
      /\ gt_wrap(r, s) <=> f > g
      /\ f >= g => Ahead(r, s) = f - g
  BY <1>1, <1>3, HAssumption, SMT DEF M, lt_wrap, gt_wrap, ge_wrap, Ahead
<1>5. QED
  BY <1>4 DEF r, s

(* Stamps of frames less than a range apart are equal only for the same    *)
(* frame.                                                                  *)
LEMMA StampInjective ==
  ASSUME NEW f \in Nat, NEW g \in Nat, f - g \in -(M - 1) .. M - 1,
         f % M = g % M
  PROVE  f = g
<1>1. (f % M) - (g % M) \in {f - g, f - g - M, f - g + M}
  BY StampDistance
<1>2. f % M \in 0 .. M - 1
  BY StampType DEF Frames
<1>3. 0 \in {f - g, f - g - M, f - g + M}
  BY <1>1, <1>2
<1>4. QED
  BY <1>3, MPositive

(* Counting n further from the stamp of f gives the stamp of f + n.        *)
LEMMA StampPlus ==
  ASSUME NEW f \in Nat, NEW n \in 0 .. M - 1
  PROVE  Plus(f % M, n) = (f + n) % M
<1> DEFINE r == f % M
           s == (f + n) % M
<1>1. r \in 0 .. M - 1 /\ s \in 0 .. M - 1
  BY MPositive, DivMod
<1>2. f + n \in Nat /\ (f + n) - f = n /\ n \in -(M - 1) .. M - 1
  BY MPositive
<1>3. s - r \in {(f + n) - f, (f + n) - f - M, (f + n) - f + M}
  BY <1>2, StampDistance
<1> HIDE DEF r, s
<1>4. Plus(r, n) = s
  BY <1>1, <1>2, <1>3, MPositive, SMT DEF Plus
<1>5. QED
  BY <1>4 DEF r, s

-----------------------------------------------------------------------------
(* The command queue.                                                      *)

IInv == TypeOK /\ FirstIsStamp

(* How long the queue is after a put, and where it starts, in real frame   *)
(* numbers (cmd_queue_put).                                                *)
LEMMA PutEffect ==
  ASSUME IInv, NEW c \in Cmd, NEW f \in 0 .. MaxFrame, PutCommand(c, f)
  PROVE  \/ /\ cmdq.cmds = << >>
            /\ cmdq' = [first |-> f % M, cmds |-> << c >>, last |-> cmdq.last]
            /\ base' = f
         \/ /\ cmdq.cmds # << >> /\ f = base + Len(cmdq.cmds)
            /\ Len(cmdq.cmds) < H
            /\ cmdq' = [first |-> cmdq.first, cmds |-> Append(cmdq.cmds, c),
                        last |-> cmdq.last]
            /\ base' = base
         \/ /\ cmdq.cmds # << >> /\ f # base + Len(cmdq.cmds)
            /\ cmdq' = cmdq /\ base' = base
<1> f \in Nat
  BY MaxFrameAssumption
<1>1. CASE cmdq.cmds = << >>
  BY <1>1 DEF PutCommand, Put, IInv, TypeOK, CmdQueues
<1>2. CASE cmdq.cmds # << >>
  <2> DEFINE n == Len(cmdq.cmds)
  <2>1. n \in 1 .. H /\ base \in Nat /\ f - base \in -(H - 1) .. H - 1
    BY <1>2, HAssumption DEF IInv, TypeOK, CmdQueues, PutCommand, Near
  <2>2. frame_end(cmdq) = (base + n) % M
    <3>1. n \in 0 .. M - 1
      BY <2>1, HAssumption DEF M
    <3>2. QED
      BY <1>2, <2>1, <3>1, StampPlus DEF frame_end, IInv, FirstIsStamp
  <2>3. frame_end(cmdq) = f % M <=> f = base + n
    <3>1. base + n \in Nat /\ (base + n) - f \in -(M - 1) .. M - 1
      BY <2>1, HAssumption, SMT DEF M
    <3>2. QED
      BY <2>2, <3>1, StampInjective
  <2>4. f = base + n => n < H
    BY <2>1, HAssumption
  <2>5. QED
    BY <1>2, <2>3, <2>4 DEF PutCommand, Put, IInv, TypeOK, CmdQueues
<1>3. QED
  BY <1>1, <1>2

(* How many commands a take removes, in real frame numbers                 *)
(* (cmd_queue_take_or_predict).                                            *)
LEMMA TakeEffect ==
  ASSUME IInv, NEW f \in 0 .. MaxFrame, TakeCommand(f)
  PROVE  LET len == Len(cmdq.cmds)
             n == Taken(cmdq, f % M)
         IN  /\ n \in 0 .. len
             /\ base' = base + n
             /\ cmdq'.first = Plus(cmdq.first, n)
             /\ cmdq'.cmds = SubSeq(cmdq.cmds, n + 1, len)
             /\ cmdq'.last = IF n = 0 THEN cmdq.last ELSE cmdq.cmds[n]
             /\ cmdq' = [first |-> cmdq'.first, cmds |-> cmdq'.cmds,
                         last |-> cmdq'.last]
             /\ len > 0 => n = IF f < base THEN 0
                               ELSE IF f < base + len THEN f - base + 1
                               ELSE len
<1> DEFINE len == Len(cmdq.cmds)
           n == Taken(cmdq, f % M)
<1>1. f \in Nat /\ len \in Nat /\ base \in Nat /\ cmdq.first \in Frames
  BY MaxFrameAssumption DEF IInv, TypeOK, CmdQueues
<1>2. f % M \in Frames /\ Ahead(f % M, cmdq.first) \in Nat
  <2>1. f % M \in Frames
    BY <1>1, StampType
  <2>2. Ahead(f % M, cmdq.first) \in Frames
    BY <1>1, <2>1, AheadType
  <2>3. QED
    BY <2>1, <2>2, MPositive DEF Frames
<1>3. n \in 0 .. len
  BY <1>1, <1>2 DEF Taken
<1>4. ASSUME len > 0
      PROVE  n = IF f < base THEN 0
                 ELSE IF f < base + len THEN f - base + 1 ELSE len
  <2>1. cmdq.cmds # << >>
    BY <1>4
  <2>2. cmdq.first = base % M /\ f - base \in -(H - 1) .. H - 1
    BY <2>1 DEF IInv, FirstIsStamp, TakeCommand, Near
  <2>3. /\ lt_wrap(f % M, base % M) <=> f < base
        /\ f >= base => Ahead(f % M, base % M) = f - base
    BY <1>1, <2>2, StampOrder
  <2>4. QED
    BY <1>1, <2>2, <2>3 DEF Taken
<1>5. QED
  BY <1>3, <1>4 DEF TakeCommand, TakeOrPredict

(* Type correctness, and that first_frame is the stamp of the oldest       *)
(* command after any sequence of puts and takes.                           *)
THEOREM Invariance == Spec => []IInv
<1>1. Init => IInv
  BY CmdAssumption, HAssumption, MPositive
  DEF Init, IInv, TypeOK, FirstIsStamp, EmptyQueue, CmdQueues, Frames
<1>2. IInv /\ [Next]_vars => IInv'
  <2> SUFFICES ASSUME IInv, [Next]_vars
               PROVE  IInv'
    OBVIOUS
  <2>1. ASSUME NEW f \in 0 .. MaxFrame, NEW c \in Cmd, PutCommand(c, f)
        PROVE  IInv'
    <3>1. f \in Nat /\ f % M \in Frames
      BY MaxFrameAssumption, StampType
    <3>2. /\ cmdq.first \in Frames /\ cmdq.cmds \in Seq(Cmd)
          /\ cmdq.last \in Cmd /\ base \in Nat /\ Len(cmdq.cmds) \in 0 .. H
      BY DEF IInv, TypeOK, CmdQueues
    <3>3. CASE /\ cmdq' = [first |-> f % M, cmds |-> << c >>,
                           last |-> cmdq.last]
               /\ base' = f
      BY <3>1, <3>2, <3>3, HAssumption
      DEF IInv, TypeOK, FirstIsStamp, CmdQueues
    <3>4. CASE /\ cmdq.cmds # << >> /\ Len(cmdq.cmds) < H
               /\ cmdq' = [first |-> cmdq.first, cmds |-> Append(cmdq.cmds, c),
                           last |-> cmdq.last]
               /\ base' = base
      BY <3>2, <3>4, HAssumption DEF IInv, TypeOK, FirstIsStamp, CmdQueues
    <3>5. CASE cmdq' = cmdq /\ base' = base
      BY <3>5 DEF IInv, TypeOK, FirstIsStamp
    <3>6. QED
      BY <2>1, <3>3, <3>4, <3>5, PutEffect
  <2>2. ASSUME NEW f \in 0 .. MaxFrame, TakeCommand(f)
        PROVE  IInv'
    <3> DEFINE len == Len(cmdq.cmds)
               n == Taken(cmdq, f % M)
    <3>1. /\ n \in 0 .. len /\ base' = base + n
          /\ cmdq'.first = Plus(cmdq.first, n)
          /\ cmdq'.cmds = SubSeq(cmdq.cmds, n + 1, len)
          /\ cmdq'.last = IF n = 0 THEN cmdq.last ELSE cmdq.cmds[n]
          /\ cmdq' = [first |-> cmdq'.first, cmds |-> cmdq'.cmds,
                      last |-> cmdq'.last]
      BY <2>2, TakeEffect
    <3> HIDE DEF n
    <3>2. /\ cmdq.first \in Frames /\ cmdq.cmds \in Seq(Cmd)
          /\ cmdq.last \in Cmd /\ base \in Nat /\ len \in 0 .. H
      BY DEF IInv, TypeOK, CmdQueues
    <3>3. n \in 0 .. M - 1 /\ n \in 0 .. M
      BY <3>1, <3>2, HAssumption DEF M
    <3>4. cmdq'.first \in Frames
      BY <3>1, <3>2, <3>3, PlusType
    <3>5. cmdq'.cmds \in Seq(Cmd) /\ Len(cmdq'.cmds) = len - n
      BY <3>1, <3>2
    <3>6. cmdq'.last \in Cmd
      BY <3>1, <3>2
    <3>7. TypeOK'
      <4>1. cmdq' \in CmdQueues
        BY <3>1, <3>4, <3>5, <3>6 DEF CmdQueues
      <4>2. base' \in Nat /\ Len(cmdq'.cmds) <= H
        BY <3>1, <3>2, <3>5, HAssumption
      <4>3. QED
        BY <4>1, <4>2 DEF TypeOK
    <3>8. FirstIsStamp'
      <4>1. SUFFICES ASSUME cmdq'.cmds # << >>
                     PROVE  cmdq'.first = base' % M
        BY DEF FirstIsStamp
      <4>2. len > 0
        BY <3>1, <3>2, <3>5, <4>1
      <4>3. cmdq.first = base % M
        BY <4>2 DEF IInv, FirstIsStamp
      <4>4. QED
        BY <3>1, <3>2, <3>3, <4>3, StampPlus
    <3>9. QED
      BY <3>7, <3>8 DEF IInv
  <2>3. ASSUME NEW f \in 0 .. MaxFrame, LoseCommand(f)
        PROVE  IInv'
    <3>1. f \in Nat /\ f % M \in Frames
      BY MaxFrameAssumption, StampType
    <3>2. /\ cmdq.first \in Frames /\ cmdq.cmds \in Seq(Cmd)
          /\ cmdq.last \in Cmd /\ base \in Nat /\ Len(cmdq.cmds) \in 0 .. H
          /\ cmdq = [first |-> cmdq.first, cmds |-> cmdq.cmds, last |-> cmdq.last]
      BY DEF IInv, TypeOK, CmdQueues
    <3>3. CASE cmdq.cmds = << >>
      BY <2>3, <3>1, <3>2, <3>3
      DEF IInv, TypeOK, FirstIsStamp, CmdQueues, LoseCommand, PutFailed
    <3>4. CASE cmdq.cmds # << >>
      BY <2>3, <3>4 DEF IInv, TypeOK, FirstIsStamp, LoseCommand, PutFailed
    <3>5. QED
      BY <3>3, <3>4
  <2>4. CASE UNCHANGED vars
    BY <2>4 DEF vars, IInv, TypeOK, FirstIsStamp
  <2>5. QED
    BY <2>1, <2>2, <2>3, <2>4 DEF Next
<1>3. QED
  BY <1>1, <1>2, PTL DEF Spec

(* The queue keeps its type, and never spans more than half a range.       *)
THEOREM TypeCorrect == Spec => []TypeOK
<1>1. IInv => TypeOK
  BY DEF IInv
<1>2. QED
  BY <1>1, Invariance, PTL

(* first_frame is the stamp of the oldest command, though cmd_queue.c only *)
(* ever increments it or overwrites it when the queue is empty.            *)
THEOREM FirstFrameIsExact == Spec => []FirstIsStamp
<1>1. IInv => FirstIsStamp
  BY DEF IInv
<1>2. QED
  BY <1>1, Invariance, PTL

(* The loop of cmd_queue_find_or_predict() and the one of                  *)
(* cmd_queue_take_or_predict() agree on the command of every frame.        *)
THEOREM FindAndTakeAgree == Spec => []FindForetellsTake
<1>1. ASSUME IInv, NEW f \in 0 .. MaxFrame
      PROVE  FindOrPredict(cmdq, f % M) = TakeOrPredict(cmdq, f % M).last
  <2> DEFINE d == Ahead(f % M, cmdq.first)
             len == Len(cmdq.cmds)
  <2>1. cmdq.cmds \in Seq(Cmd) /\ len \in Nat /\ cmdq.first \in Frames
    BY <1>1 DEF IInv, TypeOK, CmdQueues
  <2>2. d \in Nat
    <3>1. f % M \in Frames
      BY MaxFrameAssumption, StampType
    <3>2. d \in Frames
      BY <2>1, <3>1, AheadType
    <3>3. QED
      BY <3>2, MPositive DEF Frames
  <2> HIDE DEF d
  <2>3. /\ len = 0 <=> cmdq.cmds = << >>
        /\ d + 1 # 0
        /\ len = 0 => ~ (d < len)
    BY <2>1, <2>2
  <2>4. TakeOrPredict(cmdq, f % M).last
          = IF Taken(cmdq, f % M) = 0 THEN cmdq.last ELSE cmdq.cmds[Taken(cmdq, f % M)]
    BY DEF TakeOrPredict
  <2>5. Taken(cmdq, f % M) = IF lt_wrap(f % M, cmdq.first) THEN 0
                             ELSE IF d < len THEN d + 1 ELSE len
    BY DEF Taken, d
  <2>6. FindOrPredict(cmdq, f % M)
          = IF lt_wrap(f % M, cmdq.first) \/ cmdq.cmds = << >> THEN cmdq.last
            ELSE IF d < len THEN cmdq.cmds[d + 1] ELSE cmdq.cmds[len]
    BY DEF FindOrPredict, d
  <2>7. QED
    BY <2>3, <2>4, <2>5, <2>6
<1>2. IInv => FindForetellsTake
  BY <1>1 DEF FindForetellsTake
<1>3. QED
  BY <1>2, Invariance, PTL

-----------------------------------------------------------------------------

(* The abstract state a queue stands for.                                  *)
pending == [f \in base .. base + Len(cmdq.cmds) - 1 |->
              cmdq.cmds[f - base + 1]]

(* A put does to the queue what Put does to the map of pending commands:   *)
(* nothing, or one more command right behind the newest one.               *)
LEMMA PutImplements ==
  ASSUME IInv, NEW c \in Cmd, NEW f \in 0 .. MaxFrame, PutCommand(c, f)
  PROVE  Map!Put(c, f)
<1> DEFINE len == Len(cmdq.cmds)
<1>1. /\ f \in Nat /\ base \in Nat /\ len \in Nat /\ cmdq.cmds \in Seq(Cmd)
      /\ DOMAIN pending = base .. base + len - 1
  BY MaxFrameAssumption DEF IInv, TypeOK, CmdQueues, pending
<1>2. Map!Follows(f) <=> cmdq.cmds = << >> \/ f = base + len
  BY <1>1 DEF Map!Follows, pending
<1>3. cmdq'.last = cmdq.last
  BY PutEffect
<1>4. pending' = IF cmdq.cmds = << >> \/ f = base + len
                 THEN [g \in DOMAIN pending \cup {f} |->
                         IF g \in DOMAIN pending THEN pending[g] ELSE c]
                 ELSE pending
  <2>1. CASE cmdq.cmds = << >>
    <3>1. cmdq'.cmds = << c >> /\ base' = f
      BY <2>1, PutEffect
    <3>2. pending' = [g \in f .. f |-> << c >>[g - f + 1]]
      <4>1. pending' = [g \in base' .. base' + Len(cmdq'.cmds) - 1 |->
                          cmdq'.cmds[g - base' + 1]]
        BY DEF pending
      <4>2. f + Len(<< c >>) - 1 = f
        BY <1>1
      <4>3. QED
        BY <3>1, <4>1, <4>2
    <3>3. DOMAIN pending = {} /\ f .. f = {f}
      BY <1>1, <2>1
    <3>4. pending' = [g \in {f} |-> c]
      BY <1>1, <3>2, <3>3
    <3>5. QED
      BY <2>1, <3>3, <3>4
  <2>2. CASE cmdq.cmds # << >> /\ f = base + len
    <3>1. cmdq'.cmds = Append(cmdq.cmds, c) /\ base' = base
      BY <2>2, PutEffect
    <3>2. pending' = [g \in base .. base + len |->
                        Append(cmdq.cmds, c)[g - base + 1]]
      <4>1. pending' = [g \in base' .. base' + Len(cmdq'.cmds) - 1 |->
                          cmdq'.cmds[g - base' + 1]]
        BY DEF pending
      <4>2. Len(Append(cmdq.cmds, c)) = len + 1
        BY <1>1
      <4>3. base + (len + 1) - 1 = base + len
        BY <1>1
      <4>4. QED
        BY <3>1, <4>1, <4>2, <4>3
    <3>3. base .. base + len = DOMAIN pending \cup {f}
      BY <1>1, <2>2
    <3>4. \A g \in base .. base + len :
             Append(cmdq.cmds, c)[g - base + 1]
               = IF g \in DOMAIN pending THEN pending[g] ELSE c
      BY <1>1, <2>2 DEF pending
    <3>5. QED
      BY <2>2, <3>2, <3>3, <3>4
  <2>3. CASE cmdq.cmds # << >> /\ f # base + len
    BY <2>3, PutEffect DEF pending
  <2>4. QED
    BY <2>1, <2>2, <2>3
<1>5. QED
  BY <1>2, <1>3, <1>4 DEF Map!Put, pending

(* A take removes from the map what Take removes, and repeats the newest   *)
(* command removed.                                                        *)
LEMMA TakeImplements ==
  ASSUME IInv, NEW f \in 0 .. MaxFrame, TakeCommand(f)
  PROVE  Map!Take(f)
<1> DEFINE len == Len(cmdq.cmds)
           n == Taken(cmdq, f % M)
           gone == {g \in DOMAIN pending : g <= f}
<1>1. /\ f \in Nat /\ base \in Nat /\ len \in Nat /\ cmdq.cmds \in Seq(Cmd)
      /\ DOMAIN pending = base .. base + len - 1
  BY MaxFrameAssumption DEF IInv, TypeOK, CmdQueues, pending
<1>2. /\ n \in 0 .. len /\ base' = base + n
      /\ cmdq'.cmds = SubSeq(cmdq.cmds, n + 1, len)
      /\ cmdq'.last = IF n = 0 THEN cmdq.last ELSE cmdq.cmds[n]
      /\ len > 0 => n = IF f < base THEN 0
                        ELSE IF f < base + len THEN f - base + 1 ELSE len
  BY TakeEffect
<1> HIDE DEF n
<1>3. gone = base .. base + n - 1
  BY <1>1, <1>2
<1>4. pending' = [g \in DOMAIN pending \ gone |-> pending[g]]
  <2>1. DOMAIN pending \ gone = base + n .. base + len - 1
    BY <1>1, <1>2, <1>3
  <2>2. /\ SubSeq(cmdq.cmds, n + 1, len) \in Seq(Cmd)
        /\ Len(SubSeq(cmdq.cmds, n + 1, len)) = len - n
        /\ \A i \in 1 .. len - n :
              SubSeq(cmdq.cmds, n + 1, len)[i] = cmdq.cmds[n + i]
    BY <1>1, <1>2
  <2>3. pending' = [g \in base + n .. base + len - 1 |->
                      SubSeq(cmdq.cmds, n + 1, len)[g - (base + n) + 1]]
    <3>1. pending' = [g \in base' .. base' + Len(cmdq'.cmds) - 1 |->
                        cmdq'.cmds[g - base' + 1]]
      BY DEF pending
    <3>2. (base + n) + (len - n) - 1 = base + len - 1
      <4> HIDE DEF len
      <4>1. n \in Int /\ len \in Int /\ base \in Int
        BY <1>1, <1>2
      <4>2. QED
        BY <4>1
    <3>3. QED
      BY <1>2, <2>2, <3>1, <3>2
  <2>4. \A g \in base + n .. base + len - 1 :
           SubSeq(cmdq.cmds, n + 1, len)[g - (base + n) + 1] = pending[g]
    BY <1>1, <1>2, <2>2 DEF pending
  <2>5. QED
    BY <2>1, <2>3, <2>4
<1>5. IF gone = {}
      THEN cmdq'.last = cmdq.last
      ELSE \E g \in gone : (\A h \in gone : h <= g) /\ cmdq'.last = pending[g]
  <2>1. CASE n = 0
    BY <1>1, <1>2, <1>3, <2>1
  <2>2. CASE n # 0
    <3>1. base + n - 1 \in gone /\ \A h \in gone : h <= base + n - 1
      BY <1>1, <1>2, <1>3, <2>2
    <3>2. pending[base + n - 1] = cmdq.cmds[n]
      BY <1>1, <1>2, <2>2 DEF pending
    <3>3. QED
      BY <1>2, <2>2, <3>1, <3>2
  <2>3. QED
    BY <2>1, <2>2
<1>6. QED
  BY <1>4, <1>5 DEF Map!Take, pending

(* A command that is lost changes nothing that the map has.                *)
LEMMA LossImplements ==
  ASSUME IInv, NEW f \in 0 .. MaxFrame, LoseCommand(f)
  PROVE  pending' = pending /\ cmdq'.last = cmdq.last
<1>1. /\ f \in Nat /\ base \in Nat /\ cmdq.cmds \in Seq(Cmd)
      /\ cmdq = [first |-> cmdq.first, cmds |-> cmdq.cmds, last |-> cmdq.last]
  BY MaxFrameAssumption DEF IInv, TypeOK, CmdQueues
<1>2. CASE cmdq.cmds = << >>
  <2>1. cmdq'.cmds = << >> /\ cmdq'.last = cmdq.last /\ base' = f
    BY <1>1, <1>2 DEF LoseCommand, PutFailed
  <2>2. base .. base + 0 - 1 = {} /\ f .. f + 0 - 1 = {} /\ Len(<< >>) = 0
    BY <1>1
  <2>3. pending = [g \in {} |-> << >>[g - base + 1]]
    BY <1>2, <2>2 DEF pending
  <2>4. pending' = [g \in {} |-> << >>[g - f + 1]]
    <3>1. pending' = [g \in base' .. base' + Len(cmdq'.cmds) - 1 |->
                        cmdq'.cmds[g - base' + 1]]
      BY DEF pending
    <3>2. QED
      BY <2>1, <2>2, <3>1
  <2>5. QED
    BY <2>1, <2>3, <2>4
<1>3. CASE cmdq.cmds # << >>
  BY <1>3 DEF LoseCommand, PutFailed, pending
<1>4. QED
  BY <1>2, <1>3

(* The queue of cmd_queue.c implements the map of commands by frame        *)
(* promised in cmd_queue.h.                                                *)
THEOREM Refinement == Spec => ImplementsMap
<1>1. Init => Map!Init
  BY DEF Init, Map!Init, EmptyQueue
<1>2. IInv /\ [Next]_vars => [Map!Next]_(Map!vars)
  <2> SUFFICES ASSUME IInv, [Next]_vars
               PROVE  [Map!Next]_(Map!vars)
    OBVIOUS
  <2>1. ASSUME NEW f \in 0 .. MaxFrame, NEW c \in Cmd, PutCommand(c, f)
        PROVE  Map!Next
    BY <2>1, PutImplements DEF Map!Next
  <2>2. ASSUME NEW f \in 0 .. MaxFrame, TakeCommand(f)
        PROVE  Map!Next
    BY <2>2, TakeImplements DEF Map!Next
  <2>3. ASSUME NEW f \in 0 .. MaxFrame, LoseCommand(f)
        PROVE  UNCHANGED Map!vars
    BY <2>3, LossImplements DEF pending, Map!vars
  <2>4. CASE UNCHANGED vars
    BY <2>4 DEF vars, Map!vars
  <2>5. QED
    BY <2>1, <2>2, <2>3, <2>4 DEF Next
<1>3. QED
  BY <1>1, <1>2, Invariance, PTL DEF Spec, ImplementsMap, Map!Spec

=============================================================================
