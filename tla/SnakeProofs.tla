----------------------------- MODULE SnakeProofs -----------------------------
(***************************************************************************)
(* The three ring buffers of a snake describe the same segments through    *)
(* steps, removals and rollbacks, and joined they are the predicted path:  *)
(* for any step function, any fit and any number of segments.              *)
(*                                                                         *)
(* This is shown for a server that does not run ahead of the client,       *)
(* MayPass = FALSE.  Without that it is not so: when the server's word is  *)
(* for the frame the client has not queued a command for yet, the loop of  *)
(* snake_ack_frame() steps the confirmed head beyond the end of the body.  *)
(***************************************************************************)
EXTENDS Snake, SequenceTheorems, WellFoundedInduction, TLAPS

(* What is proved of the path without segments.                            *)
P == INSTANCE PredictedPathProofs
       WITH path <- Joined(body.trails), cmds <- cmdq.cmds, ack <- headAck

LEMMA PathAssumption == P!StepAssumption
  BY SnakeAssumption DEF P!StepAssumption

(* Induction, stated for a set of numbers instead of a predicate.          *)
LEMMA SetInduction ==
  ASSUME NEW S, 0 \in S, \A n \in Nat : n \in S => n + 1 \in S
  PROVE  \A n \in Nat : n \in S
  BY P!SetInduction, PathAssumption

-----------------------------------------------------------------------------
(* Trails, joined.                                                         *)

Trail == Seq(Heads) \ {<< >>}

Trails == Seq(Trail)

(* p[i] is what the first i trails are, joined.                            *)
Joins(ts, p, n) ==
  /\ p \in [1 .. n -> Seq(Heads)]
  /\ p[1] = ts[1]
  /\ \A i \in 1 .. n - 1 : p[i + 1] = p[i] \o Tail(ts[i + 1])

LEMMA JoinsExists ==
  ASSUME NEW ts \in Trails
  PROVE  \A n \in Nat : n <= Len(ts) => \E p : n = 0 \/ Joins(ts, p, n)
<1> DEFINE S == {n \in Nat : n <= Len(ts) => \E p : n = 0 \/ Joins(ts, p, n)}
<1>1. 0 \in S
  OBVIOUS
<1>2. ASSUME NEW n \in Nat, n \in S
      PROVE  n + 1 \in S
  <2>1. SUFFICES ASSUME n + 1 <= Len(ts)
                 PROVE  \E p : Joins(ts, p, n + 1)
    OBVIOUS
  <2>2. Len(ts) \in Nat /\ n + 1 \in 1 .. Len(ts)
    BY <2>1 DEF Trails, Trail
  <2>3. ts[n + 1] \in Seq(Heads) /\ ts[n + 1] # << >>
    BY <2>2 DEF Trails, Trail
  <2>4. CASE n = 0
    <3>1. Joins(ts, [i \in 1 .. 1 |-> ts[1]], 1)
      BY <2>3, <2>4 DEF Joins
    <3>2. QED
      BY <2>4, <3>1
  <2>5. CASE n # 0
    <3>1. PICK p : Joins(ts, p, n)
      BY <1>2, <2>1, <2>2, <2>5
    <3>2. PICK last : last = p[n] \o Tail(ts[n + 1])
      OBVIOUS
    <3>3. p[n] \in Seq(Heads) /\ Tail(ts[n + 1]) \in Seq(Heads)
      BY <2>3, <2>5, <3>1 DEF Joins
    <3>4. last \in Seq(Heads)
      BY <3>2, <3>3
    <3>5. PICK q : q = [i \in 1 .. n + 1 |-> IF i <= n THEN p[i] ELSE last]
      OBVIOUS
    <3>6. q \in [1 .. n + 1 -> Seq(Heads)] /\ q[1] = ts[1]
      BY <2>5, <3>1, <3>4, <3>5 DEF Joins
    <3>7. ASSUME NEW i \in 1 .. n
          PROVE  q[i + 1] = q[i] \o Tail(ts[i + 1])
      <4>0. i \in 1 .. n + 1 /\ i + 1 \in 1 .. n + 1 /\ i <= n /\ q[i] = p[i]
        BY <3>5
      <4>1. CASE i = n
        <5>1. ~ (i + 1 <= n)
          BY <4>1
        <5>2. q[i + 1] = last
          BY <3>5, <4>0, <5>1
        <5>3. QED
          BY <3>2, <4>0, <4>1, <5>2
      <4>2. CASE i # n
        <5>1. i \in 1 .. n - 1 /\ i + 1 <= n
          BY <4>2
        <5>2. q[i + 1] = p[i + 1]
          BY <3>5, <4>0, <5>1
        <5>3. p[i + 1] = p[i] \o Tail(ts[i + 1])
          BY <3>1, <5>1 DEF Joins
        <5>4. QED
          BY <4>0, <5>2, <5>3
      <4>3. QED
        BY <4>1, <4>2
    <3>8. Joins(ts, q, n + 1)
      <4>1. 1 .. (n + 1) - 1 = 1 .. n
        OBVIOUS
      <4>2. QED
        BY <3>6, <3>7, <4>1 DEF Joins
    <3>9. QED
      BY <3>8
  <2>6. QED
    BY <2>4, <2>5
<1> HIDE DEF S
<1>3. \A n \in Nat : n \in S
  BY <1>1, <1>2, SetInduction
<1>4. QED
  BY <1>3 DEF S

BeginAlike(ts, us, n) == \A i \in 1 .. n : ts[i] = us[i]

(* The first n trails alone make p[n].                                     *)
LEMMA JoinsUnique ==
  ASSUME NEW ts, NEW us, NEW p, NEW q, NEW n \in Nat, NEW m \in Nat,
         Joins(ts, p, n), Joins(us, q, m), n <= m, n >= 1,
         BeginAlike(ts, us, n)
  PROVE  p[n] = q[n]
<1> DEFINE S == {i \in Nat : i + 1 <= n => p[i + 1] = q[i + 1]}
<1>1. 0 \in S
  BY DEF Joins, BeginAlike
<1>2. ASSUME NEW i \in Nat, i \in S
      PROVE  i + 1 \in S
  <2>1. SUFFICES ASSUME i + 2 <= n
                 PROVE  p[i + 2] = q[i + 2]
    OBVIOUS
  <2>2. PICK k : k = i + 1
    OBVIOUS
  <2>3. k \in 1 .. n - 1 /\ k \in 1 .. m - 1 /\ k + 1 \in 1 .. n /\ k + 1 = i + 2
    BY <2>1, <2>2
  <2>4. p[k] = q[k]
    BY <1>2, <2>1, <2>2
  <2>5. p[k + 1] = p[k] \o Tail(ts[k + 1]) /\ q[k + 1] = q[k] \o Tail(us[k + 1])
    BY <2>3 DEF Joins
  <2>7. ts[k + 1] = us[k + 1]
    BY <2>3 DEF BeginAlike
  <2>6. QED
    BY <2>3, <2>4, <2>5, <2>7
<1> HIDE DEF S
<1>3. \A i \in Nat : i \in S
  BY <1>1, <1>2, SetInduction
<1>4. n - 1 \in S
  BY <1>3
<1>5. QED
  BY <1>4 DEF S

LEMMA JoinedIs ==
  ASSUME NEW ts \in Trails, ts # << >>
  PROVE  \E p : Joins(ts, p, Len(ts)) /\ Joined(ts) = p[Len(ts)]
<1> DEFINE Unfold(p) == [i \in 1 .. Len(ts) |->
                           IF i = 1 THEN ts[1] ELSE p[i - 1] \o Tail(ts[i])]
<1>0. PICK r : r = CHOOSE p : p = Unfold(p)
  OBVIOUS
<1>1. Joined(ts) = r[Len(ts)]
  BY <1>0 DEF Joined
<1>2. Len(ts) \in Nat /\ Len(ts) >= 1
  BY DEF Trails, Trail
<1>3. PICK p : Joins(ts, p, Len(ts))
  <2>1. Len(ts) # 0 /\ Len(ts) <= Len(ts)
    BY <1>2
  <2>2. QED
    BY <1>2, <2>1, JoinsExists
<1>4. p = Unfold(p)
  <2>1. ASSUME NEW i \in 1 .. Len(ts)
        PROVE  p[i] = IF i = 1 THEN ts[1] ELSE p[i - 1] \o Tail(ts[i])
    <3>1. CASE i = 1
      BY <1>3, <3>1 DEF Joins
    <3>2. CASE i # 1
      <4>1. PICK k : k = i - 1
        OBVIOUS
      <4>2. k \in 1 .. Len(ts) - 1 /\ k + 1 = i
        BY <1>2, <3>2, <4>1
      <4>3. p[k + 1] = p[k] \o Tail(ts[k + 1])
        BY <1>3, <4>2 DEF Joins
      <4>4. QED
        BY <3>2, <4>1, <4>2, <4>3
    <3>3. QED
      BY <3>1, <3>2
  <2>2. p = [i \in 1 .. Len(ts) |-> p[i]]
    BY <1>3 DEF Joins
  <2>3. QED
    BY <2>1, <2>2
<1> HIDE DEF Unfold
<1>5. r = Unfold(r)
  BY <1>0, <1>4
<1>6. r[1] = ts[1]
  BY <1>2, <1>5 DEF Unfold
<1>7. ASSUME NEW i \in 1 .. Len(ts) - 1
      PROVE  r[i + 1] = r[i] \o Tail(ts[i + 1])
  <2>1. i + 1 \in 1 .. Len(ts) /\ i + 1 # 1 /\ (i + 1) - 1 = i
    BY <1>2
  <2>2. QED
    BY <1>5, <2>1 DEF Unfold
<1>8. \A i \in 1 .. Len(ts) : r[i] \in Seq(Heads)
  <2> DEFINE S == {i \in Nat : i + 1 <= Len(ts) => r[i + 1] = p[i + 1]}
  <2>1. 0 \in S
    BY <1>3, <1>6 DEF Joins
  <2>2. ASSUME NEW i \in Nat, i \in S
        PROVE  i + 1 \in S
    <3>1. SUFFICES ASSUME i + 2 <= Len(ts)
                   PROVE  r[i + 2] = p[i + 2]
      OBVIOUS
    <3>2. PICK k : k = i + 1
      OBVIOUS
    <3>3. k \in 1 .. Len(ts) - 1 /\ k + 1 = i + 2
      BY <1>2, <3>1, <3>2
    <3>4. r[k + 1] = r[k] \o Tail(ts[k + 1]) /\ p[k + 1] = p[k] \o Tail(ts[k + 1])
      BY <1>3, <1>7, <3>3 DEF Joins
    <3>5. r[k] = p[k]
      BY <2>2, <3>1, <3>2
    <3>6. QED
      BY <3>3, <3>4, <3>5
  <2> HIDE DEF S
  <2>3. \A i \in Nat : i \in S
    BY <2>1, <2>2, SetInduction
  <2>4. ASSUME NEW i \in 1 .. Len(ts)
        PROVE  r[i] \in Seq(Heads)
    <3>1. PICK k : k = i - 1
      OBVIOUS
    <3>2. k \in Nat /\ k + 1 = i /\ k + 1 <= Len(ts)
      BY <1>2, <3>1
    <3>3. r[k + 1] = p[k + 1]
      BY <2>3, <3>2 DEF S
    <3>4. QED
      BY <1>3, <3>2, <3>3 DEF Joins
  <2>5. QED
    BY <2>4
<1>9. Joins(ts, r, Len(ts))
  <2>1. r = [i \in 1 .. Len(ts) |-> r[i]]
    BY <1>5 DEF Unfold
  <2>2. r \in [1 .. Len(ts) -> Seq(Heads)]
    BY <1>8, <2>1
  <2>3. QED
    BY <1>6, <1>7, <2>2 DEF Joins
<1>10. QED
  BY <1>1, <1>9

LEMMA JoinedType ==
  ASSUME NEW ts \in Trails, ts # << >>
  PROVE  Joined(ts) \in Seq(Heads)
<1>1. PICK p : Joins(ts, p, Len(ts)) /\ Joined(ts) = p[Len(ts)]
  BY JoinedIs
<1>2. Len(ts) \in 1 .. Len(ts)
  BY DEF Trails
<1>3. QED
  BY <1>1, <1>2 DEF Joins

(* One trail is the whole path.                                            *)
LEMMA JoinedOne ==
  ASSUME NEW t \in Trail
  PROVE  Joined(Append(<< >>, t)) = t
<1>1. PICK ts : ts = Append(<< >>, t)
  OBVIOUS
<1>2. ts \in Trails /\ Len(ts) = 1 /\ ts[1] = t /\ ts # << >>
  BY <1>1, EmptySeq, AppendProperties DEF Trails
<1>3. PICK p : Joins(ts, p, Len(ts)) /\ Joined(ts) = p[Len(ts)]
  BY <1>2, JoinedIs
<1>4. QED
  BY <1>1, <1>2, <1>3 DEF Joins

(* Another adds all its points but the first.                              *)
LEMMA JoinedAppend ==
  ASSUME NEW ts \in Trails, ts # << >>, NEW t \in Trail
  PROVE  Joined(Append(ts, t)) = Joined(ts) \o Tail(t)
<1>1. PICK us : us = Append(ts, t)
  OBVIOUS
<1>2. PICK n \in Nat : n = Len(ts)
  BY DEF Trails
<1>3. /\ us \in Trails /\ us # << >> /\ Len(us) = n + 1
      /\ us[n + 1] = t /\ BeginAlike(ts, us, n)
  BY <1>1, <1>2, AppendProperties DEF Trails, BeginAlike
<1>4. n >= 1 /\ n + 1 \in Nat /\ n <= n + 1
  BY <1>2, EmptySeq DEF Trails
<1>5. PICK p : Joins(ts, p, n) /\ Joined(ts) = p[n]
  BY <1>2, JoinedIs
<1>6. PICK q : Joins(us, q, n + 1) /\ Joined(us) = q[n + 1]
  BY <1>3, JoinedIs
<1>7. p[n] = q[n]
  BY <1>3, <1>4, <1>5, <1>6, JoinsUnique
<1>8. q[n + 1] = q[n] \o Tail(us[n + 1])
  <2>1. n \in 1 .. (n + 1) - 1
    BY <1>4
  <2>2. QED
    BY <1>6, <2>1 DEF Joins
<1>9. QED
  BY <1>1, <1>3, <1>5, <1>6, <1>7, <1>8

(* A point added to the newest trail is added to the path.                 *)
LEMMA PathGrows ==
  ASSUME NEW s \in Trails, NEW t \in Trail, NEW h \in Heads
  PROVE  Joined(Append(s, Append(t, h))) = Append(Joined(Append(s, t)), h)
<1>1. t \in Seq(Heads) /\ t # << >> /\ Append(t, h) \in Trail
  BY AppendProperties DEF Trail
<1>2. CASE s = << >>
  BY <1>1, <1>2, JoinedOne
<1>3. CASE s # << >>
  <2>1. Tail(Append(t, h)) = Append(Tail(t), h)
    BY <1>1, HeadTailAppend
  <2>2. Tail(t) \in Seq(Heads) /\ Joined(s) \in Seq(Heads)
    BY <1>1, <1>3, HeadTailProperties, JoinedType
  <2>3. << h >> \in Seq(Heads)
    OBVIOUS
  <2>4. Append(Tail(t), h) = Tail(t) \o << h >>
    BY <2>2, AppendIsConcat
  <2>5. Joined(s) \o (Tail(t) \o << h >>) = (Joined(s) \o Tail(t)) \o << h >>
    BY <2>2, <2>3, ConcatAssociative
  <2>6. (Joined(s) \o Tail(t)) \o << h >> = Append(Joined(s) \o Tail(t), h)
    BY <2>2, ConcatProperties, AppendIsConcat
  <2>7. /\ Joined(Append(s, Append(t, h))) = Joined(s) \o Append(Tail(t), h)
        /\ Joined(Append(s, t)) = Joined(s) \o Tail(t)
    BY <1>1, <1>3, <2>1, JoinedAppend
  <2>8. QED
    BY <2>4, <2>5, <2>6, <2>7
<1>4. QED
  BY <1>2, <1>3

(* A new segment begins at a point the path already has.                   *)
LEMMA PathShares ==
  ASSUME NEW ts \in Trails, ts # << >>, NEW h \in Heads
  PROVE  Joined(Append(ts, << h >>)) = Joined(ts)
<1>1. << h >> \in Trail /\ Tail(<< h >>) = << >>
  BY DEF Trail
<1>2. Joined(ts) \in Seq(Heads)
  BY JoinedType
<1>3. Joined(ts) \o << >> = Joined(ts)
  BY <1>2, ConcatEmptySeq
<1>4. QED
  BY <1>1, <1>3, JoinedAppend

-----------------------------------------------------------------------------
(* Boxes.                                                                  *)

Covers(box, trail) == \A j \in 1 .. Len(trail) : InBox(box, trail[j])

(* The first n points of a trail have a lowest and a highest place.        *)
Bounded(trail, n) == \E i \in 1 .. n, k \in 1 .. n : \A j \in 1 .. n :
                       /\ Place[trail[i]] <= Place[trail[j]]
                       /\ Place[trail[j]] <= Place[trail[k]]

LEMMA TrailIsBounded ==
  ASSUME NEW t \in Trail
  PROVE  Bounded(t, Len(t))
<1> DEFINE S == {n \in Nat : n + 1 <= Len(t) => Bounded(t, n + 1)}
<1>0. \A i \in 1 .. Len(t) : Place[t[i]] \in Int
  BY SnakeAssumption DEF Trail
<1>1. 0 \in S
  <2>1. SUFFICES ASSUME 1 <= Len(t)
                 PROVE  Bounded(t, 1)
    OBVIOUS
  <2>2. Place[t[1]] \in Int
    BY <1>0, <2>1 DEF Trail
  <2>3. QED
    BY <2>2 DEF Bounded
<1>2. ASSUME NEW n \in Nat, n \in S
      PROVE  n + 1 \in S
  <2>1. SUFFICES ASSUME n + 2 <= Len(t)
                 PROVE  Bounded(t, n + 2)
    OBVIOUS
  <2>2. Bounded(t, n + 1)
    BY <1>2, <2>1 DEF Trail
  <2>3. PICK i \in 1 .. n + 1, k \in 1 .. n + 1 :
               \A j \in 1 .. n + 1 : /\ Place[t[i]] <= Place[t[j]]
                                     /\ Place[t[j]] <= Place[t[k]]
    BY <2>2 DEF Bounded
  <2>4. \A j \in 1 .. n + 2 : Place[t[j]] \in Int
    BY <1>0, <2>1 DEF Trail
  <2>5. i \in 1 .. n + 2 /\ k \in 1 .. n + 2 /\ n + 2 \in 1 .. n + 2
    OBVIOUS
  <2>6. PICK low \in 1 .. n + 2 : /\ Place[t[low]] <= Place[t[i]]
                                  /\ Place[t[low]] <= Place[t[n + 2]]
    <3>1. CASE Place[t[i]] <= Place[t[n + 2]]
      BY <2>4, <2>5, <3>1
    <3>2. CASE ~ (Place[t[i]] <= Place[t[n + 2]])
      BY <2>4, <2>5, <3>2
    <3>3. QED
      BY <3>1, <3>2
  <2>7. PICK high \in 1 .. n + 2 : /\ Place[t[k]] <= Place[t[high]]
                                   /\ Place[t[n + 2]] <= Place[t[high]]
    <3>1. CASE Place[t[n + 2]] <= Place[t[k]]
      BY <2>4, <2>5, <3>1
    <3>2. CASE ~ (Place[t[n + 2]] <= Place[t[k]])
      BY <2>4, <2>5, <3>2
    <3>3. QED
      BY <3>1, <3>2
  <2>8. ASSUME NEW j \in 1 .. n + 2
        PROVE  Place[t[low]] <= Place[t[j]] /\ Place[t[j]] <= Place[t[high]]
    <3>1. CASE j = n + 2
      BY <2>6, <2>7, <3>1
    <3>2. CASE j \in 1 .. n + 1
      <4>1. Place[t[i]] <= Place[t[j]] /\ Place[t[j]] <= Place[t[k]]
        BY <2>3, <3>2
      <4>2. QED
        BY <2>4, <2>5, <2>6, <2>7, <4>1
    <3>3. QED
      BY <3>1, <3>2
  <2>9. QED
    BY <2>8 DEF Bounded
<1> HIDE DEF S
<1>3. \A n \in Nat : n \in S
  BY <1>1, <1>2, SetInduction
<1>4. Len(t) - 1 \in Nat
  BY DEF Trail
<1>5. QED
  BY <1>3, <1>4 DEF S, Trail

(* The box of a trail holds it.                                            *)
LEMMA BoxHolds ==
  ASSUME NEW t \in Trail
  PROVE  Box(t) \in Int \X Int /\ Covers(Box(t), t)
<1> DEFINE places == {Place[t[i]] : i \in 1 .. Len(t)}
<1>1. PICK i \in 1 .. Len(t), k \in 1 .. Len(t) :
             \A j \in 1 .. Len(t) : /\ Place[t[i]] <= Place[t[j]]
                                    /\ Place[t[j]] <= Place[t[k]]
  BY TrailIsBounded DEF Bounded
<1>2. places \subseteq Int
  BY SnakeAssumption DEF Trail
<1>3. /\ \E x \in places : \A y \in places : x <= y
      /\ \E x \in places : \A y \in places : x >= y
  <2>1. Place[t[i]] \in places /\ Place[t[k]] \in places
    OBVIOUS
  <2>2. \A y \in places : Place[t[i]] <= y /\ y <= Place[t[k]]
    BY <1>1
  <2> HIDE DEF places
  <2>3. \A y \in places : Place[t[k]] >= y
    BY <1>2, <2>1, <2>2
  <2>4. QED
    BY <2>1, <2>2, <2>3
<1>4. Box(t) = << Min(places), Max(places) >>
  BY DEF Box
<1>5. \A j \in 1 .. Len(t) : Place[t[j]] \in places
  OBVIOUS
<1> HIDE DEF places
<1>6. Min(places) \in places /\ \A y \in places : Min(places) <= y
  BY <1>3 DEF Min
<1>7. Max(places) \in places /\ \A y \in places : Max(places) >= y
  BY <1>3 DEF Max
<1>8. Box(t) \in Int \X Int /\ Box(t)[1] = Min(places) /\ Box(t)[2] = Max(places)
  <2>1. Min(places) \in Int /\ Max(places) \in Int
    BY <1>2, <1>6, <1>7
  <2>2. PICK low \in Int, high \in Int : low = Min(places) /\ high = Max(places)
    BY <2>1
  <2>3. QED
    BY <1>4, <2>2
<1>9. ASSUME NEW j \in 1 .. Len(t)
      PROVE  InBox(Box(t), t[j])
  BY <1>2, <1>5, <1>6, <1>7, <1>8 DEF InBox
<1>10. QED
  BY <1>8, <1>9 DEF Covers

-----------------------------------------------------------------------------
(* The three ring buffers.                                                 *)

Snake3(ts, hs, bs) == [trails |-> ts, handles |-> hs, boxes |-> bs]

(* The newest element replaced.                                            *)
NewLast(q, e) == [q EXCEPT ![Len(q)] = e]

(* The newest trail replaced.                                              *)
LEMMA NewestReplaced ==
  ASSUME NEW s \in Trails, NEW t \in Trail, NEW u \in Trail,
         NEW ts, ts = Append(s, t)
  PROVE  NewLast(ts, u) = Append(s, u)
<1>1. PICK n \in Nat : n = Len(s)
  BY DEF Trails
<1>2. ts \in Trails /\ Len(ts) = n + 1 /\ \A i \in 1 .. n : ts[i] = s[i]
  BY <1>1, AppendProperties DEF Trails
<1>3. /\ Append(s, u) \in Trails /\ Len(Append(s, u)) = n + 1
      /\ \A i \in 1 .. n : Append(s, u)[i] = s[i]
      /\ Append(s, u)[n + 1] = u
  BY <1>1, AppendProperties DEF Trails
<1>4. PICK r : r = [ts EXCEPT ![n + 1] = u]
  OBVIOUS
<1>5. r \in Trails /\ Len(r) = n + 1
  BY <1>2, <1>4, ExceptSeq DEF Trails
<1>6. ASSUME NEW i \in 1 .. n + 1
      PROVE  r[i] = Append(s, u)[i]
  <2>1. CASE i = n + 1
    BY <1>2, <1>3, <1>4, <2>1, LenProperties DEF Trails
  <2>2. CASE i \in 1 .. n
    BY <1>2, <1>3, <1>4, <2>2, LenProperties DEF Trails
  <2>3. QED
    BY <1>1, <2>1, <2>2
<1>7. r = Append(s, u)
  BY <1>3, <1>5, <1>6, SeqEqual DEF Trails
<1>8. QED
  BY <1>2, <1>4, <1>7 DEF NewLast

LEMMA UpdateCurveIs ==
  ASSUME NEW ts, NEW hs, NEW bs, NEW h
  PROVE  UpdateCurve(Snake3(ts, hs, bs), h) =
           Snake3(NewLast(ts, Append(ts[Len(ts)], h)), NewLast(hs, h), bs)
<1>1. PICK b : b = Snake3(ts, hs, bs)
  OBVIOUS
<1>2. b.trails = ts /\ b.handles = hs
  BY <1>1 DEF Snake3
<1>3. PICK t, g : /\ t = [b.trails EXCEPT ![Len(b.trails)]
                                       = Append(b.trails[Len(b.trails)], h)]
                  /\ g = [b.handles EXCEPT ![Len(b.handles)] = h]
  OBVIOUS
<1>4. UpdateCurve(b, h) = [b EXCEPT !.trails = t, !.handles = g]
  BY <1>3, Zenon DEF UpdateCurve
<1>5. [b EXCEPT !.trails = t, !.handles = g] = Snake3(t, g, bs)
  <2>1. [b EXCEPT !.trails = t] = Snake3(t, hs, bs)
    BY <1>1, SMT DEF Snake3
  <2>2. [Snake3(t, hs, bs) EXCEPT !.handles = g] = Snake3(t, g, bs)
    BY SMT DEF Snake3
  <2>3. [b EXCEPT !.trails = t, !.handles = g]
          = [[b EXCEPT !.trails = t] EXCEPT !.handles = g]
    BY Zenon
  <2>4. QED
    BY <2>1, <2>2, <2>3
<1>6. QED
  BY <1>1, <1>2, <1>3, <1>4, <1>5 DEF NewLast

LEMMA UpdateHeadBoxIs ==
  ASSUME NEW ts, NEW hs, NEW bs
  PROVE  UpdateHeadBox(Snake3(ts, hs, bs)) =
           Snake3(ts, hs, NewLast(bs, Box(Last(ts))))
  BY SMT DEF UpdateHeadBox, Snake3, NewLast

LEMMA AddSegmentIs ==
  ASSUME NEW ts, NEW hs, NEW bs, NEW h
  PROVE  AddSegment(Snake3(ts, hs, bs), h) =
           Snake3(Append(ts, << h >>), Append(hs, h), Append(bs, Box(<< h >>)))
  BY DEF AddSegment, Snake3

(* What a step of the head does to them.                                   *)
LEMMA DrawIs ==
  ASSUME NEW s \in Trails, NEW t \in Trail, NEW hs, NEW bs, NEW h \in Heads,
         NEW bad
  PROVE  LET g  == Append(s, Append(t, h))
             gh == NewLast(hs, h)
             gb == NewLast(bs, Box(Append(t, h)))
             d  == Draw(Snake3(Append(s, t), hs, bs), h, bad)
         IN  \/ d = Snake3(g, gh, gb)
             \/ /\ Len(Append(t, h)) >= MinFit
                /\ d = Snake3(Append(g, << h >>), Append(gh, h),
                              Append(gb, Box(<< h >>)))
<1> DEFINE u == Append(t, h)
           g == Append(s, u)
           gh == NewLast(hs, h)
           gb == NewLast(bs, Box(u))
<1>0. PICK ts : ts = Append(s, t)
  OBVIOUS
<1>1. u \in Trail
  BY AppendProperties DEF Trail
<1>2. ts[Len(ts)] = t
  BY <1>0, AppendProperties DEF Trails
<1>3. NewLast(ts, u) = g
  BY <1>0, <1>1, NewestReplaced
<1>4. Last(g) = u
  BY <1>1, AppendProperties DEF Trails, Last
<1>5. UpdateCurve(Snake3(ts, hs, bs), h) = Snake3(g, gh, bs)
  <2>1. UpdateCurve(Snake3(ts, hs, bs), h) =
          Snake3(NewLast(ts, Append(ts[Len(ts)], h)), gh, bs)
    BY UpdateCurveIs
  <2>2. QED
    BY <1>2, <1>3, <2>1
<1>6. UpdateHeadBox(Snake3(g, gh, bs)) = Snake3(g, gh, gb)
  BY <1>4, UpdateHeadBoxIs
<1>7. AddSegment(Snake3(g, gh, gb), h) =
        Snake3(Append(g, << h >>), Append(gh, h), Append(gb, Box(<< h >>)))
  BY AddSegmentIs
<1>8. Snake3(g, gh, gb).trails = g
  BY DEF Snake3
<1>9. \/ Draw(Snake3(ts, hs, bs), h, bad) = Snake3(g, gh, gb)
      \/ /\ Len(u) >= MinFit
         /\ Draw(Snake3(ts, hs, bs), h, bad) = AddSegment(Snake3(g, gh, gb), h)
  <2> HIDE DEF u, g, gh, gb
  <2>1. QED
    BY <1>4, <1>5, <1>6, <1>8 DEF Draw
<1>10. QED
  BY <1>0, <1>7, <1>9

-----------------------------------------------------------------------------
(* What the three ring buffers must agree on while points are drawn and    *)
(* taken back: neighbouring trails share a point, a segment but the newest *)
(* has two points or more, handles are where trails begin, and boxes hold  *)
(* their trails.  The newest handle is left out: only drawing moves it.    *)

Chained(ts) == \A i \in 1 .. Len(ts) - 1 : /\ Len(ts[i]) >= 2
                                           /\ ts[i][Len(ts[i])] = ts[i + 1][1]

Handled(ts, hs) == /\ Len(hs) = Len(ts) + 1
                   /\ \A i \in 1 .. Len(ts) : hs[i] = ts[i][1]

Boxed(ts, bs) == /\ Len(bs) = Len(ts)
                 /\ \A i \in 1 .. Len(ts) : Covers(bs[i], ts[i])

Layout(ts, hs, bs) ==
  /\ ts \in Trails /\ ts # << >>
  /\ hs \in Seq(Heads)
  /\ bs \in Seq(Int \X Int)
  /\ Chained(ts)
  /\ Handled(ts, hs)
  /\ Boxed(ts, bs)

(* The newest handle is the newest point.                                  *)
Fitted(ts, hs) == Last(hs) = Last(Last(ts))

(* The newest segment with another point.                                  *)
LEMMA LayoutGrows ==
  ASSUME NEW s \in Trails, NEW t \in Trail, NEW ts, ts = Append(s, t),
         NEW hs, NEW bs, Layout(ts, hs, bs), NEW h \in Heads,
         NEW u, u = Append(t, h)
  PROVE  /\ Layout(Append(s, u), NewLast(hs, h), NewLast(bs, Box(u)))
         /\ Fitted(Append(s, u), NewLast(hs, h))
<1>1. PICK n \in Nat : n = Len(s)
  BY DEF Trails
<1>2. /\ Len(ts) = n + 1 /\ ts[n + 1] = t
      /\ \A i \in 1 .. n : ts[i] = s[i]
  BY <1>1, AppendProperties DEF Trails
<1>3. /\ u \in Trail /\ Len(u) = Len(t) + 1 /\ u[Len(u)] = h /\ u[1] = t[1]
      /\ Len(t) \in Nat /\ Len(t) >= 1
  <2>1. t \in Seq(Heads) /\ Len(t) \in Nat /\ Len(t) >= 1
    BY DEF Trail
  <2>2. /\ u \in Trail /\ Len(u) = Len(t) + 1 /\ u[Len(t) + 1] = h
        /\ \A i \in 1 .. Len(t) : u[i] = t[i]
    BY <2>1, AppendProperties DEF Trail
  <2>3. QED
    BY <2>1, <2>2
<1>4. PICK g : g = Append(s, u)
  OBVIOUS
<1>5. /\ g \in Trails /\ g # << >> /\ Len(g) = n + 1 /\ g[n + 1] = u
      /\ \A i \in 1 .. n : g[i] = s[i]
  BY <1>1, <1>3, <1>4, AppendProperties DEF Trails
<1>6. PICK gh : gh = NewLast(hs, h)
  OBVIOUS
<1>7. hs \in Seq(Heads) /\ Len(hs) = n + 2
  BY <1>2 DEF Layout, Handled
<1>8. n + 2 \in 1 .. Len(hs)
  BY <1>7
<1>9. /\ gh \in Seq(Heads) /\ Len(gh) = n + 2 /\ gh[n + 2] = h
      /\ \A i \in 1 .. n + 1 : gh[i] = hs[i]
  <2>1. gh = [hs EXCEPT ![n + 2] = h]
    BY <1>6, <1>7 DEF NewLast
  <2>2. gh \in Seq(Heads) /\ Len(gh) = n + 2
    BY <1>7, <1>8, <2>1, ExceptSeq
  <2>3. \A j \in 1 .. n + 2 : gh[j] = IF j = n + 2 THEN h ELSE hs[j]
    BY <1>7, <1>8, <2>1, ExceptSeq
  <2>4. QED
    BY <1>8, <2>2, <2>3
<1>10. PICK box \in Int \X Int : box = Box(u) /\ Covers(box, u)
  BY <1>3, BoxHolds
<1>11. PICK gb : gb = NewLast(bs, Box(u))
  OBVIOUS
<1>12. bs \in Seq(Int \X Int) /\ Len(bs) = n + 1 /\ n + 1 \in 1 .. Len(bs)
  BY <1>2 DEF Layout, Boxed
<1>13. /\ gb \in Seq(Int \X Int) /\ Len(gb) = n + 1 /\ gb[n + 1] = box
       /\ \A i \in 1 .. n : gb[i] = bs[i]
  <2>1. gb = [bs EXCEPT ![n + 1] = box]
    BY <1>10, <1>11, <1>12 DEF NewLast
  <2>2. gb \in Seq(Int \X Int) /\ Len(gb) = n + 1
    BY <1>12, <2>1, ExceptSeq
  <2>3. \A j \in 1 .. n + 1 : gb[j] = IF j = n + 1 THEN box ELSE bs[j]
    BY <1>12, <2>1, ExceptSeq
  <2>4. QED
    BY <1>12, <2>2, <2>3
<1>14. ASSUME NEW i \in 1 .. n
       PROVE  Len(g[i]) >= 2 /\ g[i][Len(g[i])] = g[i + 1][1]
  <2>1. Len(ts[i]) >= 2 /\ ts[i][Len(ts[i])] = ts[i + 1][1]
    BY <1>2 DEF Layout, Chained
  <2>2. g[i] = ts[i] /\ g[i + 1][1] = ts[i + 1][1]
    <3>1. CASE i = n
      BY <1>2, <1>3, <1>5, <3>1
    <3>2. CASE i # n
      <4>1. i + 1 \in 1 .. n
        BY <3>2
      <4>2. QED
        BY <1>2, <1>5, <4>1
    <3>3. QED
      BY <3>1, <3>2
  <2>3. QED
    BY <2>1, <2>2
<1>15. Chained(g)
  BY <1>5, <1>14 DEF Chained
<1>16. ASSUME NEW i \in 1 .. n + 1
       PROVE  gh[i] = g[i][1] /\ Covers(gb[i], g[i])
  <2>1. hs[i] = ts[i][1] /\ Covers(bs[i], ts[i])
    BY <1>2 DEF Layout, Handled, Boxed
  <2>2. CASE i = n + 1
    BY <1>2, <1>3, <1>5, <1>9, <1>10, <1>13, <2>1, <2>2
  <2>3. CASE i \in 1 .. n
    BY <1>2, <1>5, <1>9, <1>13, <2>1, <2>3
  <2>4. QED
    BY <2>2, <2>3
<1>17. Handled(g, gh) /\ Boxed(g, gb)
  BY <1>5, <1>9, <1>13, <1>16 DEF Handled, Boxed
<1>18. Layout(g, gh, gb)
  BY <1>5, <1>9, <1>13, <1>15, <1>17 DEF Layout
<1>19. Fitted(g, gh)
  BY <1>3, <1>5, <1>9 DEF Fitted, Last
<1>20. QED
  BY <1>4, <1>6, <1>11, <1>18, <1>19

(* A segment begun at the newest point.                                    *)
LEMMA LayoutExtends ==
  ASSUME NEW ts, NEW hs, NEW bs, Layout(ts, hs, bs), Fitted(ts, hs),
         NEW h \in Heads, h = Last(hs), Len(Last(ts)) >= 2,
         NEW u, u = << h >>
  PROVE  /\ Layout(Append(ts, u), Append(hs, h), Append(bs, Box(u)))
         /\ Fitted(Append(ts, u), Append(hs, h))
<1>1. PICK n \in Nat : n = Len(ts)
  BY DEF Trails, Layout
<1>2. /\ ts \in Seq(Trail) /\ n >= 1
      /\ hs \in Seq(Heads) /\ Len(hs) = n + 1
      /\ bs \in Seq(Int \X Int) /\ Len(bs) = n
  BY <1>1 DEF Layout, Trails, Handled, Boxed
<1>3. u \in Trail /\ Len(u) = 1 /\ u[1] = h
  BY DEF Trail
<1>4. PICK g : g = Append(ts, u)
  OBVIOUS
<1>5. /\ g \in Trails /\ g # << >> /\ Len(g) = n + 1 /\ g[n + 1] = u
      /\ \A i \in 1 .. n : g[i] = ts[i]
  <2>1. /\ g \in Seq(Trail) /\ g # << >> /\ Len(g) = Len(ts) + 1 /\ g[Len(ts) + 1] = u
        /\ \A i \in 1 .. Len(ts) : g[i] = ts[i]
    BY <1>2, <1>3, <1>4, AppendProperties
  <2>2. QED
    BY <1>1, <2>1 DEF Trails
<1>6. PICK gh : gh = Append(hs, h)
  OBVIOUS
<1>7. /\ gh \in Seq(Heads) /\ Len(gh) = n + 2 /\ gh[n + 2] = h
      /\ \A i \in 1 .. n + 1 : gh[i] = hs[i]
  <2>1. /\ gh \in Seq(Heads) /\ Len(gh) = Len(hs) + 1 /\ gh[Len(hs) + 1] = h
        /\ \A i \in 1 .. Len(hs) : gh[i] = hs[i]
    BY <1>2, <1>6, AppendProperties
  <2>2. QED
    BY <1>2, <2>1
<1>8. PICK box \in Int \X Int : box = Box(u) /\ Covers(box, u)
  BY <1>3, BoxHolds
<1>9. PICK gb : gb = Append(bs, Box(u))
  OBVIOUS
<1>10. /\ gb \in Seq(Int \X Int) /\ Len(gb) = n + 1 /\ gb[n + 1] = box
       /\ \A i \in 1 .. n : gb[i] = bs[i]
  <2>1. gb = Append(bs, box)
    BY <1>8, <1>9
  <2>2. /\ gb \in Seq(Int \X Int) /\ Len(gb) = Len(bs) + 1 /\ gb[Len(bs) + 1] = box
        /\ \A i \in 1 .. Len(bs) : gb[i] = bs[i]
    BY <1>2, <2>1, AppendProperties
  <2>3. QED
    BY <1>2, <2>2
<1>11. hs[n + 1] = h /\ ts[n][Len(ts[n])] = h /\ Len(ts[n]) >= 2
  BY <1>1, <1>2 DEF Fitted, Last
<1>12. ASSUME NEW i \in 1 .. n
       PROVE  Len(g[i]) >= 2 /\ g[i][Len(g[i])] = g[i + 1][1]
  <2>1. CASE i = n
    BY <1>3, <1>5, <1>11, <2>1
  <2>2. CASE i # n
    <3>1. i \in 1 .. n - 1 /\ i + 1 \in 1 .. n
      BY <2>2
    <3>2. Len(ts[i]) >= 2 /\ ts[i][Len(ts[i])] = ts[i + 1][1]
      BY <1>1, <3>1 DEF Layout, Chained
    <3>3. QED
      BY <1>5, <3>1, <3>2
  <2>3. QED
    BY <2>1, <2>2
<1>13. Chained(g)
  BY <1>5, <1>12 DEF Chained
<1>14. ASSUME NEW i \in 1 .. n + 1
       PROVE  gh[i] = g[i][1] /\ Covers(gb[i], g[i])
  <2>1. CASE i = n + 1
    BY <1>3, <1>5, <1>7, <1>8, <1>10, <1>11, <2>1
  <2>2. CASE i \in 1 .. n
    <3>1. hs[i] = ts[i][1] /\ Covers(bs[i], ts[i])
      BY <1>1, <2>2 DEF Layout, Handled, Boxed
    <3>2. QED
      BY <1>5, <1>7, <1>10, <2>2, <3>1
  <2>3. QED
    BY <2>1, <2>2
<1>15. Handled(g, gh) /\ Boxed(g, gb)
  BY <1>5, <1>7, <1>10, <1>14 DEF Handled, Boxed
<1>16. Layout(g, gh, gb)
  BY <1>5, <1>7, <1>10, <1>13, <1>15 DEF Layout
<1>17. Fitted(g, gh)
  BY <1>3, <1>5, <1>7 DEF Fitted, Last
<1>18. QED
  BY <1>4, <1>6, <1>9, <1>16, <1>17

(* A snake whose trails join to path; when a point was drawn last, it is   *)
(* also fitted.                                                            *)
IsBody(b, path) == \E ts, hs, bs : /\ b = Snake3(ts, hs, bs)
                                   /\ Layout(ts, hs, bs)
                                   /\ path = Joined(ts)

IsFittedBody(b, path) == \E ts, hs, bs : /\ b = Snake3(ts, hs, bs)
                                         /\ Layout(ts, hs, bs) /\ Fitted(ts, hs)
                                         /\ path = Joined(ts)

LEMMA FittedIsBody ==
  ASSUME NEW b, NEW path, IsFittedBody(b, path)
  PROVE  IsBody(b, path)
  BY DEF IsFittedBody, IsBody

(* A step of the head adds a point.                                        *)
LEMMA DrawKeeps ==
  ASSUME NEW b, NEW path, IsBody(b, path), NEW h \in Heads, NEW bad
  PROVE  IsFittedBody(Draw(b, h, bad), Append(path, h))
<1>1. PICK ts, hs, bs : /\ b = Snake3(ts, hs, bs)
                        /\ Layout(ts, hs, bs)
                        /\ path = Joined(ts)
  BY DEF IsBody
<1>2. PICK s \in Trails, t \in Trail : ts = Append(s, t)
  BY <1>1, SequenceEmptyOrAppend DEF Layout, Trails
<1>3. PICK u : u = Append(t, h)
  OBVIOUS
<1>4. u \in Trail
  BY <1>3, AppendProperties DEF Trail
<1>5. PICK g, gh, gb : /\ g = Append(s, u) /\ gh = NewLast(hs, h)
                       /\ gb = NewLast(bs, Box(u))
  OBVIOUS
<1>6. Layout(g, gh, gb) /\ Fitted(g, gh)
  BY <1>1, <1>2, <1>3, <1>5, LayoutGrows
<1>7. Joined(g) = Append(path, h)
  BY <1>1, <1>2, <1>3, <1>5, PathGrows
<1>8. \/ Draw(b, h, bad) = Snake3(g, gh, gb)
      \/ /\ Len(u) >= MinFit
         /\ Draw(b, h, bad) = Snake3(Append(g, << h >>), Append(gh, h),
                                     Append(gb, Box(<< h >>)))
  <2> DEFINE v == Append(t, h)
             k == Append(s, v)
             kh == NewLast(hs, h)
             kb == NewLast(bs, Box(v))
             d == Draw(Snake3(Append(s, t), hs, bs), h, bad)
  <2>1. \/ d = Snake3(k, kh, kb)
        \/ /\ Len(v) >= MinFit
           /\ d = Snake3(Append(k, << h >>), Append(kh, h), Append(kb, Box(<< h >>)))
    BY DrawIs
  <2>2. g = k /\ gh = kh /\ gb = kb /\ u = v
    BY <1>3, <1>5
  <2> HIDE DEF v, k, kh, kb
  <2>3. QED
    BY <1>1, <1>2, <2>1, <2>2
<1>9. CASE Draw(b, h, bad) = Snake3(g, gh, gb)
  BY <1>6, <1>7, <1>9 DEF IsFittedBody
<1>10. CASE /\ Len(u) >= MinFit
            /\ Draw(b, h, bad) = Snake3(Append(g, << h >>), Append(gh, h),
                                        Append(gb, Box(<< h >>)))
  <2>1. Last(g) = u /\ u[Len(u)] = h
    BY <1>2, <1>3, <1>4, <1>5, AppendProperties DEF Last, Trails, Trail
  <2>2. Len(Last(g)) >= 2 /\ Last(gh) = h
    BY <1>4, <1>6, <1>10, <2>1, SnakeAssumption DEF Fitted, Last, Trail
  <2>3. /\ Layout(Append(g, << h >>), Append(gh, h), Append(gb, Box(<< h >>)))
        /\ Fitted(Append(g, << h >>), Append(gh, h))
    BY <1>6, <2>2, LayoutExtends
  <2>4. Joined(Append(g, << h >>)) = Append(path, h)
    BY <1>6, <1>7, PathShares DEF Layout
  <2>5. QED
    BY <1>10, <2>3, <2>4 DEF IsFittedBody
<1>11. QED
  BY <1>8, <1>9, <1>10

-----------------------------------------------------------------------------
(* Taking back.                                                            *)

LEMMA FrontAppend ==
  ASSUME NEW S, NEW s \in Seq(S), NEW e \in S
  PROVE  Front(Append(s, e)) = s
<1>1. PICK q : q = Append(s, e)
  OBVIOUS
<1>2. /\ q \in Seq(S) /\ Len(q) = Len(s) + 1 /\ Len(s) \in Nat
      /\ \A i \in 1 .. Len(s) : q[i] = s[i]
  BY <1>1, AppendProperties
<1>3. Front(q) = SubSeq(q, 1, Len(s))
  BY <1>2 DEF Front
<1>4. \A i \in 1 .. Len(s) : q[i] \in S
  BY <1>2
<1>5. /\ SubSeq(q, 1, Len(s)) \in Seq(S) /\ Len(SubSeq(q, 1, Len(s))) = Len(s)
      /\ \A i \in 1 .. Len(s) : SubSeq(q, 1, Len(s))[i] = q[i]
  BY <1>2
<1>6. SubSeq(q, 1, Len(s)) = s
  BY <1>2, <1>5, SeqEqual
<1>7. QED
  BY <1>1, <1>3, <1>6

(* The newest segment without its newest point.                            *)
LEMMA LayoutShrinks ==
  ASSUME NEW s \in Trails, NEW u \in Trail, NEW x \in Heads,
         NEW ts, ts = Append(s, Append(u, x)),
         NEW hs, NEW bs, Layout(ts, hs, bs)
  PROVE  Layout(Append(s, u), hs, bs)
<1>1. PICK n \in Nat : n = Len(s)
  BY DEF Trails
<1>2. PICK t : t = Append(u, x)
  OBVIOUS
<1>3. /\ t \in Trail /\ Len(u) \in Nat /\ Len(u) >= 1 /\ Len(t) = Len(u) + 1
      /\ \A j \in 1 .. Len(u) : t[j] = u[j]
  BY <1>2, AppendProperties DEF Trail
<1>4. /\ ts \in Trails /\ Len(ts) = n + 1 /\ ts[n + 1] = t
      /\ \A i \in 1 .. n : ts[i] = s[i]
  BY <1>1, <1>2, <1>3, AppendProperties DEF Trails
<1>5. PICK g : g = Append(s, u)
  OBVIOUS
<1>6. /\ g \in Trails /\ g # << >> /\ Len(g) = n + 1 /\ g[n + 1] = u
      /\ \A i \in 1 .. n : g[i] = s[i]
  BY <1>1, <1>5, AppendProperties DEF Trails
<1>7. ASSUME NEW i \in 1 .. n
      PROVE  Len(g[i]) >= 2 /\ g[i][Len(g[i])] = g[i + 1][1]
  <2>1. Len(ts[i]) >= 2 /\ ts[i][Len(ts[i])] = ts[i + 1][1]
    BY <1>4 DEF Layout, Chained
  <2>2. g[i] = ts[i]
    BY <1>4, <1>6
  <2>3. g[i + 1][1] = ts[i + 1][1]
    <3>1. CASE i = n
      BY <1>3, <1>4, <1>6, <3>1
    <3>2. CASE i # n
      <4>1. i + 1 \in 1 .. n
        BY <3>2
      <4>2. QED
        BY <1>4, <1>6, <4>1
    <3>3. QED
      BY <3>1, <3>2
  <2>4. QED
    BY <2>1, <2>2, <2>3
<1>8. Chained(g)
  BY <1>6, <1>7 DEF Chained
<1>9. ASSUME NEW i \in 1 .. n + 1
      PROVE  hs[i] = g[i][1] /\ Covers(bs[i], g[i])
  <2>1. hs[i] = ts[i][1] /\ Covers(bs[i], ts[i])
    BY <1>4 DEF Layout, Handled, Boxed
  <2>2. CASE i = n + 1
    <3>1. Covers(bs[i], u)
      BY <1>3, <1>4, <2>1, <2>2 DEF Covers
    <3>2. QED
      BY <1>3, <1>4, <1>6, <2>1, <2>2, <3>1
  <2>3. CASE i \in 1 .. n
    BY <1>4, <1>6, <2>1, <2>3
  <2>4. QED
    BY <2>2, <2>3
<1>10. Len(hs) = n + 2 /\ Len(bs) = n + 1
  BY <1>4 DEF Layout, Handled, Boxed
<1>11. Handled(g, hs) /\ Boxed(g, bs)
  BY <1>6, <1>9, <1>10 DEF Handled, Boxed
<1>12. Layout(g, hs, bs)
  BY <1>6, <1>8, <1>11 DEF Layout
<1>13. QED
  BY <1>5, <1>12

(* All segments but the newest.                                            *)
LEMMA LayoutLoses ==
  ASSUME NEW s \in Trails, s # << >>, NEW t \in Trail, NEW ts, ts = Append(s, t),
         NEW hs, NEW bs, Layout(ts, hs, bs)
  PROVE  /\ Layout(s, Front(hs), Front(bs))
         /\ Len(Last(s)) >= 2
<1>1. PICK n \in Nat : n = Len(s)
  BY DEF Trails
<1>2. n >= 1
  BY <1>1, EmptySeq DEF Trails
<1>3. /\ ts \in Trails /\ Len(ts) = n + 1
      /\ \A i \in 1 .. n : ts[i] = s[i]
  BY <1>1, AppendProperties DEF Trails
<1>4. /\ hs \in Seq(Heads) /\ Len(hs) = n + 2
      /\ bs \in Seq(Int \X Int) /\ Len(bs) = n + 1
  BY <1>3 DEF Layout, Handled, Boxed
<1>5. PICK gh : gh = Front(hs)
  OBVIOUS
<1>6. /\ gh \in Seq(Heads) /\ Len(gh) = n + 1
      /\ \A i \in 1 .. n + 1 : gh[i] = hs[i]
  BY <1>4, <1>5 DEF Front
<1>7. PICK gb : gb = Front(bs)
  OBVIOUS
<1>8. PICK X : X = Int \X Int
  OBVIOUS
<1>9. /\ gb \in Seq(X) /\ Len(gb) = n
      /\ \A i \in 1 .. n : gb[i] = bs[i]
  <2>1. bs \in Seq(X) /\ Len(bs) = n + 1
    BY <1>4, <1>8
  <2>2. QED
    BY <1>7, <2>1 DEF Front
<1>10. \A i \in 1 .. n : /\ Len(ts[i]) >= 2
                         /\ ts[i][Len(ts[i])] = ts[i + 1][1]
                         /\ hs[i] = ts[i][1]
                         /\ Covers(bs[i], ts[i])
  <2>1. ASSUME NEW i \in 1 .. n
        PROVE  Len(ts[i]) >= 2 /\ ts[i][Len(ts[i])] = ts[i + 1][1]
    <3>1. i \in 1 .. Len(ts) - 1
      BY <1>3
    <3>2. QED
      BY <3>1 DEF Layout, Chained
  <2>2. ASSUME NEW i \in 1 .. n
        PROVE  hs[i] = ts[i][1] /\ Covers(bs[i], ts[i])
    <3>1. i \in 1 .. Len(ts)
      BY <1>3
    <3>2. QED
      BY <3>1 DEF Layout, Handled, Boxed
  <2>3. QED
    BY <2>1, <2>2
<1>11. Chained(s)
  <2>1. ASSUME NEW i \in 1 .. n - 1
        PROVE  Len(s[i]) >= 2 /\ s[i][Len(s[i])] = s[i + 1][1]
    <3>1. i \in 1 .. n /\ i + 1 \in 1 .. n
      OBVIOUS
    <3>2. QED
      BY <1>3, <1>10, <3>1
  <2>2. QED
    BY <1>1, <2>1 DEF Chained
<1>12. Handled(s, gh) /\ Boxed(s, gb)
  <2>1. ASSUME NEW i \in 1 .. n
        PROVE  gh[i] = s[i][1] /\ Covers(gb[i], s[i])
    <3>1. i \in 1 .. n + 1
      OBVIOUS
    <3>2. QED
      BY <1>3, <1>6, <1>9, <1>10, <3>1
  <2>2. QED
    BY <1>1, <1>6, <1>9, <2>1 DEF Handled, Boxed
<1>13. Layout(s, gh, gb)
  BY <1>6, <1>8, <1>9, <1>11, <1>12 DEF Layout
<1>14. Len(Last(s)) >= 2
  <2>1. n \in 1 .. n
    BY <1>2
  <2>2. QED
    BY <1>1, <1>3, <1>10, <2>1 DEF Last
<1>15. QED
  BY <1>5, <1>7, <1>13, <1>14

(* The newest point is taken back: at the end of a segment, or with a      *)
(* segment that has no other.                                              *)
LEMMA PopPointKeeps ==
  ASSUME NEW b, NEW path \in Trail, NEW x \in Heads, IsBody(b, Append(path, x))
  PROVE  IsBody(PopPoint(b), path)
<1>1. PICK ts, hs, bs : /\ b = Snake3(ts, hs, bs)
                        /\ Layout(ts, hs, bs)
                        /\ Append(path, x) = Joined(ts)
  BY DEF IsBody
<1>2. PICK s \in Trails, t \in Trail : ts = Append(s, t)
  BY <1>1, SequenceEmptyOrAppend DEF Layout, Trails
<1>3. PICK u \in Seq(Heads), y \in Heads : t = Append(u, y)
  BY SequenceEmptyOrAppend DEF Trail
<1>4. /\ b.trails = ts /\ b.handles = hs /\ b.boxes = bs
      /\ Last(ts) = t /\ Front(t) = u /\ Front(ts) = s
  <2>1. b.trails = ts /\ b.handles = hs /\ b.boxes = bs
    BY <1>1 DEF Snake3
  <2>2. Last(ts) = t
    BY <1>2, AppendProperties DEF Last, Trails
  <2>3. Front(t) = u
    BY <1>3, FrontAppend
  <2>4. Front(ts) = s
    BY <1>2, FrontAppend DEF Trails
  <2>5. QED
    BY <2>1, <2>2, <2>3, <2>4
<1>5. CASE u # << >>
  <2>1. u \in Trail
    BY <1>5 DEF Trail
  <2>2. PopPoint(b) = [b EXCEPT !.trails[Len(b.trails)] = u]
    BY <1>4, <1>5 DEF PopPoint
  <2>3. PICK r : r = NewLast(ts, u)
    OBVIOUS
  <2>4. PopPoint(b) = [b EXCEPT !.trails = r]
    BY <1>4, <2>2, <2>3, Zenon DEF NewLast
  <2>5. PopPoint(b) = Snake3(r, hs, bs)
    BY <1>1, <2>4, SMT DEF Snake3
  <2>6. r = Append(s, u)
    BY <1>2, <2>1, <2>3, NewestReplaced
  <2>7. Layout(r, hs, bs)
    BY <1>1, <1>2, <1>3, <2>1, <2>6, LayoutShrinks
  <2>8. Joined(ts) = Append(Joined(r), y)
    BY <1>2, <1>3, <2>1, <2>6, PathGrows
  <2>9. Joined(r) \in Seq(Heads)
    BY <2>7, JoinedType DEF Layout
  <2>10. path = Joined(r)
    BY <1>1, <2>8, <2>9, AppendInjective DEF Trail
  <2>11. QED
    BY <2>5, <2>7, <2>10 DEF IsBody
<1>6. CASE u = << >>
  <2>1. t = << y >>
    BY <1>3, <1>6
  <2>2. s # << >>
    <3>1. SUFFICES ASSUME s = << >>
                   PROVE  FALSE
      OBVIOUS
    <3>2. Joined(ts) = << y >>
      BY <1>2, <2>1, <3>1, JoinedOne
    <3>3. Len(Append(path, x)) = Len(path) + 1 /\ Len(path) \in Nat /\ Len(path) # 0
      BY AppendProperties DEF Trail
    <3>4. Len(<< y >>) = 1
      OBVIOUS
    <3>5. QED
      BY <1>1, <3>2, <3>3, <3>4
  <2>3. Layout(s, Front(hs), Front(bs)) /\ Len(Last(s)) >= 2
    BY <1>1, <1>2, <2>2, LayoutLoses
  <2>4. Joined(ts) = Joined(s)
    BY <1>2, <2>1, <2>2, PathShares
  <2>5. PICK s0 \in Trails, t0 \in Trail : s = Append(s0, t0)
    BY <2>2, SequenceEmptyOrAppend DEF Trails
  <2>6. PICK u0 \in Seq(Heads), z \in Heads : t0 = Append(u0, z)
    BY SequenceEmptyOrAppend DEF Trail
  <2>7. Last(s) = t0 /\ Front(t0) = u0
    <3>1. Last(s) = t0
      BY <2>5, AppendProperties DEF Last, Trails
    <3>2. Front(t0) = u0
      BY <2>6, FrontAppend
    <3>3. QED
      BY <3>1, <3>2
  <2>8. u0 \in Trail
    <3>1. Len(t0) = Len(u0) + 1 /\ Len(u0) \in Nat
      BY <2>6, AppendProperties
    <3>2. Len(u0) >= 1
      BY <2>3, <2>7, <3>1
    <3>3. QED
      BY <3>2 DEF Trail
  <2>9. PICK r : r = NewLast(s, u0)
    OBVIOUS
  <2>10. r = Append(s0, u0)
    <3>1. NewLast(Append(s0, t0), u0) = Append(s0, u0)
      BY <2>8, NewestReplaced
    <3>2. QED
      BY <2>5, <2>9, <3>1
  <2>11. PopPoint(b) = Snake3(r, Front(hs), Front(bs))
    <3>1. Len(ts) - 1 = Len(s) /\ s[Len(s)] = t0
      BY <1>2, <2>7, AppendProperties DEF Trails, Last
    <3>2. PopPoint(b) = [trails  |-> [s EXCEPT ![Len(ts) - 1] = Front(s[Len(ts) - 1])],
                         handles |-> Front(hs), boxes |-> Front(bs)]
      BY <1>4, <1>6 DEF PopPoint
    <3>3. [s EXCEPT ![Len(ts) - 1] = Front(s[Len(ts) - 1])] = r
      BY <2>7, <2>9, <3>1 DEF NewLast
    <3>4. QED
      BY <3>2, <3>3 DEF Snake3
  <2>12. Layout(r, Front(hs), Front(bs))
    BY <2>3, <2>5, <2>6, <2>8, <2>10, LayoutShrinks
  <2>13. Joined(s) = Append(Joined(r), z)
    BY <2>5, <2>6, <2>8, <2>10, PathGrows
  <2>14. Joined(r) \in Seq(Heads)
    BY <2>12, JoinedType DEF Layout
  <2>15. path = Joined(r)
    BY <1>1, <2>4, <2>13, <2>14, AppendInjective DEF Trail
  <2>16. QED
    BY <2>11, <2>12, <2>15 DEF IsBody
<1>7. QED
  BY <1>5, <1>6

(* Points taken back one by one.                                           *)
Pops(b, f, n) == /\ f = [i \in 0 .. n |-> f[i]]
                 /\ f[0] = b
                 /\ \A i \in 0 .. n - 1 : f[i + 1] = PopPoint(f[i])

LEMMA PopsExist ==
  ASSUME NEW b
  PROVE  \A n \in Nat : \E f : Pops(b, f, n)
<1> DEFINE S == {n \in Nat : \E f : Pops(b, f, n)}
<1>1. 0 \in S
  <2>1. Pops(b, [i \in 0 .. 0 |-> b], 0)
    BY DEF Pops
  <2>2. QED
    BY <2>1
<1>2. ASSUME NEW n \in Nat, n \in S
      PROVE  n + 1 \in S
  <2>1. PICK f : Pops(b, f, n)
    BY <1>2
  <2>2. PICK e : e = PopPoint(f[n])
    OBVIOUS
  <2>3. PICK g : g = [i \in 0 .. n + 1 |-> IF i <= n THEN f[i] ELSE e]
    OBVIOUS
  <2>4. \A i \in 0 .. n : g[i] = f[i]
    BY <2>3
  <2>5. g[n + 1] = e
    BY <2>3
  <2>6. ASSUME NEW i \in 0 .. n
        PROVE  g[i + 1] = PopPoint(g[i])
    <3>1. CASE i = n
      BY <2>2, <2>4, <2>5, <3>1
    <3>2. CASE i # n
      <4>1. i \in 0 .. n - 1 /\ i + 1 \in 0 .. n
        BY <3>2
      <4>2. f[i + 1] = PopPoint(f[i])
        BY <2>1, <4>1 DEF Pops
      <4>3. QED
        BY <2>4, <4>1, <4>2
    <3>3. QED
      BY <3>1, <3>2
  <2>7. g = [i \in 0 .. n + 1 |-> g[i]] /\ g[0] = b
    BY <2>1, <2>3, <2>4 DEF Pops
  <2>8. (n + 1) - 1 = n
    OBVIOUS
  <2>9. Pops(b, g, n + 1)
    BY <2>6, <2>7, <2>8 DEF Pops
  <2>10. QED
    BY <2>9
<1> HIDE DEF S
<1>3. \A n \in Nat : n \in S
  BY <1>1, <1>2, SetInduction
<1>4. QED
  BY <1>3 DEF S

LEMMA PopsAre ==
  ASSUME NEW b, NEW m \in Nat
  PROVE  \E f : Pops(b, f, m) /\ PopPoints(b, m) = f[m]
<1> DEFINE Unfold(f) == [i \in 0 .. m |-> IF i = 0 THEN b ELSE PopPoint(f[i - 1])]
<1>1. PICK r : r = CHOOSE f : f = Unfold(f)
  OBVIOUS
<1>2. PopPoints(b, m) = r[m]
  BY <1>1 DEF PopPoints
<1>3. PICK f : Pops(b, f, m)
  BY PopsExist
<1>4. f = Unfold(f)
  <2>1. ASSUME NEW i \in 0 .. m
        PROVE  f[i] = IF i = 0 THEN b ELSE PopPoint(f[i - 1])
    <3>1. CASE i = 0
      BY <1>3, <3>1 DEF Pops
    <3>2. CASE i # 0
      <4>1. PICK k : k = i - 1
        OBVIOUS
      <4>2. k \in 0 .. m - 1 /\ k + 1 = i
        BY <3>2, <4>1
      <4>3. f[k + 1] = PopPoint(f[k])
        BY <1>3, <4>2 DEF Pops
      <4>4. QED
        BY <3>2, <4>1, <4>2, <4>3
    <3>3. QED
      BY <3>1, <3>2
  <2>2. f = [i \in 0 .. m |-> f[i]]
    BY <1>3 DEF Pops
  <2>3. QED
    BY <2>1, <2>2
<1> HIDE DEF Unfold
<1>5. r = Unfold(r)
  BY <1>1, <1>4
<1>6. r = [i \in 0 .. m |-> r[i]] /\ r[0] = b
  BY <1>5 DEF Unfold
<1>7. ASSUME NEW i \in 0 .. m - 1
      PROVE  r[i + 1] = PopPoint(r[i])
  <2>1. i + 1 \in 0 .. m /\ i + 1 # 0 /\ (i + 1) - 1 = i
    OBVIOUS
  <2>2. QED
    BY <1>5, <2>1 DEF Unfold
<1>8. Pops(b, r, m)
  BY <1>6, <1>7 DEF Pops
<1>9. QED
  BY <1>2, <1>8

(* Points drawn one by one.                                                *)
Draws(b, heads, bad, f, n) ==
  /\ f = [i \in 0 .. n |-> f[i]]
  /\ f[0] = b
  /\ \A i \in 0 .. n - 1 : f[i + 1] = Draw(f[i], heads[i + 1], bad[i + 1])

LEMMA DrawsExist ==
  ASSUME NEW b, NEW heads, NEW bad
  PROVE  \A n \in Nat : \E f : Draws(b, heads, bad, f, n)
<1> DEFINE S == {n \in Nat : \E f : Draws(b, heads, bad, f, n)}
<1>1. 0 \in S
  <2>1. Draws(b, heads, bad, [i \in 0 .. 0 |-> b], 0)
    BY DEF Draws
  <2>2. QED
    BY <2>1
<1>2. ASSUME NEW n \in Nat, n \in S
      PROVE  n + 1 \in S
  <2>1. PICK f : Draws(b, heads, bad, f, n)
    BY <1>2
  <2>2. PICK e : e = Draw(f[n], heads[n + 1], bad[n + 1])
    OBVIOUS
  <2>3. PICK g : g = [i \in 0 .. n + 1 |-> IF i <= n THEN f[i] ELSE e]
    OBVIOUS
  <2>4. \A i \in 0 .. n : g[i] = f[i]
    BY <2>3
  <2>5. g[n + 1] = e
    BY <2>3
  <2>6. ASSUME NEW i \in 0 .. n
        PROVE  g[i + 1] = Draw(g[i], heads[i + 1], bad[i + 1])
    <3>1. CASE i = n
      BY <2>2, <2>4, <2>5, <3>1
    <3>2. CASE i # n
      <4>1. i \in 0 .. n - 1 /\ i + 1 \in 0 .. n
        BY <3>2
      <4>2. f[i + 1] = Draw(f[i], heads[i + 1], bad[i + 1])
        BY <2>1, <4>1 DEF Draws
      <4>3. QED
        BY <2>4, <4>1, <4>2
    <3>3. QED
      BY <3>1, <3>2
  <2>7. g = [i \in 0 .. n + 1 |-> g[i]] /\ g[0] = b
    BY <2>1, <2>3, <2>4 DEF Draws
  <2>8. (n + 1) - 1 = n
    OBVIOUS
  <2>9. Draws(b, heads, bad, g, n + 1)
    BY <2>6, <2>7, <2>8 DEF Draws
  <2>10. QED
    BY <2>9
<1> HIDE DEF S
<1>3. \A n \in Nat : n \in S
  BY <1>1, <1>2, SetInduction
<1>4. QED
  BY <1>3 DEF S

LEMMA DrawsAre ==
  ASSUME NEW b, NEW heads, NEW bad, NEW m \in Nat, m = Len(heads)
  PROVE  \E f : Draws(b, heads, bad, f, m) /\ DrawAll(b, heads, bad) = f[m]
<1> DEFINE Unfold(f) == [i \in 0 .. m |-> IF i = 0 THEN b ELSE Draw(f[i - 1], heads[i], bad[i])]
<1>1. PICK r : r = CHOOSE f : f = Unfold(f)
  OBVIOUS
<1>2. DrawAll(b, heads, bad) = r[m]
  BY <1>1 DEF DrawAll
<1>3. PICK f : Draws(b, heads, bad, f, m)
  BY DrawsExist
<1>4. f = Unfold(f)
  <2>1. ASSUME NEW i \in 0 .. m
        PROVE  f[i] = IF i = 0 THEN b ELSE Draw(f[i - 1], heads[i], bad[i])
    <3>1. CASE i = 0
      BY <1>3, <3>1 DEF Draws
    <3>2. CASE i # 0
      <4>1. PICK k : k = i - 1
        OBVIOUS
      <4>2. k \in 0 .. m - 1 /\ k + 1 = i
        BY <3>2, <4>1
      <4>3. f[k + 1] = Draw(f[k], heads[k + 1], bad[k + 1])
        BY <1>3, <4>2 DEF Draws
      <4>4. QED
        BY <3>2, <4>1, <4>2, <4>3
    <3>3. QED
      BY <3>1, <3>2
  <2>2. f = [i \in 0 .. m |-> f[i]]
    BY <1>3 DEF Draws
  <2>3. QED
    BY <2>1, <2>2
<1> HIDE DEF Unfold
<1>5. r = Unfold(r)
  BY <1>1, <1>4
<1>6. r = [i \in 0 .. m |-> r[i]] /\ r[0] = b
  BY <1>5 DEF Unfold
<1>7. ASSUME NEW i \in 0 .. m - 1
      PROVE  r[i + 1] = Draw(r[i], heads[i + 1], bad[i + 1])
  <2>1. i + 1 \in 0 .. m /\ i + 1 # 0 /\ (i + 1) - 1 = i
    OBVIOUS
  <2>2. QED
    BY <1>5, <2>1 DEF Unfold
<1>8. Draws(b, heads, bad, r, m)
  BY <1>6, <1>7 DEF Draws
<1>9. QED
  BY <1>2, <1>8

(* A beginning of a sequence, one element at a time.                       *)
LEMMA FirstAppend ==
  ASSUME NEW S, NEW q \in Seq(S), NEW k \in Nat, k + 1 <= Len(q)
  PROVE  /\ SubSeq(q, 1, k) \in Seq(S)
         /\ Len(SubSeq(q, 1, k)) = k
         /\ q[k + 1] \in S
         /\ SubSeq(q, 1, k + 1) = Append(SubSeq(q, 1, k), q[k + 1])
<1>1. Len(q) \in Nat /\ k + 1 \in 1 .. Len(q)
  OBVIOUS
<1>2. q[k + 1] \in S /\ \A i \in 1 .. k + 1 : q[i] \in S
  BY <1>1
<1>3. PICK r : r = SubSeq(q, 1, k)
  OBVIOUS
<1>4. r \in Seq(S) /\ Len(r) = k /\ \A i \in 1 .. k : r[i] = q[i]
  BY <1>2, <1>3
<1>5. PICK t : t = SubSeq(q, 1, k + 1)
  OBVIOUS
<1>6. t \in Seq(S) /\ Len(t) = k + 1 /\ \A i \in 1 .. k + 1 : t[i] = q[i]
  BY <1>2, <1>5
<1>7. PICK u : u = Append(r, q[k + 1])
  OBVIOUS
<1>8. /\ u \in Seq(S) /\ Len(u) = k + 1 /\ u[k + 1] = q[k + 1]
      /\ \A i \in 1 .. k : u[i] = r[i]
  BY <1>2, <1>4, <1>7, AppendProperties
<1>9. ASSUME NEW i \in 1 .. k + 1
      PROVE  t[i] = u[i]
  BY <1>4, <1>6, <1>8
<1>10. t = u
  BY <1>6, <1>8, <1>9, SeqEqual
<1>11. QED
  BY <1>2, <1>3, <1>4, <1>5, <1>7, <1>10

(* Points are taken back from the end of the path.                         *)
LEMMA PopPointsKeep ==
  ASSUME NEW b, NEW path \in Seq(Heads), IsBody(b, path),
         NEW m \in Nat, m < Len(path)
  PROVE  IsBody(PopPoints(b, m), SubSeq(path, 1, Len(path) - m))
<1>1. PICK f : Pops(b, f, m) /\ PopPoints(b, m) = f[m]
  BY PopsAre
<1>2. PICK n \in Nat : n = Len(path)
  OBVIOUS
<1> DEFINE S == {i \in Nat : i <= m => IsBody(f[i], SubSeq(path, 1, n - i))}
<1>3. 0 \in S
  <2>1. SubSeq(path, 1, n - 0) = path
    BY <1>2, SubSeqFull
  <2>2. f[0] = b
    BY <1>1 DEF Pops
  <2>3. QED
    BY <2>1, <2>2
<1>4. ASSUME NEW i \in Nat, i \in S
      PROVE  i + 1 \in S
  <2>1. SUFFICES ASSUME i + 1 <= m
                 PROVE  IsBody(f[i + 1], SubSeq(path, 1, n - (i + 1)))
    OBVIOUS
  <2>2. PICK k \in Nat : k = n - (i + 1)
    <3>1. m < n
      BY <1>2
    <3>2. n - (i + 1) \in Nat
      BY <2>1, <3>1
    <3>3. QED
      BY <3>2
  <2>3. n - i = k + 1 /\ k + 1 <= Len(path) /\ k >= 1
    BY <1>2, <2>1, <2>2
  <2>4. PICK kept : kept = SubSeq(path, 1, k)
    OBVIOUS
  <2>5. /\ kept \in Seq(Heads) /\ Len(kept) = k /\ path[k + 1] \in Heads
        /\ SubSeq(path, 1, k + 1) = Append(kept, path[k + 1])
    BY <2>3, <2>4, FirstAppend
  <2>6. kept \in Trail
    BY <2>3, <2>5 DEF Trail
  <2>7. IsBody(f[i], Append(kept, path[k + 1]))
    <3>1. IsBody(f[i], SubSeq(path, 1, n - i))
      BY <1>4, <2>1
    <3>2. QED
      BY <2>3, <2>5, <3>1
  <2>8. IsBody(PopPoint(f[i]), kept)
    BY <2>5, <2>6, <2>7, PopPointKeeps
  <2>9. f[i + 1] = PopPoint(f[i])
    <3>1. i \in 0 .. m - 1
      BY <1>2, <2>1
    <3>2. QED
      BY <1>1, <3>1 DEF Pops
  <2>10. QED
    BY <2>2, <2>4, <2>8, <2>9
<1> HIDE DEF S
<1>5. m \in S
  BY <1>3, <1>4, SetInduction
<1>6. QED
  BY <1>1, <1>2, <1>5 DEF S

(* Points are drawn at the end of the path.                                *)
LEMMA DrawAllKeeps ==
  ASSUME NEW b, NEW path \in Seq(Heads), IsBody(b, path),
         NEW heads \in Trail, NEW bad
  PROVE  IsFittedBody(DrawAll(b, heads, bad), path \o heads)
<1>1. PICK m \in Nat : m = Len(heads)
  BY DEF Trail
<1>2. PICK f : Draws(b, heads, bad, f, m) /\ DrawAll(b, heads, bad) = f[m]
  BY <1>1, DrawsAre
<1> DEFINE S == {i \in Nat : i <= m =>
                   /\ IsBody(f[i], path \o SubSeq(heads, 1, i))
                   /\ i # 0 => IsFittedBody(f[i], path \o SubSeq(heads, 1, i))}
<1>3. 0 \in S
  <2>1. path \o SubSeq(heads, 1, 0) = path
    BY ConcatEmptySeq, SubSeqEmpty
  <2>2. f[0] = b
    BY <1>2 DEF Draws
  <2>3. QED
    BY <2>1, <2>2
<1>4. ASSUME NEW i \in Nat, i \in S
      PROVE  i + 1 \in S
  <2>1. SUFFICES ASSUME i + 1 <= m
                 PROVE  IsFittedBody(f[i + 1], path \o SubSeq(heads, 1, i + 1))
    BY FittedIsBody
  <2>2. heads \in Seq(Heads) /\ i + 1 <= Len(heads)
    BY <1>1, <2>1 DEF Trail
  <2>3. PICK drawn : drawn = SubSeq(heads, 1, i)
    OBVIOUS
  <2>4. PICK h : h = heads[i + 1]
    OBVIOUS
  <2>5. drawn \in Seq(Heads) /\ h \in Heads /\ SubSeq(heads, 1, i + 1) = Append(drawn, h)
    BY <2>2, <2>3, <2>4, FirstAppend
  <2>6. path \o Append(drawn, h) = Append(path \o drawn, h)
    <3>1. << h >> \in Seq(Heads)
      BY <2>5
    <3>2. Append(drawn, h) = drawn \o << h >>
      BY <2>5, AppendIsConcat
    <3>3. path \o (drawn \o << h >>) = (path \o drawn) \o << h >>
      BY <2>5, <3>1, ConcatAssociative
    <3>4. (path \o drawn) \o << h >> = Append(path \o drawn, h)
      BY <2>5, ConcatProperties, AppendIsConcat
    <3>5. QED
      BY <3>2, <3>3, <3>4
  <2>7. IsBody(f[i], path \o drawn)
    BY <1>4, <2>1, <2>3
  <2>8. IsFittedBody(Draw(f[i], h, bad[i + 1]), Append(path \o drawn, h))
    BY <2>5, <2>7, DrawKeeps
  <2>9. f[i + 1] = Draw(f[i], h, bad[i + 1])
    <3>1. i \in 0 .. m - 1
      BY <2>1
    <3>2. f[i + 1] = Draw(f[i], heads[i + 1], bad[i + 1])
      BY <1>2, <3>1 DEF Draws
    <3>3. QED
      BY <2>4, <3>2
  <2>10. QED
    BY <2>5, <2>6, <2>8, <2>9
<1> HIDE DEF S
<1>5. m \in S
  BY <1>3, <1>4, SetInduction
<1>6. m # 0 /\ SubSeq(heads, 1, m) = heads
  <2>1. heads \in Seq(Heads) /\ heads # << >>
    BY DEF Trail
  <2>2. SubSeq(heads, 1, Len(heads)) = heads
    BY <2>1, SubSeqFull
  <2>3. Len(heads) # 0
    BY <2>1
  <2>4. m # 0
    BY <1>1, <2>3
  <2>5. SubSeq(heads, 1, m) = heads
    BY <1>1, <2>2, Zenon
  <2>6. QED
    BY <2>4, <2>5
<1>7. IsFittedBody(f[m], path \o SubSeq(heads, 1, m))
  BY <1>1, <1>5, <1>6 DEF S
<1>8. QED
  BY <1>2, <1>6, <1>7

-----------------------------------------------------------------------------
(* Removing segments at the tail.                                          *)

LEMMA ConcatEnds ==
  ASSUME NEW S, NEW a \in Seq(S), NEW t \in Seq(S), t # << >>
  PROVE  a \o t # << >> /\ (a \o t)[Len(a \o t)] = t[Len(t)]
<1>1. PICK q : q = a \o t
  OBVIOUS
<1>2. Len(a) \in Nat /\ Len(t) \in Nat /\ Len(t) >= 1
  OBVIOUS
<1>3. /\ q \in Seq(S) /\ Len(q) = Len(a) + Len(t)
      /\ \A i \in 1 .. Len(a) + Len(t) :
           q[i] = IF i <= Len(a) THEN a[i] ELSE t[i - Len(a)]
  BY <1>1, ConcatProperties
<1>4. PICK n \in Nat : n = Len(a) + Len(t)
  BY <1>2
<1>5. n \in 1 .. n /\ ~ (n <= Len(a)) /\ n - Len(a) = Len(t)
  BY <1>2, <1>4
<1>6. q[n] = t[Len(t)]
  BY <1>3, <1>4, <1>5
<1>7. Len(q) # 0
  BY <1>2, <1>3
<1>8. q # << >>
  BY <1>7
<1>9. QED
  BY <1>1, <1>3, <1>4, <1>6, <1>8

(* A trail of two points or more ends where the path up to it ends.        *)
LEMMA JoinedEnds ==
  ASSUME NEW ts \in Trails, NEW n \in Nat, n = Len(ts), NEW p, Joins(ts, p, n),
         Chained(ts)
  PROVE  \A i \in 1 .. n - 1 : /\ p[i] # << >>
                               /\ p[i][Len(p[i])] = ts[i][Len(ts[i])]
<1>1. SUFFICES ASSUME NEW i \in 1 .. n - 1
               PROVE  p[i] # << >> /\ p[i][Len(p[i])] = ts[i][Len(ts[i])]
  OBVIOUS
<1>2. Len(ts[i]) >= 2 /\ ts[i] \in Seq(Heads)
  BY DEF Chained, Trails, Trail
<1>3. CASE i = 1
  BY <1>2, <1>3 DEF Joins
<1>4. CASE i # 1
  <2>1. PICK k \in 1 .. n - 1 : i = k + 1
    <3>1. i - 1 \in 1 .. n - 1 /\ i = (i - 1) + 1
      BY <1>4
    <3>2. QED
      BY <3>1
  <2>2. PICK a \in Seq(Heads) : p[i] = a \o Tail(ts[i])
    <3>1. p[k + 1] = p[k] \o Tail(ts[k + 1])
      BY DEF Joins
    <3>2. k \in 1 .. n
      OBVIOUS
    <3>3. p[k] \in Seq(Heads)
      BY <3>2 DEF Joins
    <3>4. QED
      BY <2>1, <3>1, <3>3
  <2>3. PICK t : t = Tail(ts[i])
    OBVIOUS
  <2>4. ts[i] # << >>
    BY <1>2
  <2>5. /\ t \in Seq(Heads) /\ Len(t) = Len(ts[i]) - 1
        /\ \A j \in 1 .. Len(t) : t[j] = ts[i][j + 1]
    BY <1>2, <2>3, <2>4, HeadTailProperties
  <2>6. t[Len(t)] = ts[i][Len(ts[i])] /\ Len(t) >= 1
    BY <1>2, <2>5
  <2>7. PICK q : q = a \o t
    OBVIOUS
  <2>8. t # << >>
    BY <2>5, <2>6
  <2>9. q # << >> /\ q[Len(q)] = t[Len(t)]
    BY <2>2, <2>5, <2>7, <2>8, ConcatEnds
  <2>10. p[i] = q
    BY <2>2, <2>3, <2>7
  <2>11. QED
    BY <2>6, <2>9, <2>10
<1>5. QED
  BY <1>3, <1>4

(* All but the first k elements.                                           *)
Without(q, k) == SubSeq(q, k + 1, Len(q))

(* The path of the trails after the first k is the end of the path; the    *)
(* points before it are those of the first k trails.                       *)
LEMMA JoinedRest ==
  ASSUME NEW ts \in Trails, Chained(ts), NEW k \in 1 .. Len(ts) - 1,
         NEW p, Joins(ts, p, Len(ts))
  PROVE  /\ Without(ts, k) \in Trails /\ Without(ts, k) # << >>
         /\ p[k] \in Seq(Heads) /\ p[k] # << >>
         /\ Front(p[k]) \in Seq(Heads)
         /\ p[Len(ts)] = Front(p[k]) \o Joined(Without(ts, k))
<1>0. PICK us : us = Without(ts, k)
  OBVIOUS
<1>1. PICK n \in Nat : n = Len(ts)
  BY DEF Trails
<1>2. PICK m \in Nat : m = n - k /\ m >= 1
  <2>1. k \in 1 .. n - 1
    BY <1>1
  <2>2. n - k \in Nat /\ n - k >= 1
    BY <2>1
  <2>3. QED
    BY <2>2
<1>3. /\ us \in Trails /\ Len(us) = m
      /\ \A i \in 1 .. m : us[i] = ts[k + i]
  <2>1. \A i \in k + 1 .. n : ts[i] \in Trail
    BY <1>1 DEF Trails
  <2>2. us = SubSeq(ts, k + 1, n)
    BY <1>0, <1>1 DEF Without
  <2>3. k + 1 \in Int /\ n \in Int /\ k + 1 <= n /\ n - (k + 1) + 1 = m
    BY <1>1, <1>2
  <2>4. PICK l \in Int : l = k + 1
    BY <2>3
  <2>5. /\ us \in Seq(Trail) /\ Len(us) = n - l + 1
        /\ \A i \in 1 .. n - l + 1 : us[i] = ts[l + i - 1]
    BY <2>1, <2>2, <2>3, <2>4
  <2>6. n - l + 1 = m
    BY <2>3, <2>4
  <2>7. ASSUME NEW i \in 1 .. m
        PROVE  us[i] = ts[k + i]
    <3>1. i \in 1 .. n - l + 1 /\ l + i - 1 = k + i
      BY <1>2, <2>4, <2>6
    <3>2. QED
      BY <2>5, <3>1
  <2>8. us \in Trails /\ Len(us) = m
    BY <2>5, <2>6 DEF Trails
  <2>9. QED
    BY <2>7, <2>8
<1>4. us # << >>
  <2>1. Len(us) # 0
    BY <1>2, <1>3
  <2>2. QED
    BY <2>1
<1>5. PICK q : Joins(us, q, m) /\ Joined(us) = q[m]
  BY <1>3, <1>4, JoinedIs
<1>6. PICK a : a = p[k]
  OBVIOUS
<1>7. a \in Seq(Heads) /\ a # << >> /\ a[Len(a)] = ts[k + 1][1]
  <2>1. a # << >> /\ a[Len(a)] = ts[k][Len(ts[k])]
    BY <1>1, <1>6, JoinedEnds
  <2>2. ts[k][Len(ts[k])] = ts[k + 1][1]
    BY DEF Chained
  <2>3. k \in 1 .. n
    BY <1>1
  <2>4. QED
    BY <1>1, <1>6, <2>1, <2>2, <2>3 DEF Joins
<1>8. PICK f \in Seq(Heads), x \in Heads : a = Append(f, x)
  BY <1>7, SequenceEmptyOrAppend
<1>9. Front(a) = f
  BY <1>8, FrontAppend
<1>10. x = ts[k + 1][1]
  BY <1>7, <1>8, AppendProperties
<1> DEFINE S == {i \in Nat : i + 1 <= m => p[k + (i + 1)] = f \o q[i + 1]}
<1>11. 0 \in S
  <2>1. PICK t : t = ts[k + 1]
    OBVIOUS
  <2>2. t \in Seq(Heads) /\ t # << >>
    BY <2>1 DEF Trails, Trail
  <2>3. q[1] = t
    BY <1>2, <1>3, <1>5, <2>1 DEF Joins
  <2>4. p[k + 1] = a \o Tail(t)
    BY <1>6, <2>1 DEF Joins
  <2>5. << x >> \in Seq(Heads) /\ Tail(t) \in Seq(Heads)
    BY <2>2
  <2>6. a = f \o << x >>
    BY <1>8, AppendIsConcat
  <2>7. (f \o << x >>) \o Tail(t) = f \o (<< x >> \o Tail(t))
    BY <1>8, <2>5, ConcatAssociative
  <2>8. << x >> \o Tail(t) = t
    <3>1. SubSeq(t, 1, Len(t)) = << t[1] >> \o SubSeq(t, 1 + 1, Len(t))
      <4>1. 1 \in 1 .. Len(t) /\ Len(t) \in 1 .. Len(t)
        BY <2>2
      <4>2. QED
        BY <2>2, <4>1, SubSeqRecursiveFirst
    <3>2. SubSeq(t, 1, Len(t)) = t
      BY <2>2, SubSeqFull
    <3>3. Tail(t) = SubSeq(t, 2, Len(t))
      BY <2>2, TailIsSubSeq
    <3>4. x = t[1] /\ 1 + 1 = 2
      BY <1>10, <2>1
    <3>5. QED
      BY <3>1, <3>2, <3>3, <3>4
  <2>9. p[k + 1] = f \o q[1]
    BY <2>3, <2>4, <2>6, <2>7, <2>8
  <2>10. QED
    BY <2>9
<1>12. ASSUME NEW i \in Nat, i \in S
       PROVE  i + 1 \in S
  <2>1. SUFFICES ASSUME i + 2 <= m
                 PROVE  p[k + (i + 2)] = f \o q[i + 2]
    OBVIOUS
  <2>2. p[k + (i + 1)] = f \o q[i + 1]
    BY <1>12, <2>1
  <2>3. PICK j : j = i + 1
    OBVIOUS
  <2>4. PICK l : l = k + j
    OBVIOUS
  <2>5. /\ j \in 1 .. m - 1 /\ j \in 1 .. m /\ j + 1 \in 1 .. m
        /\ l \in 1 .. n - 1 /\ l + 1 = k + (j + 1)
        /\ j + 1 = i + 2 /\ l + 1 = k + (i + 2) /\ l + 1 \in 1 .. n
    BY <1>1, <1>2, <2>1, <2>3, <2>4
  <2>6. PICK t : t = Tail(ts[l + 1])
    OBVIOUS
  <2>7. t \in Seq(Heads)
    <3>1. ts[l + 1] \in Seq(Heads) /\ ts[l + 1] # << >>
      BY <1>1, <2>5 DEF Trails, Trail
    <3>2. QED
      BY <2>6, <3>1
  <2>8. p[l + 1] = p[l] \o t
    BY <1>1, <2>5, <2>6 DEF Joins
  <2>9. us[j + 1] = ts[l + 1]
    <3>1. us[j + 1] = ts[k + (j + 1)]
      BY <1>3, <2>5
    <3>2. QED
      BY <2>5, <3>1
  <2>10. q[j + 1] = q[j] \o t /\ q[j] \in Seq(Heads)
    BY <1>5, <2>5, <2>6, <2>9 DEF Joins
  <2>11. (f \o q[j]) \o t = f \o (q[j] \o t)
    <3>1. PICK c \in Seq(Heads) : c = q[j]
      BY <2>10
    <3>2. (f \o c) \o t = f \o (c \o t)
      BY <1>8, <2>7, ConcatAssociative
    <3>3. QED
      BY <3>1, <3>2
  <2>12. p[l] = f \o q[j]
    <3>1. l = k + (i + 1) /\ j = i + 1
      BY <2>3, <2>4
    <3>2. QED
      BY <2>2, <3>1, Zenon
  <2>13. p[l + 1] = f \o q[j + 1]
    BY <2>8, <2>10, <2>11, <2>12
  <2>14. QED
    BY <2>5, <2>13
<1> HIDE DEF S
<1>13. m - 1 \in S
  <2>1. \A i \in Nat : i \in S
    BY <1>11, <1>12, SetInduction
  <2>2. m - 1 \in Nat
    BY <1>2
  <2>3. QED
    BY <2>1, <2>2
<1>14. p[n] = f \o q[m]
  <2>1. (m - 1) + 1 = m /\ k + m = n
    BY <1>1, <1>2
  <2>2. p[k + ((m - 1) + 1)] = f \o q[(m - 1) + 1]
    BY <1>2, <1>13, <2>1 DEF S
  <2>3. QED
    BY <2>1, <2>2
<1>15. QED
  BY <1>0, <1>1, <1>3, <1>4, <1>5, <1>6, <1>7, <1>8, <1>9, <1>14

(* Points of the path are points of trails.                                *)
OnTrails(ts, k, h) == \E i \in 1 .. k : \E l \in 1 .. Len(ts[i]) : h = ts[i][l]

LEMMA PointsAreOnTrails ==
  ASSUME NEW ts \in Trails, NEW n \in Nat, n = Len(ts), NEW p, Joins(ts, p, n)
  PROVE  \A k \in 1 .. n : \A j \in 1 .. Len(p[k]) : OnTrails(ts, k, p[k][j])
<1> DEFINE S == {i \in Nat : i + 1 <= n =>
                   \A j \in 1 .. Len(p[i + 1]) : OnTrails(ts, i + 1, p[i + 1][j])}
<1>1. 0 \in S
  <2>1. SUFFICES ASSUME 1 <= n, NEW j \in 1 .. Len(p[1])
                 PROVE  OnTrails(ts, 1, p[1][j])
    OBVIOUS
  <2>2. p[1] = ts[1]
    BY DEF Joins
  <2>3. QED
    BY <2>2 DEF OnTrails
<1>2. ASSUME NEW i \in Nat, i \in S
      PROVE  i + 1 \in S
  <2>1. PICK k \in Nat : k = i + 1
    OBVIOUS
  <2>2. SUFFICES ASSUME k + 1 <= n, NEW j \in 1 .. Len(p[k + 1])
                 PROVE  OnTrails(ts, k + 1, p[k + 1][j])
    BY <2>1
  <2>3. k \in 1 .. n - 1 /\ k \in 1 .. n /\ k + 1 \in 1 .. n
    BY <2>1, <2>2
  <2>4. PICK a \in Seq(Heads) : a = p[k]
    BY <2>3 DEF Joins
  <2>5. PICK u : u = ts[k + 1]
    OBVIOUS
  <2>6. u \in Seq(Heads) /\ u # << >>
    BY <2>3, <2>5 DEF Trails, Trail
  <2>7. p[k + 1] = a \o Tail(u)
    BY <2>3, <2>4, <2>5 DEF Joins
  <2>8. PICK t : t = Tail(u)
    OBVIOUS
  <2>9. /\ t \in Seq(Heads) /\ Len(t) = Len(u) - 1
        /\ \A l \in 1 .. Len(t) : t[l] = u[l + 1]
    BY <2>6, <2>8, HeadTailProperties
  <2>10. PICK q : q = p[k + 1]
    OBVIOUS
  <2>11. /\ Len(q) = Len(a) + Len(t)
         /\ \A l \in 1 .. Len(a) + Len(t) :
              q[l] = IF l <= Len(a) THEN a[l] ELSE t[l - Len(a)]
    BY <2>7, <2>8, <2>9, <2>10, ConcatProperties
  <2>12. Len(a) \in Nat /\ Len(t) \in Nat /\ Len(u) \in Nat /\ j \in 1 .. Len(q)
    BY <2>4, <2>6, <2>9, <2>10
  <2>13. CASE j <= Len(a)
    <3>1. q[j] = a[j] /\ j \in 1 .. Len(a)
      BY <2>11, <2>12, <2>13
    <3>2. OnTrails(ts, k, a[j])
      <4>1. \A l \in 1 .. Len(p[k]) : OnTrails(ts, k, p[k][l])
        BY <1>2, <2>1, <2>2
      <4>2. QED
        BY <2>4, <3>1, <4>1
    <3>3. PICK x \in 1 .. k : \E l \in 1 .. Len(ts[x]) : a[j] = ts[x][l]
      BY <3>2 DEF OnTrails
    <3>4. x \in 1 .. k + 1
      OBVIOUS
    <3>5. QED
      BY <2>10, <3>1, <3>3, <3>4 DEF OnTrails
  <2>14. CASE ~ (j <= Len(a))
    <3>1. PICK l \in 1 .. Len(t) : l = j - Len(a)
      BY <2>11, <2>12, <2>14
    <3>2. q[j] = t[l]
      BY <2>11, <2>12, <2>14, <3>1
    <3>3. t[l] = u[l + 1] /\ l + 1 \in 1 .. Len(u)
      BY <2>9, <2>12
    <3>4. QED
      BY <2>3, <2>5, <2>10, <3>2, <3>3 DEF OnTrails
  <2>15. QED
    BY <2>13, <2>14
<1> HIDE DEF S
<1>3. \A i \in Nat : i \in S
  BY <1>1, <1>2, SetInduction
<1>4. SUFFICES ASSUME NEW k \in 1 .. n, NEW j \in 1 .. Len(p[k])
               PROVE  OnTrails(ts, k, p[k][j])
  OBVIOUS
<1>5. PICK i \in Nat : i + 1 = k
  <2>1. k - 1 \in Nat /\ (k - 1) + 1 = k
    OBVIOUS
  <2>2. QED
    BY <2>1
<1>6. i + 1 <= n => \A l \in 1 .. Len(p[i + 1]) : OnTrails(ts, i + 1, p[i + 1][l])
  BY <1>3 DEF S
<1>7. QED
  BY <1>5, <1>6

LEMMA WithoutIs ==
  ASSUME NEW S, NEW q \in Seq(S), NEW k \in 0 .. Len(q)
  PROVE  /\ Without(q, k) \in Seq(S)
         /\ Len(Without(q, k)) = Len(q) - k
         /\ \A i \in 1 .. Len(q) - k : Without(q, k)[i] = q[k + i]
  BY DEF Without

(* All segments but the first k.                                           *)
LEMMA LayoutEnds ==
  ASSUME NEW ts, NEW hs, NEW bs, Layout(ts, hs, bs), Fitted(ts, hs),
         NEW k \in 0 .. Len(ts) - 1
  PROVE  /\ Layout(Without(ts, k), Without(hs, k), Without(bs, k))
         /\ Fitted(Without(ts, k), Without(hs, k))
<1>0. PICK us, gs, cs : /\ us = Without(ts, k) /\ gs = Without(hs, k)
                        /\ cs = Without(bs, k)
  OBVIOUS
<1>1. PICK n \in Nat : n = Len(ts)
  BY DEF Layout, Trails
<1>2. PICK m \in Nat : m = n - k /\ m >= 1
  <2>1. k \in 0 .. n - 1
    BY <1>1
  <2>2. n - k \in Nat /\ n - k >= 1
    BY <2>1
  <2>3. QED
    BY <2>2
<1>3. PICK X : X = Int \X Int
  OBVIOUS
<1>4. /\ ts \in Seq(Trail) /\ hs \in Seq(Heads) /\ bs \in Seq(X)
      /\ Len(hs) = n + 1 /\ Len(bs) = n
  BY <1>1, <1>3 DEF Layout, Trails, Handled, Boxed
<1>5. k \in 0 .. Len(ts) /\ k \in 0 .. Len(hs) /\ k \in 0 .. Len(bs)
  BY <1>1, <1>4
<1>6. /\ us \in Seq(Trail) /\ Len(us) = m
      /\ \A i \in 1 .. m : us[i] = ts[k + i]
  <2>1. Len(ts) - k = m
    BY <1>1, <1>2
  <2>2. QED
    BY <1>0, <1>4, <1>5, <2>1, WithoutIs
<1>7. /\ gs \in Seq(Heads) /\ Len(gs) = m + 1
      /\ \A i \in 1 .. m + 1 : gs[i] = hs[k + i]
  <2>1. Len(hs) - k = m + 1
    BY <1>2, <1>4
  <2>2. QED
    BY <1>0, <1>4, <1>5, <2>1, WithoutIs
<1>8. /\ cs \in Seq(X) /\ Len(cs) = m
      /\ \A i \in 1 .. m : cs[i] = bs[k + i]
  <2>1. Len(bs) - k = m
    BY <1>2, <1>4
  <2>2. QED
    BY <1>0, <1>4, <1>5, <2>1, WithoutIs
<1>9. us \in Trails /\ us # << >>
  <2>1. Len(us) # 0
    BY <1>2, <1>6
  <2>2. us # << >>
    BY <2>1
  <2>3. QED
    BY <1>6, <2>2 DEF Trails
<1>10. ASSUME NEW i \in 1 .. m - 1
       PROVE  Len(us[i]) >= 2 /\ us[i][Len(us[i])] = us[i + 1][1]
  <2>1. PICK l \in 1 .. n - 1 : l = k + i
    BY <1>2
  <2>2. Len(ts[l]) >= 2 /\ ts[l][Len(ts[l])] = ts[l + 1][1]
    BY <1>1 DEF Layout, Chained
  <2>3. i \in 1 .. m /\ i + 1 \in 1 .. m /\ k + (i + 1) = l + 1
    BY <1>2, <2>1
  <2>4. us[i] = ts[l] /\ us[i + 1] = ts[l + 1]
    BY <1>6, <2>1, <2>3
  <2>5. QED
    BY <2>2, <2>4
<1>11. ASSUME NEW i \in 1 .. m
       PROVE  gs[i] = us[i][1] /\ Covers(cs[i], us[i])
  <2>1. PICK l \in 1 .. n : l = k + i
    BY <1>2
  <2>2. hs[l] = ts[l][1] /\ Covers(bs[l], ts[l])
    BY <1>1 DEF Layout, Handled, Boxed
  <2>3. i \in 1 .. m + 1
    OBVIOUS
  <2>4. gs[i] = hs[l] /\ us[i] = ts[l] /\ cs[i] = bs[l]
    BY <1>6, <1>7, <1>8, <2>1, <2>3
  <2>5. QED
    BY <2>2, <2>4
<1>12. Chained(us) /\ Handled(us, gs) /\ Boxed(us, cs)
  BY <1>6, <1>7, <1>8, <1>10, <1>11 DEF Chained, Handled, Boxed
<1>13. Layout(us, gs, cs)
  BY <1>3, <1>7, <1>8, <1>9, <1>12 DEF Layout
<1>14. Fitted(us, gs)
  <2>1. m \in 1 .. m /\ m + 1 \in 1 .. m + 1 /\ k + m = n /\ k + (m + 1) = n + 1
    BY <1>2
  <2>2. us[m] = ts[n] /\ gs[m + 1] = hs[n + 1]
    BY <1>6, <1>7, <2>1
  <2>3. hs[n + 1] = ts[n][Len(ts[n])]
    BY <1>1, <1>4 DEF Fitted, Last
  <2>4. QED
    BY <1>6, <1>7, <2>2, <2>3 DEF Fitted, Last
<1>15. QED
  BY <1>0, <1>13, <1>14

(* How many segments snake_remove_stale_segments_with_rollback_constraint()*)
(* removes of "stale": up to the first that could hold the head.           *)
Removable(bs, ack, stale, k) == /\ k \in 0 .. stale
                                /\ \A i \in 1 .. k : ~ InBox(bs[i], ack)
                                /\ k < stale => InBox(bs[k + 1], ack)

LEMMA RemovableExists ==
  ASSUME NEW bs, NEW ack, NEW stale \in Nat
  PROVE  \E k \in 0 .. stale : Removable(bs, ack, stale, k)
<1> DEFINE T == {i \in Nat : i < stale /\ InBox(bs[i + 1], ack)}
<1>1. CASE T = {}
  <2>1. ASSUME NEW i \in 1 .. stale
        PROVE  ~ InBox(bs[i], ack)
    <3>1. PICK l \in Nat : l + 1 = i /\ l < stale
      <4>1. i - 1 \in Nat /\ (i - 1) + 1 = i /\ i - 1 < stale
        OBVIOUS
      <4>2. QED
        BY <4>1
    <3>2. l \notin T
      BY <1>1
    <3>3. QED
      BY <3>1, <3>2
  <2>2. Removable(bs, ack, stale, stale)
    BY <2>1 DEF Removable
  <2>3. QED
    BY <2>2
<1>2. CASE T # {}
  <2>1. PICK k \in T : \A y \in T : k <= y
    <3>1. T \in SUBSET Nat
      OBVIOUS
    <3> HIDE DEF T
    <3>2. QED
      BY <1>2, <3>1, P!LeastElement, PathAssumption
  <2>2. k \in Nat /\ k < stale /\ InBox(bs[k + 1], ack)
    OBVIOUS
  <2>3. ASSUME NEW i \in 1 .. k
        PROVE  ~ InBox(bs[i], ack)
    <3>1. PICK l \in Nat : l + 1 = i /\ l < k
      <4>1. i - 1 \in Nat /\ (i - 1) + 1 = i /\ i - 1 < k
        BY <2>2
      <4>2. QED
        BY <4>1
    <3>2. l \notin T
      BY <2>1, <2>2, <3>1
    <3>3. QED
      BY <2>2, <3>1, <3>2
  <2>4. Removable(bs, ack, stale, k)
    BY <2>2, <2>3 DEF Removable
  <2>5. QED
    BY <2>2, <2>4
<1>3. QED
  BY <1>1, <1>2

(* Removal takes the beginning of the path, and no point the confirmed     *)
(* head is at: the box that is compared with it covers the trail.          *)
LEMMA RemoveStaleKeeps ==
  ASSUME NEW b, NEW path \in Seq(Heads), IsFittedBody(b, path),
         NEW stale \in 0 .. Len(b.handles) - 2, NEW ack
  PROVE  \E drop \in 0 .. Len(path) :
           /\ \A i \in 1 .. drop : path[i] # ack
           /\ IsFittedBody(RemoveStale(b, ack, stale), Without(path, drop))
<1>1. PICK ts, hs, bs : /\ b = Snake3(ts, hs, bs)
                        /\ Layout(ts, hs, bs) /\ Fitted(ts, hs)
                        /\ path = Joined(ts)
  BY DEF IsFittedBody
<1>2. b.trails = ts /\ b.handles = hs /\ b.boxes = bs
  BY <1>1 DEF Snake3
<1>3. PICK n \in Nat : n = Len(ts) /\ n >= 1
  <2>1. ts \in Seq(Trail) /\ ts # << >>
    BY <1>1 DEF Layout, Trails
  <2>2. Len(ts) \in Nat /\ Len(ts) >= 1
    BY <2>1
  <2>3. QED
    BY <2>2
<1>4. stale \in Nat /\ stale <= n - 1
  <2>1. Len(hs) = n + 1
    BY <1>1, <1>3 DEF Layout, Handled
  <2>2. QED
    BY <1>2, <1>3, <2>1
<1>5. PICK k : k = CHOOSE j \in 0 .. stale :
                     /\ \A i \in 1 .. j : ~ InBox(b.boxes[i], ack)
                     /\ j < stale => InBox(b.boxes[j + 1], ack)
  OBVIOUS
<1>6. k \in 0 .. stale /\ \A i \in 1 .. k : ~ InBox(bs[i], ack)
  <2>1. \E j \in 0 .. stale : /\ \A i \in 1 .. j : ~ InBox(b.boxes[i], ack)
                              /\ j < stale => InBox(b.boxes[j + 1], ack)
    BY <1>2, <1>4, RemovableExists DEF Removable
  <2>2. QED
    BY <1>2, <1>5, <2>1
<1>7. PICK us, gs, cs : /\ us = Without(ts, k) /\ gs = Without(hs, k)
                        /\ cs = Without(bs, k)
  OBVIOUS
<1>8. RemoveStale(b, ack, stale) = Snake3(us, gs, cs)
  BY <1>2, <1>5, <1>7 DEF RemoveStale, Snake3, Without
<1>9. k \in 0 .. Len(ts) - 1
  BY <1>3, <1>4, <1>6
<1>10. Layout(us, gs, cs) /\ Fitted(us, gs)
  BY <1>1, <1>7, <1>9, LayoutEnds
<1>11. CASE k = 0
  <2>1. us = ts
    <3>1. ts \in Seq(Trail)
      BY <1>1 DEF Layout, Trails
    <3>2. SubSeq(ts, 1, Len(ts)) = ts
      BY <3>1, SubSeqFull
    <3>3. 0 + 1 = 1
      OBVIOUS
    <3>4. QED
      BY <1>7, <1>11, <3>2, <3>3 DEF Without
  <2>2. Without(path, 0) = path
    <3>1. SubSeq(path, 1, Len(path)) = path
      BY SubSeqFull
    <3>2. QED
      BY <3>1 DEF Without
  <2>3. 0 \in 0 .. Len(path)
    OBVIOUS
  <2>4. IsFittedBody(RemoveStale(b, ack, stale), path)
    BY <1>1, <1>8, <1>10, <2>1 DEF IsFittedBody
  <2>5. QED
    BY <2>2, <2>3, <2>4
<1>12. CASE k # 0
  <2>1. k \in 1 .. Len(ts) - 1 /\ k \in 1 .. n
    BY <1>3, <1>9, <1>12
  <2>2. ts \in Trails /\ ts # << >> /\ Chained(ts)
    BY <1>1 DEF Layout
  <2>3. PICK p : Joins(ts, p, Len(ts)) /\ Joined(ts) = p[Len(ts)]
    BY <2>2, JoinedIs
  <2>4. PICK f : f = Front(p[k])
    OBVIOUS
  <2>5. /\ us \in Trails /\ us # << >>
        /\ p[k] \in Seq(Heads) /\ p[k] # << >>
        /\ f \in Seq(Heads) /\ path = f \o Joined(us)
    BY <1>1, <1>7, <2>1, <2>2, <2>3, <2>4, JoinedRest
  <2>6. PICK j \in Seq(Heads) : j = Joined(us)
    BY <2>5, JoinedType
  <2>7. PICK a \in Seq(Heads) : a = p[k] /\ a # << >>
    BY <2>5
  <2>8. Len(f) \in Nat /\ Len(f) = Len(a) - 1 /\ \A i \in 1 .. Len(f) : f[i] = a[i]
    BY <2>4, <2>7 DEF Front
  <2>9. /\ Len(path) = Len(f) + Len(j)
        /\ \A i \in 1 .. Len(f) + Len(j) :
             path[i] = IF i <= Len(f) THEN f[i] ELSE j[i - Len(f)]
    BY <2>5, <2>6, ConcatProperties
  <2>10. ASSUME NEW point \in 1 .. Len(f), path[point] = ack
         PROVE  FALSE
    <3>1. path[point] = f[point]
      <4>1. point \in 1 .. Len(f) + Len(j) /\ point <= Len(f)
        BY <2>6, <2>8
      <4>2. QED
        BY <2>9, <4>1
    <3>2. point \in 1 .. Len(a) /\ f[point] = a[point]
      BY <2>7, <2>8
    <3>3. OnTrails(ts, k, ack)
      <4>1. \A i \in 1 .. Len(p[k]) : OnTrails(ts, k, p[k][i])
        BY <1>3, <2>1, <2>2, <2>3, PointsAreOnTrails
      <4>2. QED
        BY <2>7, <2>10, <3>1, <3>2, <4>1
    <3>4. PICK i \in 1 .. k : \E l \in 1 .. Len(ts[i]) : ack = ts[i][l]
      BY <3>3 DEF OnTrails
    <3>5. Covers(bs[i], ts[i])
      BY <1>1, <1>3, <2>1 DEF Layout, Boxed
    <3>6. InBox(bs[i], ack)
      BY <3>4, <3>5 DEF Covers
    <3>7. QED
      BY <1>6, <3>6
  <2>11. Without(path, Len(f)) = j
    <3>1. PICK r : r = Without(path, Len(f))
      OBVIOUS
    <3>2. Len(f) \in 0 .. Len(path) /\ Len(j) \in Nat
      BY <2>6, <2>8, <2>9
    <3>3. /\ r \in Seq(Heads) /\ Len(r) = Len(path) - Len(f)
          /\ \A i \in 1 .. Len(path) - Len(f) : r[i] = path[Len(f) + i]
      BY <3>1, <3>2, WithoutIs
    <3>4. Len(r) = Len(j)
      BY <2>8, <2>9, <3>2, <3>3
    <3>5. ASSUME NEW i \in 1 .. Len(r)
          PROVE  r[i] = j[i]
      <4>1. PICK l : l = Len(f) + i
        OBVIOUS
      <4>2. /\ l \in 1 .. Len(f) + Len(j) /\ ~ (l <= Len(f)) /\ l - Len(f) = i
            /\ i \in 1 .. Len(path) - Len(f)
        BY <2>8, <2>9, <3>2, <3>3, <3>4, <4>1
      <4>3. path[l] = j[l - Len(f)]
        BY <2>9, <4>2
      <4>4. QED
        BY <3>3, <4>1, <4>2, <4>3
    <3>6. r = j
      BY <2>6, <3>3, <3>4, <3>5, SeqEqual
    <3>7. QED
      BY <3>1, <3>6
  <2>12. IsFittedBody(RemoveStale(b, ack, stale), j)
    BY <1>8, <1>10, <2>6 DEF IsFittedBody
  <2>13. Len(f) \in 0 .. Len(path)
    BY <2>6, <2>8, <2>9
  <2>14. QED
    BY <2>10, <2>11, <2>12, <2>13
<1>13. QED
  BY <1>11, <1>12, <1>6

-----------------------------------------------------------------------------
(* The queue of unconfirmed commands.                                      *)

LEMMA PlusIs ==
  ASSUME NEW a \in Frames, NEW i \in 0 .. M
  PROVE  /\ Plus(a, i) \in Frames
         /\ \A j \in 0 .. M : i + j <= M => Plus(Plus(a, i), j) = Plus(a, i + j)
  BY HAssumption, SMT DEF Plus, Frames, M

(* A frame that is not older than the queue's first and older than the one *)
(* after its last is the frame of one of its commands.                     *)
LEMMA WithinQueue ==
  ASSUME NEW a \in Frames, NEW n \in Nat, n < H, NEW f \in Frames,
         ge_wrap(f, a), le_wrap(f, Plus(a, n)), f # Plus(a, n)
  PROVE  /\ Ahead(f, a) \in Nat /\ Ahead(f, a) < n
         /\ f = Plus(a, Ahead(f, a))
         /\ Ahead(Plus(a, n), f) = n - Ahead(f, a)
  BY HAssumption, SMT DEF ge_wrap, le_wrap, gt_wrap, Plus, Ahead, Frames, M

(* The loop of cmd_queue_take_or_predict(), asked for the oldest command,  *)
(* takes that one.                                                         *)
LEMMA TakesOldest ==
  ASSUME NEW q \in CmdQueues, q.cmds # << >>
  PROVE  TakeOrPredict(q, q.first) = [first |-> Plus(q.first, 1),
                                      cmds  |-> SubSeq(q.cmds, 2, Len(q.cmds)),
                                      last  |-> q.cmds[1]]
<1>1. Ahead(q.first, q.first) = 0 /\ ~ lt_wrap(q.first, q.first)
  <2>1. q.first \in Nat
    BY HAssumption DEF CmdQueues, Frames, M
  <2>2. Ahead(q.first, q.first) = 0
    BY <2>1 DEF Ahead
  <2>3. ge_wrap(q.first, q.first)
    BY <2>1, HAssumption DEF ge_wrap
  <2>4. QED
    BY <2>2, <2>3 DEF lt_wrap
<1>2. q.cmds \in Seq(Cmd)
  BY DEF CmdQueues
<1>3. 0 < Len(q.cmds)
  BY <1>2
<1>4. Taken(q, q.first) = 1
  BY <1>1, <1>3 DEF Taken
<1>5. QED
  BY <1>4 DEF TakeOrPredict

(* The commands not confirmed are those of the frames up to the current    *)
(* one.                                                                    *)
Pending == /\ cmdq \in CmdQueues
           /\ Len(cmdq.cmds) <= MaxPending
           /\ frame \in Frames
           /\ cmdq.cmds # << >> => frame_end(cmdq) = frame

IInv == /\ IsFittedBody(body, Joined(body.trails))
        /\ Pending
        /\ P!IInv

(* The queue without its first i commands.                                 *)
Queue(i) == [first |-> Plus(cmdq.first, i),
             cmds  |-> SubSeq(cmdq.cmds, i + 1, Len(cmdq.cmds)),
             last  |-> IF i = 0 THEN cmdq.last ELSE cmdq.cmds[i]]

LEMMA QueueType ==
  ASSUME Pending, NEW i \in 0 .. Len(cmdq.cmds)
  PROVE  /\ Queue(i) \in CmdQueues
         /\ Queue(i).first = Plus(cmdq.first, i)
         /\ Queue(i).cmds = SubSeq(cmdq.cmds, i + 1, Len(cmdq.cmds))
         /\ Len(Queue(i).cmds) = Len(cmdq.cmds) - i
         /\ frame_end(Queue(i)) = frame_end(cmdq)
<1>1. PICK cs \in Seq(Cmd) : cs = cmdq.cmds
  BY DEF Pending, CmdQueues
<1>2. PICK n \in Nat : n = Len(cs)
  BY <1>1
<1>3. i \in Nat /\ i <= n /\ n < H /\ n <= M
  BY <1>1, <1>2, SnakeAssumption, HAssumption DEF Pending, M
<1>4. /\ cmdq.first \in Frames /\ cmdq.last \in Cmd
      /\ Plus(cmdq.first, i) \in Frames
      /\ Plus(Plus(cmdq.first, i), n - i) = Plus(cmdq.first, n)
  <2>1. cmdq.first \in Frames /\ cmdq.last \in Cmd
    BY DEF Pending, CmdQueues
  <2>2. i \in 0 .. M /\ n - i \in 0 .. M /\ i + (n - i) = n
    BY <1>3, HAssumption DEF M
  <2>3. PICK j \in 0 .. M : j = n - i /\ i + j = n
    BY <2>2
  <2>4. Plus(Plus(cmdq.first, i), j) = Plus(cmdq.first, i + j)
    <3>1. i + j <= M
      BY <1>3, <2>3
    <3>2. QED
      BY <2>1, <2>2, <3>1, PlusIs
  <2>5. QED
    BY <2>1, <2>2, <2>3, <2>4, PlusIs
<1>5. PICK rest : rest = SubSeq(cs, i + 1, n)
  OBVIOUS
<1>6. rest \in Seq(Cmd) /\ Len(rest) = n - i
  BY <1>2, <1>3, <1>5
<1>7. (IF i = 0 THEN cmdq.last ELSE cmdq.cmds[i]) \in Cmd
  BY <1>1, <1>2, <1>3, <1>4
<1>8. Queue(i) = [first |-> Plus(cmdq.first, i), cmds |-> rest,
                  last |-> IF i = 0 THEN cmdq.last ELSE cmdq.cmds[i]]
  BY <1>1, <1>2, <1>5 DEF Queue
<1>9. Queue(i) \in CmdQueues
  BY <1>4, <1>6, <1>7, <1>8 DEF CmdQueues
<1>10. Queue(i).first = Plus(cmdq.first, i) /\ Queue(i).cmds = rest
  BY <1>8
<1>11. frame_end(Queue(i)) = Plus(Plus(cmdq.first, i), n - i)
  BY <1>6, <1>10 DEF frame_end
<1>12. frame_end(cmdq) = Plus(cmdq.first, n)
  BY <1>1, <1>2 DEF frame_end
<1>13. QED
  BY <1>1, <1>2, <1>4, <1>5, <1>6, <1>9, <1>10, <1>11, <1>12

(* Taking the command of the next frame.                                   *)
LEMMA QueueTakes ==
  ASSUME Pending, NEW i \in 0 .. Len(cmdq.cmds) - 1
  PROVE  /\ TakeOrPredict(Queue(i), Plus(frame_begin(cmdq), i)) = Queue(i + 1)
         /\ Queue(i + 1).last = cmdq.cmds[i + 1]
<1>1. PICK cs \in Seq(Cmd) : cs = cmdq.cmds
  BY DEF Pending, CmdQueues
<1>2. PICK n \in Nat : n = Len(cs)
  BY <1>1
<1>3. i \in Nat /\ i + 1 <= n /\ n < H /\ i \in 0 .. Len(cmdq.cmds)
  <2>1. i \in 0 .. n - 1
    BY <1>1, <1>2
  <2>2. i \in 0 .. n /\ i \in Nat /\ i + 1 <= n
    BY <2>1
  <2>3. n <= MaxPending /\ MaxPending \in Nat /\ MaxPending < H
    BY <1>1, <1>2, SnakeAssumption DEF Pending
  <2>4. n < H
    BY <2>3, HAssumption
  <2>5. QED
    BY <1>1, <1>2, <2>2, <2>4
<1>4. PICK q : q = Queue(i)
  OBVIOUS
<1>5. /\ q \in CmdQueues /\ q.first = Plus(cmdq.first, i)
      /\ q.cmds = SubSeq(cs, i + 1, n) /\ Len(q.cmds) = n - i
  BY <1>1, <1>2, <1>3, <1>4, QueueType
<1>6. q.cmds # << >>
  <2>1. Len(q.cmds) # 0
    BY <1>3, <1>5
  <2>2. QED
    BY <2>1
<1>7. TakeOrPredict(q, q.first) = [first |-> Plus(q.first, 1),
                                   cmds  |-> SubSeq(q.cmds, 2, Len(q.cmds)),
                                   last  |-> q.cmds[1]]
  BY <1>5, <1>6, TakesOldest
<1>8. Plus(q.first, 1) = Plus(cmdq.first, i + 1)
  <2>1. i \in 0 .. M /\ 1 \in 0 .. M /\ i + 1 <= M
    BY <1>3, HAssumption DEF M
  <2>2. cmdq.first \in Frames
    BY DEF Pending, CmdQueues
  <2>3. QED
    BY <1>5, <2>1, <2>2, PlusIs
<1>9. SubSeq(q.cmds, 2, Len(q.cmds)) = SubSeq(cs, (i + 1) + 1, n)
  <2>1. PICK a : a = SubSeq(q.cmds, 2, Len(q.cmds))
    OBVIOUS
  <2>2. PICK c : c = SubSeq(cs, (i + 1) + 1, n)
    OBVIOUS
  <2>3. PICK k \in Nat : k = n - i /\ k >= 1
    <3>1. n - i \in Nat /\ n - i >= 1
      BY <1>3
    <3>2. QED
      BY <3>1
  <2>4. PICK r \in Seq(Cmd) : r = q.cmds /\ Len(r) = k
    BY <1>5, <2>3 DEF CmdQueues
  <2>5. \A j \in 1 .. k : r[j] = cs[i + j]
    BY <1>2, <1>3, <1>5, <2>3, <2>4
  <2>6. a \in Seq(Cmd) /\ Len(a) = k - 1 /\ \A j \in 1 .. k - 1 : a[j] = r[j + 1]
    BY <2>1, <2>3, <2>4
  <2>7. /\ c \in Seq(Cmd) /\ Len(c) = k - 1
        /\ \A j \in 1 .. k - 1 : c[j] = cs[i + (j + 1)]
    <3>1. PICK l \in Nat : l = i + 1 /\ l <= n /\ k - 1 = n - l
      <4>1. i + 1 \in Nat /\ i + 1 <= n /\ k - 1 = n - (i + 1)
        BY <1>3, <2>3
      <4>2. QED
        BY <4>1
    <3>2. c = SubSeq(cs, l + 1, n)
      BY <2>2, <3>1
    <3>3. /\ c \in Seq(Cmd) /\ Len(c) = n - l
          /\ \A j \in 1 .. n - l : c[j] = cs[l + j]
      BY <1>2, <1>3, <3>1, <3>2
    <3>4. \A j \in Nat : l + j = i + (j + 1)
      BY <3>1
    <3>5. QED
      BY <3>1, <3>3, <3>4
  <2>8. ASSUME NEW j \in 1 .. k - 1
        PROVE  a[j] = c[j]
    <3>1. j + 1 \in 1 .. k
      BY <2>3
    <3>2. QED
      BY <2>5, <2>6, <2>7, <3>1
  <2>9. a = c
    <3>1. Len(a) = Len(c) /\ \A j \in 1 .. Len(a) : a[j] = c[j]
      BY <2>6, <2>7, <2>8
    <3>2. QED
      BY <2>6, <2>7, <3>1, SeqEqual
  <2>10. QED
    BY <2>1, <2>2, <2>9
<1>10. q.cmds[1] = cs[i + 1]
  BY <1>2, <1>3, <1>5
<1>11. Queue(i + 1) = [first |-> Plus(cmdq.first, i + 1),
                       cmds  |-> SubSeq(cs, (i + 1) + 1, n),
                       last  |-> cs[i + 1]]
  <2>1. i + 1 # 0
    BY <1>3
  <2>2. QED
    BY <1>1, <1>2, <2>1 DEF Queue
<1>12. TakeOrPredict(q, q.first) = Queue(i + 1)
  BY <1>7, <1>8, <1>9, <1>10, <1>11
<1>13. q.first = Plus(frame_begin(cmdq), i)
  BY <1>5 DEF frame_begin
<1>14. QED
  BY <1>1, <1>4, <1>11, <1>12, <1>13

-----------------------------------------------------------------------------
(* A message of the server.                                                *)

(* The path of the trails, and where the confirmed head is on it.          *)
Drawn == Joined(body.trails)

Confirmed == Len(Drawn) - Len(cmdq.cmds)

LEMMA OnPath ==
  ASSUME IInv
  PROVE  /\ Drawn \in Seq(Heads) /\ cmdq.cmds \in Seq(Cmd)
         /\ head \in Heads /\ headAck \in Heads
         /\ Len(Drawn) \in Nat /\ Len(cmdq.cmds) \in Nat
         /\ Len(cmdq.cmds) < Len(Drawn)
         /\ headAck = Drawn[Confirmed]
         /\ \A i \in 1 .. Len(cmdq.cmds) :
              Drawn[Confirmed + i] = Step[Drawn[Confirmed + i - 1]][cmdq.cmds[i]]
<1>1. P!TypeOK /\ P!EnoughPoints /\ P!Linked
  BY DEF IInv, P!IInv
<1>2. Drawn \in Seq(Heads) /\ cmdq.cmds \in Seq(Cmd) /\ head \in Heads /\ headAck \in Heads
  BY <1>1 DEF P!TypeOK, Drawn
<1>3. Len(Drawn) \in Nat /\ Len(cmdq.cmds) \in Nat
  BY <1>2
<1>4. Len(cmdq.cmds) < Len(Drawn)
  BY <1>1, <1>3 DEF P!EnoughPoints, Drawn
<1>5. P!Offset = Confirmed
  BY DEF P!Offset, Drawn, Confirmed
<1>6. headAck = Drawn[Confirmed]
  BY <1>1, <1>5 DEF P!Linked, Drawn
<1>7. \A i \in 1 .. Len(cmdq.cmds) :
         Drawn[Confirmed + i] = Step[Drawn[Confirmed + i - 1]][cmdq.cmds[i]]
  BY <1>1, <1>5 DEF P!Linked, Drawn
<1>8. QED
  BY <1>2, <1>3, <1>4, <1>6, <1>7

(* The confirmed head catches up along the path, taking the commands one   *)
(* after the other.                                                        *)
LEMMA CatchesUp ==
  ASSUME IInv, NEW f \in Frames, Expected(f), f # frame_end(cmdq)
  PROVE  LET m == Ahead(f, frame_begin(cmdq)) + 1
         IN  /\ m \in 1 .. Len(cmdq.cmds)
             /\ Ahead(frame_end(cmdq), f) = Len(cmdq.cmds) - m + 1
             /\ CatchUp(f).cmdq = Queue(m)
             /\ CatchUp(f).ack = Drawn[Confirmed + m]
<1>1. PICK n \in Nat : n = Len(cmdq.cmds)
  BY OnPath
<1>2. Pending /\ n < H
  <2>1. n <= MaxPending /\ MaxPending \in Nat /\ MaxPending < H
    BY <1>1, SnakeAssumption DEF IInv, Pending
  <2>2. QED
    BY <2>1, HAssumption DEF IInv
<1>3. PICK d \in Nat : /\ d = Ahead(f, frame_begin(cmdq)) /\ d < n
                       /\ Ahead(frame_end(cmdq), f) = n - d
  <2>1. cmdq.first \in Frames
    BY <1>2 DEF Pending, CmdQueues
  <2>2. frame_end(cmdq) = Plus(cmdq.first, n)
    BY <1>1 DEF frame_end
  <2>3. /\ ge_wrap(f, cmdq.first) /\ le_wrap(f, Plus(cmdq.first, n))
        /\ f # Plus(cmdq.first, n)
    BY <2>2 DEF Expected, frame_begin
  <2>4. /\ Ahead(f, cmdq.first) \in Nat /\ Ahead(f, cmdq.first) < n
        /\ Ahead(Plus(cmdq.first, n), f) = n - Ahead(f, cmdq.first)
    BY <1>2, <2>1, <2>3, WithinQueue
  <2>5. QED
    BY <2>2, <2>4 DEF frame_begin
<1>4. PICK m \in 1 .. n : m = d + 1
  BY <1>3
<1> DEFINE Unfold(g) ==
             [i \in 0 .. m |->
                IF i = 0 THEN [cmdq |-> cmdq, ack |-> headAck]
                ELSE LET q == TakeOrPredict(g[i - 1].cmdq,
                                            Plus(frame_begin(cmdq), i - 1))
                     IN  [cmdq |-> q, ack |-> Step[g[i - 1].ack][q.last]]]
           At(i) == [cmdq |-> Queue(i), ack |-> Drawn[Confirmed + i]]
<1>5. PICK r : r = CHOOSE g : g = Unfold(g)
  OBVIOUS
<1>6. CatchUp(f) = r[m]
  BY <1>3, <1>4, <1>5 DEF CatchUp
<1>7. At(0) = [cmdq |-> cmdq, ack |-> headAck]
  <2>1. Queue(0) = cmdq
    <3>1. cmdq.first \in Frames /\ cmdq.cmds \in Seq(Cmd)
      BY <1>2 DEF Pending, CmdQueues
    <3>2. Plus(cmdq.first, 0) = cmdq.first
      BY <3>1, HAssumption DEF Plus, Frames, M
    <3>3. SubSeq(cmdq.cmds, 0 + 1, Len(cmdq.cmds)) = cmdq.cmds
      <4>1. SubSeq(cmdq.cmds, 1, Len(cmdq.cmds)) = cmdq.cmds
        BY <3>1, SubSeqFull
      <4>2. QED
        BY <4>1
    <3>4. Queue(0) = [first |-> cmdq.first, cmds |-> cmdq.cmds, last |-> cmdq.last]
      BY <3>2, <3>3 DEF Queue
    <3>5. cmdq = [first |-> cmdq.first, cmds |-> cmdq.cmds, last |-> cmdq.last]
      BY <1>2 DEF Pending, CmdQueues
    <3>6. QED
      BY <3>4, <3>5
  <2>2. Drawn[Confirmed + 0] = headAck
    BY OnPath DEF Confirmed
  <2>3. QED
    BY <2>1, <2>2
<1>8. ASSUME NEW i \in 0 .. m - 1
      PROVE  At(i + 1) = LET q == TakeOrPredict(At(i).cmdq, Plus(frame_begin(cmdq), i))
                         IN  [cmdq |-> q, ack |-> Step[At(i).ack][q.last]]
  <2>1. i \in 0 .. Len(cmdq.cmds) - 1 /\ i + 1 \in 1 .. Len(cmdq.cmds)
    BY <1>1
  <2>2. /\ TakeOrPredict(Queue(i), Plus(frame_begin(cmdq), i)) = Queue(i + 1)
        /\ Queue(i + 1).last = cmdq.cmds[i + 1]
    BY <1>2, <2>1, QueueTakes
  <2>3. Drawn[Confirmed + (i + 1)]
          = Step[Drawn[Confirmed + i]][cmdq.cmds[i + 1]]
    <3>1. Drawn[Confirmed + (i + 1)]
            = Step[Drawn[Confirmed + (i + 1) - 1]][cmdq.cmds[i + 1]]
      BY <2>1, OnPath
    <3>2. Confirmed + (i + 1) - 1 = Confirmed + i
      BY OnPath DEF Confirmed
    <3>3. QED
      BY <3>1, <3>2
  <2>4. At(i).cmdq = Queue(i) /\ At(i).ack = Drawn[Confirmed + i]
    OBVIOUS
  <2> HIDE DEF At
  <2>5. QED
    BY <2>2, <2>3, <2>4 DEF At
<1> HIDE DEF At
<1>9. PICK g : g = [i \in 0 .. m |-> At(i)]
  OBVIOUS
<1>10. g = Unfold(g)
  <2>1. ASSUME NEW i \in 0 .. m, i # 0
        PROVE  g[i] = LET q == TakeOrPredict(g[i - 1].cmdq,
                                             Plus(frame_begin(cmdq), i - 1))
                      IN  [cmdq |-> q, ack |-> Step[g[i - 1].ack][q.last]]
    <3>1. PICK k \in 0 .. m - 1 : i = k + 1 /\ i - 1 = k
      <4>1. i - 1 \in 0 .. m - 1 /\ i = (i - 1) + 1
        BY <2>1
      <4>2. QED
        BY <4>1
    <3>2. g[i] = At(k + 1) /\ g[i - 1] = At(k)
      <4>1. k \in 0 .. m
        OBVIOUS
      <4>2. QED
        BY <1>9, <3>1, <4>1
    <3>3. At(k + 1) = LET q == TakeOrPredict(At(k).cmdq, Plus(frame_begin(cmdq), k))
                      IN  [cmdq |-> q, ack |-> Step[At(k).ack][q.last]]
      BY <1>8
    <3>4. QED
      BY <3>1, <3>2, <3>3
  <2>2. g[0] = [cmdq |-> cmdq, ack |-> headAck]
    BY <1>7, <1>9
  <2>3. \A i \in 0 .. m : g[i] = Unfold(g)[i]
    BY <2>1, <2>2
  <2>4. g = [i \in 0 .. m |-> g[i]]
    BY <1>9
  <2>5. Unfold(g) = [i \in 0 .. m |-> Unfold(g)[i]]
    OBVIOUS
  <2> HIDE DEF Unfold
  <2>6. QED
    BY <2>3, <2>4, <2>5
<1> HIDE DEF Unfold
<1>11. r = Unfold(r)
  BY <1>5, <1>10
<1> DEFINE S == {i \in Nat : i <= m => r[i] = At(i)}
<1>12. 0 \in S
  BY <1>7, <1>11 DEF Unfold
<1>13. ASSUME NEW i \in Nat, i \in S
       PROVE  i + 1 \in S
  <2>1. SUFFICES ASSUME i + 1 <= m
                 PROVE  r[i + 1] = At(i + 1)
    OBVIOUS
  <2>2. PICK k : k = i + 1
    OBVIOUS
  <2>3. i \in 0 .. m - 1 /\ k \in 0 .. m /\ k # 0 /\ k - 1 = i
    BY <2>1, <2>2
  <2>4. r[k] = LET q == TakeOrPredict(r[k - 1].cmdq, Plus(frame_begin(cmdq), k - 1))
               IN  [cmdq |-> q, ack |-> Step[r[k - 1].ack][q.last]]
    BY <1>11, <2>3 DEF Unfold
  <2>5. r[i] = At(i)
    BY <1>13, <2>1
  <2>6. At(i + 1) = LET q == TakeOrPredict(At(i).cmdq, Plus(frame_begin(cmdq), i))
                    IN  [cmdq |-> q, ack |-> Step[At(i).ack][q.last]]
    BY <1>8, <2>3
  <2>7. QED
    BY <2>2, <2>3, <2>4, <2>5, <2>6
<1> HIDE DEF S
<1>14. r[m] = At(m)
  <2>1. \A i \in Nat : i \in S
    BY <1>12, <1>13, SetInduction
  <2>2. m \in S
    BY <2>1
  <2>3. QED
    BY <2>2 DEF S
<1>15. CatchUp(f).cmdq = Queue(m) /\ CatchUp(f).ack = Drawn[Confirmed + m]
  BY <1>6, <1>14 DEF At
<1>16. n - d = n - m + 1
  BY <1>3, <1>4
<1>17. QED
  BY <1>1, <1>3, <1>4, <1>15, <1>16

(* Executing the commands again from the server's head is a run of them.   *)
LEMMA RedoIsRun ==
  ASSUME NEW auth \in Heads, NEW q, q.cmds \in Seq(Cmd)
  PROVE  /\ Redo(auth, q) = P!Run(auth, q.cmds)
         /\ Redo(auth, q) \in Trail
         /\ Len(Redo(auth, q)) = Len(q.cmds) + 1
<1>1. PICK cs \in Seq(Cmd) : cs = q.cmds
  OBVIOUS
<1>2. PICK n \in Nat : n = Len(cs)
  BY <1>1
<1>3. PICK p : p = P!Run(auth, cs)
  OBVIOUS
<1>4. p \in [1 .. n + 1 -> Heads] /\ P!IsRun(p, auth, cs)
  <2>1. /\ P!Run(auth, cs) \in [1 .. Len(cs) + 1 -> Heads]
        /\ P!IsRun(P!Run(auth, cs), auth, cs)
    BY P!RunDetermined, PathAssumption
  <2>2. QED
    BY <1>2, <1>3, <2>1
<1>5. p[1] = auth /\ \A i \in 1 .. n : p[i + 1] = Step[p[i]][cs[i]]
  BY <1>2, <1>4 DEF P!IsRun
<1> DEFINE Unfold(g) == [i \in 0 .. n |->
                           IF i = 0 THEN auth ELSE Step[g[i - 1]][cs[i]]]
<1>6. PICK r : r = CHOOSE g : g = Unfold(g)
  OBVIOUS
<1>7. Redo(auth, q) = [i \in 1 .. n + 1 |-> r[i - 1]]
  BY <1>1, <1>2, <1>6 DEF Redo
<1>8. PICK g : g = [i \in 0 .. n |-> p[i + 1]]
  OBVIOUS
<1>9. g = Unfold(g)
  <2>1. ASSUME NEW i \in 0 .. n, i # 0
        PROVE  g[i] = Step[g[i - 1]][cs[i]]
    <3>1. PICK k \in 0 .. n : k = i - 1 /\ k + 1 = i
      <4>1. i - 1 \in 0 .. n /\ (i - 1) + 1 = i
        BY <2>1
      <4>2. QED
        BY <4>1
    <3>2. i \in 1 .. n
      BY <2>1
    <3>3. p[i + 1] = Step[p[i]][cs[i]]
      BY <1>5, <3>2
    <3>4. g[i] = p[i + 1] /\ g[k] = p[k + 1]
      BY <1>8
    <3>5. QED
      BY <3>1, <3>3, <3>4
  <2>2. g[0] = auth
    BY <1>5, <1>8
  <2>3. g = [i \in 0 .. n |-> g[i]]
    BY <1>8
  <2>4. QED
    BY <2>1, <2>2, <2>3
<1> HIDE DEF Unfold
<1>10. r = Unfold(r)
  BY <1>6, <1>9
<1> DEFINE S == {i \in Nat : i <= n => r[i] = p[i + 1]}
<1>11. 0 \in S
  BY <1>5, <1>10 DEF Unfold
<1>12. ASSUME NEW i \in Nat, i \in S
       PROVE  i + 1 \in S
  <2>1. SUFFICES ASSUME i + 1 <= n
                 PROVE  r[i + 1] = p[(i + 1) + 1]
    OBVIOUS
  <2>2. PICK k : k = i + 1
    OBVIOUS
  <2>3. k \in 0 .. n /\ k \in 1 .. n /\ k # 0 /\ k - 1 = i
    BY <2>1, <2>2
  <2>4. r[k] = Step[r[k - 1]][cs[k]]
    BY <1>10, <2>3 DEF Unfold
  <2>5. r[i] = p[k]
    BY <1>12, <2>1, <2>2
  <2>6. p[k + 1] = Step[p[k]][cs[k]]
    BY <1>5, <2>3
  <2>7. QED
    BY <2>2, <2>3, <2>4, <2>5, <2>6
<1> HIDE DEF S
<1>13. \A i \in Nat : i \in S
  BY <1>11, <1>12, SetInduction
<1>14. ASSUME NEW i \in 1 .. n + 1
       PROVE  r[i - 1] = p[i]
  <2>1. PICK k \in Nat : k = i - 1 /\ k <= n /\ k + 1 = i
    <3>1. i - 1 \in Nat /\ i - 1 <= n /\ (i - 1) + 1 = i
      OBVIOUS
    <3>2. QED
      BY <3>1
  <2>2. r[k] = p[k + 1]
    BY <1>13, <2>1 DEF S
  <2>3. QED
    BY <2>1, <2>2
<1>15. Redo(auth, q) = p
  <2>1. p = [i \in 1 .. n + 1 |-> p[i]]
    BY <1>4
  <2>2. QED
    BY <1>7, <1>14, <2>1
<1>16. p \in Seq(Heads) /\ Len(p) = n + 1
  BY <1>4
<1>17. p \in Trail
  <2>1. Len(p) # 0
    BY <1>16
  <2>2. QED
    BY <1>16, <2>1 DEF Trail
<1>18. QED
  BY <1>1, <1>2, <1>3, <1>15, <1>16, <1>17

-----------------------------------------------------------------------------
(* Every step of the snake is one of the path.                             *)

LEMMA FittedPath ==
  ASSUME NEW b, NEW path, IsFittedBody(b, path)
  PROVE  path = Joined(b.trails) /\ path \in Seq(Heads)
<1>1. PICK ts, hs, bs : /\ b = Snake3(ts, hs, bs)
                        /\ Layout(ts, hs, bs)
                        /\ path = Joined(ts)
  BY DEF IsFittedBody
<1>2. b.trails = ts
  BY <1>1 DEF Snake3
<1>3. QED
  BY <1>1, <1>2, JoinedType DEF Layout

(* The first command of an empty queue.                                    *)
LEMMA PutsFirst ==
  ASSUME NEW q, NEW a, NEW l, q = [first |-> a, cmds |-> << >>, last |-> l],
         NEW c \in Cmd, NEW f
  PROVE  Put(q, c, f) = [first |-> f, cmds |-> Append(<< >>, c), last |-> l]
<1>1. PICK e, cs : e = << >> /\ cs = << c >>
  OBVIOUS
<1>2. [q EXCEPT !.first = f] = [first |-> f, cmds |-> e, last |-> l]
  BY <1>1, SMT
<1>3. [[first |-> f, cmds |-> e, last |-> l] EXCEPT !.cmds = cs]
        = [first |-> f, cmds |-> cs, last |-> l]
  BY SMT
<1>4. [q EXCEPT !.first = f, !.cmds = cs] = [[q EXCEPT !.first = f] EXCEPT !.cmds = cs]
  BY Zenon
<1>5. q.cmds = << >>
  OBVIOUS
<1>6. Put(q, c, f) = [q EXCEPT !.first = f, !.cmds = cs]
  BY <1>1, <1>5, Zenon DEF Put
<1>7. cs = Append(<< >>, c)
  BY <1>1
<1>8. QED
  BY <1>2, <1>3, <1>4, <1>6, <1>7

(* A frame extends the path by the point the head is at, and takes away    *)
(* no more of its beginning than lies before the confirmed head.           *)
LEMMA ClientFrameAdvances ==
  ASSUME IInv, NEW c \in Cmd, ClientFrame(c)
  PROVE  /\ P!Advance(c)
         /\ IsFittedBody(body, Joined(body.trails))'
         /\ Pending'
<1>1. PICK bad \in BOOLEAN :
             LET drawn == Draw(body, head', bad)
             IN  \E stale \in 0 .. Len(drawn.handles) - 2 :
                   body' = RemoveStale(drawn, headAck, stale)
  BY DEF ClientFrame
<1>2. PICK drawn : drawn = Draw(body, head', bad)
  OBVIOUS
<1>3. PICK stale \in 0 .. Len(drawn.handles) - 2 :
             body' = RemoveStale(drawn, headAck, stale)
  BY <1>1, <1>2
<1>4. head' = Step[head][c] /\ head' \in Heads
  BY OnPath, SnakeAssumption DEF ClientFrame
<1>5. PICK h \in Heads : h = head'
  BY <1>4
<1>6. PICK long : long = Append(Drawn, h)
  OBVIOUS
<1>7. /\ long \in Seq(Heads) /\ Len(long) = Len(Drawn) + 1
      /\ \A i \in 1 .. Len(Drawn) : long[i] = Drawn[i]
  BY <1>6, OnPath, AppendProperties
<1>8. IsFittedBody(drawn, long)
  <2>1. IsBody(body, Drawn)
    BY FittedIsBody DEF IInv, Drawn
  <2>2. IsFittedBody(Draw(body, h, bad), Append(Drawn, h))
    BY <2>1, DrawKeeps
  <2>3. QED
    BY <1>2, <1>5, <1>6, <2>2
<1>9. \E d \in 0 .. Len(long) :
        /\ \A i \in 1 .. d : long[i] # headAck
        /\ IsFittedBody(RemoveStale(drawn, headAck, stale), Without(long, d))
  BY <1>7, <1>8, RemoveStaleKeeps
<1>10. PICK drop \in 0 .. Len(long) :
              /\ \A i \in 1 .. drop : long[i] # headAck
              /\ IsFittedBody(body', Without(long, drop))
  BY <1>3, <1>9
<1>11. Joined(body'.trails) = Without(long, drop)
  BY <1>10, FittedPath
<1>12. IsFittedBody(body, Joined(body.trails))'
  BY <1>10, <1>11
<1>13. /\ cmdq' = Put(cmdq, c, frame) /\ Len(cmdq.cmds) < MaxPending
       /\ frame' = Plus(frame, 1)
  BY DEF ClientFrame
<1>14a. PICK a : a = cmdq.first
  OBVIOUS
<1>14b. PICK cs \in Seq(Cmd) : cs = cmdq.cmds
  BY OnPath
<1>14c. PICK n \in Nat : n = Len(cs)
  BY <1>14b
<1>14. a = cmdq.first /\ cs = cmdq.cmds /\ n = Len(cs)
  BY <1>14a, <1>14b, <1>14c
<1>15. /\ a \in Frames /\ cmdq.last \in Cmd /\ frame \in Frames
       /\ cmdq = [first |-> a, cmds |-> cs, last |-> cmdq.last]
       /\ n + 1 < M
  <2>1. /\ a \in Frames /\ cmdq.last \in Cmd /\ frame \in Frames
        /\ cmdq = [first |-> a, cmds |-> cs, last |-> cmdq.last]
    BY <1>14 DEF IInv, Pending, CmdQueues
  <2>2. n < MaxPending /\ MaxPending \in Nat /\ MaxPending < H
    BY <1>13, <1>14, SnakeAssumption
  <2>3. n + 1 < M
    BY <2>2, HAssumption DEF M
  <2>4. QED
    BY <2>1, <2>3
<1>16. PICK b \in Frames : /\ cmdq' = [first |-> b, cmds |-> Append(cs, c), last |-> cmdq.last]
                           /\ Plus(b, n) = frame
  <2>1. CASE cs = << >>
    <3>1. cmdq' = [first |-> frame, cmds |-> Append(cs, c), last |-> cmdq.last]
      BY <1>13, <1>14, <1>15, <2>1, PutsFirst
    <3>2. Plus(frame, n) = frame
      BY <1>14, <1>15, <2>1, HAssumption DEF Plus, Frames, M
    <3>3. QED
      BY <1>15, <3>1, <3>2
  <2>2. CASE cs # << >>
    <3>1. frame_end(cmdq) = frame
      BY <1>14, <2>2 DEF IInv, Pending
    <3>2. cmdq' = [first |-> a, cmds |-> Append(cs, c), last |-> cmdq.last]
      BY <1>13, <1>14, <1>15, <2>2, <3>1 DEF Put
    <3>3. Plus(a, n) = frame
      BY <1>14, <3>1 DEF frame_end
    <3>4. QED
      BY <1>15, <3>2, <3>3
  <2>3. QED
    BY <2>1, <2>2
<1>17. cmdq'.cmds = Append(cs, c)
  BY <1>16
<1>18. Pending'
  <2>1. Append(cs, c) \in Seq(Cmd) /\ Len(Append(cs, c)) = n + 1
    BY <1>14, AppendProperties
  <2>2. frame_end(cmdq)' = frame'
    <3>1. frame_end(cmdq)' = Plus(b, n + 1)
      BY <1>16, <2>1 DEF frame_end
    <3>2. n \in 0 .. M /\ 1 \in 0 .. M /\ n + 1 <= M
      BY <1>15, HAssumption DEF M
    <3>3. Plus(Plus(b, n), 1) = Plus(b, n + 1)
      BY <3>2, PlusIs
    <3>4. QED
      BY <1>13, <1>16, <3>1, <3>3
  <2>3. frame' \in Frames
    <3>1. 1 \in 0 .. M
      BY HAssumption DEF M
    <3>2. QED
      BY <1>13, <1>15, <3>1, PlusIs
  <2>4. cmdq' \in CmdQueues
    BY <1>15, <1>16, <2>1 DEF CmdQueues
  <2>5. Len(cmdq'.cmds) <= MaxPending
    BY <1>13, <1>14, <1>17, <2>1, SnakeAssumption
  <2>6. QED
    BY <2>2, <2>3, <2>4, <2>5 DEF Pending
<1>19. P!Advance(c)
  <2>1. Len(cmdq.cmds) < MaxPending /\ UNCHANGED headAck
    BY DEF ClientFrame
  <2>2. cmdq.cmds' = Append(cmdq.cmds, c)
    BY <1>14, <1>17
  <2>3. Len(Joined(body.trails)') <= MaxPoints
    BY DEF ClientFrame, Points
  <2>4. drop \in 0 .. Len(Drawn) /\ \A i \in 1 .. drop : Drawn[i] # headAck
    <3>1. Confirmed \in 1 .. Len(Drawn) /\ headAck = long[Confirmed]
      <4>1. PICK i : i = Confirmed
        OBVIOUS
      <4>2. i \in 1 .. Len(Drawn)
        BY <4>1, OnPath DEF Confirmed
      <4>3. headAck = Drawn[i]
        BY <4>1, OnPath
      <4>4. QED
        BY <1>7, <4>1, <4>2, <4>3
    <3>2. ~ (Confirmed \in 1 .. drop)
      BY <1>10, <3>1
    <3>3. drop \in Nat /\ drop < Confirmed
      BY <1>10, <3>1, <3>2
    <3>4. QED
      BY <1>7, <1>10, <3>1, <3>3
  <2>5. Joined(body.trails)' = P!Rest(Append(Drawn, head'), drop)
    BY <1>5, <1>6, <1>11 DEF P!Rest, Without
  <2>6. QED
    BY <1>4, <2>1, <2>2, <2>3, <2>4, <2>5 DEF P!Advance, P!MayLeave, Drawn
<1>20. QED
  BY <1>12, <1>18, <1>19

(* Where the confirmed head gets by executing the first m commands.        *)
LEMMA AfterIsOnPath ==
  ASSUME IInv, NEW m \in 1 .. Len(cmdq.cmds)
  PROVE  P!After(headAck, P!First(cmdq.cmds, m)) = Drawn[Confirmed + m]
<1>1. m \in 0 .. Len(cmdq.cmds)
  BY OnPath
<1>2. P!After(headAck, P!First(cmdq.cmds, m)) = Joined(body.trails)[P!Offset + m]
  BY <1>1, P!CatchUp, PathAssumption DEF IInv
<1>3. QED
  BY <1>2 DEF P!Offset, Confirmed, Drawn

(* A head of the server's takes as many commands from the queue as it is   *)
(* ahead of the confirmed one.                                             *)
LEMMA AckTakes ==
  ASSUME IInv, NEW f \in Frames, Expected(f), f # frame_end(cmdq),
         cmdq' = CatchUp(f).cmdq, UNCHANGED frame
  PROVE  \E m \in 1 .. Len(cmdq.cmds) :
           /\ cmdq'.cmds = P!Rest(cmdq.cmds, m)
           /\ cmdq'.cmds \in Seq(Cmd)
           /\ Len(cmdq'.cmds) = Len(cmdq.cmds) - m
           /\ Pending'
           /\ Ahead(frame_end(cmdq), f) = Len(cmdq.cmds) - m + 1
           /\ CatchUp(f).ack = P!After(headAck, P!Executed(m))
<1>1. PICK m \in 1 .. Len(cmdq.cmds) :
             /\ Ahead(frame_end(cmdq), f) = Len(cmdq.cmds) - m + 1
             /\ CatchUp(f).cmdq = Queue(m)
             /\ CatchUp(f).ack = Drawn[Confirmed + m]
  BY CatchesUp
<1>2. Pending /\ m \in 0 .. Len(cmdq.cmds)
  BY OnPath DEF IInv
<1>3. PICK q : q = Queue(m)
  OBVIOUS
<1>4. /\ q \in CmdQueues
      /\ q.cmds = SubSeq(cmdq.cmds, m + 1, Len(cmdq.cmds))
      /\ Len(q.cmds) = Len(cmdq.cmds) - m
      /\ frame_end(q) = frame_end(cmdq)
  BY <1>2, <1>3, QueueType
<1>5. cmdq' = q
  BY <1>1, <1>3
<1>6. frame_end(cmdq)' = frame_end(q)
  BY <1>5 DEF frame_end
<1>8. Pending'
  <2>1. cmdq.cmds # << >>
    BY DEF Expected
  <2>2. frame_end(q) = frame'
    BY <1>2, <1>4, <2>1 DEF Pending
  <2>3. Len(q.cmds) <= MaxPending
    BY <1>2, <1>4, OnPath, SnakeAssumption DEF Pending
  <2>4. frame' \in Frames
    BY <1>2 DEF Pending
  <2>5. QED
    BY <1>4, <1>5, <1>6, <2>2, <2>3, <2>4 DEF Pending
<1>9. q.cmds = P!Rest(cmdq.cmds, m)
  BY <1>4 DEF P!Rest
<1>10. q.cmds \in Seq(Cmd)
  BY <1>4 DEF CmdQueues
<1>11. CatchUp(f).ack = P!After(headAck, P!Executed(m))
  <2>1. P!Executed(m) = P!First(cmdq.cmds, m)
    BY <1>2, OnPath DEF P!Executed
  <2>2. QED
    BY <1>1, <2>1, AfterIsOnPath
<1>12. QED
  BY <1>1, <1>4, <1>5, <1>8, <1>9, <1>10, <1>11

(* A head that agrees with the prediction confirms the path.               *)
LEMMA ConfirmConfirms ==
  ASSUME IInv, NEW f \in Frames, NEW auth \in Heads, f # frame_end(cmdq),
         Confirm(f, auth)
  PROVE  /\ \E m \in 1 .. Len(cmdq.cmds) : P!Confirm(m, auth)
         /\ IsFittedBody(body, Joined(body.trails))'
         /\ Pending'
<1>1. /\ Expected(f) /\ CatchUp(f).ack = auth /\ headAck' = auth
      /\ cmdq' = CatchUp(f).cmdq /\ body' = body /\ head' = head
      /\ frame' = frame
  BY DEF Confirm
<1>2. PICK m \in 1 .. Len(cmdq.cmds) :
             /\ cmdq'.cmds = P!Rest(cmdq.cmds, m)
             /\ Pending'
             /\ CatchUp(f).ack = P!After(headAck, P!Executed(m))
  BY <1>1, AckTakes
<1>3. P!Confirm(m, auth)
  BY <1>1, <1>2 DEF P!Confirm
<1>4. IsFittedBody(body, Joined(body.trails))'
  BY <1>1 DEF IInv
<1>5. QED
  BY <1>2, <1>3, <1>4

(* A head that does not takes back the points drawn in its frame and since,*)
(* and draws those of the remaining commands.                              *)
LEMMA RollbackRolls ==
  ASSUME IInv, NEW f \in Frames, NEW auth \in Heads, f # frame_end(cmdq),
         Rollback(f, auth)
  PROVE  /\ \E m \in 1 .. Len(cmdq.cmds) : P!Rollback(m, auth)
         /\ IsFittedBody(body, Joined(body.trails))'
         /\ Pending'
<1>1. /\ Expected(f) /\ CatchUp(f).ack # auth /\ headAck' = auth
      /\ cmdq' = CatchUp(f).cmdq /\ frame' = frame
  BY DEF Rollback
<1>2. PICK m \in 1 .. Len(cmdq.cmds) :
             /\ cmdq'.cmds = P!Rest(cmdq.cmds, m)
             /\ cmdq'.cmds \in Seq(Cmd)
             /\ Len(cmdq'.cmds) = Len(cmdq.cmds) - m
             /\ Pending'
             /\ Ahead(frame_end(cmdq), f) = Len(cmdq.cmds) - m + 1
             /\ CatchUp(f).ack = P!After(headAck, P!Executed(m))
  BY <1>1, AckTakes
<1>3. PICK redo : redo = Redo(auth, cmdq')
  OBVIOUS
<1>4. /\ redo = P!Run(auth, cmdq'.cmds)
      /\ redo \in Trail
      /\ Len(redo) = Len(cmdq'.cmds) + 1
  BY <1>2, <1>3, RedoIsRun
<1>5. PICK n \in Nat : n = Len(redo)
  BY <1>4 DEF Trail
<1>6. PICK kept : kept = PopPoints(body, n)
  OBVIOUS
<1>7. /\ head' = Last(redo)
      /\ \E bad \in [1 .. Len(redo) -> BOOLEAN] : body' = DrawAll(kept, redo, bad)
  <2>1. Ahead(frame_end(cmdq), f) = n
    BY <1>2, <1>4, <1>5
  <2>2. QED
    BY <1>3, <1>6, <2>1 DEF Rollback
<1>8. PICK bad : body' = DrawAll(kept, redo, bad)
  BY <1>7
<1>9. n < Len(Drawn)
  BY <1>2, <1>4, <1>5, OnPath
<1>10. PICK front : front = SubSeq(Drawn, 1, Len(Drawn) - n)
  OBVIOUS
<1>11. IsBody(kept, front) /\ front \in Seq(Heads)
  <2>1. IsBody(body, Drawn)
    BY FittedIsBody DEF IInv, Drawn
  <2>2. IsBody(PopPoints(body, n), SubSeq(Drawn, 1, Len(Drawn) - n))
    BY <1>9, <2>1, OnPath, PopPointsKeep
  <2>3. Len(Drawn) - n \in 0 .. Len(Drawn)
    BY <1>9, OnPath
  <2>4. front \in Seq(Heads)
    BY <1>10, <2>3, OnPath
  <2>5. QED
    BY <1>6, <1>10, <2>2, <2>4
<1>12. IsFittedBody(body', front \o redo)
  BY <1>4, <1>8, <1>11, DrawAllKeeps
<1>13. Joined(body'.trails) = front \o redo
  BY <1>12, FittedPath
<1>14. IsFittedBody(body, Joined(body.trails))'
  BY <1>12, <1>13
<1>15. P!Rollback(m, auth)
  <2>1. redo = P!Run(auth, P!Rest(cmdq.cmds, m))
    BY <1>2, <1>4
  <2>2. front = P!First(Joined(body.trails), Len(Joined(body.trails))
                                               - (Len(cmdq.cmds) + 1 - m))
    <3>1. n = Len(cmdq.cmds) + 1 - m
      BY <1>2, <1>4, <1>5, OnPath
    <3>2. QED
      BY <1>10, <3>1 DEF P!First, Drawn
  <2>3. head' = redo[Len(redo)]
    BY <1>7 DEF Last
  <2>4. P!After(headAck, P!Executed(m)) # auth
    BY <1>1, <1>2
  <2>5. Joined(body.trails)' = front \o redo
    BY <1>13
  <2>6. QED
    BY <1>1, <1>2, <2>1, <2>2, <2>3, <2>4, <2>5 DEF P!Rollback
<1>16. QED
  BY <1>2, <1>14, <1>15

-----------------------------------------------------------------------------
(* The invariant.                                                          *)

LEMMA Initially == Init => IInv
<1>1. SUFFICES ASSUME Init
               PROVE  IInv
  OBVIOUS
<1>2. Spawn \in Heads
  BY SnakeAssumption
<1>3. PICK t : t = << Spawn >>
  OBVIOUS
<1>4. t \in Trail /\ Len(t) = 1 /\ t[1] = Spawn
  BY <1>2, <1>3 DEF Trail
<1>5. PICK ts, hs, bs : /\ ts = Append(<< >>, t) /\ hs = << Spawn, Spawn >>
                        /\ bs = << Box(t) >>
  OBVIOUS
<1>6. Joined(ts) = t
  BY <1>4, <1>5, JoinedOne
<1>7. body = Snake3(ts, hs, bs)
  <2>1. ts = << t >>
    BY <1>5
  <2>2. QED
    BY <1>1, <1>3, <1>5, <2>1 DEF Init, NewBody, Snake3
<1>8. Layout(ts, hs, bs)
  <2>1. ts \in Trails /\ Len(ts) = 1 /\ ts[1] = t /\ ts # << >>
    BY <1>4, <1>5 DEF Trails
  <2>2. Box(t) \in Int \X Int /\ Covers(Box(t), t)
    BY <1>4, BoxHolds
  <2>3. hs \in Seq(Heads) /\ Len(hs) = 2 /\ hs[1] = Spawn
    BY <1>2, <1>5
  <2>4. bs \in Seq(Int \X Int) /\ Len(bs) = 1 /\ bs[1] = Box(t)
    BY <1>5, <2>2
  <2>5. Chained(ts)
    BY <2>1 DEF Chained
  <2>6. Handled(ts, hs)
    BY <1>4, <2>1, <2>3 DEF Handled
  <2>7. Boxed(ts, bs)
    BY <2>1, <2>2, <2>4 DEF Boxed
  <2>8. QED
    BY <2>1, <2>3, <2>4, <2>5, <2>6, <2>7 DEF Layout
<1>9. Fitted(ts, hs)
  <2>1. Last(hs) = Spawn
    BY <1>5 DEF Last
  <2>2. Last(ts) = t
    BY <1>5 DEF Last
  <2>3. Last(t) = Spawn
    BY <1>4 DEF Last
  <2>4. QED
    BY <2>1, <2>2, <2>3 DEF Fitted
<1>10. Joined(body.trails) = t
  BY <1>6, <1>7 DEF Snake3
<1>11. IsFittedBody(body, Joined(body.trails))
  BY <1>6, <1>7, <1>8, <1>9, <1>10 DEF IsFittedBody
<1>12. Pending
  <2>1. EmptyQueue \in CmdQueues /\ EmptyQueue.cmds = << >>
    BY CmdAssumption, HAssumption DEF EmptyQueue, CmdQueues, Frames, M
  <2>2. 0 \in Frames
    BY HAssumption DEF Frames, M
  <2>3. QED
    BY <1>1, <2>1, <2>2, SnakeAssumption DEF Init, Pending
<1>13. P!IInv
  <2>1. P!Init
    BY <1>1, <1>3, <1>10 DEF P!Init, Init, EmptyQueue
  <2>2. QED
    BY <2>1, P!Initially, PathAssumption
<1>14. QED
  BY <1>11, <1>12, <1>13 DEF IInv

LEMMA Unchanged ==
  ASSUME IInv, UNCHANGED vars
  PROVE  IInv' /\ UNCHANGED Path!vars
<1>1. /\ body' = body /\ cmdq' = cmdq /\ head' = head /\ headAck' = headAck
      /\ frame' = frame
  BY DEF vars
<1>2. UNCHANGED << Joined(body.trails), cmdq.cmds, head, headAck >>
  BY <1>1
<1>3. P!IInv'
  BY <1>2 DEF IInv, P!IInv, P!TypeOK, P!EnoughPoints, P!Linked, P!Offset
<1>4. IsFittedBody(body, Joined(body.trails))'
  BY <1>1 DEF IInv
<1>5. Pending'
  BY <1>1 DEF IInv, Pending, frame_end
<1>6. QED
  BY <1>2, <1>3, <1>4, <1>5 DEF IInv, Path!vars

(* Every step keeps the invariant, and is one of the path or leaves it     *)
(* alone.                                                                  *)
LEMMA Steps ==
  ASSUME MayPass = FALSE, IInv, [Next]_vars
  PROVE  IInv' /\ [Path!Next]_Path!vars
<1>1. CASE UNCHANGED vars
  BY <1>1, Unchanged
<1>2. ASSUME NEW c \in Cmd, ClientFrame(c)
      PROVE  IInv' /\ Path!Next
  <2>1. P!Advance(c) /\ IsFittedBody(body, Joined(body.trails))' /\ Pending'
    BY <1>2, ClientFrameAdvances
  <2>2. P!IInv'
    BY <2>1, P!AdvanceKeeps, PathAssumption DEF IInv
  <2>3. Path!Advance(c)
    BY <2>1 DEF P!Advance, Path!Advance, P!MayLeave, Path!MayLeave, P!Rest, Path!Rest
  <2>4. QED
    BY <2>1, <2>2, <2>3 DEF IInv, Path!Next
<1>3. ASSUME NEW f \in Frames, IgnoreHead(f)
      PROVE  IInv' /\ UNCHANGED Path!vars
  BY <1>3, Unchanged DEF IgnoreHead
<1>4. ASSUME NEW f \in Frames, NEW auth \in Heads, AckFrame(f, auth)
      PROVE  IInv' /\ Path!Next
  <2>1. f # frame_end(cmdq)
    BY <1>4 DEF AckFrame
  <2>2. CASE Confirm(f, auth)
    <3>1. /\ \E m \in 1 .. Len(cmdq.cmds) : P!Confirm(m, auth)
          /\ IsFittedBody(body, Joined(body.trails))'
          /\ Pending'
      BY <2>1, <2>2, ConfirmConfirms
    <3>2. PICK m \in 1 .. Len(cmdq.cmds) : P!Confirm(m, auth)
      BY <3>1
    <3>3. P!IInv'
      BY <3>2, P!ConfirmKeeps, PathAssumption DEF IInv
    <3>4. Path!Confirm(m, auth)
      BY <3>2 DEF P!Confirm, Path!Confirm, P!Rest, Path!Rest, P!First, Path!First,
                  P!After, Path!After, P!Run, Path!Run, P!Executed, Path!Executed
    <3>5. Path!AckFrame(m, auth) /\ m \in 1 .. Len(cmdq.cmds) + 1
      BY <3>2, <3>4, OnPath DEF Path!AckFrame
    <3>6. QED
      BY <3>1, <3>3, <3>5 DEF IInv, Path!Next
  <2>3. CASE Rollback(f, auth)
    <3>1. /\ \E m \in 1 .. Len(cmdq.cmds) : P!Rollback(m, auth)
          /\ IsFittedBody(body, Joined(body.trails))'
          /\ Pending'
      BY <2>1, <2>3, RollbackRolls
    <3>2. PICK m \in 1 .. Len(cmdq.cmds) : P!Rollback(m, auth)
      BY <3>1
    <3>3. P!IInv'
      BY <3>2, P!RollbackKeeps, PathAssumption DEF IInv
    <3>4. Path!Rollback(m, auth)
      BY <3>2 DEF P!Rollback, Path!Rollback, P!Rest, Path!Rest, P!First, Path!First,
                  P!After, Path!After, P!Run, Path!Run, P!Executed, Path!Executed
    <3>5. Path!AckFrame(m, auth) /\ m \in 1 .. Len(cmdq.cmds) + 1
      BY <3>2, <3>4, OnPath DEF Path!AckFrame
    <3>6. QED
      BY <3>1, <3>3, <3>5 DEF IInv, Path!Next
  <2>4. QED
    BY <1>4, <2>2, <2>3 DEF AckFrame
<1>5. QED
  BY <1>1, <1>2, <1>3, <1>4 DEF Next

(* What it says of the three ring buffers.                                 *)
LEMMA Consequences ==
  ASSUME IInv
  PROVE  TypeOK /\ SegmentsAgree /\ BoxesCover /\ AckOnBody
<1>1. PICK ts, hs, bs : /\ body = Snake3(ts, hs, bs)
                        /\ Layout(ts, hs, bs) /\ Fitted(ts, hs)
                        /\ Joined(body.trails) = Joined(ts)
  BY DEF IInv, IsFittedBody
<1>2. body.trails = ts /\ body.handles = hs /\ body.boxes = bs
  BY <1>1 DEF Snake3
<1>3. ts \in Trails /\ ts # << >> /\ hs \in Seq(Heads) /\ bs \in Seq(Int \X Int)
  BY <1>1 DEF Layout
<1>4. PICK n \in Nat : n = Len(ts)
  BY <1>3 DEF Trails
<1>5. n >= 1 /\ Len(hs) = n + 1 /\ Len(bs) = n
  BY <1>1, <1>3, <1>4 DEF Layout, Handled, Boxed, Trails
<1>6. \A i \in 1 .. n : ts[i] \in Trail
  BY <1>3, <1>4 DEF Trails
<1>7. TypeOK
  <2>1. ts \in Seq(Seq(Heads))
    BY <1>3 DEF Trails, Trail
  <2>2. body \in [trails : Seq(Seq(Heads)), handles : Seq(Heads),
                  boxes : Seq(Int \X Int)]
    BY <1>1, <1>3, <2>1 DEF Snake3
  <2>3. QED
    BY <2>2, OnPath DEF TypeOK, IInv, Pending
<1>8. SegmentsAgree
  <2>1. ASSUME NEW i \in 1 .. n
        PROVE  ts[i] # << >> /\ hs[i] = ts[i][1] /\ hs[i + 1] = Last(ts[i])
    <3>1. ts[i] # << >>
      BY <1>6 DEF Trail
    <3>2. hs[i] = ts[i][1]
      BY <1>1, <1>4 DEF Layout, Handled
    <3>3. CASE i = n
      <4>1. Last(hs) = hs[n + 1] /\ Last(ts) = ts[n]
        BY <1>4, <1>5 DEF Last
      <4>2. QED
        BY <1>1, <3>1, <3>2, <3>3, <4>1 DEF Fitted
    <3>4. CASE i # n
      <4>1. i \in 1 .. n - 1
        BY <3>4
      <4>2. ts[i][Len(ts[i])] = ts[i + 1][1]
        BY <1>1, <1>4, <4>1 DEF Layout, Chained
      <4>3. i + 1 \in 1 .. n
        BY <4>1
      <4>4. hs[i + 1] = ts[i + 1][1]
        BY <1>1, <1>4, <4>3 DEF Layout, Handled
      <4>5. QED
        BY <3>1, <3>2, <4>2, <4>4 DEF Last
    <3>5. QED
      BY <3>3, <3>4
  <2>2. QED
    BY <1>2, <1>4, <1>5, <2>1 DEF SegmentsAgree
<1>9. ASSUME NEW i \in 1 .. n
      PROVE  Covers(bs[i], ts[i])
  BY <1>1, <1>4 DEF Layout, Boxed
<1>10. BoxesCover
  BY <1>2, <1>4, <1>9 DEF BoxesCover, Covers
<1>11. AckOnBody
  <2>1. PICK p : Joins(ts, p, n) /\ Joined(ts) = p[n]
    BY <1>3, <1>4, JoinedIs
  <2>2. n \in 1 .. n
    BY <1>5
  <2>3. Drawn = p[n]
    BY <1>1, <2>1 DEF Drawn
  <2>4. PICK k : k = Confirmed
    OBVIOUS
  <2>5. k \in 1 .. Len(p[n]) /\ headAck = p[n][k]
    <3>1. Confirmed \in 1 .. Len(Drawn)
      BY OnPath DEF Confirmed
    <3>2. headAck = Drawn[Confirmed]
      BY OnPath
    <3>3. QED
      BY <2>3, <2>4, <3>1, <3>2
  <2>6. OnTrails(ts, n, p[n][k])
    BY <1>3, <1>4, <2>1, <2>2, <2>5, PointsAreOnTrails
  <2>7. PICK i \in 1 .. n : \E l \in 1 .. Len(ts[i]) : headAck = ts[i][l]
    BY <2>5, <2>6 DEF OnTrails
  <2>8. InBox(bs[i], headAck)
    BY <1>9, <2>7 DEF Covers
  <2>9. QED
    BY <1>2, <1>5, <2>8 DEF AckOnBody
<1>12. QED
  BY <1>7, <1>8, <1>10, <1>11

-----------------------------------------------------------------------------
(* The theorems.                                                           *)

LEMMA Invariance == ASSUME MayPass = FALSE PROVE Spec => []IInv
<1>1. IInv /\ [Next]_vars => IInv'
  BY Steps
<1>2. QED
  BY <1>1, Initially, PTL DEF Spec

(* Every value has its type, through steps, removals and rollbacks.        *)
THEOREM TypeCorrect == ASSUME MayPass = FALSE PROVE Spec => []TypeOK
<1>1. IInv => TypeOK
  BY Consequences
<1>2. QED
  BY <1>1, Invariance, PTL

(* The ring buffers of trails, handles and boxes, which snake_step(),      *)
(* snake_remove_stale_segments() and the rollback of snake_ack_frame() push*)
(* and pop separately, describe the same segments.                         *)
THEOREM SegmentsStayInStep == ASSUME MayPass = FALSE PROVE Spec => []SegmentsAgree
<1>1. IInv => SegmentsAgree
  BY Consequences
<1>2. QED
  BY <1>1, Invariance, PTL

(* A box holds every point of its trail, also when a rollback has reopened *)
(* its segment and drawn it again.                                         *)
THEOREM BoxesHoldTheirTrails == ASSUME MayPass = FALSE PROVE Spec => []BoxesCover
<1>1. IInv => BoxesCover
  BY Consequences
<1>2. QED
  BY <1>1, Invariance, PTL

(* snake_remove_stale_segments() never removes the segment that holds the  *)
(* confirmed head.                                                         *)
THEOREM AckStaysOnBody == ASSUME MayPass = FALSE PROVE Spec => []AckOnBody
<1>1. IInv => AckOnBody
  BY Consequences
<1>2. QED
  BY <1>1, Invariance, PTL

(* The segments are an implementation of the predicted path: what          *)
(* snake_step() and snake_ack_frame() do to the trails is what they are    *)
(* meant to do to the points.                                              *)
THEOREM ImplementsThePath == ASSUME MayPass = FALSE PROVE Spec => ImplementsPath
<1>1. Init => Path!Init
  <2>1. SUFFICES ASSUME Init
                 PROVE  Path!Init
    OBVIOUS
  <2>2. Joined(body.trails) = << Spawn >>
    <3>1. << Spawn >> \in Trail /\ Append(<< >>, << Spawn >>) = << << Spawn >> >>
      BY SnakeAssumption DEF Trail
    <3>2. body.trails = << << Spawn >> >>
      BY <2>1 DEF Init, NewBody
    <3>3. QED
      BY <3>1, <3>2, JoinedOne
  <2>3. QED
    BY <2>1, <2>2 DEF Init, Path!Init, EmptyQueue
<1>2. IInv /\ [Next]_vars => [Path!Next]_Path!vars
  BY Steps
<1>3. QED
  BY <1>1, <1>2, Invariance, PTL DEF Spec, ImplementsPath, Path!Spec

=============================================================================
