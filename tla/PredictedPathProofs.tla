------------------------- MODULE PredictedPathProofs -------------------------
(***************************************************************************)
(* Prediction and rollback are correct for every set of heads and commands *)
(* and every deterministic step function: the confirmed head executing the *)
(* unconfirmed commands always ends in the predicted head, over the points *)
(* the path ends with.                                                     *)
(***************************************************************************)
EXTENDS PredictedPath, WellFoundedInduction, TLAPS

-----------------------------------------------------------------------------
(* Induction, stated for a set of numbers instead of a predicate.          *)

(* A set of natural numbers has a least element.                           *)
LEMMA LeastElement ==
  ASSUME NEW T \in SUBSET Nat, T # {}
  PROVE  \E x \in T : \A y \in T : x <= y
<1>1. PICK x \in T : \A y \in T : ~ (<<y, x>> \in OpToRel(<, Nat))
  BY NatLessThanWellFounded, WFMin
<1>2. \A y \in T : ~ (y < x)
  BY <1>1, Zenon DEF OpToRel
<1>3. QED
  BY <1>2

(* A set that contains 0, and with each number its successor, contains all.*)
LEMMA SetInduction ==
  ASSUME NEW S, 0 \in S, \A n \in Nat : n \in S => n + 1 \in S
  PROVE  \A n \in Nat : n \in S
<1>1. SUFFICES ASSUME Nat \ S # {}
               PROVE  FALSE
  OBVIOUS
<1>2. PICK m \in Nat \ S : \A y \in Nat \ S : m <= y
  BY <1>1, LeastElement
<1>3. m - 1 \in Nat /\ m - 1 \in S
  BY <1>2
<1>4. QED
  BY <1>3

-----------------------------------------------------------------------------
(* Facts about sequences.                                                  *)

LEMMA RestOf ==
  ASSUME NEW S, NEW s \in Seq(S), NEW n \in 0 .. Len(s)
  PROVE  /\ Rest(s, n) \in Seq(S)
         /\ Len(Rest(s, n)) = Len(s) - n
         /\ \A i \in 1 .. Len(s) - n : Rest(s, n)[i] = s[i + n]
  BY DEF Rest

LEMMA Joined ==
  ASSUME NEW S, NEW s \in Seq(S), NEW t \in Seq(S)
  PROVE  /\ s \o t \in Seq(S)
         /\ Len(s \o t) = Len(s) + Len(t)
         /\ \A i \in 1 .. Len(t) : (s \o t)[Len(s) + i] = t[i]
  OBVIOUS

-----------------------------------------------------------------------------
(* Facts about runs: executing commands from a head is defined, and        *)
(* determined.                                                             *)

LEMMA RunExists ==
  ASSUME NEW h \in Heads, NEW cs \in Seq(Cmd)
  PROVE  \E p \in [1 .. Len(cs) + 1 -> Heads] : IsRun(p, h, cs)
<1> DEFINE Drawn(n, p) == /\ p \in [1 .. n + 1 -> Heads]
                          /\ p[1] = h
                          /\ \A i \in 1 .. n : p[i + 1] = Step[p[i]][cs[i]]
           S == {n \in Nat : n <= Len(cs) => \E p : Drawn(n, p)}
<1>1. 0 \in S
  <2>1. Drawn(0, [i \in 1 .. 1 |-> h])
    OBVIOUS
  <2>2. QED
    BY <2>1
<1>2. ASSUME NEW n \in Nat, n \in S
      PROVE  n + 1 \in S
  <2> HIDE DEF Drawn
  <2>0. SUFFICES ASSUME n + 1 <= Len(cs)
                 PROVE  \E p : Drawn(n + 1, p)
    OBVIOUS
  <2> USE DEF Drawn
  <2>1. n + 1 <= Len(cs)
    BY <2>0
  <2>2. PICK p : Drawn(n, p)
    BY <1>2, <2>1
  <2> DEFINE e == Step[p[n + 1]][cs[n + 1]]
             q == [i \in 1 .. n + 2 |-> IF i <= n + 1 THEN p[i] ELSE e]
  <2>3. p[n + 1] \in Heads /\ cs[n + 1] \in Cmd
    BY <2>1, <2>2
  <2>4. e \in Heads
    BY <2>3, StepAssumption
  <2>5. q \in [1 .. n + 2 -> Heads] /\ q[1] = h
    BY <2>2, <2>4
  <2>6. ASSUME NEW i \in 1 .. n + 1
        PROVE  q[i + 1] = Step[q[i]][cs[i]]
    BY <2>2
  <2>7. (n + 1) + 1 = n + 2
    OBVIOUS
  <2>8. Drawn(n + 1, q)
    BY <2>5, <2>6, <2>7
  <2>9. QED
    BY <2>8
<1> HIDE DEF S
<1>3. Len(cs) \in S
  BY <1>1, <1>2, SetInduction
<1>4. QED
  BY <1>3 DEF S, IsRun

LEMMA RunUnique ==
  ASSUME NEW h, NEW cs \in Seq(Cmd), NEW p, NEW q,
         p \in [1 .. Len(cs) + 1 -> Heads], IsRun(p, h, cs),
         q \in [1 .. Len(cs) + 1 -> Heads], IsRun(q, h, cs)
  PROVE  p = q
<1> DEFINE S == {n \in Nat : n <= Len(cs) => p[n + 1] = q[n + 1]}
<1>1. 0 \in S
  BY DEF IsRun
<1>2. ASSUME NEW n \in Nat, n \in S
      PROVE  n + 1 \in S
  <2>1. SUFFICES ASSUME n + 1 <= Len(cs)
                 PROVE  p[n + 2] = q[n + 2]
    OBVIOUS
  <2>2. p[n + 1] = q[n + 1]
    BY <1>2, <2>1
  <2>3. n + 1 \in 1 .. Len(cs) /\ (n + 1) + 1 = n + 2
    BY <2>1
  <2>4. QED
    BY <2>2, <2>3 DEF IsRun
<1> HIDE DEF S
<1>3. \A n \in Nat : n \in S
  BY <1>1, <1>2, SetInduction
<1>4. ASSUME NEW i \in 1 .. Len(cs) + 1
      PROVE  p[i] = q[i]
  <2>1. i - 1 \in Nat /\ i - 1 <= Len(cs) /\ (i - 1) + 1 = i
    OBVIOUS
  <2>2. QED
    BY <1>3, <2>1 DEF S
<1>5. QED
  BY <1>4

(* Run(h, cs) is the only run of cs from h.                                *)
LEMMA RunDetermined ==
  ASSUME NEW h \in Heads, NEW cs \in Seq(Cmd)
  PROVE  /\ Run(h, cs) \in [1 .. Len(cs) + 1 -> Heads]
         /\ IsRun(Run(h, cs), h, cs)
         /\ \A p \in [1 .. Len(cs) + 1 -> Heads] :
               IsRun(p, h, cs) => Run(h, cs) = p
<1> DEFINE D == 1 .. Len(cs) + 1
           Unfold(p) == [i \in D |-> IF i = 1 THEN h ELSE Step[p[i - 1]][cs[i - 1]]]
<1>1. /\ Run(h, cs) \in [1 .. Len(cs) + 1 -> Heads]
      /\ IsRun(Run(h, cs), h, cs)
  <2>1. Run(h, cs) = CHOOSE p : p = Unfold(p)
    BY DEF Run
  <2>2. PICK p \in [D -> Heads] : IsRun(p, h, cs)
    BY RunExists
  <2>3. p = Unfold(p)
    <3>1. ASSUME NEW i \in D
          PROVE  p[i] = Unfold(p)[i]
      <4>1. i # 1 => i - 1 \in 1 .. Len(cs) /\ (i - 1) + 1 = i
        OBVIOUS
      <4>2. QED
        BY <2>2, <4>1 DEF IsRun
    <3>2. QED
      BY <2>2, <3>1
  <2> HIDE DEF Unfold
  <2>4. Run(h, cs) = Unfold(Run(h, cs))
    BY <2>1, <2>3
  <2> DEFINE r == Run(h, cs)
  <2>5. r = Unfold(r)
    BY <2>4
  <2> HIDE DEF r
  <2>6. r[1] = h
    BY <2>5 DEF Unfold
  <2>7. ASSUME NEW i \in 1 .. Len(cs)
        PROVE  r[i + 1] = Step[r[i]][cs[i]]
    <3>1. i + 1 \in D /\ i + 1 # 1 /\ (i + 1) - 1 = i
      OBVIOUS
    <3>2. Unfold(r)[i + 1] = Step[r[(i + 1) - 1]][cs[(i + 1) - 1]]
      BY <3>1 DEF Unfold
    <3>3. QED
      BY <2>5, <3>1, <3>2
  <2>8. IsRun(r, h, cs)
    BY <2>6, <2>7 DEF IsRun
  <2>9. r \in [D -> Heads]
    <3> DEFINE S == {n \in Nat : n <= Len(cs) => r[n + 1] \in Heads}
    <3>1. 0 \in S
      BY <2>6
    <3>2. ASSUME NEW n \in Nat, n \in S
          PROVE  n + 1 \in S
      <4>1. SUFFICES ASSUME n + 1 <= Len(cs)
                     PROVE  r[n + 2] \in Heads
        OBVIOUS
      <4>2. n + 1 \in 1 .. Len(cs) /\ (n + 1) + 1 = n + 2 /\ r[n + 1] \in Heads
        BY <3>2, <4>1
      <4>3. r[n + 2] = Step[r[n + 1]][cs[n + 1]]
        BY <2>7, <4>2
      <4>4. QED
        BY <4>2, <4>3, StepAssumption
    <3> HIDE DEF S
    <3>3. \A n \in Nat : n \in S
      BY <3>1, <3>2, SetInduction
    <3>4. ASSUME NEW i \in D
          PROVE  r[i] \in Heads
      <4>1. i - 1 \in Nat /\ i - 1 <= Len(cs) /\ (i - 1) + 1 = i
        OBVIOUS
      <4>2. QED
        BY <3>3, <4>1 DEF S
    <3>5. r = [i \in D |-> r[i]]
      BY <2>5 DEF Unfold
    <3>6. QED
      BY <3>4, <3>5
  <2>10. QED
    BY <2>8, <2>9 DEF r
<1>2. QED
  BY <1>1, RunUnique

-----------------------------------------------------------------------------
(* The invariant, point by point: the last Len(cmds) + 1 points of the     *)
(* path are the ones the unconfirmed commands draw.                        *)

Offset == Len(path) - Len(cmds)

Linked == /\ head = path[Len(path)]
          /\ ack = path[Offset]
          /\ \A i \in 1 .. Len(cmds) :
                path[Offset + i] = Step[path[Offset + i - 1]][cmds[i]]

IInv == TypeOK /\ EnoughPoints /\ Linked

LEMMA Lengths ==
  ASSUME IInv
  PROVE  /\ Len(path) \in Nat /\ Len(cmds) \in Nat
         /\ Offset \in 1 .. Len(path)
         /\ \A i \in 1 .. Len(path) : path[i] \in Heads
         /\ \A i \in 1 .. Len(cmds) : cmds[i] \in Cmd
  BY DEF IInv, TypeOK, EnoughPoints, Offset

(* What the confirmed head draws while it catches up with m commands is    *)
(* on the path already.                                                    *)
LEMMA CatchUp ==
  ASSUME IInv, NEW m \in 0 .. Len(cmds)
  PROVE  /\ Run(ack, First(cmds, m)) = [i \in 1 .. m + 1 |-> path[Offset + i - 1]]
         /\ After(ack, First(cmds, m)) = path[Offset + m]
<1> DEFINE cs == First(cmds, m)
           p == [i \in 1 .. m + 1 |-> path[Offset + i - 1]]
<1>1. cs \in Seq(Cmd) /\ Len(cs) = m /\ \A i \in 1 .. m : cs[i] = cmds[i]
  BY Lengths DEF IInv, TypeOK, First
<1>2. p \in [1 .. m + 1 -> Heads]
  BY Lengths DEF Offset
<1>3. p[1] = ack
  BY Lengths DEF IInv, Linked
<1>4. ASSUME NEW i \in 1 .. m
      PROVE  p[i + 1] = Step[p[i]][cs[i]]
  <2>1. path[Offset + i] = Step[path[Offset + i - 1]][cmds[i]]
    BY DEF IInv, Linked
  <2>2. p[i + 1] = path[Offset + i] /\ p[i] = path[Offset + i - 1]
    BY Lengths
  <2>3. QED
    BY <1>1, <2>1, <2>2
<1>5. IsRun(p, ack, cs)
  BY <1>1, <1>3, <1>4 DEF IsRun
<1>6. ack \in Heads
  BY DEF IInv, TypeOK
<1> HIDE DEF cs
<1>7. Run(ack, cs) = p
  BY <1>1, <1>2, <1>5, <1>6, RunDetermined
<1>8. After(ack, cs) = path[Offset + m]
  BY <1>1, <1>7, Lengths DEF After
<1>9. QED
  BY <1>7, <1>8 DEF cs

-----------------------------------------------------------------------------
(* The invariant holds at the start and is kept by every step.             *)

LEMMA Initially == Init => IInv
  BY StepAssumption DEF Init, IInv, TypeOK, EnoughPoints, Linked, Offset

LEMMA AdvanceKeeps ==
  ASSUME IInv, NEW c \in Cmd, Advance(c)
  PROVE  IInv'
<1>0. PICK drop \in 0 .. Len(path) : /\ \A i \in 1 .. drop : path[i] # ack
                                     /\ path' = Rest(Append(path, head'), drop)
  BY DEF Advance, MayLeave
<1>1. path' = Rest(Append(path, head'), drop)
  BY <1>0
<1>2. head' = Step[head][c] /\ ack' = ack /\ cmds' = Append(cmds, c)
  BY DEF Advance
<1>3. head' \in Heads
  BY <1>2, StepAssumption DEF IInv, TypeOK
<1>4. drop \in Nat /\ drop <= Len(path) - Len(cmds) - 1
  <2>1. path[Offset] = ack
    BY DEF IInv, Linked
  <2>2. ~ (Offset \in 1 .. drop)
    BY <1>0, <2>1
  <2>3. QED
    BY <2>2, Lengths DEF Offset
<1> DEFINE long == Append(path, head')
<1>5. long \in Seq(Heads) /\ Len(long) = Len(path) + 1
  BY <1>3 DEF IInv, TypeOK
<1>6. \A i \in 1 .. Len(path) : long[i] = path[i]
  BY DEF IInv, TypeOK
<1>7. long[Len(path) + 1] = head'
  BY DEF IInv, TypeOK
<1> HIDE DEF long
<1>8. path' \in Seq(Heads) /\ Len(path') = Len(path) + 1 - drop
  <2>1. path' = Rest(long, drop) /\ drop \in 0 .. Len(long)
    BY <1>1, <1>4, <1>5, Lengths DEF long
  <2>2. QED
    BY <1>5, <2>1, RestOf
<1>9. \A i \in 1 .. Len(path) + 1 - drop : path'[i] = long[i + drop]
  <2>1. path' = Rest(long, drop) /\ drop \in 0 .. Len(long)
    BY <1>1, <1>4, <1>5, Lengths DEF long
  <2>2. \A i \in 1 .. Len(long) - drop : Rest(long, drop)[i] = long[i + drop]
    BY <1>5, <2>1, RestOf
  <2>3. QED
    BY <1>5, <2>1, <2>2
<1>10. cmds' \in Seq(Cmd) /\ Len(cmds') = Len(cmds) + 1
  BY <1>2 DEF IInv, TypeOK
<1>11. \A i \in 1 .. Len(cmds) : cmds'[i] = cmds[i]
  BY <1>2 DEF IInv, TypeOK
<1>12. cmds'[Len(cmds) + 1] = c
  BY <1>2 DEF IInv, TypeOK
<1>13. TypeOK'
  BY <1>2, <1>3, <1>8, <1>10, StepAssumption, Lengths DEF IInv, TypeOK, Advance
<1>14. EnoughPoints'
  BY <1>4, <1>8, <1>10, Lengths DEF EnoughPoints
<1>15. Offset' = Offset - drop
  BY <1>8, <1>10, <1>4, Lengths DEF Offset
<1>16. Offset - drop >= 1
  BY <1>4, Lengths DEF Offset
<1>17. Linked'
  <2>1. head' = path'[Len(path')]
    BY <1>4, <1>7, <1>8, <1>9, <1>16, Lengths
  <2>2. ack' = path'[Offset']
    <3>1. Offset' \in 1 .. Len(path) + 1 - drop /\ Offset' + drop = Offset
      BY <1>4, <1>15, <1>16, Lengths
    <3>2. path'[Offset'] = long[Offset]
      BY <1>9, <3>1
    <3>3. QED
      BY <1>2, <1>6, <3>2, Lengths DEF IInv, Linked
  <2>3. ASSUME NEW i \in 1 .. Len(cmds')
        PROVE  path'[Offset' + i] = Step[path'[Offset' + i - 1]][cmds'[i]]
    <3>1. /\ path'[Offset' + i] = long[Offset + i]
          /\ path'[Offset' + i - 1] = long[Offset + i - 1]
      <4>1. /\ Offset' + i \in 1 .. Len(path) + 1 - drop
            /\ Offset' + i - 1 \in 1 .. Len(path) + 1 - drop
            /\ (Offset' + i) + drop = Offset + i
            /\ (Offset' + i - 1) + drop = Offset + i - 1
        BY <1>4, <1>10, <1>15, <1>16, Lengths DEF Offset
      <4>2. QED
        BY <1>9, <4>1
    <3>2. long[Offset + i - 1] = path[Offset + i - 1]
      BY <1>6, <1>10, Lengths DEF Offset
    <3>3. CASE i \in 1 .. Len(cmds)
      <4>1. long[Offset + i] = path[Offset + i]
        BY <1>6, <3>3, Lengths DEF Offset
      <4>2. QED
        BY <1>11, <3>1, <3>2, <3>3, <4>1 DEF IInv, Linked
    <3>4. CASE i = Len(cmds) + 1
      <4>1. /\ Offset + i = Len(path) + 1
            /\ Offset + i - 1 = Len(path)
        BY <3>4, Lengths DEF Offset
      <4>2. QED
        BY <1>2, <1>7, <1>12, <3>1, <3>2, <3>4, <4>1 DEF IInv, Linked
    <3>5. QED
      BY <1>10, <3>3, <3>4, Lengths
  <2>4. QED
    BY <2>1, <2>2, <2>3 DEF Linked
<1>18. QED
  BY <1>13, <1>14, <1>17 DEF IInv

(* Both ways of confirming drop the same commands.                         *)
LEMMA Remaining ==
  ASSUME IInv, NEW m \in 1 .. Len(cmds)
  PROVE  /\ Rest(cmds, m) \in Seq(Cmd)
         /\ Len(Rest(cmds, m)) = Len(cmds) - m
         /\ \A i \in 1 .. Len(cmds) - m : Rest(cmds, m)[i] = cmds[i + m]
  BY Lengths DEF IInv, TypeOK, Rest

(* Without a frame after the newest command.                               *)
LEMMA ExecutedIs ==
  ASSUME IInv, NEW m \in 1 .. Len(cmds)
  PROVE  Executed(m) = First(cmds, m)
  BY Lengths DEF Executed

LEMMA ConfirmKeeps ==
  ASSUME IInv, NEW m \in 1 .. Len(cmds), NEW auth \in Heads, Confirm(m, auth)
  PROVE  IInv'
<1>1. cmds' = Rest(cmds, m) /\ ack' = auth /\ path' = path /\ head' = head
  BY DEF Confirm
<1>2. auth = path[Offset + m]
  BY CatchUp, ExecutedIs, Lengths DEF Confirm
<1>3. Len(cmds') = Len(cmds) - m
  BY <1>1, Remaining
<1>4. TypeOK'
  BY <1>1, <1>3, Remaining, StepAssumption, Lengths DEF IInv, TypeOK
<1>5. EnoughPoints'
  BY <1>1, <1>3, Lengths DEF IInv, EnoughPoints
<1>6. Offset' = Offset + m
  BY <1>1, <1>3, Lengths DEF Offset
<1>7. ASSUME NEW i \in 1 .. Len(cmds')
      PROVE  path'[Offset' + i] = Step[path'[Offset' + i - 1]][cmds'[i]]
  <2>1. cmds'[i] = cmds[i + m] /\ i + m \in 1 .. Len(cmds)
    <3>1. i \in 1 .. Len(cmds) - m /\ i + m \in 1 .. Len(cmds)
      BY <1>3, Lengths
    <3>2. Rest(cmds, m)[i] = cmds[i + m]
      BY <3>1, Remaining
    <3>3. QED
      BY <1>1, <3>1, <3>2
  <2>2. path[Offset + (i + m)] = Step[path[Offset + (i + m) - 1]][cmds[i + m]]
    BY <2>1 DEF IInv, Linked
  <2>3. /\ Offset' + i = Offset + (i + m)
        /\ Offset' + i - 1 = Offset + (i + m) - 1
    BY <1>3, <1>6, Lengths
  <2>4. QED
    BY <1>1, <2>1, <2>2, <2>3
<1>8. Linked'
  BY <1>1, <1>2, <1>6, <1>7 DEF IInv, Linked
<1>9. QED
  BY <1>4, <1>5, <1>8 DEF IInv

LEMMA RollbackKeeps ==
  ASSUME IInv, NEW m \in 1 .. Len(cmds), NEW auth \in Heads, Rollback(m, auth)
  PROVE  IInv'
<1> DEFINE rest == Rest(cmds, m)
           n == Len(cmds) - m
           redo == Run(auth, rest)
           keep == Len(path) - (n + 1)
<1>1. /\ cmds' = rest /\ ack' = auth
      /\ path' = First(path, Len(path) - (Len(cmds) + 1 - m)) \o redo
      /\ head' = redo[Len(redo)]
  BY DEF Rollback
<1>2. rest \in Seq(Cmd) /\ Len(rest) = n /\ n \in Nat /\ n <= Len(cmds)
  BY Remaining, Lengths
<1>3. redo \in [1 .. n + 1 -> Heads] /\ IsRun(redo, auth, rest)
  <2>1. redo \in [1 .. Len(rest) + 1 -> Heads] /\ IsRun(redo, auth, rest)
    <3> HIDE DEF rest
    <3> QED
      BY <1>2, RunDetermined
  <2> QED
    BY <1>2, <2>1
<1> HIDE DEF rest, redo
<1>4. redo \in Seq(Heads) /\ Len(redo) = n + 1
  BY <1>2, <1>3
<1>5. keep \in Nat /\ keep < Len(path)
  BY <1>2, Lengths DEF IInv, EnoughPoints
<1>6. path' = First(path, keep) \o redo
  <2>1. Len(cmds) + 1 - m = n + 1
    BY Lengths
  <2>2. QED
    BY <1>1, <2>1
<1>7. /\ First(path, keep) \in Seq(Heads)
      /\ Len(First(path, keep)) = keep
  BY <1>5, Lengths DEF IInv, TypeOK, First
<1> HIDE DEF keep
<1>8. path' \in Seq(Heads) /\ Len(path') = keep + (n + 1)
  <2> DEFINE kept == First(path, keep)
  <2> HIDE DEF kept
  <2>1. kept \in Seq(Heads) /\ Len(kept) = keep
    BY <1>7 DEF kept
  <2>2. kept \o redo \in Seq(Heads) /\ Len(kept \o redo) = Len(kept) + Len(redo)
    BY <1>4, <2>1, Joined
  <2>3. QED
    BY <1>4, <1>6, <2>1, <2>2 DEF kept
<1>9. ASSUME NEW i \in 1 .. n + 1
      PROVE  path'[keep + i] = redo[i]
  BY <1>4, <1>6, <1>7, Joined
<1>10. TypeOK'
  <2>1. head' \in Heads
    BY <1>1, <1>2, <1>3, <1>4
  <2>2. Len(cmds') <= MaxPending
    BY <1>1, <1>2, StepAssumption, Lengths DEF IInv, TypeOK
  <2>3. QED
    BY <1>1, <1>2, <1>8, <2>1, <2>2 DEF TypeOK
<1>11. EnoughPoints'
  BY <1>1, <1>2, <1>5, <1>8 DEF EnoughPoints
<1>12. Offset' = keep + 1
  <2>1. Len(cmds') = n
    BY <1>1, <1>2
  <2>0. keep \in Nat /\ Len(path') = keep + (n + 1)
    BY <1>5, <1>8
  <2> HIDE DEF keep
  <2>2. QED
    BY <1>2, <2>0, <2>1 DEF Offset
<1>13. Linked'
  <2>1. head' = path'[Len(path')]
    BY <1>1, <1>2, <1>4, <1>8, <1>9
  <2>2. ack' = path'[Offset']
    <3>1. path'[keep + 1] = redo[1]
      BY <1>2, <1>9
    <3>2. QED
      BY <1>1, <1>3, <1>12, <3>1 DEF IsRun
  <2>3. ASSUME NEW i \in 1 .. Len(cmds')
        PROVE  path'[Offset' + i] = Step[path'[Offset' + i - 1]][cmds'[i]]
    <3>1. i \in 1 .. n
      BY <1>1, <1>2
    <3>2. redo[i + 1] = Step[redo[i]][rest[i]]
      BY <1>2, <1>3, <3>1 DEF IsRun
    <3>3. /\ Offset' + i = keep + (i + 1)
          /\ Offset' + i - 1 = keep + i
      BY <1>5, <1>12
    <3>4. path'[keep + (i + 1)] = redo[i + 1] /\ path'[keep + i] = redo[i]
      BY <1>2, <1>9, <3>1
    <3>5. QED
      BY <1>1, <3>2, <3>3, <3>4
  <2>4. QED
    BY <2>1, <2>2, <2>3 DEF Linked
<1>14. QED
  BY <1>10, <1>11, <1>13 DEF IInv

-----------------------------------------------------------------------------

(* The invariant says what the properties say.                             *)
LEMMA Consequences ==
  ASSUME IInv
  PROVE  Faithful /\ PredictsServer
<1> DEFINE k == Len(path) - Len(cmds) - 1
           tail == Rest(path, k)
<1>1. k \in Nat /\ k + 1 = Offset
  BY Lengths DEF Offset
<1>2. \A i \in 1 .. Len(cmds) + 1 : tail[i] = path[k + i]
  BY <1>1, Lengths DEF IInv, TypeOK, Rest
<1>3. tail[1] = ack
  BY <1>1, <1>2, Lengths DEF IInv, Linked
<1>4. ASSUME NEW i \in 1 .. Len(cmds)
      PROVE  tail[i + 1] = Step[tail[i]][cmds[i]]
  <2>1. path[Offset + i] = Step[path[Offset + i - 1]][cmds[i]]
    BY DEF IInv, Linked
  <2>2. tail[i + 1] = path[k + (i + 1)] /\ tail[i] = path[k + i]
    <3>1. i + 1 \in 1 .. Len(cmds) + 1 /\ i \in 1 .. Len(cmds) + 1
      BY Lengths
    <3> HIDE DEF tail, k
    <3>2. QED
      BY <1>2, <3>1
  <2>3. k + (i + 1) = Offset + i /\ k + i = Offset + i - 1
    BY <1>1
  <2>4. QED
    BY <2>1, <2>2, <2>3
<1>5. Faithful
  BY <1>3, <1>4 DEF Faithful, IsRun, IInv, Linked
<1>6. First(cmds, Len(cmds)) = cmds
  BY Lengths DEF IInv, TypeOK, First
<1>7. After(ack, cmds) = path[Offset + Len(cmds)]
  BY <1>6, CatchUp, Lengths
<1>8. Offset + Len(cmds) = Len(path)
  BY Lengths DEF Offset
<1>9. QED
  BY <1>5, <1>7, <1>8 DEF PredictsServer, IInv, Linked

(* Whatever the server's heads are and whenever they arrive, if they are   *)
(* of frames the client has put a command for: rolling back never runs out *)
(* of points, and the predicted head is what the server will compute from  *)
(* its last word and the commands under way.                               *)
THEOREM PredictionIsCorrect ==
  ASSUME MayPass = FALSE
  PROVE  Spec => [](TypeOK /\ EnoughPoints /\ Faithful /\ PredictsServer)
<1>1. IInv /\ [Next]_vars => IInv'
  <2>1. SUFFICES ASSUME IInv, [Next]_vars
                 PROVE  IInv'
    OBVIOUS
  <2>2. CASE UNCHANGED vars
    BY <2>1, <2>2 DEF vars, IInv, TypeOK, EnoughPoints, Linked, Offset
  <2>3. ASSUME NEW c \in Cmd, Advance(c)
        PROVE  IInv'
    BY <2>1, <2>3, AdvanceKeeps
  <2>4. ASSUME NEW m \in 1 .. Len(cmds) + 1, NEW auth \in Heads, AckFrame(m, auth)
        PROVE  IInv'
    <3>1. m \in 1 .. Len(cmds)
      BY <2>1, <2>4, Lengths DEF AckFrame
    <3>2. QED
      BY <2>1, <2>4, <3>1, ConfirmKeeps, RollbackKeeps DEF AckFrame
  <2>5. QED
    BY <2>1, <2>2, <2>3, <2>4 DEF Next
<1>2. IInv => TypeOK /\ EnoughPoints /\ Faithful /\ PredictsServer
  BY Consequences DEF IInv
<1>3. QED
  BY Initially, <1>1, <1>2, PTL DEF Spec

(* Path, commands and heads keep their types, and the commands under way   *)
(* their bound.                                                            *)
THEOREM TypeCorrect == ASSUME MayPass = FALSE PROVE Spec => []TypeOK
  BY PredictionIsCorrect, PTL

(* snake_ack_frame(), which pops the points drawn since the confirmed head *)
(* without looking, never runs out of them: that head is on the path, and  *)
(* the tail stops at it.                                                   *)
THEOREM PointsSuffice == ASSUME MayPass = FALSE PROVE Spec => []EnoughPoints
  BY PredictionIsCorrect, PTL

(* The end of the path is always the run of the unconfirmed commands from  *)
(* the confirmed head.                                                     *)
THEOREM PathIsFaithful == ASSUME MayPass = FALSE PROVE Spec => []Faithful
  BY PredictionIsCorrect, PTL

(* The predicted head is always what the server will compute.              *)
THEOREM HeadIsPredicted == ASSUME MayPass = FALSE PROVE Spec => []PredictsServer
  BY PredictionIsCorrect, PTL

=============================================================================
