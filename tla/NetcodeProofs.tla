----------------------------- MODULE NetcodeProofs -----------------------------
(***************************************************************************)
(* Messages may be lost, repeated, delayed and reordered: the server still *)
(* never takes a command for another frame than the player gave it in, and *)
(* the client is corrected only when the server executed something else.   *)
(*                                                                         *)
(* This is shown for as long as the commands awaiting confirmation fit one *)
(* MSG_COMMANDS, MaxPending <= Chunk.                                      *)
(***************************************************************************)
EXTENDS Netcode, SequenceTheorems, FiniteSetTheorems, WellFoundedInduction, TLAPS

-----------------------------------------------------------------------------
(* Induction, stated for a set of numbers instead of a predicate.          *)

(* A set of natural numbers has a least element.                           *)
LEMMA LeastElement ==
  ASSUME NEW T \in SUBSET Nat, T # {}
  PROVE  \E x \in T : \A y \in T : x <= y
<1>1. PICK x \in T : \A y \in T : ~ (<<y, x>> \in OpToRel(<, Nat))
  BY NatLessThanWellFounded, WFMin
<1>2. \A y \in T : ~ (y < x)
  BY <1>1, Zenon DEF OpToRel
<1>3. QED
  BY <1>2

(* Dividing by a larger number.                                            *)
LEMMA DivSmall ==
  ASSUME NEW n \in Nat, NEW d \in Nat \ {0}, n < d
  PROVE  n \div d = 0
<1>1. PICK q : q = n \div d
  OBVIOUS
<1>2. q \in Nat /\ d * q <= n
  BY <1>1, SMT
<1>3. q >= 1 => d * q >= d
  BY <1>2, SMT
<1>4. QED
  BY <1>1, <1>2, <1>3, SMT

(* A set that contains 0, and with each number its successor, contains all.*)
LEMMA SetInduction ==
  ASSUME NEW S, 0 \in S, \A n \in Nat : n \in S => n + 1 \in S
  PROVE  \A n \in Nat : n \in S
<1>1. SUFFICES ASSUME Nat \ S # {}
               PROVE  FALSE
  OBVIOUS
<1>2. PICK m \in Nat \ S : \A y \in Nat \ S : m <= y
  BY <1>1, LeastElement
<1>3. m - 1 \in Nat /\ m - 1 \in S
  BY <1>2
<1>4. QED
  BY <1>3

(* f is defined step by step from a first value: step[i] gives the i-th    *)
(* value from the one before.                                              *)
Recurs(f, X, first, step, n) ==
  /\ f \in [0 .. n -> X]
  /\ f[0] = first
  /\ \A i \in 1 .. n : f[i] = step[i][f[i - 1]]

(* Such a function exists.                                                 *)
LEMMA Recursion ==
  ASSUME NEW X, NEW first \in X, NEW n \in Nat,
         NEW step \in [1 .. n -> [X -> X]]
  PROVE  \E f : Recurs(f, X, first, step, n)
<1> DEFINE S == {k \in Nat : k <= n => \E f : Recurs(f, X, first, step, k)}
<1>1. 0 \in S
  <2>1. Recurs([i \in 0 .. 0 |-> first], X, first, step, 0)
    BY DEF Recurs
  <2>2. QED
    BY <2>1
<1>2. ASSUME NEW k \in Nat, k \in S
      PROVE  k + 1 \in S
  <2>1. SUFFICES ASSUME k + 1 <= n
                 PROVE  \E f : Recurs(f, X, first, step, k + 1)
    OBVIOUS
  <2>2. PICK f : Recurs(f, X, first, step, k)
    BY <1>2, <2>1
  <2> USE DEF Recurs
  <2> DEFINE g == [i \in 0 .. k + 1 |-> IF i <= k THEN f[i] ELSE step[k + 1][f[k]]]
  <2>3. f[k] \in X /\ k + 1 \in 1 .. n
    BY <2>1, <2>2
  <2>4. step[k + 1][f[k]] \in X
    BY <2>3
  <2>5. g \in [0 .. k + 1 -> X] /\ g[0] = first
    BY <2>2, <2>4
  <2>6. ASSUME NEW i \in 1 .. k + 1
        PROVE  g[i] = step[i][g[i - 1]]
    <3>1. CASE i <= k
      BY <2>2, <3>1
    <3>2. CASE i = k + 1
      BY <3>2
    <3>3. QED
      BY <3>1, <3>2
  <2>7. QED
    BY <2>5, <2>6
<1> HIDE DEF S
<1>3. n \in S
  BY <1>1, <1>2, SetInduction
<1>4. QED
  BY <1>3 DEF S

-----------------------------------------------------------------------------
(* The commands and their encoding.  The limits of cmd_make() fit the      *)
(* codes of msg_commands(): what the receiver adds up is exactly what the  *)
(* player's side executed, for every range of angles and speeds and every  *)
(* number of bits.                                                         *)

(* The modulus of numbers at most one range away.                          *)
LEMMA ModIs ==
  \A m \in Nat \ {0}, x \in Int :
    /\ 0 <= x /\ x < m => x % m = x
    /\ m <= x /\ x < m + m => x % m = x - m
    /\ - m <= x /\ x < 0 => x % m = x + m
  BY SMT

(* A limit leaves room for as many steps down as up, and one code unused.  *)
LEMMA LimitsFit ==
  /\ AngleLimit \in Nat /\ SpeedLimit \in Nat
  /\ 2 * AngleLimit + 2 = AngleCodes
  /\ 2 * SpeedLimit + 2 = SpeedCodes
  BY CodecAssumption, SMT DEF AngleLimit, SpeedLimit

(* What is cut off at a limit is within it, and no further than it was.    *)
LEMMA LimitedIs ==
  ASSUME NEW d \in Int, NEW limit \in Nat
  PROVE  /\ Limited(d, limit) \in Int
         /\ - limit <= Limited(d, limit) /\ Limited(d, limit) <= limit
         /\ d >= 0 => 0 <= Limited(d, limit) /\ Limited(d, limit) <= d
         /\ d <= 0 => d <= Limited(d, limit) /\ Limited(d, limit) <= 0
  BY SMT DEF Limited

LEMMA UnwoundType ==
  ASSUME NEW d \in Int
  PROVE  Unwound(d) \in Int
  BY CodecAssumption, SMT DEF Unwound

(* The angle of cmd_make() is one, and its code is the step with the limit *)
(* added: the difference around a full turn is undone.                     *)
LEMMA AngleCode ==
  ASSUME NEW a \in Angles, NEW step \in Int, - AngleLimit <= step, step <= AngleLimit
  PROVE  LET b == (a + step) % AngleRange
         IN  /\ b \in Angles
             /\ Unwound(b - a + AngleLimit) % AngleCodes = step + AngleLimit
<1> DEFINE b == (a + step) % AngleRange
<1>1. /\ AngleRange \in Nat \ {0} /\ AngleCodes \in Nat \ {0} /\ a \in 0 .. AngleRange - 1
      /\ AngleLimit \in Nat /\ 2 * AngleLimit + 2 = AngleCodes
      /\ 2 * AngleCodes <= AngleRange
  BY CodecAssumption, LimitsFit, SMT DEF Angles
<1>2. \/ b = a + step
      \/ b = a + step - AngleRange
      \/ b = a + step + AngleRange
  <2> DEFINE x == a + step
  <2>1. /\ x \in Int
        /\ - AngleRange <= x /\ x < AngleRange + AngleRange
    BY <1>1, SMT
  <2>2. /\ 0 <= x /\ x < AngleRange => b = x
        /\ AngleRange <= x /\ x < AngleRange + AngleRange => b = x - AngleRange
        /\ - AngleRange <= x /\ x < 0 => b = x + AngleRange
    <3>1. AngleRange \in Nat \ {0} /\ x \in Int /\ b = x % AngleRange
      BY <1>1, <2>1
    <3> HIDE DEF x, b
    <3>2. QED
      BY <3>1, ModIs
  <2>3. QED
    BY <1>1, <2>1, <2>2, SMT
<1>3. b \in 0 .. AngleRange - 1
  BY <1>1, SMT
<1>4. Unwound(b - a + AngleLimit) = step + AngleLimit
  BY <1>1, <1>2, <1>3, SMT DEF Unwound
<1>5. step + AngleLimit \in Int /\ 0 <= step + AngleLimit /\ step + AngleLimit < AngleCodes
  BY <1>1, SMT
<1>6. (step + AngleLimit) % AngleCodes = step + AngleLimit
  BY <1>1, <1>5, ModIs, Zenon
<1>7. QED
  BY <1>3, <1>4, <1>6 DEF Angles

(* A command of cmd_make() is a command, whatever the player wants.        *)
THEOREM MakeType ==
  ASSUME NEW prev \in Commands, NEW want \in Commands
  PROVE  Make(prev, want) \in Commands
<1> DEFINE step == Limited(Unwound(want.angle - prev.angle), AngleLimit)
           gain == Limited(want.speed - prev.speed, SpeedLimit)
<1>1. /\ prev.angle \in Angles /\ want.angle \in Angles
      /\ prev.speed \in Speeds /\ want.speed \in Speeds
      /\ want.action \in Actions
  BY DEF Commands
<1>2. want.angle - prev.angle \in Int /\ want.speed - prev.speed \in Int
  BY <1>1, CodecAssumption, SMT DEF Angles, Speeds
<1>3. (prev.angle + step) % AngleRange \in Angles
  BY <1>1, <1>2, UnwoundType, LimitedIs, LimitsFit, AngleCode
<1>4. prev.speed + gain \in Speeds
  <2>1. /\ gain \in Int
        /\ want.speed - prev.speed >= 0 => 0 <= gain /\ gain <= want.speed - prev.speed
        /\ want.speed - prev.speed <= 0 => want.speed - prev.speed <= gain /\ gain <= 0
    BY <1>2, LimitedIs, LimitsFit
  <2>2. QED
    BY <1>1, <2>1, CodecAssumption, SMT DEF Speeds
<1>5. QED
  BY <1>1, <1>3, <1>4 DEF Make, Commands

(* The differences of msg_commands() bring the receiver exactly to the     *)
(* command that cmd_make() made, across angle 0 as well, and neither is    *)
(* cut to its bits: the warnings of msg_commands() are never logged.       *)
THEOREM DeltasAreExact ==
  ASSUME NEW prev \in Commands, NEW want \in Commands
  PROVE  LET next  == Make(prev, want)
             delta == Delta(prev, next)
         IN  /\ Moved(prev, delta, next.action) = next
             /\ delta.angle \in 0 .. AngleCodes - 2
             /\ delta.speed \in 0 .. SpeedCodes - 2
             /\ delta.speed = next.speed - prev.speed + SpeedLimit
<1> DEFINE step == Limited(Unwound(want.angle - prev.angle), AngleLimit)
           gain == Limited(want.speed - prev.speed, SpeedLimit)
           next == Make(prev, want)
           delta == Delta(prev, next)
<1>1. /\ prev.angle \in Angles /\ want.angle \in Angles
      /\ prev.speed \in Speeds /\ want.speed \in Speeds
      /\ prev = [angle |-> prev.angle, speed |-> prev.speed, action |-> prev.action]
  BY DEF Commands
<1>2. /\ next.angle = (prev.angle + step) % AngleRange
      /\ next.speed = prev.speed + gain
      /\ next = [angle |-> next.angle, speed |-> next.speed, action |-> next.action]
  BY DEF Make
<1>3. next.angle \in Angles /\ next.speed \in Speeds
  BY MakeType DEF Commands
<1>4. /\ step \in Int /\ - AngleLimit <= step /\ step <= AngleLimit
      /\ gain \in Int /\ - SpeedLimit <= gain /\ gain <= SpeedLimit
  <2>1. want.angle - prev.angle \in Int /\ want.speed - prev.speed \in Int
    BY <1>1, CodecAssumption, SMT DEF Angles, Speeds
  <2>2. QED
    BY <2>1, UnwoundType, LimitedIs, LimitsFit
<1>5. delta.angle = step + AngleLimit
  <2>1. Unwound(next.angle - prev.angle + AngleLimit) % AngleCodes = step + AngleLimit
    BY <1>1, <1>2, <1>4, AngleCode
  <2>2. QED
    BY <2>1 DEF Delta
<1>6. delta.speed = gain + SpeedLimit
  <2>1. /\ gain + SpeedLimit \in Int /\ 0 <= gain + SpeedLimit
        /\ gain + SpeedLimit < SpeedCodes
    BY <1>4, LimitsFit, SMT
  <2>2. next.speed - prev.speed + SpeedLimit = gain + SpeedLimit
    BY <1>1, <1>2, <1>4, LimitsFit, CodecAssumption, SMT DEF Speeds
  <2>3. (gain + SpeedLimit) % SpeedCodes = gain + SpeedLimit
    BY <2>1, CodecAssumption, ModIs, Zenon
  <2>4. QED
    BY <2>2, <2>3 DEF Delta
<1>7. (prev.angle + delta.angle - AngleLimit) % AngleRange = next.angle
  <2>1. prev.angle + delta.angle - AngleLimit = prev.angle + step
    BY <1>1, <1>4, <1>5, LimitsFit, CodecAssumption, SMT DEF Angles
  <2>2. QED
    BY <1>2, <2>1
<1>8. (prev.speed + delta.speed - SpeedLimit) % SpeedRange = next.speed
  <2>1. prev.speed + delta.speed - SpeedLimit = next.speed
    BY <1>1, <1>2, <1>4, <1>6, LimitsFit, CodecAssumption, SMT DEF Speeds
  <2>2. next.speed \in Int /\ 0 <= next.speed /\ next.speed < SpeedRange
    BY <1>3, CodecAssumption, SMT DEF Speeds
  <2>3. next.speed % SpeedRange = next.speed
    BY <2>2, CodecAssumption, ModIs, Zenon
  <2>4. QED
    BY <2>1, <2>3
<1>9. Moved(prev, delta, next.action) = next
  BY <1>2, <1>7, <1>8 DEF Moved
<1>10. delta.angle \in 0 .. AngleCodes - 2 /\ delta.speed \in 0 .. SpeedCodes - 2
  BY <1>4, <1>5, <1>6, LimitsFit, CodecAssumption, SMT
<1>11. delta.speed = next.speed - prev.speed + SpeedLimit
  BY <1>1, <1>2, <1>4, <1>6, LimitsFit, CodecAssumption, SMT DEF Speeds
<1>12. QED
  BY <1>9, <1>10, <1>11

-----------------------------------------------------------------------------
(* The bits of the actions.                                                *)

Bits == Seq({0, 1})

LEMMA ActionIsBits ==
  ASSUME NEW a \in Actions
  PROVE  a \in Bits /\ Len(a) = ActionBits
<1>1. ActionBits \in Nat
  BY CodecAssumption
<1>2. QED
  BY <1>1 DEF Actions, Bits

LEMMA ChangeIsBits ==
  ASSUME NEW prev \in Commands, NEW next \in Commands
  PROVE  LET c == ActionChange(prev, next)
         IN  /\ c \in Bits
             /\ Len(c) = IF next.action = prev.action THEN 1 ELSE 1 + ActionBits
             /\ c[1] = IF next.action = prev.action THEN 0 ELSE 1
             /\ next.action # prev.action =>
                  \A i \in 1 .. ActionBits : c[1 + i] = next.action[i]
<1>1. ActionBits \in Nat /\ next.action \in Bits /\ Len(next.action) = ActionBits
  BY CodecAssumption, ActionIsBits DEF Commands
<1>2. CASE next.action = prev.action
  BY <1>2 DEF ActionChange, Bits
<1>3. CASE next.action # prev.action
  <2>1. ActionChange(prev, next) = << 1 >> \o next.action
    BY <1>3 DEF ActionChange
  <2>2. << 1 >> \in Bits /\ Len(<< 1 >>) = 1 /\ << 1 >>[1] = 1
    BY DEF Bits
  <2>3. QED
    BY <1>1, <1>3, <2>1, <2>2 DEF Bits
<1>4. QED
  BY <1>2, <1>3

(* What becomes of the actions up to the i-th command, in bits.            *)
IsBitsOf(b, cmds) ==
  /\ b \in [1 .. Len(cmds) -> Bits]
  /\ b[1] = << >>
  /\ \A i \in 1 .. Len(cmds) - 1 : b[i + 1] = b[i] \o ActionChange(cmds[i], cmds[i + 1])

Message(first, cmds, b) ==
  [first    |-> first,
   count    |-> Len(cmds) - 1,
   cmd      |-> cmds[1],
   bits     |-> b[Len(cmds)],
   deltas   |-> [i \in 1 .. Len(cmds) - 1 |-> Delta(cmds[i], cmds[i + 1])],
   deltasAt |-> ByteAfter(Len(b[Len(cmds)]))]

LEMMA BitsExist ==
  ASSUME NEW cmds \in Seq(Commands), cmds # << >>
  PROVE  \E b : IsBitsOf(b, cmds)
<1>1. PICK n \in Nat : Len(cmds) = n + 1
  <2>1. Len(cmds) - 1 \in Nat /\ Len(cmds) = (Len(cmds) - 1) + 1
    OBVIOUS
  <2>2. QED
    BY <2>1
<1>2. \A i \in 1 .. n : ActionChange(cmds[i], cmds[i + 1]) \in Bits
  BY <1>1, ChangeIsBits
<1>3. PICK step \in [1 .. n -> [Bits -> Bits]] :
        \A i \in 1 .. n : \A x \in Bits : step[i][x] = x \o ActionChange(cmds[i], cmds[i + 1])
  <2> DEFINE step == [i \in 1 .. n |-> [x \in Bits |-> x \o ActionChange(cmds[i], cmds[i + 1])]]
  <2>1. step \in [1 .. n -> [Bits -> Bits]]
    BY <1>2 DEF Bits
  <2>2. QED
    BY <2>1
<1>4. PICK none \in Bits : none = << >>
  <2>1. << >> \in Bits
    BY DEF Bits
  <2>2. QED
    BY <2>1
<1>5. PICK f : Recurs(f, Bits, none, step, n)
  BY <1>1, <1>3, <1>4, Recursion
<1>6. /\ f \in [0 .. n -> Bits] /\ f[0] = none
      /\ \A i \in 1 .. n : f[i] = step[i][f[i - 1]]
  BY <1>5 DEF Recurs
<1> DEFINE b == [i \in 1 .. n + 1 |-> f[i - 1]]
<1>7. b \in [1 .. Len(cmds) -> Bits] /\ b[1] = << >>
  BY <1>1, <1>4, <1>6
<1>8. ASSUME NEW i \in 1 .. n
      PROVE  b[i + 1] = b[i] \o ActionChange(cmds[i], cmds[i + 1])
  <2>1. b[i + 1] = f[i] /\ b[i] = f[i - 1] /\ f[i - 1] \in Bits
    <3>1. i + 1 \in 1 .. n + 1 /\ (i + 1) - 1 = i /\ i \in 1 .. n + 1 /\ i - 1 \in 0 .. n
      BY <1>1
    <3>2. QED
      BY <1>6, <3>1
  <2>2. f[i] = step[i][f[i - 1]]
    BY <1>6
  <2>3. step[i][f[i - 1]] = f[i - 1] \o ActionChange(cmds[i], cmds[i + 1])
    BY <1>3, <2>1
  <2>4. QED
    BY <2>1, <2>2, <2>3
<1> HIDE DEF b
<1>9. \A i \in 1 .. Len(cmds) - 1 : b[i + 1] = b[i] \o ActionChange(cmds[i], cmds[i + 1])
  <2>1. Len(cmds) - 1 = n
    BY <1>1
  <2>2. QED
    BY <1>8, <2>1, Zenon
<1>10. QED
  BY <1>7, <1>9 DEF IsBitsOf

(* The encoding of msg_commands() is made of them.                         *)
LEMMA EncodedIs ==
  ASSUME NEW cmds \in Seq(Commands), cmds # << >>, NEW first
  PROVE  \E b : IsBitsOf(b, cmds) /\ Encoded(first, cmds) = Message(first, cmds, b)
<1> DEFINE D == 1 .. Len(cmds)
           Unfold(b) == [i \in D |-> IF i = 1 THEN << >>
                                     ELSE b[i - 1] \o ActionChange(cmds[i - 1], cmds[i])]
           r == CHOOSE b : b = Unfold(b)
<1>1. PICK b : IsBitsOf(b, cmds)
  BY BitsExist
<1>2. b = Unfold(b)
  <2>1. ASSUME NEW i \in D
        PROVE  b[i] = Unfold(b)[i]
    <3>1. i # 1 => i - 1 \in 1 .. Len(cmds) - 1 /\ (i - 1) + 1 = i
      OBVIOUS
    <3>2. QED
      BY <1>1, <3>1 DEF IsBitsOf
  <2>2. QED
    BY <1>1, <2>1 DEF IsBitsOf
<1> HIDE DEF Unfold
<1>3. r = Unfold(r)
  BY <1>2
<1>4. Encoded(first, cmds) = Message(first, cmds, r)
  BY DEF Encoded, Message, Unfold
<1> HIDE DEF r
<1>5. r[1] = << >>
  BY <1>3 DEF Unfold
<1>6. ASSUME NEW i \in 1 .. Len(cmds) - 1
      PROVE  r[i + 1] = r[i] \o ActionChange(cmds[i], cmds[i + 1])
  <2>1. i + 1 \in D /\ i + 1 # 1 /\ (i + 1) - 1 = i
    OBVIOUS
  <2>2. r[i + 1] = Unfold(r)[i + 1]
    BY <1>3
  <2>3. QED
    BY <2>1, <2>2 DEF Unfold
<1>7. r \in [1 .. Len(cmds) -> Bits]
  <2> DEFINE S == {n \in Nat : n < Len(cmds) => r[n + 1] \in Bits}
  <2>1. 0 \in S
    <3>1. 0 \in Nat /\ 0 + 1 = 1 /\ << >> \in Bits
      BY DEF Bits
    <3>2. QED
      BY <1>5, <3>1
  <2>2. ASSUME NEW n \in Nat, n \in S
        PROVE  n + 1 \in S
    <3>1. SUFFICES ASSUME n + 1 < Len(cmds)
                   PROVE  r[(n + 1) + 1] \in Bits
      OBVIOUS
    <3>2. n + 1 \in 1 .. Len(cmds) - 1 /\ r[n + 1] \in Bits
      BY <2>2, <3>1
    <3>3. cmds[n + 1] \in Commands /\ cmds[(n + 1) + 1] \in Commands
      BY <3>2
    <3>4. ActionChange(cmds[n + 1], cmds[(n + 1) + 1]) \in Bits
      BY <3>3, ChangeIsBits
    <3>5. r[(n + 1) + 1] = r[n + 1] \o ActionChange(cmds[n + 1], cmds[(n + 1) + 1])
      BY <1>6, <3>2
    <3>6. QED
      BY <3>2, <3>4, <3>5 DEF Bits
  <2> HIDE DEF S
  <2>3. \A n \in Nat : n \in S
    BY <2>1, <2>2, SetInduction
  <2>4. ASSUME NEW i \in 1 .. Len(cmds)
        PROVE  r[i] \in Bits
    <3>1. i - 1 \in Nat /\ i - 1 < Len(cmds) /\ (i - 1) + 1 = i
      OBVIOUS
    <3>2. QED
      BY <2>3, <3>1 DEF S
  <2>5. r = [i \in D |-> r[i]]
    BY <1>3 DEF Unfold
  <2>6. QED
    BY <2>4, <2>5
<1>8. QED
  BY <1>4, <1>5, <1>6, <1>7 DEF IsBitsOf

-----------------------------------------------------------------------------
(* The bits of the first i commands are the beginning of all.              *)

Begins(s, t) == Len(s) <= Len(t) /\ \A k \in 1 .. Len(s) : t[k] = s[k]

LEMMA BitsBegin ==
  ASSUME NEW cmds \in Seq(Commands), NEW b, IsBitsOf(b, cmds), NEW i \in 1 .. Len(cmds)
  PROVE  \A j \in i .. Len(cmds) : Begins(b[i], b[j])
<1> DEFINE S == {n \in Nat : i + n <= Len(cmds) => Begins(b[i], b[i + n])}
<1>1. 0 \in S
  <2>1. i + 0 = i
    OBVIOUS
  <2>2. Begins(b[i], b[i])
    BY DEF Begins, IsBitsOf, Bits
  <2>3. QED
    BY <2>1, <2>2
<1>2. ASSUME NEW n \in Nat, n \in S
      PROVE  n + 1 \in S
  <2>1. SUFFICES ASSUME i + (n + 1) <= Len(cmds)
                 PROVE  Begins(b[i], b[i + (n + 1)])
    OBVIOUS
  <2>2. PICK k \in 1 .. Len(cmds) - 1 : k = i + n
    BY <2>1
  <2>3. Begins(b[i], b[k]) /\ i + (n + 1) = k + 1
    BY <1>2, <2>1, <2>2
  <2>4. b[k + 1] = b[k] \o ActionChange(cmds[k], cmds[k + 1])
    BY DEF IsBitsOf
  <2>5. b[i] \in Bits /\ b[k] \in Bits
    BY <2>2 DEF IsBitsOf
  <2>6. ActionChange(cmds[k], cmds[k + 1]) \in Bits
    BY <2>2, ChangeIsBits
  <2> DEFINE s == b[i]
             t == b[k]
             c == ActionChange(cmds[k], cmds[k + 1])
  <2> HIDE DEF s, t, c
  <2>7. s \in Bits /\ t \in Bits /\ c \in Bits /\ Begins(s, t)
    BY <2>3, <2>5, <2>6 DEF s, t, c
  <2>8. Begins(s, t \o c)
    BY <2>7 DEF Begins, Bits
  <2>9. QED
    BY <2>3, <2>4, <2>8 DEF s, t, c
<1> HIDE DEF S
<1>3. \A n \in Nat : n \in S
  BY <1>1, <1>2, SetInduction
<1>4. SUFFICES ASSUME NEW j \in i .. Len(cmds)
               PROVE  Begins(b[i], b[j])
  OBVIOUS
<1>5. j - i \in Nat /\ i + (j - i) = j /\ j <= Len(cmds)
  OBVIOUS
<1>6. QED
  BY <1>3, <1>5 DEF S

Holds(s, from, a) == \A i \in 1 .. Len(a) : s[from - 1 + i] = a[i]

LEMMA CutOut ==
  ASSUME NEW s \in Bits, NEW from \in Nat \ {0}, NEW a \in Bits, Holds(s, from, a),
         NEW upto \in Int, upto = from - 1 + Len(a), upto <= Len(s)
  PROVE  SubSeq(s, from, upto) = a
<1>1. Len(a) \in Nat /\ Len(s) \in Nat
  BY DEF Bits
<1>2. Len(SubSeq(s, from, upto)) = Len(a)
  BY <1>1 DEF Bits
<1>3. ASSUME NEW i \in 1 .. Len(a)
      PROVE  SubSeq(s, from, upto)[i] = a[i]
  BY <1>1 DEF Bits, Holds
<1>4. SubSeq(s, from, upto) \in Bits
  BY <1>1 DEF Bits
<1> DEFINE u == SubSeq(s, from, upto)
<1> HIDE DEF u
<1>5. u \in Bits /\ Len(u) = Len(a) /\ \A i \in 1 .. Len(u) : u[i] = a[i]
  BY <1>2, <1>3, <1>4 DEF u
<1>6. u = a
  BY <1>5, SeqEqual DEF Bits
<1>7. QED
  BY <1>6 DEF u

(* The action that follows bit at.                                         *)
ActionAfter(all, at) == SubSeq(all, at + 1, at + ActionBits)

(* What the receiver reads at the bits of the (i + 1)-th command.          *)
LEMMA ReadAction ==
  ASSUME NEW cmds \in Seq(Commands), NEW b, IsBitsOf(b, cmds),
         NEW i \in 1 .. Len(cmds) - 1,
         NEW all, all = b[Len(cmds)], NEW at, at = 1 + Len(b[i]),
         NEW act, act = cmds[i + 1].action,
         NEW was, was = cmds[i].action
  PROVE  /\ at \in Nat
         /\ all[at] = 1 <=> act # was
         /\ act # was => ActionAfter(all, at) = act
         /\ Len(b[i]) \in Nat
         /\ Len(b[i + 1]) = Len(b[i]) + (IF act = was THEN 1 ELSE 1 + ActionBits)
<1>1. i \in 1 .. Len(cmds) /\ i + 1 \in 1 .. Len(cmds) /\ Len(cmds) \in i + 1 .. Len(cmds)
  OBVIOUS
<1>2. cmds[i] \in Commands /\ cmds[i + 1] \in Commands
  BY <1>1
<1>3. PICK t, c : t = b[i] /\ c = ActionChange(cmds[i], cmds[i + 1])
  OBVIOUS
<1>4. /\ c \in Bits /\ Len(c) = (IF act = was THEN 1 ELSE 1 + ActionBits)
      /\ c[1] = (IF act = was THEN 0 ELSE 1)
      /\ act # was => \A k \in 1 .. ActionBits : c[1 + k] = act[k]
  BY <1>2, <1>3, ChangeIsBits
<1>5. /\ act \in Bits /\ Len(act) = ActionBits
      /\ ActionBits \in Nat
  BY <1>2, ActionIsBits, CodecAssumption DEF Commands
<1>6. t \in Bits /\ all \in Bits /\ b[i + 1] = t \o c
  <2>1. b \in [1 .. Len(cmds) -> Bits]
    BY DEF IsBitsOf
  <2>2. b[i + 1] = b[i] \o ActionChange(cmds[i], cmds[i + 1])
    BY DEF IsBitsOf
  <2>3. b[i] \in Bits /\ b[Len(cmds)] \in Bits
    BY <1>1, <2>1
  <2>4. QED
    BY <1>3, <2>2, <2>3
<1>7. Begins(t \o c, all)
  <2>1. Begins(b[i + 1], b[Len(cmds)])
    BY <1>1, BitsBegin
  <2>2. QED
    BY <1>6, <2>1
<1>8. /\ Len(t) \in Nat /\ Len(c) \in Nat /\ Len(all) \in Nat
      /\ Len(t \o c) = Len(t) + Len(c) /\ Len(t) + Len(c) <= Len(all)
  <2>0. t \in Bits /\ c \in Bits
    BY <1>4, <1>6
  <2>1. /\ Len(t) \in Nat /\ Len(c) \in Nat /\ Len(all) \in Nat
        /\ Len(t \o c) = Len(t) + Len(c)
    BY <1>6, <2>0 DEF Bits
  <2>2. QED
    BY <1>7, <2>1 DEF Begins
<1>9. ASSUME NEW k \in 1 .. Len(c)
      PROVE  all[Len(t) + k] = c[k]
  <2>1. Len(t) + k \in 1 .. Len(t \o c)
    BY <1>4, <1>8 DEF Bits
  <2>2. all[Len(t) + k] = (t \o c)[Len(t) + k]
    BY <1>7, <2>1 DEF Begins
  <2>3. (t \o c)[Len(t) + k] = c[k]
    BY <1>4, <1>6 DEF Bits
  <2>4. QED
    BY <2>2, <2>3
<1>10. at = Len(t) + 1 /\ at \in Nat \ {0}
  BY <1>3, <1>8
<1>11. all[at] = c[1]
  <2>1. 1 \in 1 .. Len(c)
    BY <1>4, <1>5
  <2>2. QED
    BY <1>9, <1>10, <2>1
<1>12. ASSUME act # was
       PROVE  ActionAfter(all, at) = act
  <2>1. Len(c) = 1 + ActionBits
    BY <1>4, <1>12
  <2>2. PICK from, upto : from = at + 1 /\ upto = at + ActionBits
    OBVIOUS
  <2>3. /\ from \in Nat \ {0} /\ upto \in Int
        /\ upto = from - 1 + Len(act) /\ upto <= Len(all)
    BY <1>5, <1>8, <1>10, <2>1, <2>2
  <2>4. ASSUME NEW k \in 1 .. Len(act)
        PROVE  all[from - 1 + k] = act[k]
    <3>1. k \in 1 .. ActionBits /\ k \in Int /\ ActionBits \in Nat
      BY <1>5
    <3>2. 1 + k \in 1 .. Len(c)
      BY <2>1, <3>1
    <3>3. from - 1 + k = Len(t) + (1 + k)
      BY <1>8, <1>10, <2>2, <3>1
    <3>4. c[1 + k] = act[k]
      BY <1>4, <1>12, <3>1
    <3>5. QED
      BY <1>9, <3>2, <3>3, <3>4
  <2>5. all \in Bits /\ act \in Bits
    BY <1>5, <1>6
  <2>6. Holds(all, from, act)
    BY <2>4 DEF Holds
  <2>7. SubSeq(all, from, upto) = act
    BY <2>3, <2>5, <2>6, CutOut
  <2>8. QED
    BY <2>2, <2>7 DEF ActionAfter
<1>13. /\ Len(b[i]) \in Nat
       /\ Len(b[i + 1]) = Len(b[i]) + (IF act = was THEN 1 ELSE 1 + ActionBits)
  <2>1. Len(b[i + 1]) = Len(t) + Len(c) /\ Len(b[i]) = Len(t)
    BY <1>3, <1>6, <1>8
  <2>2. Len(c) = (IF act = was THEN 1 ELSE 1 + ActionBits)
    BY <1>4
  <2>3. QED
    BY <1>8, <2>1, <2>2, Zenon
<1>14. all[at] = 1 <=> act # was
  BY <1>4, <1>11
<1>15. at \in Nat
  BY <1>10
<1>16. QED
  BY <1>12, <1>13, <1>14, <1>15

-----------------------------------------------------------------------------
(* What the receiver makes of a message.                                   *)

(* Commands made one after the other by cmd_make().                        *)
Made(cmds) ==
  /\ cmds \in Seq(Commands) /\ cmds # << >>
  /\ \A i \in 1 .. Len(cmds) - 1 :
       \E want \in Commands : cmds[i + 1] = Make(cmds[i], want)

LEMMA BitsAreFound ==
  ASSUME NEW cmds \in Seq(Commands), cmds # << >>, NEW b, IsBitsOf(b, cmds),
         NEW m, m.count = Len(cmds) - 1, m.bits = b[Len(cmds)]
  PROVE  \A i \in 1 .. Len(cmds) : BitAt(m)[i] = 1 + Len(b[i])
<1> DEFINE D == 1 .. m.count + 1
           Unfold(at) == [i \in D |-> IF i = 1 THEN 1
                                      ELSE at[i - 1] + (IF m.bits[at[i - 1]] = 1
                                                        THEN 1 + ActionBits ELSE 1)]
           g == [i \in D |-> 1 + Len(b[i])]
           r == BitAt(m)
<1>1. D = 1 .. Len(cmds) /\ Len(cmds) \in Nat \ {0}
  OBVIOUS
<1>2. ASSUME NEW i \in 1 .. Len(cmds) - 1
      PROVE  /\ g[i] = 1 + Len(b[i])
             /\ 1 + Len(b[i + 1]) = g[i] + (IF m.bits[g[i]] = 1 THEN 1 + ActionBits ELSE 1)
  <2> DEFINE act == cmds[i + 1].action
             was == cmds[i].action
  <2>1. PICK p, q : p = b[i] /\ q = b[i + 1]
    OBVIOUS
  <2>2. g[i] = 1 + Len(p)
    BY <1>1, <2>1
  <2>3. /\ m.bits[1 + Len(p)] = 1 <=> act # was
        /\ Len(p) \in Nat
        /\ Len(q) = Len(p) + (IF act = was THEN 1 ELSE 1 + ActionBits)
    BY <2>1, ReadAction
  <2> HIDE DEF g, act, was
  <2>4. 1 + Len(q) = g[i] + (IF m.bits[g[i]] = 1 THEN 1 + ActionBits ELSE 1)
    <3>1. CASE act = was
      BY <2>2, <2>3, <3>1
    <3>2. CASE act # was
      BY <2>2, <2>3, <3>2, CodecAssumption
    <3>3. QED
      BY <3>1, <3>2
  <2>5. QED
    BY <2>1, <2>2, <2>4
<1>3. g = Unfold(g)
  <2>1. ASSUME NEW i \in D
        PROVE  g[i] = Unfold(g)[i]
    <3>1. CASE i = 1
      BY <1>1, <3>1 DEF IsBitsOf
    <3>2. CASE i # 1
      <4>1. i - 1 \in 1 .. Len(cmds) - 1 /\ (i - 1) + 1 = i
        BY <1>1, <3>2
      <4>2. 1 + Len(b[i]) = g[i - 1] + (IF m.bits[g[i - 1]] = 1 THEN 1 + ActionBits ELSE 1)
        BY <1>2, <4>1
      <4> HIDE DEF g
      <4>3. Unfold(g)[i] = 1 + Len(b[i])
        BY <3>2, <4>2
      <4>4. QED
        BY <4>3 DEF g
    <3>3. QED
      BY <3>1, <3>2
  <2>2. QED
    BY <2>1
<1>4. r = CHOOSE at : at = Unfold(at)
  BY DEF BitAt
<1> HIDE DEF Unfold
<1>5. r = Unfold(r)
  BY <1>3, <1>4
<1> HIDE DEF r
<1>6. r[1] = 1
  BY <1>1, <1>5 DEF Unfold
<1>7. ASSUME NEW i \in 1 .. Len(cmds) - 1
      PROVE  r[i + 1] = r[i] + (IF m.bits[r[i]] = 1 THEN 1 + ActionBits ELSE 1)
  <2>1. i + 1 \in D /\ i + 1 # 1 /\ (i + 1) - 1 = i
    BY <1>1
  <2>2. r[i + 1] = Unfold(r)[i + 1]
    BY <1>5
  <2>3. QED
    BY <2>1, <2>2 DEF Unfold
<1> DEFINE S == {n \in Nat : n < Len(cmds) => r[n + 1] = 1 + Len(b[n + 1])}
<1>8. 0 \in S
  <2>1. 0 + 1 = 1 /\ b[1] = << >> /\ 1 + Len(<< >>) = 1
    BY DEF IsBitsOf
  <2>2. QED
    BY <1>6, <2>1
<1>9. ASSUME NEW n \in Nat, n \in S
      PROVE  n + 1 \in S
  <2>1. SUFFICES ASSUME n + 1 < Len(cmds)
                 PROVE  r[(n + 1) + 1] = 1 + Len(b[(n + 1) + 1])
    OBVIOUS
  <2>2. n + 1 \in 1 .. Len(cmds) - 1 /\ r[n + 1] = 1 + Len(b[n + 1])
    BY <1>9, <2>1
  <2> DEFINE k == n + 1
  <2> HIDE DEF k
  <2>3. k \in 1 .. Len(cmds) - 1 /\ r[k] = 1 + Len(b[k])
    BY <2>2 DEF k
  <2>4. g[k] = 1 + Len(b[k]) /\ r[k] = g[k]
    BY <1>2, <2>3
  <2> HIDE DEF g
  <2>5. 1 + Len(b[k + 1]) = r[k] + (IF m.bits[r[k]] = 1 THEN 1 + ActionBits ELSE 1)
    BY <1>2, <2>3, <2>4
  <2>6. r[k + 1] = 1 + Len(b[k + 1])
    BY <1>7, <2>3, <2>5
  <2>7. QED
    BY <2>6 DEF k
<1> HIDE DEF S
<1>10. \A n \in Nat : n \in S
  BY <1>8, <1>9, SetInduction
<1>11. SUFFICES ASSUME NEW i \in 1 .. Len(cmds)
                PROVE  r[i] = 1 + Len(b[i])
  BY DEF r
<1>12. i - 1 \in Nat /\ i - 1 < Len(cmds) /\ (i - 1) + 1 = i
  OBVIOUS
<1>13. QED
  BY <1>10, <1>12 DEF S

(* The message of commands that were made one after the other is read as   *)
(* these commands: whatever the actions, the receiver finds the bits of    *)
(* each and the byte where the differences begin.                          *)
LEMMA MessageIsRead ==
  ASSUME NEW cmds, Made(cmds), NEW first, NEW b, IsBitsOf(b, cmds)
  PROVE  Decoded(Message(first, cmds, b)) = cmds
<1> DEFINE m == Message(first, cmds, b)
           n == Len(cmds)
           at == BitAt(m)
           off == FoundAt(m) - m.deltasAt
           Unfold(cmd) ==
             [i \in 0 .. m.count |->
                IF i = 0 THEN m.cmd
                ELSE Moved(cmd[i - 1], m.deltas[off + i],
                           IF m.bits[at[i]] = 1
                           THEN SubSeq(m.bits, at[i] + 1, at[i] + ActionBits)
                           ELSE cmd[i - 1].action)]
           g == [i \in 0 .. m.count |-> cmds[i + 1]]
           r == CHOOSE cmd : cmd = Unfold(cmd)
<1>1. /\ m.count = n - 1 /\ m.bits = b[n] /\ m.cmd = cmds[1]
      /\ m.deltas = [i \in 1 .. n - 1 |-> Delta(cmds[i], cmds[i + 1])]
      /\ m.deltasAt = ByteAfter(Len(b[n]))
  BY DEF Message
<1>2. cmds \in Seq(Commands) /\ cmds # << >> /\ n \in Nat \ {0}
  BY DEF Made
<1> HIDE DEF m
<1>3. \A i \in 1 .. n : at[i] = 1 + Len(b[i])
  BY <1>1, <1>2, BitsAreFound
<1>4. FoundAt(m) = m.deltasAt /\ m.deltasAt \in Int
  <2>1. b[n] \in Bits
    BY <1>2 DEF IsBitsOf
  <2>2. Len(b[n]) \in Nat
    BY <2>1 DEF Bits
  <2>3. at[n] - 1 = Len(b[n])
    BY <1>2, <1>3, <2>2
  <2>4. m.count + 1 = n
    BY <1>1, <1>2
  <2>5. FoundAt(m) = ByteAfter(Len(b[n]))
    BY <2>3, <2>4 DEF FoundAt
  <2>6. ByteAfter(Len(b[n])) \in Int
    BY <2>2 DEF ByteAfter
  <2>7. QED
    BY <1>1, <2>5, <2>6
<1>5. off = 0
  BY <1>4
<1>6. FoundAt(m) + m.count <= PayloadLen(m)
  BY <1>1, <1>2, <1>4 DEF PayloadLen
<1>7. Decoded(m) = [i \in 1 .. m.count + 1 |-> r[i - 1]]
  <2>1. ~ (FoundAt(m) + m.count > PayloadLen(m))
    BY <1>1, <1>2, <1>4, <1>6 DEF PayloadLen
  <2>2. QED
    BY <2>1 DEF Decoded
<1>8. ASSUME NEW i \in 1 .. n - 1, NEW prev, prev = cmds[i], NEW next, next = cmds[i + 1]
      PROVE  Moved(prev, m.deltas[off + i],
                   IF m.bits[at[i]] = 1
                   THEN SubSeq(m.bits, at[i] + 1, at[i] + ActionBits)
                   ELSE prev.action) = next
  <2>1. prev \in Commands /\ next \in Commands
    BY <1>2, <1>8
  <2>2. PICK want \in Commands : next = Make(prev, want)
    BY <1>8 DEF Made
  <2>3. at[i] = 1 + Len(b[i])
    BY <1>3
  <2>4. /\ m.bits[at[i]] = 1 <=> next.action # prev.action
        /\ next.action # prev.action =>
             SubSeq(m.bits, at[i] + 1, at[i] + ActionBits) = next.action
    <3> DEFINE act == cmds[i + 1].action
               was == cmds[i].action
    <3>1. PICK p : p = b[i]
      OBVIOUS
    <3>2. m.bits = b[Len(cmds)] /\ cmds \in Seq(Commands)
      BY <1>1, <1>2
    <3>3. /\ m.bits[1 + Len(p)] = 1 <=> act # was
          /\ act # was => ActionAfter(m.bits, 1 + Len(p)) = act
      BY <3>1, <3>2, ReadAction
    <3>4. at[i] = 1 + Len(p)
      BY <2>3, <3>1
    <3> HIDE DEF act, was
    <3>5. /\ m.bits[at[i]] = 1 <=> act # was
          /\ act # was => ActionAfter(m.bits, at[i]) = act
      BY <3>3, <3>4, Zenon
    <3>6. QED
      BY <1>8, <3>5 DEF act, was, ActionAfter
  <2>5. (IF m.bits[at[i]] = 1 THEN SubSeq(m.bits, at[i] + 1, at[i] + ActionBits)
                             ELSE prev.action) = next.action
    BY <2>4
  <2>6. m.deltas[off + i] = Delta(prev, next)
    BY <1>1, <1>5, <1>8
  <2>7. Moved(prev, Delta(prev, next), next.action) = next
    BY <2>1, <2>2, DeltasAreExact
  <2>8. QED
    BY <2>5, <2>6, <2>7
<1> HIDE DEF off, at
<1>9. g = Unfold(g)
  <2>1. ASSUME NEW i \in 0 .. m.count
        PROVE  g[i] = Unfold(g)[i]
    <3>1. CASE i = 0
      BY <1>1, <3>1
    <3>2. CASE i # 0
      <4>1. /\ i \in 1 .. n - 1 /\ g[i] = cmds[i + 1] /\ g[i - 1] = cmds[i]
        BY <1>1, <1>2, <3>2
      <4> HIDE DEF g
      <4>2. g[i] = Moved(g[i - 1], m.deltas[off + i],
                         IF m.bits[at[i]] = 1
                         THEN SubSeq(m.bits, at[i] + 1, at[i] + ActionBits)
                         ELSE g[i - 1].action)
        BY <1>8, <4>1
      <4>3. QED
        BY <3>2, <4>2
    <3>3. QED
      BY <3>1, <3>2
  <2>2. QED
    BY <2>1
<1> HIDE DEF Unfold
<1>10. r = Unfold(r)
  BY <1>9
<1> HIDE DEF r
<1>11. r[0] = cmds[1]
  <2>1. 0 \in 0 .. m.count
    BY <1>1, <1>2
  <2>2. QED
    BY <1>1, <1>10, <2>1 DEF Unfold
<1>12. ASSUME NEW i \in 1 .. n - 1, r[i - 1] = cmds[i]
       PROVE  r[i] = cmds[i + 1]
  <2>1. i \in 0 .. m.count /\ i # 0
    BY <1>1, <1>2
  <2>2. r[i] = Moved(r[i - 1], m.deltas[off + i],
                     IF m.bits[at[i]] = 1
                     THEN SubSeq(m.bits, at[i] + 1, at[i] + ActionBits)
                     ELSE r[i - 1].action)
    BY <1>10, <2>1 DEF Unfold
  <2>3. QED
    BY <1>8, <1>12, <2>2
<1> DEFINE S == {k \in Nat : k < n => r[k] = cmds[k + 1]}
<1>13. 0 \in S
  BY <1>11
<1>14. ASSUME NEW k \in Nat, k \in S
       PROVE  k + 1 \in S
  <2>1. SUFFICES ASSUME k + 1 < n
                 PROVE  r[k + 1] = cmds[(k + 1) + 1]
    OBVIOUS
  <2>2. k + 1 \in 1 .. n - 1 /\ (k + 1) - 1 = k /\ r[k] = cmds[k + 1]
    BY <1>2, <1>14, <2>1
  <2>3. PICK j \in 1 .. n - 1 : j = k + 1 /\ r[j - 1] = cmds[j]
    BY <2>2
  <2>4. r[j] = cmds[j + 1]
    BY <1>12, <2>3
  <2>5. QED
    BY <2>3, <2>4
<1> HIDE DEF S
<1>15. \A k \in Nat : k \in S
  BY <1>13, <1>14, SetInduction
<1>16. ASSUME NEW i \in 1 .. n
       PROVE  r[i - 1] = cmds[i]
  <2>1. i - 1 \in Nat /\ i - 1 < n /\ (i - 1) + 1 = i
    BY <1>2
  <2>2. QED
    BY <1>15, <2>1 DEF S
<1>17. [i \in 1 .. m.count + 1 |-> r[i - 1]] = cmds
  <2>1. m.count + 1 = n
    BY <1>1, <1>2
  <2>2. cmds = [i \in 1 .. n |-> cmds[i]]
    BY <1>2
  <2>3. [i \in 1 .. n |-> r[i - 1]] = [i \in 1 .. n |-> cmds[i]]
    BY <1>16
  <2>4. QED
    BY <2>1, <2>2, <2>3
<1>18. QED
  BY <1>7, <1>17 DEF m

(* Each further command takes at most one bit more than an action has.     *)
LEMMA BitsFit ==
  ASSUME NEW cmds \in Seq(Commands), cmds # << >>, NEW b, IsBitsOf(b, cmds)
  PROVE  /\ Len(b[Len(cmds)]) \in Nat
         /\ Len(b[Len(cmds)]) <= (1 + ActionBits) * (Len(cmds) - 1)
<1> DEFINE S == {n \in Nat : n < Len(cmds) =>
                   Len(b[n + 1]) \in Nat /\ Len(b[n + 1]) <= (1 + ActionBits) * n}
<1>1. ActionBits \in Nat
  BY CodecAssumption
<1>2. 0 \in S
  <2>1. 0 + 1 = 1 /\ Len(b[1]) = 0 /\ (1 + ActionBits) * 0 = 0
    BY <1>1 DEF IsBitsOf
  <2>2. QED
    BY <2>1
<1>3. ASSUME NEW n \in Nat, n \in S
      PROVE  n + 1 \in S
  <2>1. SUFFICES ASSUME n + 1 < Len(cmds)
                 PROVE  /\ Len(b[(n + 1) + 1]) \in Nat
                        /\ Len(b[(n + 1) + 1]) <= (1 + ActionBits) * (n + 1)
    OBVIOUS
  <2>2. Len(b[n + 1]) \in Nat /\ Len(b[n + 1]) <= (1 + ActionBits) * n
    BY <1>3, <2>1
  <2>3. PICK i \in 1 .. Len(cmds) - 1 : i = n + 1
    BY <2>1
  <2>4. PICK p, q : p = b[i] /\ q = b[i + 1]
    OBVIOUS
  <2>5. Len(q) = Len(p) + (IF cmds[i + 1].action = cmds[i].action THEN 1 ELSE 1 + ActionBits)
    BY <2>4, ReadAction
  <2>6. Len(p) \in Nat /\ Len(p) <= (1 + ActionBits) * n
    BY <2>2, <2>3, <2>4
  <2>7. PICK w \in Nat : w = 1 + ActionBits
    BY <1>1
  <2>8. Len(q) \in Nat /\ Len(q) <= Len(p) + w
    BY <1>1, <2>5, <2>6, <2>7
  <2>9. w * n \in Nat /\ w * (n + 1) = w * n + w
    OBVIOUS
  <2>10. Len(q) <= w * (n + 1)
    BY <2>6, <2>7, <2>8, <2>9
  <2>11. QED
    BY <2>3, <2>4, <2>7, <2>8, <2>10
<1> HIDE DEF S
<1>4. \A n \in Nat : n \in S
  BY <1>2, <1>3, SetInduction
<1>5. Len(cmds) - 1 \in Nat /\ Len(cmds) - 1 < Len(cmds) /\ (Len(cmds) - 1) + 1 = Len(cmds)
  OBVIOUS
<1>6. QED
  BY <1>4, <1>5 DEF S

(* A message of msg_commands() is read as the commands it was made of, and *)
(* its payload does not exceed what was allocated for it.                  *)
THEOREM CodecIsExact ==
  ASSUME NEW cmds, Made(cmds), NEW first
  PROVE  /\ Decoded(Encoded(first, cmds)) = cmds
         /\ Encoded(first, cmds).first = first
         /\ Encoded(first, cmds).count = Len(cmds) - 1
         /\ PayloadLen(Encoded(first, cmds)) <= Allocated(Encoded(first, cmds))
<1>1. cmds \in Seq(Commands) /\ cmds # << >> /\ Len(cmds) \in Nat \ {0}
  BY DEF Made
<1>2. PICK b : IsBitsOf(b, cmds) /\ Encoded(first, cmds) = Message(first, cmds, b)
  BY <1>1, EncodedIs
<1> DEFINE m == Message(first, cmds, b)
<1>3. Decoded(m) = cmds
  BY <1>2, MessageIsRead
<1>4. m.first = first /\ m.count = Len(cmds) - 1 /\ m.deltasAt = ByteAfter(Len(b[Len(cmds)]))
  BY DEF Message
<1>5. PICK l \in Nat, n \in Nat, w \in Nat :
        /\ l = Len(b[Len(cmds)]) /\ n = m.count /\ w = ActionBits
        /\ l <= (1 + w) * n
  <2>1. m.count \in Nat
    BY <1>1, <1>4
  <2>2. ActionBits \in Nat
    BY CodecAssumption
  <2>3. /\ Len(b[Len(cmds)]) \in Nat
        /\ Len(b[Len(cmds)]) <= (1 + ActionBits) * (Len(cmds) - 1)
    BY <1>1, <1>2, BitsFit
  <2>4. Len(b[Len(cmds)]) <= (1 + ActionBits) * m.count
    BY <1>4, <2>3
  <2> HIDE DEF m
  <2>5. QED
    BY <2>1, <2>2, <2>3, <2>4
<1>6. PayloadLen(m) = 5 + (3 + l + 7) \div 8 + n
  BY <1>4, <1>5 DEF PayloadLen, ByteAfter
<1>7. Allocated(m) = 5 + ((8 + 1 + w) * (n + 1) + 8) \div 8
  BY <1>5 DEF Allocated
<1>8. PICK x \in Nat : x = w * n
  OBVIOUS
<1>9. (1 + w) * n = n + x /\ (8 + 1 + w) * (n + 1) = 9 * n + x + 9 + w
  BY <1>8
<1>10. 5 + (3 + l + 7) \div 8 + n <= 5 + ((8 + 1 + w) * (n + 1) + 8) \div 8
  <2>1. l <= n + x
    BY <1>5, <1>9
  <2>2. (3 + l + 7) \div 8 + n <= (9 * n + x + 9 + w + 8) \div 8
    BY <2>1
  <2>3. QED
    BY <1>9, <2>2
<1>11. QED
  BY <1>2, <1>3, <1>4, <1>6, <1>7, <1>10

-----------------------------------------------------------------------------
(* The session.                                                            *)

(* Frames are counted from the frame in which the player joined: no frame  *)
(* of either side is half a range away from it.                            *)

At(x)  == Plus(Start, x)
Off(f) == Ahead(f, Start)

ServerAt   == Off(serverFrame)
ClientAt   == Off(clientFrame)
FirstAt    == ClientAt - Cardinality(DOMAIN given)  \* the client's first frame
ReleasedAt == ServerAt - Len(serverHead)            \* the first frame executed

(* The next frame the client awaits a confirmation for.                    *)
NextAt == IF clientq.cmds = << >> THEN ClientAt ELSE Off(clientq.first)

(* The clocks, and for which frames there are commands.                    *)
Clocks ==
  /\ clientFrame \in Frames /\ serverFrame \in Frames
  /\ ServerAt <= MaxFrames
  /\ FirstAt \in 0 .. MaxLead
  /\ IsFiniteSet(DOMAIN given) /\ Cardinality(DOMAIN given) <= MaxFrames
  /\ DOMAIN given = {At(i) : i \in FirstAt .. ClientAt - 1}
  /\ ~ mayPass => ServerAt <= ClientAt
  /\ mayPass \in BOOLEAN /\ hold \in BOOLEAN

(* The player's commands were made one after the other.                    *)
Given ==
  /\ command \in Cmd
  /\ \A i \in FirstAt .. ClientAt - 1 : given[At(i)] \in Cmd
  /\ ClientAt > FirstAt => command = given[At(ClientAt - 1)]
  /\ \A i \in FirstAt .. ClientAt - 2 :
       \E want \in Commands : given[At(i + 1)] = Make(given[At(i)], want)

(* cmds are the player's from frame at on.                                 *)
Agrees(cmds, at) ==
  /\ at \in FirstAt .. ClientAt /\ at + Len(cmds) <= ClientAt
  /\ \A i \in 1 .. Len(cmds) : cmds[i] = given[At(at + i - 1)]

(* The client keeps what is not confirmed; what is, the server executed.   *)
Pending ==
  /\ clientq \in CmdQueues /\ Len(clientq.cmds) <= MaxPending
  /\ clientq.cmds # << >> => /\ Agrees(clientq.cmds, Off(clientq.first))
                             /\ Off(clientq.first) + Len(clientq.cmds) = ClientAt
  /\ NextAt = FirstAt \/ NextAt <= ServerAt

(* Messages begin with what was not confirmed.                             *)
Carries(m) ==
  /\ m.first \in Frames /\ PayloadLen(m) <= Allocated(m)
  /\ Decoded(m) \in Seq(Cmd) /\ Len(Decoded(m)) = m.count + 1
  /\ m.count \in Nat
  /\ Agrees(Decoded(m), Off(m.first))
  /\ Off(m.first) = FirstAt \/ Off(m.first) <= ServerAt

(* A queue of the server's: without a gap, and only of frames to come.     *)
Queued(q) ==
  /\ q \in CmdQueues
  /\ q.cmds # << >> =>
       /\ Agrees(q.cmds, Off(q.first))
       /\ \/ Off(q.first) = ServerAt
          \/ hold /\ Off(q.first) = FirstAt /\ FirstAt >= ServerAt

(* A head is what was executed up to frame f.                              *)
HeadAt(h, f) ==
  /\ h \in Seq(Cmd) /\ f \in ReleasedAt .. ServerAt - 1
  /\ Len(h) = f - ReleasedAt + 1
  /\ \A i \in 1 .. Len(h) : h[i] = executed[At(ReleasedAt + i - 1)]

Executed ==
  /\ serverHead \in Seq(Cmd)
  /\ IF hold THEN serverHead = << >> /\ DOMAIN executed = {} /\ headMsgs = {}
     ELSE /\ FirstAt <= ReleasedAt /\ ReleasedAt < ServerAt
          /\ HeadAt(serverHead, ServerAt - 1)
          /\ DOMAIN executed = {At(i) : i \in ReleasedAt .. ServerAt - 1}
  /\ \A m \in headMsgs : /\ m \in HeadMsgs
                         /\ HeadAt(m.head, Off(m.frame))

Acked ==
  /\ head \in Seq(Cmd) /\ headAck \in Seq(Cmd)
  /\ \/ mayPass
     \/ headAck = Spawn /\ NextAt = FirstAt
     \/ \E m \in headMsgs : m.head = headAck /\ NextAt = Off(m.frame) + 1

IInv == /\ Clocks /\ Given /\ Pending
        /\ \A m \in commandMsgs : Carries(m)
        /\ Queued(serverq) /\ Executed /\ Acked
        /\ lastMsg \in Frames

-----------------------------------------------------------------------------
(* Frames less than half a range after the start compare like numbers.     *)

(* The range of the counter is a positive number.                          *)
LEMMA MPositive == M \in Nat \ {0}
  BY HAssumption, SMT DEF M

(* Adding to a stamp, and counting back, stay within the counter.          *)
LEMMA PlusType ==
  ASSUME NEW a \in Frames, NEW n \in 0 .. M
  PROVE  Plus(a, n) \in Frames
  BY HAssumption, SMT DEF Plus, Frames, M

LEMMA AheadType ==
  ASSUME NEW a \in Frames, NEW b \in Frames
  PROVE  Ahead(a, b) \in Frames
  BY MPositive, SMT DEF Ahead, Frames

LEMMA AtIs ==
  ASSUME NEW x \in 0 .. H - 1
  PROVE  At(x) \in Frames /\ Off(At(x)) = x
  BY HAssumption, NetcodeAssumption, SMT DEF At, Off, Plus, Ahead, Frames, M

LEMMA OffIs ==
  ASSUME NEW f \in Frames
  PROVE  Off(f) \in 0 .. M - 1 /\ At(Off(f)) = f
  BY HAssumption, NetcodeAssumption, SMT DEF At, Off, Plus, Ahead, Frames, M

LEMMA AtOrder ==
  ASSUME NEW x \in 0 .. H - 1, NEW y \in 0 .. H - 1
  PROVE  /\ lt_wrap(At(x), At(y)) <=> x < y
         /\ gt_wrap(At(x), At(y)) <=> x > y
         /\ ge_wrap(At(x), At(y)) <=> x >= y
         /\ le_wrap(At(x), At(y)) <=> x <= y
         /\ At(x) = At(y) <=> x = y
         /\ x >= y => Ahead(At(x), At(y)) = x - y
  BY HAssumption, NetcodeAssumption, SMT
     DEF At, Plus, Ahead, Frames, M, lt_wrap, gt_wrap, ge_wrap, le_wrap

LEMMA AtPlus ==
  ASSUME NEW x \in 0 .. H - 1, NEW n \in Nat, x + n \in 0 .. H - 1
  PROVE  Plus(At(x), n) = At(x + n)
  BY HAssumption, NetcodeAssumption, SMT DEF At, Plus, Frames, M

(* Where a frame is, if it is one less than half a range after the start.  *)
LEMMA AtUnique ==
  ASSUME NEW f \in Frames, Off(f) < H
  PROVE  Off(f) \in 0 .. H - 1 /\ f = At(Off(f))
  BY OffIs, HAssumption, SMT DEF M

(* The bounds of the constants.                                            *)
LEMMA Bounds ==
  /\ MaxLead \in Nat /\ MaxFrames \in Nat /\ MaxPending \in Nat
  /\ MaxLead + MaxFrames < H /\ H \in Nat \ {0}
  /\ Chunk \in Nat \ {0}
  /\ Start \in Frames /\ Cmd = Commands
  BY HAssumption, NetcodeAssumption

(* The numbers of the frames.                                              *)
LEMMA ClockFacts ==
  ASSUME Clocks
  PROVE  /\ ServerAt \in 0 .. H - 1 /\ serverFrame = At(ServerAt)
         /\ ClientAt \in 0 .. H - 1 /\ clientFrame = At(ClientAt)
         /\ ClientAt <= MaxLead + MaxFrames
         /\ FirstAt \in 0 .. ClientAt
         /\ Cardinality(DOMAIN given) = ClientAt - FirstAt
         /\ \A i \in FirstAt .. ClientAt - 1 : At(i) \in DOMAIN given
<1>1. Cardinality(DOMAIN given) \in Nat
  BY FS_CardinalityType DEF Clocks
<1>2. ServerAt \in 0 .. M - 1 /\ ClientAt \in 0 .. M - 1
  BY OffIs DEF Clocks, ServerAt, ClientAt
<1>3. ServerAt <= MaxFrames /\ FirstAt \in 0 .. MaxLead
      /\ Cardinality(DOMAIN given) <= MaxFrames
      /\ FirstAt = ClientAt - Cardinality(DOMAIN given)
  BY DEF Clocks, FirstAt
<1>4. /\ ServerAt \in 0 .. H - 1 /\ ClientAt \in 0 .. H - 1
      /\ ClientAt <= MaxLead + MaxFrames
      /\ FirstAt \in 0 .. ClientAt
      /\ Cardinality(DOMAIN given) = ClientAt - FirstAt
  BY <1>1, <1>2, <1>3, Bounds
<1>5. serverFrame = At(ServerAt) /\ clientFrame = At(ClientAt)
  BY OffIs DEF Clocks, ServerAt, ClientAt
<1>6. QED
  BY <1>4, <1>5 DEF Clocks

-----------------------------------------------------------------------------
(* A frame of the client.                                                  *)

(* The history grows by the frame of the client.                           *)
LEMMA GivenGrows ==
  ASSUME Clocks, NEW c, given' = With(given, clientFrame, c),
         clientFrame' = Plus(clientFrame, 1), Cardinality(DOMAIN given) < MaxFrames,
         UNCHANGED <<serverFrame, mayPass, hold>>
  PROVE  /\ ClientAt + 1 \in 0 .. H - 1
         /\ ClientAt' = ClientAt + 1 /\ FirstAt' = FirstAt /\ ServerAt' = ServerAt
         /\ Clocks'
         /\ \A i \in FirstAt .. ClientAt - 1 : given'[At(i)] = given[At(i)]
         /\ given'[At(ClientAt)] = c
<1> DEFINE x == ClientAt
<1>1. /\ x \in 0 .. H - 1 /\ clientFrame = At(x) /\ FirstAt \in 0 .. x
      /\ Cardinality(DOMAIN given) = x - FirstAt
      /\ ServerAt \in 0 .. H - 1 /\ serverFrame = At(ServerAt)
  BY ClockFacts
<1>2. x + 1 \in 0 .. H - 1
  <2>1. FirstAt \in 0 .. MaxLead
    BY DEF Clocks
  <2> HIDE DEF x
  <2>2. QED
    BY <1>1, <2>1, Bounds
<1>3. clientFrame' = At(x + 1)
  <2> HIDE DEF x
  <2>1. 1 \in Nat
    OBVIOUS
  <2>2. QED
    BY <1>1, <1>2, <2>1, AtPlus
<1>4. ClientAt' = x + 1 /\ clientFrame' \in Frames
  BY <1>2, <1>3, AtIs DEF ClientAt
<1>5. At(x) \notin DOMAIN given
  <2>1. SUFFICES ASSUME NEW i \in FirstAt .. x - 1, At(x) = At(i)
                 PROVE  FALSE
    BY DEF Clocks
  <2> HIDE DEF x
  <2>2. i \in 0 .. H - 1 /\ i < x
    BY <1>1, Bounds
  <2>3. QED
    BY <1>1, <2>1, <2>2, AtOrder
<1>6. DOMAIN given' = DOMAIN given \cup {At(x)}
  BY <1>1 DEF With
<1>7. /\ IsFiniteSet(DOMAIN given')
      /\ Cardinality(DOMAIN given') = Cardinality(DOMAIN given) + 1
  <2>1. PICK S, e : S = DOMAIN given /\ e = At(x)
    OBVIOUS
  <2>2. IsFiniteSet(S) /\ e \notin S
    BY <1>5, <2>1 DEF Clocks
  <2>3. IsFiniteSet(S \cup {e}) /\ Cardinality(S \cup {e}) = Cardinality(S) + 1
    BY <2>2, FS_AddElement
  <2>4. QED
    BY <1>6, <2>1, <2>3
<1>8. FirstAt' = FirstAt
  <2>1. FirstAt' = ClientAt' - Cardinality(DOMAIN given')
    BY DEF FirstAt
  <2> HIDE DEF x
  <2>2. QED
    BY <1>1, <1>4, <1>7, <2>1
<1>9. ServerAt' = ServerAt
  BY DEF ServerAt
<1>10. Clocks'
  <2>1. DOMAIN given' = {At(i) : i \in FirstAt .. (x + 1) - 1}
    <3>1. DOMAIN given = {At(i) : i \in FirstAt .. x - 1}
      BY DEF Clocks
    <3> HIDE DEF x
    <3>2. FirstAt .. (x + 1) - 1 = (FirstAt .. x - 1) \cup {x}
      BY <1>1
    <3>3. QED
      BY <1>6, <3>1, <3>2, Zenon
  <2>2. DOMAIN given' = {At(i) : i \in FirstAt' .. ClientAt' - 1}
    BY <1>4, <1>8, <2>1, Zenon
  <2>3. Cardinality(DOMAIN given') <= MaxFrames
    BY <1>1, <1>7, Bounds, FS_CardinalityType DEF Clocks
  <2>4. FirstAt' \in 0 .. MaxLead /\ ServerAt' <= MaxFrames
    BY <1>8, <1>9 DEF Clocks
  <2>5. clientFrame' \in Frames /\ serverFrame' \in Frames
    BY <1>4 DEF Clocks
  <2>6. ~ mayPass' => ServerAt' <= ClientAt'
    BY <1>1, <1>4, <1>9 DEF Clocks
  <2>7. mayPass' \in BOOLEAN /\ hold' \in BOOLEAN
    BY DEF Clocks
  <2>8. QED
    BY <1>7, <2>2, <2>3, <2>4, <2>5, <2>6, <2>7 DEF Clocks
<1>11. ASSUME NEW i \in FirstAt .. x - 1
       PROVE  given'[At(i)] = given[At(i)]
  <2>1. At(i) \in DOMAIN given
    BY DEF Clocks
  <2>2. At(i) # clientFrame
    BY <1>1, <1>5, <2>1
  <2>3. QED
    BY <2>1, <2>2 DEF With
<1>12. given'[At(x)] = c
  BY <1>1 DEF With
<1>13. QED
  BY <1>2, <1>4, <1>8, <1>9, <1>10, <1>11, <1>12

(* What agreed with the history still does.                                *)
LEMMA AgreesKept ==
  ASSUME Clocks, FirstAt' = FirstAt, ClientAt' = ClientAt + 1,
         \A i \in FirstAt .. ClientAt - 1 : given'[At(i)] = given[At(i)],
         NEW cmds, Len(cmds) \in Nat, NEW at, Agrees(cmds, at)
  PROVE  Agrees(cmds, at)'
<1>1. FirstAt \in Nat /\ ClientAt \in Nat
  BY ClockFacts
<1>2. at \in FirstAt .. ClientAt /\ at + Len(cmds) <= ClientAt
  BY DEF Agrees
<1>3. at \in FirstAt' .. ClientAt' /\ at + Len(cmds) <= ClientAt'
  BY <1>1, <1>2
<1>4. ASSUME NEW i \in 1 .. Len(cmds)
      PROVE  cmds[i] = given'[At(at + i - 1)]
  <2>1. at + i - 1 \in FirstAt .. ClientAt - 1
    BY <1>1, <1>2
  <2>2. QED
    BY <2>1 DEF Agrees
<1>5. QED
  BY <1>3, <1>4 DEF Agrees

LEMMA PackedIs ==
  ASSUME NEW q \in CmdQueues, q.cmds # << >>, Len(q.cmds) <= Chunk
  PROVE  Packed(q) = {Encoded(q.first, q.cmds)}
<1>1. q.cmds \in Seq(Cmd) /\ Len(q.cmds) \in Nat \ {0} /\ q.first \in Frames
  BY DEF CmdQueues
<1>2. (Len(q.cmds) - 1) \div Chunk = 0
  <2>0. Len(q.cmds) - 1 \in Nat /\ Chunk \in Nat \ {0} /\ Len(q.cmds) - 1 < Chunk
    BY <1>1, Bounds
  <2>1. PICK n \in Nat, d \in Nat \ {0} : n = Len(q.cmds) - 1 /\ d = Chunk /\ n < d
    BY <2>0
  <2>2. n \div d = 0
    BY <2>1, DivSmall
  <2>3. QED
    BY <2>1, <2>2
<1>3. {k * Chunk : k \in 0 .. (Len(q.cmds) - 1) \div Chunk} = {0}
  <2>1. 0 .. 0 = {0} /\ 0 * Chunk = 0
    BY Bounds
  <2>2. {k * Chunk : k \in {0}} = {0}
    BY <2>1
  <2>3. QED
    BY <1>2, <2>1, <2>2
<1>4. Plus(q.first, 0) = q.first
  BY <1>1, MPositive DEF Plus, Frames
<1>5. Prefix(q.cmds, IF Len(q.cmds) - 0 > Chunk THEN Chunk ELSE Len(q.cmds) - 0) = q.cmds
  <2>1. (IF Len(q.cmds) - 0 > Chunk THEN Chunk ELSE Len(q.cmds) - 0) = Len(q.cmds)
    BY <1>1, Bounds
  <2>2. SubSeq(q.cmds, 1, Len(q.cmds)) = q.cmds
    BY <1>1
  <2>3. QED
    BY <2>1, <2>2 DEF Prefix
<1>6. QED
  BY <1>3, <1>4, <1>5 DEF Packed

(* What the client's queue becomes: it still starts at the oldest command  *)
(* that is not confirmed, and ends with the newest.                        *)
LEMMA ClientPuts ==
  ASSUME Clocks, Pending, NEW c \in Cmd, NEW q, q = Put(clientq, c, clientFrame),
         ClientAt + 1 \in 0 .. H - 1
  PROVE  /\ q \in CmdQueues /\ q.cmds # << >>
         /\ NextAt \in FirstAt .. ClientAt /\ q.first = At(NextAt)
         /\ Len(q.cmds) = Len(clientq.cmds) + 1
         /\ NextAt + Len(q.cmds) = ClientAt + 1
         /\ q.cmds[Len(q.cmds)] = c
         /\ \A i \in 1 .. Len(q.cmds) - 1 : q.cmds[i] = given[At(NextAt + i - 1)]
<1>1. /\ ClientAt \in 0 .. H - 1 /\ clientFrame = At(ClientAt)
      /\ FirstAt \in 0 .. ClientAt /\ clientFrame \in Frames
  BY ClockFacts DEF Clocks
<1>2. /\ clientq \in CmdQueues /\ clientq.cmds \in Seq(Cmd) /\ clientq.first \in Frames
      /\ Len(clientq.cmds) \in Nat
  BY DEF Pending, CmdQueues
<1>3. CASE clientq.cmds = << >>
  <2>0. q = [clientq EXCEPT !.first = clientFrame, !.cmds = << c >>]
    BY <1>3 DEF Put
  <2>1. q.first = clientFrame /\ q.cmds = << c >>
    BY <1>2, <2>0 DEF CmdQueues
  <2>2. q \in CmdQueues
    <3>1. clientFrame \in Frames /\ << c >> \in Seq(Cmd)
      BY <1>1
    <3>2. QED
      BY <1>2, <2>0, <3>1, Zenon DEF CmdQueues
  <2>3. NextAt = ClientAt
    BY <1>3 DEF NextAt
  <2>4. q.cmds = << c >> /\ q.first = At(NextAt)
    BY <1>1, <2>1, <2>3
  <2>5. Len(q.cmds) = 1 /\ q.cmds[1] = c /\ q.cmds # << >> /\ Len(clientq.cmds) = 0
    BY <1>3, <2>4
  <2>6. /\ NextAt \in FirstAt .. ClientAt /\ NextAt + Len(q.cmds) = ClientAt + 1
        /\ Len(q.cmds) = Len(clientq.cmds) + 1 /\ q.cmds[Len(q.cmds)] = c
        /\ 1 .. Len(q.cmds) - 1 = {}
    BY <1>1, <2>3, <2>5
  <2>7. QED
    BY <2>2, <2>4, <2>5, <2>6
<1>4. CASE clientq.cmds # << >>
  <2>1. /\ NextAt = Off(clientq.first) /\ Agrees(clientq.cmds, NextAt)
        /\ NextAt + Len(clientq.cmds) = ClientAt
    BY <1>4 DEF Pending, NextAt
  <2>2. NextAt \in FirstAt .. ClientAt
    BY <2>1 DEF Agrees
  <2>3. clientq.first = At(NextAt)
    BY <1>2, <2>1, OffIs
  <2>4. Plus(clientq.first, Len(clientq.cmds)) = clientFrame
    <3>1. NextAt \in 0 .. H - 1 /\ NextAt + Len(clientq.cmds) \in 0 .. H - 1
      BY <1>1, <2>1, <2>2, Bounds
    <3>2. QED
      BY <1>1, <1>2, <2>1, <2>3, <3>1, AtPlus
  <2>5. q = [first |-> clientq.first, cmds |-> Append(clientq.cmds, c),
             last |-> clientq.last]
    BY <1>2, <1>4, <2>4 DEF Put, CmdQueues, frame_end
  <2>6. q \in CmdQueues
    BY <1>2, <2>5 DEF CmdQueues
  <2>7. q.cmds = Append(clientq.cmds, c) /\ q.first = At(NextAt)
    BY <2>3, <2>5
  <2>8. /\ Len(q.cmds) = Len(clientq.cmds) + 1 /\ q.cmds # << >>
        /\ q.cmds[Len(q.cmds)] = c
        /\ \A i \in 1 .. Len(clientq.cmds) : q.cmds[i] = clientq.cmds[i]
    BY <1>2, <2>7
  <2>9. NextAt + Len(q.cmds) = ClientAt + 1
    BY <1>1, <1>2, <2>1, <2>2, <2>8
  <2>10. ASSUME NEW i \in 1 .. Len(q.cmds) - 1
         PROVE  q.cmds[i] = given[At(NextAt + i - 1)]
    BY <1>2, <2>1, <2>8 DEF Agrees
  <2>11. QED
    BY <2>2, <2>6, <2>7, <2>8, <2>9, <2>10
<1>5. QED
  BY <1>3, <1>4

LEMMA ClientFrameStep ==
  ASSUME IInv, MaxPending <= Chunk, NEW want \in Wishes, NEW net \in BOOLEAN,
         ClientFrame(want, net), UNCHANGED mayPass
  PROVE  IInv'
<1> DEFINE c == Make(command, want)
<1>1. /\ Len(clientq.cmds) < MaxPending /\ Cardinality(DOMAIN given) < MaxFrames
      /\ command' = c /\ clientq' = Put(clientq, c, clientFrame)
      /\ head' = Append(head, c)
      /\ commandMsgs' = (IF net THEN commandMsgs \cup Packed(clientq') ELSE commandMsgs)
      /\ given' = With(given, clientFrame, c) /\ clientFrame' = Plus(clientFrame, 1)
      /\ UNCHANGED <<headAck, server, headMsgs, executed, mayPass>>
  BY DEF ClientFrame
<1>2. Clocks /\ Given /\ Pending /\ Executed /\ Acked /\ Queued(serverq)
      /\ \A m \in commandMsgs : Carries(m)
  BY DEF IInv
<1>3. command \in Commands /\ want \in Commands /\ c \in Commands /\ c \in Cmd
  BY <1>2, Bounds, NetcodeAssumption, MakeType DEF Given
<1> HIDE DEF c
<1>4. UNCHANGED <<serverFrame, serverq, serverHead, hold, lastMsg>>
  BY <1>1 DEF server
<1>5. /\ ClientAt + 1 \in 0 .. H - 1
      /\ ClientAt' = ClientAt + 1 /\ FirstAt' = FirstAt /\ ServerAt' = ServerAt
      /\ Clocks'
      /\ \A i \in FirstAt .. ClientAt - 1 : given'[At(i)] = given[At(i)]
      /\ given'[At(ClientAt)] = c
  BY <1>1, <1>2, <1>4, GivenGrows
<1>6. ClientAt \in Nat /\ FirstAt \in 0 .. ClientAt /\ ServerAt \in Nat
  BY <1>2, ClockFacts
<1>7. Given'
  <2>1. ASSUME NEW i \in FirstAt .. ClientAt
        PROVE  given'[At(i)] \in Cmd
    <3>1. CASE i = ClientAt
      BY <1>3, <1>5, <3>1
    <3>2. CASE i # ClientAt
      <4>1. i \in FirstAt .. ClientAt - 1
        BY <1>6, <3>2
      <4>2. QED
        BY <1>2, <1>5, <4>1 DEF Given
    <3>3. QED
      BY <3>1, <3>2
  <2>2. ASSUME NEW i \in FirstAt .. ClientAt - 1
        PROVE  \E w \in Commands : given'[At(i + 1)] = Make(given'[At(i)], w)
    <3>1. CASE i = ClientAt - 1
      <4>1. i + 1 = ClientAt /\ ClientAt > FirstAt
        BY <1>6, <3>1
      <4>2. given[At(i)] = command
        BY <1>2, <3>1, <4>1 DEF Given
      <4>3. given'[At(i)] = command /\ given'[At(i + 1)] = c
        BY <1>5, <4>1, <4>2
      <4>4. QED
        BY <1>3, <4>3 DEF c
    <3>2. CASE i # ClientAt - 1
      <4>1. i \in FirstAt .. ClientAt - 2 /\ i + 1 \in FirstAt .. ClientAt - 1
        BY <1>6, <3>2
      <4>2. given'[At(i)] = given[At(i)] /\ given'[At(i + 1)] = given[At(i + 1)]
        BY <1>5, <4>1
      <4>3. QED
        BY <1>2, <4>1, <4>2 DEF Given
    <3>3. QED
      BY <3>1, <3>2
  <2>3. /\ FirstAt' .. ClientAt' - 1 = FirstAt .. ClientAt
        /\ FirstAt' .. ClientAt' - 2 = FirstAt .. ClientAt - 1
        /\ ClientAt' - 1 = ClientAt
    BY <1>5, <1>6
  <2>4. command' \in Cmd /\ command' = given'[At(ClientAt' - 1)]
    BY <1>1, <1>3, <1>5, <2>3
  <2>5. \A i \in FirstAt' .. ClientAt' - 1 : given'[At(i)] \in Cmd
    BY <2>1, <2>3
  <2>6. \A i \in FirstAt' .. ClientAt' - 2 :
          \E w \in Commands : given'[At(i + 1)] = Make(given'[At(i)], w)
    BY <2>2, <2>3
  <2>7. QED
    BY <2>4, <2>5, <2>6 DEF Given
<1>8. /\ clientq' \in CmdQueues /\ clientq'.cmds # << >>
      /\ NextAt \in FirstAt .. ClientAt /\ clientq'.first = At(NextAt)
      /\ Len(clientq'.cmds) = Len(clientq.cmds) + 1
      /\ NextAt + Len(clientq'.cmds) = ClientAt + 1
      /\ clientq'.cmds[Len(clientq'.cmds)] = c
      /\ \A i \in 1 .. Len(clientq'.cmds) - 1 : clientq'.cmds[i] = given[At(NextAt + i - 1)]
  BY <1>1, <1>2, <1>3, <1>5, ClientPuts
<1>9. Len(clientq.cmds) \in Nat /\ clientq'.cmds \in Seq(Cmd) /\ Len(clientq'.cmds) \in Nat
  BY <1>2, <1>8 DEF Pending, CmdQueues
<1>10. NextAt' = NextAt /\ Off(clientq'.first) = NextAt /\ NextAt \in Nat
  <2>1. NextAt \in 0 .. H - 1 /\ NextAt \in Nat
    BY <1>2, <1>6, <1>8, ClockFacts, Bounds
  <2>2. QED
    BY <1>8, <2>1, AtIs DEF NextAt
<1>11. PICK cmds, at : cmds = clientq'.cmds /\ at = NextAt
  OBVIOUS
<1>20. /\ cmds \in Seq(Cmd) /\ Len(cmds) \in Nat /\ cmds # << >>
       /\ at \in FirstAt .. ClientAt /\ at + Len(cmds) = ClientAt + 1 /\ at \in Nat
       /\ cmds[Len(cmds)] = c
       /\ \A i \in 1 .. Len(cmds) - 1 : cmds[i] = given[At(at + i - 1)]
  BY <1>8, <1>9, <1>10, <1>11
<1>21. \A i \in 1 .. Len(cmds), k \in Int : k = at + i - 1 => cmds[i] = given'[At(k)]
  <2>1. SUFFICES ASSUME NEW i \in 1 .. Len(cmds), NEW k \in Int, k = at + i - 1
                 PROVE  cmds[i] = given'[At(k)]
    OBVIOUS
  <2>2. CASE i = Len(cmds)
    <3>1. k = ClientAt
      BY <1>6, <1>20, <2>1, <2>2
    <3>2. QED
      BY <1>5, <1>20, <2>2, <3>1
  <2>3. CASE i # Len(cmds)
    <3>1. i \in 1 .. Len(cmds) - 1
      BY <1>20, <2>3
    <3>2. k \in FirstAt .. ClientAt - 1
      BY <1>6, <1>20, <2>1, <3>1
    <3>3. cmds[i] = given[At(k)]
      BY <1>20, <2>1, <3>1
    <3>4. QED
      BY <1>5, <3>2, <3>3
  <2>4. QED
    BY <2>2, <2>3
<1>22. Agrees(cmds, at)'
  <2>1. at \in FirstAt' .. ClientAt' /\ at + Len(cmds) <= ClientAt'
    BY <1>5, <1>6, <1>20
  <2>2. \A i \in 1 .. Len(cmds) : cmds[i] = given'[At(at + i - 1)]
    BY <1>20, <1>21
  <2>3. QED
    BY <2>1, <2>2 DEF Agrees
<1>12. NextAt = FirstAt \/ NextAt <= ServerAt
  BY <1>2 DEF Pending
<1>13. Pending'
  <2>1. Len(clientq'.cmds) <= MaxPending
    BY <1>1, <1>8, <1>9, Bounds
  <2>2. Off(clientq'.first) + Len(clientq'.cmds) = ClientAt'
    BY <1>5, <1>8, <1>10
  <2>3. NextAt' = FirstAt' \/ NextAt' <= ServerAt'
    BY <1>5, <1>10, <1>12
  <2>4. Agrees(clientq.cmds, Off(clientq.first))'
    BY <1>10, <1>11, <1>22 DEF Agrees
  <2>5. QED
    BY <1>8, <2>1, <2>2, <2>3, <2>4 DEF Pending
<1>14. ASSUME NEW m, m \in commandMsgs'
       PROVE  Carries(m)'
  <2>1. CASE m \in commandMsgs
    <3>1. /\ Agrees(Decoded(m), Off(m.first)) /\ Len(Decoded(m)) \in Nat
          /\ Off(m.first) = FirstAt \/ Off(m.first) <= ServerAt
          /\ m.first \in Frames /\ PayloadLen(m) <= Allocated(m)
          /\ Decoded(m) \in Seq(Cmd) /\ Len(Decoded(m)) = m.count + 1
          /\ m.count \in Nat
      BY <1>2, <2>1 DEF Carries
    <3>2. Agrees(Decoded(m), Off(m.first))'
      BY <1>2, <1>5, <3>1, AgreesKept
    <3>3. QED
      BY <1>5, <3>1, <3>2 DEF Carries
  <2>2. CASE m \notin commandMsgs
    <3>1. PICK first : first = clientq'.first
      OBVIOUS
    <3>2. m = Encoded(first, cmds)
      <4>1. Len(clientq'.cmds) <= Chunk
        BY <1>1, <1>8, <1>9, Bounds
      <4>2. Packed(clientq') = {Encoded(clientq'.first, clientq'.cmds)}
        BY <1>8, <4>1, PackedIs
      <4>3. QED
        BY <1>1, <1>11, <1>14, <2>2, <3>1, <4>2
    <3>3. Made(cmds)
      <4>1. ASSUME NEW i \in 1 .. Len(cmds) - 1
            PROVE  \E w \in Commands : cmds[i + 1] = Make(cmds[i], w)
        <5>1. PICK j, k : j = i + 1 /\ k = at + i - 1
          OBVIOUS
        <5>2. /\ i \in 1 .. Len(cmds) /\ j \in 1 .. Len(cmds)
              /\ k \in FirstAt' .. ClientAt' - 2
              /\ k \in Int /\ k + 1 \in Int /\ k + 1 = at + j - 1
          BY <1>5, <1>6, <1>20, <5>1
        <5>3. cmds[i] = given'[At(k)] /\ cmds[j] = given'[At(k + 1)]
          BY <1>21, <5>1, <5>2
        <5>4. \E w \in Commands : given'[At(k + 1)] = Make(given'[At(k)], w)
          BY <1>7, <5>2 DEF Given
        <5>5. QED
          BY <5>1, <5>3, <5>4
      <4>2. cmds \in Seq(Commands)
        BY <1>20, Bounds
      <4>3. QED
        BY <1>20, <4>1, <4>2 DEF Made
    <3>4. /\ Decoded(m) = cmds /\ m.first = first /\ m.count = Len(cmds) - 1
          /\ PayloadLen(m) <= Allocated(m)
      BY <3>2, <3>3, CodecIsExact
    <3>5. Off(m.first) = at /\ m.first \in Frames
      BY <1>8, <1>10, <1>11, <3>1, <3>4 DEF CmdQueues
    <3>6. Agrees(Decoded(m), Off(m.first))'
      BY <1>22, <3>4, <3>5
    <3>7. Len(cmds) = m.count + 1 /\ m.count \in Nat
      BY <1>20, <3>4
    <3>8. Off(m.first) = FirstAt' \/ Off(m.first) <= ServerAt'
      BY <1>5, <1>11, <1>12, <3>5
    <3>9. QED
      BY <1>20, <3>4, <3>5, <3>6, <3>7, <3>8 DEF Carries
  <2>3. QED
    BY <2>1, <2>2
<1>15. Queued(serverq)'
  <2>1. serverq \in CmdQueues /\ Len(serverq.cmds) \in Nat
    BY <1>2 DEF Queued, CmdQueues
  <2>2. ASSUME serverq.cmds # << >>
        PROVE  Agrees(serverq.cmds, Off(serverq.first))'
    <3>1. Agrees(serverq.cmds, Off(serverq.first))
      BY <1>2, <2>2 DEF Queued
    <3>2. PICK s, a : s = serverq.cmds /\ a = Off(serverq.first)
      OBVIOUS
    <3>3. Agrees(s, a)'
      BY <1>2, <1>5, <2>1, <3>1, <3>2, AgreesKept
    <3>4. s = serverq'.cmds /\ a = Off(serverq'.first)
      BY <1>4, <3>2
    <3>5. QED
      BY <3>3, <3>4 DEF Agrees
  <2>3. QED
    BY <1>2, <1>4, <1>5, <2>2 DEF Queued
<1>16. Executed'
  <2>1. ReleasedAt' = ReleasedAt
    BY <1>4, <1>5 DEF ReleasedAt
  <2>2. UNCHANGED <<serverHead, hold, executed, headMsgs>>
    BY <1>1, <1>4
  <2>3. ASSUME NEW h, NEW f, HeadAt(h, f)
        PROVE  HeadAt(h, f)'
    BY <1>5, <2>1, <2>2, <2>3 DEF HeadAt
  <2>4. HeadAt(serverHead, ServerAt - 1) => HeadAt(serverHead, ServerAt - 1)'
    BY <1>5, <2>1, <2>2 DEF HeadAt
  <2>5. \A m \in headMsgs' : m \in HeadMsgs /\ HeadAt(m.head, Off(m.frame))'
    BY <1>2, <2>2, <2>3 DEF Executed
  <2>6. QED
    BY <1>2, <1>5, <2>1, <2>2, <2>4, <2>5 DEF Executed
<1>17. Acked'
  <2>1. head \in Seq(Cmd) /\ headAck \in Seq(Cmd)
    BY <1>2 DEF Acked
  <2>2. head' \in Seq(Cmd)
    BY <1>1, <1>3, <2>1
  <2>3. QED
    BY <1>1, <1>2, <1>5, <1>10, <2>1, <2>2 DEF Acked
<1>18. lastMsg' \in Frames
  BY <1>4 DEF IInv
<1>19. QED
  BY <1>5, <1>7, <1>13, <1>14, <1>15, <1>16, <1>17, <1>18 DEF IInv

-----------------------------------------------------------------------------
(* Commands arrive at the server.                                          *)

LEMMA PutType ==
  ASSUME NEW q \in CmdQueues, NEW c \in Cmd, NEW f \in Frames
  PROVE  /\ Put(q, c, f) \in CmdQueues /\ Put(q, c, f).cmds # << >>
         /\ q.cmds = << >> => Put(q, c, f).first = f /\ Put(q, c, f).cmds = << c >>
         /\ q.cmds # << >> /\ frame_end(q) = f =>
              Put(q, c, f).first = q.first /\ Put(q, c, f).cmds = Append(q.cmds, c)
         /\ q.cmds # << >> /\ frame_end(q) # f => Put(q, c, f) = q
<1>1. q.cmds \in Seq(Cmd) /\ q.first \in Frames /\ << c >> \in Seq(Cmd)
      /\ Append(q.cmds, c) \in Seq(Cmd) /\ Append(q.cmds, c) # << >>
  BY DEF CmdQueues
<1>2. CASE q.cmds = << >>
  <2>1. Put(q, c, f) = [q EXCEPT !.first = f, !.cmds = << c >>]
    BY <1>2 DEF Put
  <2>2. Put(q, c, f) \in CmdQueues
    BY <1>1, <2>1, Zenon DEF CmdQueues
  <2>3. Put(q, c, f).first = f /\ Put(q, c, f).cmds = << c >>
    BY <2>1 DEF CmdQueues
  <2>4. QED
    BY <1>2, <2>2, <2>3
<1>3. CASE q.cmds # << >> /\ frame_end(q) = f
  <2>1. Put(q, c, f) = [q EXCEPT !.cmds = Append(q.cmds, c)]
    BY <1>3 DEF Put
  <2>2. Put(q, c, f) \in CmdQueues
    BY <1>1, <2>1, Zenon DEF CmdQueues
  <2>3. Put(q, c, f).first = q.first /\ Put(q, c, f).cmds = Append(q.cmds, c)
    BY <2>1 DEF CmdQueues
  <2>4. QED
    BY <1>1, <1>3, <2>2, <2>3
<1>4. CASE q.cmds # << >> /\ frame_end(q) # f
  BY <1>4 DEF Put
<1>5. QED
  BY <1>2, <1>3, <1>4

(* One command of a message.                                               *)
UnpackOne(q, c, f, now) == IF ge_wrap(f, now) THEN Put(q, c, f) ELSE q

(* A command of the player's for a frame that is due, or later, is queued  *)
(* without leaving a gap.                                                  *)
LEMMA UnpackOneKeeps ==
  ASSUME Clocks, Given, Executed, NEW q, Queued(q),
         NEW k \in FirstAt .. ClientAt - 1, NEW c, c = given[At(k)],
         q.cmds = << >> => k = FirstAt \/ k <= ServerAt
  PROVE  LET r == UnpackOne(q, c, At(k), serverFrame)
         IN  Queued(r) /\ (r.cmds = << >> => k + 1 <= ServerAt)
<1> DEFINE f == At(k)
           r == UnpackOne(q, c, f, serverFrame)
<1>1. /\ ServerAt \in 0 .. H - 1 /\ serverFrame = At(ServerAt)
      /\ ClientAt \in 0 .. H - 1 /\ FirstAt \in 0 .. ClientAt
  BY ClockFacts
<1>2. k \in 0 .. H - 1 /\ k \in Nat
  BY <1>1, Bounds
<1>3. f \in Frames /\ Off(f) = k
  BY <1>2, AtIs
<1>4. c \in Cmd
  BY DEF Given
<1>5. ge_wrap(f, serverFrame) <=> k >= ServerAt
  BY <1>1, <1>2, AtOrder
<1>6. q \in CmdQueues /\ q.cmds \in Seq(Cmd) /\ Len(q.cmds) \in Nat /\ q.first \in Frames
  BY DEF Queued, CmdQueues
<1>7. CASE k < ServerAt
  <2>1. r = q
    BY <1>1, <1>2, <1>5, <1>7 DEF UnpackOne
  <2>2. k + 1 <= ServerAt
    BY <1>1, <1>2, <1>7
  <2>3. QED
    BY <2>1, <2>2
<1>8. CASE k >= ServerAt
  <2>1. r = Put(q, c, f)
    BY <1>5, <1>8 DEF UnpackOne
  <2> HIDE DEF f, r
  <2>2. r \in CmdQueues /\ r.cmds # << >>
    BY <1>3, <1>4, <1>6, <2>1, PutType
  <2>3. CASE q.cmds = << >>
    <3>1. r.first = f /\ r.cmds = << c >>
      BY <1>3, <1>4, <1>6, <2>1, <2>3, PutType
    <3>2. Agrees(r.cmds, Off(r.first))
      <4>1. Len(r.cmds) = 1 /\ r.cmds[1] = c /\ Off(r.first) = k
        BY <1>3, <3>1
      <4>2. k \in FirstAt .. ClientAt /\ k + 1 <= ClientAt
        BY <1>1, <1>2
      <4>3. k + 1 - 1 = k
        BY <1>2
      <4>4. \A i \in 1 .. Len(r.cmds) : r.cmds[i] = given[At(k + i - 1)]
        BY <4>1, <4>3
      <4>5. QED
        BY <4>1, <4>2, <4>4 DEF Agrees
    <3>3. \/ k = ServerAt
          \/ hold /\ k = FirstAt /\ FirstAt >= ServerAt
      <4>1. ~ hold => FirstAt < ServerAt
        <5>1. ~ hold => FirstAt <= ReleasedAt /\ ReleasedAt < ServerAt
          BY DEF Executed
        <5>2. serverHead \in Seq(Cmd) /\ Len(serverHead) \in Nat
          BY DEF Executed
        <5>3. ReleasedAt \in Int
          BY <1>1, <5>2 DEF ReleasedAt
        <5>4. QED
          BY <1>1, <5>1, <5>3
      <4>2. QED
        BY <1>1, <1>2, <1>8, <2>3, <4>1
    <3>4. QED
      BY <1>3, <2>2, <3>1, <3>2, <3>3 DEF Queued, f, r
  <2>4. CASE q.cmds # << >> /\ frame_end(q) = f
    <3>1. r.first = q.first /\ r.cmds = Append(q.cmds, c)
      BY <1>3, <1>4, <1>6, <2>1, <2>4, PutType
    <3>2. PICK at : at = Off(q.first)
      OBVIOUS
    <3>3. /\ Agrees(q.cmds, at)
          /\ \/ at = ServerAt
             \/ hold /\ at = FirstAt /\ FirstAt >= ServerAt
      BY <2>4, <3>2 DEF Queued
    <3>4. at \in FirstAt .. ClientAt /\ at + Len(q.cmds) <= ClientAt
          /\ \A i \in 1 .. Len(q.cmds) : q.cmds[i] = given[At(at + i - 1)]
      BY <3>3 DEF Agrees
    <3>5. at + Len(q.cmds) = k
      <4>1. q.first = At(at)
        BY <1>6, <3>2, OffIs
      <4>6. at \in FirstAt .. ClientAt /\ at + Len(q.cmds) <= ClientAt
        BY <3>4
      <4>2. at \in 0 .. H - 1 /\ at + Len(q.cmds) \in 0 .. H - 1
        BY <1>1, <1>6, <4>6, Bounds
      <4>0. PICK n : n = Len(q.cmds)
        OBVIOUS
      <4>5. Plus(At(at), n) = At(at + n)
        BY <1>6, <4>0, <4>2, AtPlus
      <4>3. frame_end(q) = At(at + Len(q.cmds))
        BY <4>0, <4>1, <4>5 DEF frame_end
      <4>4. QED
        BY <1>2, <2>4, <4>2, <4>3, AtOrder DEF f
    <3>6. /\ Len(r.cmds) = Len(q.cmds) + 1 /\ r.cmds[Len(q.cmds) + 1] = c
          /\ \A i \in 1 .. Len(q.cmds) : r.cmds[i] = q.cmds[i]
      BY <1>4, <1>6, <3>1
    <3>7. ASSUME NEW i \in 1 .. Len(r.cmds)
          PROVE  r.cmds[i] = given[At(at + i - 1)]
      <4>1. CASE i = Len(q.cmds) + 1
        <5>1. at + i - 1 = k
          BY <1>1, <1>6, <3>4, <3>5, <4>1
        <5>2. QED
          BY <3>6, <4>1, <5>1
      <4>2. CASE i # Len(q.cmds) + 1
        <5>1. i \in 1 .. Len(q.cmds)
          BY <1>6, <3>6, <4>2
        <5>2. QED
          BY <3>4, <3>6, <5>1
      <4>3. QED
        BY <4>1, <4>2
    <3>8. at + Len(r.cmds) <= ClientAt
      BY <1>1, <1>2, <1>6, <3>4, <3>5, <3>6
    <3>9. Agrees(r.cmds, at)
      BY <3>4, <3>7, <3>8 DEF Agrees
    <3>10. QED
      BY <2>2, <3>1, <3>2, <3>3, <3>9 DEF Queued, f, r
  <2>5. CASE q.cmds # << >> /\ frame_end(q) # f
    <3>1. r = q
      BY <1>3, <1>4, <1>6, <2>1, <2>5, PutType
    <3>2. QED
      BY <2>2, <3>1 DEF f, r
  <2>6. QED
    BY <2>3, <2>4, <2>5
<1>9. QED
  BY <1>1, <1>2, <1>7, <1>8

LEMMA UnpackKeeps ==
  ASSUME Clocks, Given, Executed, Queued(serverq), NEW m, Carries(m)
  PROVE  Queued(Unpack(serverq, m, serverFrame))
<1> DEFINE cmds == Decoded(m)
           a == Off(m.first)
           Unfold(put) ==
             [i \in 0 .. Len(cmds) |->
                IF i = 0 THEN serverq
                ELSE LET f == Plus(m.first, i - 1)
                     IN  IF ge_wrap(f, serverFrame) THEN Put(put[i - 1], cmds[i], f)
                         ELSE put[i - 1]]
           r == CHOOSE put : put = Unfold(put)
<1>1. Unpack(serverq, m, serverFrame) = r[Len(cmds)]
  BY DEF Unpack, Unfold
<1>2. PICK n : n = Len(cmds)
  OBVIOUS
<1>3. /\ n \in Nat /\ cmds \in Seq(Cmd) /\ a \in FirstAt .. ClientAt /\ a + n <= ClientAt
      /\ a = FirstAt \/ a <= ServerAt
      /\ ClientAt \in 0 .. H - 1 /\ FirstAt \in 0 .. ClientAt /\ ServerAt \in 0 .. H - 1
      /\ m.first \in Frames /\ a \in Nat
  BY <1>2, ClockFacts DEF Carries, Agrees
<1>4. ASSUME NEW i \in 1 .. n
      PROVE  /\ cmds[i] \in Cmd /\ cmds[i] = given[At(a + i - 1)]
             /\ Plus(m.first, i - 1) = At(a + i - 1)
             /\ At(a + i - 1) \in Frames
  <2>1. cmds[i] \in Cmd
    BY <1>2, <1>3
  <2>2. cmds[i] = given[At(a + i - 1)]
    BY <1>2 DEF Carries, Agrees
  <2>3. m.first = At(a)
    BY <1>3, OffIs
  <2> HIDE DEF a, cmds
  <2>4. PICK j : j = i - 1
    OBVIOUS
  <2>8. j \in Nat /\ j < n /\ a + i - 1 = a + j
    BY <1>3, <2>4
  <2>5. a + j \in 0 .. H - 1 /\ a \in 0 .. H - 1
    BY <1>3, <2>8, Bounds
  <2>6. Plus(At(a), j) = At(a + j) /\ At(a + j) \in Frames
    BY <2>5, <2>8, AtPlus, AtIs
  <2>7. QED
    BY <2>1, <2>2, <2>3, <2>4, <2>6, <2>8
<1> HIDE DEF cmds, a
<1>5. \E put : put = Unfold(put)
  <2> DEFINE step == [i \in 1 .. n |-> [q \in CmdQueues |->
                        UnpackOne(q, cmds[i], At(a + i - 1), serverFrame)]]
  <2>1. ASSUME NEW i \in 1 .. n, NEW q \in CmdQueues
        PROVE  UnpackOne(q, cmds[i], At(a + i - 1), serverFrame) \in CmdQueues
    BY <1>4, PutType DEF UnpackOne
  <2>2. step \in [1 .. n -> [CmdQueues -> CmdQueues]] /\ serverq \in CmdQueues
    BY <2>1 DEF Queued
  <2>3. \A i \in 1 .. n : \A q \in CmdQueues :
           step[i][q] = UnpackOne(q, cmds[i], At(a + i - 1), serverFrame)
    OBVIOUS
  <2> HIDE DEF step
  <2>4. PICK put : Recurs(put, CmdQueues, serverq, step, n)
    BY <1>3, <2>2, Recursion
  <2>5. /\ put \in [0 .. n -> CmdQueues] /\ put[0] = serverq
        /\ \A i \in 1 .. n : put[i] = step[i][put[i - 1]]
    BY <2>4 DEF Recurs
  <2>6. ASSUME NEW i \in 0 .. Len(cmds)
        PROVE  put[i] = Unfold(put)[i]
    <3>1. CASE i = 0
      BY <2>5, <3>1
    <3>2. CASE i # 0
      <4>1. i \in 1 .. n /\ i - 1 \in 0 .. n
        BY <1>2, <1>3, <3>2
      <4>2. put[i] = UnpackOne(put[i - 1], cmds[i], At(a + i - 1), serverFrame)
        BY <2>3, <2>5, <4>1
      <4>3. At(a + i - 1) = Plus(m.first, i - 1)
        BY <1>4, <4>1
      <4>4. put[i] = UnpackOne(put[i - 1], cmds[i], Plus(m.first, i - 1), serverFrame)
        BY <4>2, <4>3
      <4>5. QED
        BY <3>2, <4>4 DEF UnpackOne
    <3>3. QED
      BY <3>1, <3>2
  <2>7. put = Unfold(put)
    BY <1>2, <2>5, <2>6
  <2>8. QED
    BY <2>7
<1> HIDE DEF Unfold
<1>6. r = Unfold(r)
  BY <1>5
<1> HIDE DEF r
<1>7. r[0] = serverq
  <2>1. 0 \in 0 .. Len(cmds)
    BY <1>2, <1>3
  <2>2. QED
    BY <1>6, <2>1 DEF Unfold
<1>8. ASSUME NEW i \in 1 .. n
      PROVE  r[i] = UnpackOne(r[i - 1], cmds[i], At(a + i - 1), serverFrame)
  <2>1. i \in 0 .. Len(cmds) /\ i # 0
    BY <1>2, <1>3
  <2>2. r[i] = UnpackOne(r[i - 1], cmds[i], Plus(m.first, i - 1), serverFrame)
    BY <1>6, <2>1 DEF Unfold, UnpackOne
  <2>3. QED
    BY <1>4, <2>2
<1> DEFINE S == {i \in Nat : i <= n => /\ Queued(r[i])
                                       /\ r[i].cmds = << >> => i = 0 \/ a + i <= ServerAt}
<1>9. 0 \in S
  BY <1>7
<1>10. ASSUME NEW i \in Nat, i \in S
       PROVE  i + 1 \in S
  <2>1. SUFFICES ASSUME i + 1 <= n
                 PROVE  /\ Queued(r[i + 1])
                        /\ r[i + 1].cmds = << >> => a + (i + 1) <= ServerAt
    OBVIOUS
  <2>2. PICK j, k : j = i + 1 /\ k = a + i
    OBVIOUS
  <2>3. /\ j \in 1 .. n /\ j - 1 = i /\ a + j - 1 = k
        /\ k \in FirstAt .. ClientAt - 1 /\ a + j = k + 1
    BY <1>3, <2>1, <2>2
  <2>4. r[j] = UnpackOne(r[i], cmds[j], At(k), serverFrame) /\ cmds[j] = given[At(k)]
    BY <1>4, <1>8, <2>3
  <2>5. Queued(r[i]) /\ (r[i].cmds = << >> => i = 0 \/ a + i <= ServerAt)
    BY <1>3, <1>10, <2>1
  <2>6. r[i].cmds = << >> => k = FirstAt \/ k <= ServerAt
    BY <1>3, <2>2, <2>5
  <2>7. Queued(r[j]) /\ (r[j].cmds = << >> => k + 1 <= ServerAt)
    BY <2>3, <2>4, <2>5, <2>6, UnpackOneKeeps
  <2>8. QED
    BY <2>2, <2>3, <2>7
<1> HIDE DEF S
<1>11. n \in S
  BY <1>3, <1>9, <1>10, SetInduction
<1>12. QED
  BY <1>1, <1>2, <1>3, <1>11 DEF S

LEMMA ServerRecvStep ==
  ASSUME IInv, NEW m \in commandMsgs, ServerRecv(m), UNCHANGED mayPass
  PROVE  IInv'
<1>1. /\ serverq' = Unpack(serverq, m, serverFrame)
      /\ lastMsg' = (IF le_wrap(Plus(m.first, m.count), lastMsg) THEN lastMsg
                     ELSE Plus(m.first, m.count))
      /\ UNCHANGED <<clientFrame, command, clientq, head, headAck, serverFrame,
                     serverHead, hold, commandMsgs, headMsgs, given, executed, mayPass>>
  BY DEF ServerRecv, client
<1>2. Carries(m) /\ Queued(Unpack(serverq, m, serverFrame)) /\ Clocks /\ lastMsg \in Frames
  BY UnpackKeeps DEF IInv
<1>3. /\ UNCHANGED <<ServerAt, ClientAt, FirstAt, ReleasedAt, NextAt>>
  BY <1>1 DEF ServerAt, ClientAt, FirstAt, ReleasedAt, NextAt
<1>4. Queued(serverq)'
  <2>1. PICK q : q = serverq'
    OBVIOUS
  <2>2. Queued(q)
    BY <1>1, <1>2, <2>1
  <2>3. Queued(q)'
    BY <1>1, <1>3, <2>2 DEF Queued, Agrees
  <2>4. QED
    BY <2>1, <2>3 DEF Queued, Agrees
<1>5. Clocks' /\ Given'
  BY <1>1, <1>3 DEF IInv, Clocks, Given
<1>6. Pending'
  BY <1>1, <1>3 DEF IInv, Pending, Agrees
<1>7. \A n \in commandMsgs' : Carries(n)'
  BY <1>1, <1>3 DEF IInv, Carries, Agrees
<1>8. Executed' /\ Acked'
  BY <1>1, <1>3 DEF IInv, Executed, HeadAt, Acked
<1>9. lastMsg' \in Frames
  <2>1. m.first \in Frames /\ m.count \in Nat /\ Len(Decoded(m)) = m.count + 1
        /\ Off(m.first) \in FirstAt .. ClientAt
        /\ Off(m.first) + Len(Decoded(m)) <= ClientAt
    BY <1>2 DEF Carries, Agrees
  <2>2. ClientAt \in 0 .. H - 1 /\ FirstAt \in 0 .. ClientAt
    BY <1>2, ClockFacts
  <2>3. m.count \in 0 .. M
    BY <2>1, <2>2, Bounds DEF M
  <2>4. Plus(m.first, m.count) \in Frames
    BY <2>1, <2>3, PlusType
  <2>5. QED
    BY <1>1, <1>2, <2>4
<1>10. QED
  BY <1>4, <1>5, <1>6, <1>7, <1>8, <1>9 DEF IInv

-----------------------------------------------------------------------------
(* A frame of the server.                                                  *)

(* A queue without a gap gives the command that is due, or none if it is   *)
(* empty.                                                                  *)
LEMMA TakesDue ==
  ASSUME NEW q \in CmdQueues, NEW f \in Frames, q.cmds # << >> => q.first = f,
         NEW r, r = TakeOrPredict(q, f)
  PROVE  /\ q.cmds = << >> => r.cmds = << >> /\ r.first = q.first /\ r.last = q.last
         /\ q.cmds # << >> =>
              /\ \A k \in 0 .. H - 1 : k + 1 \in 0 .. H - 1 /\ f = At(k) => r.first = At(k + 1)
              /\ r.first \in Frames
              /\ Len(r.cmds) = Len(q.cmds) - 1 /\ r.cmds \in Seq(Cmd)
              /\ r.last = q.cmds[1]
              /\ \A i \in 1 .. Len(r.cmds) : r.cmds[i] = q.cmds[i + 1]
         /\ r \in CmdQueues
<1> DEFINE n == Taken(q, f)
<1>1. /\ q.cmds \in Seq(Cmd) /\ Len(q.cmds) \in Nat
      /\ q.first \in Frames /\ q.last \in Cmd
  BY DEF CmdQueues
<1>2. /\ r.first = Plus(q.first, n)
      /\ r.cmds = SubSeq(q.cmds, n + 1, Len(q.cmds))
      /\ r.last = (IF n = 0 THEN q.last ELSE q.cmds[n])
      /\ r = [first |-> r.first, cmds |-> r.cmds, last |-> r.last]
  BY DEF TakeOrPredict
<1>3. CASE q.cmds = << >>
  <2>1. Len(q.cmds) = 0
    BY <1>3
  <2>2. n = 0
    <3>1. Ahead(f, q.first) \in Frames
      BY <1>1, AheadType
    <3>2. QED
      BY <2>1, <3>1, MPositive DEF Taken, Frames
  <2>3. Plus(q.first, 0) = q.first
    BY <1>1, MPositive DEF Plus, Frames
  <2>4. r.first = q.first /\ r.last = q.last
    BY <1>2, <2>2, <2>3
  <2>5. r.cmds = SubSeq(q.cmds, 1, 0)
    BY <1>2, <2>1, <2>2
  <2>6. r.cmds = << >>
    BY <1>1, <2>5
  <2>7. r \in CmdQueues
    BY <1>1, <1>2, <2>4, <2>6 DEF CmdQueues
  <2>8. QED
    BY <1>3, <2>4, <2>6, <2>7
<1>4. CASE q.cmds # << >>
  <2>1. n = 1
    <3>1. ~ lt_wrap(f, f) /\ Ahead(f, f) = 0
      BY HAssumption, SMT DEF lt_wrap, ge_wrap, Ahead, Frames, M
    <3>2. 0 < Len(q.cmds)
      BY <1>1, <1>4
    <3>3. QED
      BY <1>4, <3>1, <3>2 DEF Taken
  <2>2. r.first = Plus(f, 1)
    BY <1>2, <1>4, <2>1
  <2>3. r.first \in Frames
    BY <2>2, MPositive, PlusType
  <2>4. ASSUME NEW k \in 0 .. H - 1, k + 1 \in 0 .. H - 1, f = At(k)
        PROVE  r.first = At(k + 1)
    <3>1. 1 \in Nat
      OBVIOUS
    <3>2. QED
      BY <2>2, <2>4, <3>1, AtPlus
  <2>5. r.cmds = SubSeq(q.cmds, 2, Len(q.cmds)) /\ r.last = q.cmds[1]
    BY <1>2, <2>1
  <2>6. /\ r.cmds \in Seq(Cmd) /\ Len(r.cmds) = Len(q.cmds) - 1
        /\ \A i \in 1 .. Len(r.cmds) : r.cmds[i] = q.cmds[i + 1]
    BY <1>1, <1>4, <2>5
  <2>7. r.last \in Cmd
    BY <1>1, <1>4, <2>5
  <2>8. r \in CmdQueues
    BY <1>2, <2>3, <2>6, <2>7 DEF CmdQueues
  <2>9. QED
    BY <1>4, <2>3, <2>4, <2>5, <2>6, <2>8
<1>5. QED
  BY <1>3, <1>4

(* The server takes the oldest command it has, or none if it has none.     *)
LEMMA ServerTakes ==
  ASSUME Clocks, Queued(serverq), ~ Held, ServerAt + 1 \in 0 .. H - 1,
         NEW q, q = TakeOrPredict(serverq, serverFrame)
  PROVE  /\ q \in CmdQueues
         /\ serverq.cmds = << >> => q.cmds = << >>
         /\ serverq.cmds # << >> =>
              /\ serverq.first = serverFrame
              /\ q.first = At(ServerAt + 1)
              /\ Len(q.cmds) = Len(serverq.cmds) - 1
              /\ q.last = serverq.cmds[1]
              /\ \A i \in 1 .. Len(q.cmds) : q.cmds[i] = serverq.cmds[i + 1]
<1>1. serverq \in CmdQueues /\ serverq.first \in Frames
  BY DEF Queued, CmdQueues
<1>2. ServerAt \in 0 .. H - 1 /\ serverFrame = At(ServerAt) /\ serverFrame \in Frames
  BY ClockFacts DEF Clocks
<1>3. ASSUME serverq.cmds # << >>
      PROVE  serverq.first = serverFrame
  <2>1. Off(serverq.first) = ServerAt \/ hold
    BY <1>3 DEF Queued
  <2>2. QED
    BY <1>1, <1>2, <1>3, <2>1, OffIs DEF Held, frame_begin
<1>4. QED
  BY <1>1, <1>2, <1>3, TakesDue

(* What does not depend on the server's queue and head.                    *)
LEMMA ServerTicks ==
  ASSUME IInv, NEW net \in BOOLEAN, ServerFrame(net), UNCHANGED mayPass
  PROVE  /\ ServerAt' = ServerAt + 1 /\ ServerAt + 1 \in 0 .. H - 1
         /\ UNCHANGED <<ClientAt, FirstAt, NextAt>>
         /\ UNCHANGED <<clientFrame, command, clientq, head, headAck, lastMsg,
                        commandMsgs, given>>
         /\ Clocks' /\ Given' /\ Pending'
         /\ \A m \in commandMsgs' : Carries(m)'
<1>1. /\ Ahead(serverFrame, Start) < MaxFrames
      /\ mayPass \/ lt_wrap(serverFrame, clientFrame)
      /\ hold' = Held /\ serverFrame' = Plus(serverFrame, 1)
      /\ UNCHANGED <<clientFrame, command, clientq, head, headAck, lastMsg,
                     commandMsgs, given, mayPass>>
  BY DEF ServerFrame, client
<1>2. /\ ServerAt \in 0 .. H - 1 /\ serverFrame = At(ServerAt)
      /\ ClientAt \in 0 .. H - 1 /\ clientFrame = At(ClientAt)
      /\ FirstAt \in 0 .. ClientAt
  BY ClockFacts DEF IInv
<1>3. ServerAt < MaxFrames
  BY <1>1 DEF ServerAt, Off
<1>4. ServerAt + 1 \in 0 .. H - 1
  BY <1>2, <1>3, Bounds
<1>5. serverFrame' = At(ServerAt + 1)
  <2>1. 1 \in Nat
    OBVIOUS
  <2>2. QED
    BY <1>1, <1>2, <1>4, <2>1, AtPlus
<1>6. ServerAt' = ServerAt + 1 /\ serverFrame' \in Frames
  BY <1>4, <1>5, AtIs DEF ServerAt
<1>7. UNCHANGED <<ClientAt, FirstAt, NextAt>>
  BY <1>1 DEF ClientAt, FirstAt, NextAt
<1>8. ~ mayPass => ServerAt < ClientAt
  BY <1>1, <1>2, AtOrder
<1>9. Clocks'
  <2>1. ServerAt' <= MaxFrames /\ (~ mayPass => ServerAt' <= ClientAt)
    BY <1>2, <1>3, <1>6, <1>8, Bounds
  <2>2. hold' \in BOOLEAN
    BY <1>1 DEF Held
  <2>3. QED
    BY <1>1, <1>6, <1>7, <2>1, <2>2 DEF IInv, Clocks
<1>10. Given'
  BY <1>1, <1>7 DEF IInv, Given
<1>11. ASSUME NEW x \in Int, x <= ServerAt
       PROVE  x <= ServerAt'
  BY <1>2, <1>6, <1>11
<1>12. NextAt \in Int
  <2>1. clientq \in CmdQueues
    BY DEF IInv, Pending
  <2>2. clientq.first \in Frames
    BY <2>1 DEF CmdQueues
  <2>3. Off(clientq.first) \in Int
    BY <2>2, OffIs
  <2>4. QED
    BY <1>2, <2>3 DEF NextAt
<1>13. Pending'
  <2>1. NextAt' = FirstAt' \/ NextAt' <= ServerAt'
    BY <1>7, <1>11, <1>12 DEF IInv, Pending
  <2>2. QED
    BY <1>1, <1>7, <2>1 DEF IInv, Pending, Agrees
<1>14. ASSUME NEW m, m \in commandMsgs
       PROVE  Carries(m)'
  <2>1. Carries(m) /\ Off(m.first) \in Int
    <3>1. Carries(m)
      BY <1>14 DEF IInv
    <3>2. m.first \in Frames
      BY <3>1 DEF Carries
    <3>3. QED
      BY <3>1, <3>2, OffIs
  <2>2. Off(m.first) = FirstAt' \/ Off(m.first) <= ServerAt'
    BY <1>7, <1>11, <2>1 DEF Carries
  <2>3. QED
    BY <1>1, <1>7, <2>1, <2>2 DEF Carries, Agrees
<1>15. QED
  BY <1>1, <1>4, <1>6, <1>7, <1>9, <1>10, <1>13, <1>14

(* While the snake is held the server only counts.                         *)
LEMMA HeldStep ==
  ASSUME IInv, NEW net \in BOOLEAN, ServerFrame(net), UNCHANGED mayPass, Held
  PROVE  IInv'
<1>1. /\ hold /\ hold'
      /\ UNCHANGED <<serverq, serverHead, executed, headMsgs>>
  BY DEF ServerFrame, Held
<1>2. /\ ServerAt' = ServerAt + 1 /\ ServerAt + 1 \in 0 .. H - 1
      /\ UNCHANGED <<ClientAt, FirstAt, NextAt>>
      /\ UNCHANGED <<clientFrame, command, clientq, head, headAck, lastMsg,
                     commandMsgs, given>>
      /\ Clocks' /\ Given' /\ Pending'
      /\ \A m \in commandMsgs' : Carries(m)'
  BY ServerTicks
<1>3. ServerAt \in 0 .. H - 1 /\ serverFrame = At(ServerAt) /\ FirstAt \in Nat
  BY ClockFacts DEF IInv
<1>4. Queued(serverq)'
  <2>1. serverq \in CmdQueues /\ serverq.first \in Frames
    BY DEF IInv, Queued, CmdQueues
  <2>2. ASSUME serverq.cmds # << >>
        PROVE  Off(serverq.first) = FirstAt /\ FirstAt >= ServerAt + 1
    <3>1. Off(serverq.first) # ServerAt
      BY <1>3, <2>1, <2>2, OffIs DEF Held, frame_begin
    <3>2. Off(serverq.first) = FirstAt /\ FirstAt >= ServerAt
      BY <2>2, <3>1 DEF IInv, Queued
    <3>3. QED
      BY <1>3, <3>1, <3>2
  <2>3. QED
    BY <1>1, <1>2, <2>2 DEF IInv, Queued, Agrees
<1>5. Executed'
  <2>1. serverHead = << >> /\ DOMAIN executed = {} /\ headMsgs = {}
    BY <1>1 DEF IInv, Executed
  <2>2. QED
    BY <1>1, <2>1 DEF Executed
<1>6. Acked'
  BY <1>1, <1>2 DEF IInv, Acked, ServerFrame
<1>7. QED
  BY <1>2, <1>4, <1>5, <1>6 DEF IInv

(* What a head says does not change when the server executes more.         *)
LEMMA HeadKept ==
  ASSUME ReleasedAt' = ReleasedAt, ServerAt' = ServerAt + 1, ServerAt \in Nat,
         ReleasedAt \in Nat,
         \A i \in ReleasedAt .. ServerAt - 1 : executed'[At(i)] = executed[At(i)],
         NEW h, NEW f, HeadAt(h, f)
  PROVE  HeadAt(h, f)'
<1>1. /\ h \in Seq(Cmd) /\ f \in ReleasedAt .. ServerAt - 1
      /\ Len(h) = f - ReleasedAt + 1 /\ Len(h) \in Nat
  BY DEF HeadAt
<1>2. ASSUME NEW i \in 1 .. Len(h)
      PROVE  h[i] = executed'[At(ReleasedAt + i - 1)]
  <2>1. ReleasedAt + i - 1 \in ReleasedAt .. ServerAt - 1
    BY <1>1
  <2>2. QED
    BY <2>1 DEF HeadAt
<1>3. f \in ReleasedAt' .. ServerAt' - 1
  BY <1>1
<1>4. QED
  BY <1>1, <1>2, <1>3 DEF HeadAt

(* Otherwise it executes the command taken, or predicts it.                *)
LEMMA ExecuteStep ==
  ASSUME IInv, NEW net \in BOOLEAN, ServerFrame(net), UNCHANGED mayPass, ~ Held
  PROVE  IInv'
<1>1. /\ ~ hold'
      /\ serverq' = TakeOrPredict(serverq, serverFrame)
      /\ serverHead' = Append(serverHead, serverq'.last)
      /\ executed' = With(executed, serverFrame, serverq'.last)
      /\ headMsgs' = (IF net THEN headMsgs \cup {[frame |-> serverFrame, head |-> serverHead']}
                      ELSE headMsgs)
  BY DEF ServerFrame
<1>2. /\ ServerAt' = ServerAt + 1 /\ ServerAt + 1 \in 0 .. H - 1
      /\ UNCHANGED <<ClientAt, FirstAt, NextAt>>
      /\ UNCHANGED <<clientFrame, command, clientq, head, headAck, lastMsg,
                     commandMsgs, given>>
      /\ Clocks' /\ Given' /\ Pending'
      /\ \A m \in commandMsgs' : Carries(m)'
  BY ServerTicks
<1>3. /\ ServerAt \in 0 .. H - 1 /\ serverFrame = At(ServerAt) /\ FirstAt \in Nat
      /\ serverFrame \in Frames /\ ServerAt \in Nat /\ H \in Nat
  BY ClockFacts, Bounds DEF IInv, Clocks
<1>4. Queued(serverq) /\ Executed /\ Clocks
  BY DEF IInv
<1>5. PICK q : q = serverq'
  OBVIOUS
<1>6. /\ q \in CmdQueues
      /\ serverq.cmds = << >> => q.cmds = << >>
      /\ serverq.cmds # << >> =>
           /\ serverq.first = serverFrame
           /\ q.first = At(ServerAt + 1)
           /\ Len(q.cmds) = Len(serverq.cmds) - 1
           /\ q.last = serverq.cmds[1]
           /\ \A i \in 1 .. Len(q.cmds) : q.cmds[i] = serverq.cmds[i + 1]
  BY <1>1, <1>2, <1>4, <1>5, ServerTakes
<1>7. PICK c : c = q.last
  OBVIOUS
<1>8. c \in Cmd
  BY <1>6, <1>7 DEF CmdQueues
<1>9. Queued(serverq)'
  <2>1. ASSUME q.cmds # << >>
        PROVE  Agrees(q.cmds, Off(q.first))' /\ Off(q.first) = ServerAt'
    <3>1. serverq.cmds # << >>
      BY <1>6, <2>1
    <3>2. Off(serverq.first) = ServerAt /\ Off(q.first) = ServerAt + 1
      BY <1>2, <1>3, <1>6, <3>1, AtIs
    <3>3. Agrees(serverq.cmds, ServerAt)
      BY <1>4, <3>1, <3>2 DEF Queued
    <3>4. PICK n, l : n = Len(q.cmds) /\ l = Len(serverq.cmds)
      OBVIOUS
    <3>5. n \in Nat /\ l \in Nat /\ n = l - 1
      BY <1>4, <1>6, <3>1, <3>4 DEF Queued, CmdQueues
    <3>6. n # 0
      BY <1>6, <2>1, <3>4 DEF CmdQueues
    <3>7. ServerAt \in FirstAt .. ClientAt /\ ServerAt + l <= ClientAt
      BY <3>3, <3>4 DEF Agrees
    <3>8. ClientAt \in Nat
      BY <1>4, ClockFacts
    <3>9. ServerAt + 1 \in FirstAt .. ClientAt /\ (ServerAt + 1) + n <= ClientAt
      BY <1>3, <3>5, <3>6, <3>7, <3>8
    <3>10. ASSUME NEW i \in 1 .. n
           PROVE  q.cmds[i] = given[At((ServerAt + 1) + i - 1)]
      <4>1. PICK j : j = i + 1
        OBVIOUS
      <4>2. j \in 1 .. l /\ (ServerAt + 1) + i - 1 = ServerAt + j - 1
        BY <1>3, <3>5, <4>1
      <4>3. serverq.cmds[j] = given[At(ServerAt + j - 1)]
        BY <3>3, <3>4, <4>2 DEF Agrees
      <4>4. q.cmds[i] = serverq.cmds[j]
        BY <1>6, <3>1, <3>4, <4>1
      <4>5. QED
        BY <4>2, <4>3, <4>4
    <3>11. Agrees(q.cmds, ServerAt + 1)
      BY <3>4, <3>9, <3>10 DEF Agrees
    <3>12. PICK at : at = Off(q.first)
      OBVIOUS
    <3>13. Agrees(q.cmds, at)
      BY <3>2, <3>11, <3>12
    <3>14. Agrees(q.cmds, at)'
      BY <1>2, <3>13 DEF Agrees
    <3>15. QED
      BY <1>2, <3>2, <3>12, <3>14
  <2>2. QED
    BY <1>2, <1>5, <1>6, <2>1 DEF Queued, Agrees
<1>10. /\ serverHead \in Seq(Cmd) /\ Len(serverHead) \in Nat
       /\ ReleasedAt \in FirstAt .. ServerAt /\ Len(serverHead) = ServerAt - ReleasedAt
       /\ DOMAIN executed = {At(i) : i \in ReleasedAt .. ServerAt - 1}
       /\ \A i \in 1 .. Len(serverHead) : serverHead[i] = executed[At(ReleasedAt + i - 1)]
       /\ ReleasedAt \in Nat
  <2>1. serverHead \in Seq(Cmd) /\ Len(serverHead) \in Nat
    BY <1>4 DEF Executed
  <2>2. ReleasedAt \in Int /\ Len(serverHead) = ServerAt - ReleasedAt
    BY <1>3, <2>1 DEF ReleasedAt
  <2>3. CASE hold
    <3>1. serverHead = << >> /\ DOMAIN executed = {}
      BY <1>4, <2>3 DEF Executed
    <3>2. ReleasedAt = ServerAt
      BY <1>3, <3>1 DEF ReleasedAt
    <3>3. Off(serverq.first) = ServerAt /\ serverq.cmds # << >>
      BY <1>3, <2>3, AtIs DEF Held, frame_begin
    <3>4. ServerAt \in FirstAt .. ClientAt
      BY <1>4, <3>3 DEF Queued, Agrees
    <3>5. ReleasedAt .. ServerAt - 1 = {} /\ Len(serverHead) = 0
      BY <1>3, <3>1, <3>2
    <3>6. DOMAIN executed = {At(i) : i \in ReleasedAt .. ServerAt - 1}
      BY <3>1, <3>5
    <3>7. ReleasedAt \in FirstAt .. ServerAt
      BY <1>3, <3>2, <3>4
    <3>8. 1 .. Len(serverHead) = {}
      BY <3>5
    <3>9. QED
      BY <1>3, <2>1, <2>2, <3>6, <3>7, <3>8
  <2>4. CASE ~ hold
    <3>1. /\ FirstAt <= ReleasedAt /\ ReleasedAt < ServerAt
          /\ HeadAt(serverHead, ServerAt - 1)
          /\ DOMAIN executed = {At(i) : i \in ReleasedAt .. ServerAt - 1}
      BY <1>4, <2>4 DEF Executed
    <3>2. ReleasedAt \in FirstAt .. ServerAt /\ ReleasedAt \in Nat
      BY <1>3, <2>2, <3>1
    <3>3. QED
      BY <2>1, <2>2, <3>1, <3>2 DEF HeadAt
  <2>5. QED
    BY <2>3, <2>4
<1>11. ASSUME NEW i \in ReleasedAt .. ServerAt - 1
       PROVE  executed'[At(i)] = executed[At(i)]
  <2>1. i \in 0 .. H - 1 /\ i < ServerAt
    BY <1>3, <1>10
  <2>2. At(i) # serverFrame
    BY <1>3, <2>1, AtOrder
  <2>3. At(i) \in DOMAIN executed
    BY <1>10
  <2>4. QED
    BY <1>1, <2>2, <2>3 DEF With
<1>12. executed'[At(ServerAt)] = c
  BY <1>1, <1>3, <1>5, <1>7 DEF With
<1>13. PICK h : h = serverHead'
  OBVIOUS
<1>14. /\ h \in Seq(Cmd) /\ Len(h) = Len(serverHead) + 1 /\ h[Len(serverHead) + 1] = c
       /\ \A i \in 1 .. Len(serverHead) : h[i] = serverHead[i]
  BY <1>1, <1>5, <1>7, <1>8, <1>10, <1>13
<1>15. ReleasedAt' = ReleasedAt
  <2>1. ReleasedAt' = ServerAt' - Len(h)
    BY <1>13 DEF ReleasedAt
  <2>2. QED
    BY <1>2, <1>3, <1>10, <1>14, <2>1
<1>16. PICK at : at = ServerAt
  OBVIOUS
<1>17. HeadAt(h, at)' /\ at = ServerAt' - 1
  <2>1. ASSUME NEW i \in 1 .. Len(h)
        PROVE  h[i] = executed'[At(ReleasedAt + i - 1)]
    <3>1. CASE i = Len(serverHead) + 1
      <4>1. ReleasedAt + i - 1 = ServerAt
        BY <1>3, <1>10, <3>1
      <4>2. QED
        BY <1>12, <1>14, <3>1, <4>1
    <3>2. CASE i # Len(serverHead) + 1
      <4>1. PICK k : k = ReleasedAt + i - 1
        OBVIOUS
      <4>2. i \in 1 .. Len(serverHead) /\ k \in ReleasedAt .. ServerAt - 1
        BY <1>3, <1>10, <1>14, <3>2, <4>1
      <4>3. h[i] = executed[At(k)]
        BY <1>10, <1>14, <4>1, <4>2
      <4>4. QED
        BY <1>11, <4>1, <4>2, <4>3
    <3>3. QED
      BY <3>1, <3>2
  <2>3. at \in ReleasedAt' .. ServerAt' - 1 /\ Len(h) = at - ReleasedAt' + 1
    <3>1. PICK r, old : r = ReleasedAt /\ old = Len(serverHead)
      OBVIOUS
    <3>2. r \in Nat /\ r <= at /\ at \in Nat /\ old = at - r
      BY <1>3, <1>10, <1>16, <3>1
    <3>3. ServerAt' = at + 1 /\ ReleasedAt' = r /\ Len(h) = old + 1
      BY <1>2, <1>3, <1>14, <1>15, <1>16, <3>1
    <3>4. QED
      BY <3>2, <3>3
  <2>4. HeadAt(h, at)'
    BY <1>14, <1>15, <2>1, <2>3 DEF HeadAt
  <2>5. at = ServerAt' - 1
    BY <1>2, <1>3, <1>16
  <2>6. QED
    BY <2>4, <2>5

<1>18. ASSUME NEW m, m \in headMsgs'
       PROVE  m \in HeadMsgs /\ HeadAt(m.head, Off(m.frame))'
  <2>1. CASE m \in headMsgs
    <3>1. m \in HeadMsgs /\ HeadAt(m.head, Off(m.frame))
      BY <1>4, <2>1 DEF Executed
    <3>2. HeadAt(m.head, Off(m.frame))'
      BY <1>2, <1>3, <1>10, <1>11, <1>15, <3>1, HeadKept
    <3>3. QED
      BY <3>1, <3>2
  <2>2. CASE m \notin headMsgs
    <3>1. m = [frame |-> serverFrame, head |-> h]
      BY <1>1, <1>13, <1>18, <2>2
    <3>2. m \in HeadMsgs /\ m.head = h
      BY <1>3, <1>14, <3>1 DEF HeadMsgs
    <3>3. Off(m.frame) = at
      BY <1>3, <1>16, <3>1, AtIs
    <3>4. QED
      BY <1>17, <3>2, <3>3
  <2>3. QED
    BY <2>1, <2>2
<1>19. Executed'
  <2>1. DOMAIN executed' = {At(i) : i \in ReleasedAt .. ServerAt}
    <3>1. DOMAIN executed' = DOMAIN executed \cup {At(ServerAt)}
      BY <1>1, <1>3 DEF With
    <3>2. ReleasedAt .. ServerAt = (ReleasedAt .. ServerAt - 1) \cup {ServerAt}
      BY <1>3, <1>10
    <3>3. QED
      BY <1>10, <3>1, <3>2, Zenon
  <2>2. ReleasedAt' .. ServerAt' - 1 = ReleasedAt .. ServerAt
    BY <1>2, <1>3, <1>10, <1>15
  <2>3. DOMAIN executed' = {At(i) : i \in ReleasedAt' .. ServerAt' - 1}
    BY <2>1, <2>2
  <2>4. FirstAt' <= ReleasedAt' /\ ReleasedAt' < ServerAt'
    BY <1>2, <1>3, <1>10, <1>15
  <2>5. HeadAt(serverHead, ServerAt - 1)'
    BY <1>13, <1>17 DEF HeadAt
  <2>6. QED
    BY <1>1, <1>13, <1>14, <1>18, <2>3, <2>4, <2>5 DEF Executed
<1>20. Acked'
  <2>1. headMsgs \subseteq headMsgs'
    BY <1>1
  <2>2. mayPass' = mayPass
    OBVIOUS
  <2>3. QED
    BY <1>2, <2>1, <2>2 DEF IInv, Acked
<1>21. lastMsg' \in Frames
  BY <1>2 DEF IInv
<1>22. QED
  BY <1>2, <1>9, <1>19, <1>20, <1>21 DEF IInv

-----------------------------------------------------------------------------
(* A head arrives at the client.                                           *)

LEMMA TakeType ==
  ASSUME NEW q \in CmdQueues, Len(q.cmds) <= M, NEW f \in Frames,
         NEW r, r = TakeOrPredict(q, f)
  PROVE  r \in CmdQueues /\ Len(r.cmds) <= M /\ r.last \in Cmd
<1> DEFINE n == Taken(q, f)
<1>1. /\ q.cmds \in Seq(Cmd) /\ Len(q.cmds) \in Nat
      /\ q.first \in Frames /\ q.last \in Cmd
  BY DEF CmdQueues
<1>2. n \in 0 .. Len(q.cmds)
  <2>1. Ahead(f, q.first) \in Frames
    BY <1>1, AheadType
  <2>2. Ahead(f, q.first) \in Nat
    BY <2>1, MPositive DEF Frames
  <2>3. QED
    BY <1>1, <2>2 DEF Taken
<1>3. /\ r = [first |-> r.first, cmds |-> r.cmds, last |-> r.last]
      /\ r.first = Plus(q.first, n) /\ r.cmds = SubSeq(q.cmds, n + 1, Len(q.cmds))
      /\ r.last = (IF n = 0 THEN q.last ELSE q.cmds[n])
  BY DEF TakeOrPredict
<1> HIDE DEF n
<1>4. n \in 0 .. M
  BY <1>1, <1>2, MPositive
<1>5. r.first \in Frames
  BY <1>1, <1>3, <1>4, PlusType
<1>6. r.cmds \in Seq(Cmd) /\ Len(r.cmds) = Len(q.cmds) - n
  BY <1>1, <1>2, <1>3
<1>7. r.last \in Cmd
  BY <1>1, <1>2, <1>3
<1>8. Len(r.cmds) <= M
  BY <1>1, <1>2, <1>6, MPositive
<1>9. QED
  BY <1>3, <1>5, <1>6, <1>7, <1>8 DEF CmdQueues

(* One step of catching up.                                                *)
CatchOne(x, f) ==
  LET q == TakeOrPredict(x.cmdq, f)
  IN  [cmdq |-> q, ack |-> Append(x.ack, q.last)]

(* What i steps lead to: the first i commands are confirmed.  The step     *)
(* after the last command finds nothing.                                   *)
Caught(x, i) ==
  /\ x.cmdq \in CmdQueues /\ x.ack \in Seq(Cmd)
  /\ i <= Len(clientq.cmds) =>
       /\ Len(x.cmdq.cmds) = Len(clientq.cmds) - i
       /\ \A j \in 1 .. Len(x.cmdq.cmds) : x.cmdq.cmds[j] = clientq.cmds[i + j]
       /\ x.cmdq.cmds # << >> => x.cmdq.first = At(NextAt + i)
       /\ Len(x.ack) = Len(headAck) + i
       /\ \A j \in 1 .. Len(headAck) : x.ack[j] = headAck[j]
       /\ \A j \in 1 .. i : x.ack[Len(headAck) + j] = clientq.cmds[j]
  /\ i > Len(clientq.cmds) => x.cmdq.cmds = << >>

(* The commands awaiting confirmation, by their frames.                    *)
LEMMA PendingFacts ==
  ASSUME Clocks, Pending, clientq.cmds # << >>
  PROVE  /\ clientq \in CmdQueues /\ clientq.cmds \in Seq(Cmd)
         /\ Len(clientq.cmds) \in Nat \ {0}
         /\ NextAt \in FirstAt .. ClientAt /\ NextAt \in 0 .. H - 1
         /\ clientq.first = At(NextAt) /\ NextAt + Len(clientq.cmds) = ClientAt
         /\ \A i \in 1 .. Len(clientq.cmds) : clientq.cmds[i] = given[At(NextAt + i - 1)]
<1>1. /\ clientq \in CmdQueues /\ clientq.cmds \in Seq(Cmd) /\ clientq.first \in Frames
      /\ Len(clientq.cmds) \in Nat \ {0}
  BY DEF Pending, CmdQueues
<1>2. /\ NextAt = Off(clientq.first) /\ Agrees(clientq.cmds, NextAt)
      /\ NextAt + Len(clientq.cmds) = ClientAt
  BY DEF NextAt, Pending
<1>3. clientq.first = At(NextAt)
  BY <1>1, <1>2, OffIs
<1>4. /\ NextAt \in FirstAt .. ClientAt
      /\ \A i \in 1 .. Len(clientq.cmds) : clientq.cmds[i] = given[At(NextAt + i - 1)]
  BY <1>2 DEF Agrees
<1>5. NextAt \in 0 .. H - 1
  BY <1>4, ClockFacts, Bounds
<1>6. QED
  BY <1>1, <1>2, <1>3, <1>4, <1>5

LEMMA CaughtStep ==
  ASSUME Clocks, Pending, clientq.cmds # << >>, headAck \in Seq(Cmd),
         NEW i \in 0 .. Len(clientq.cmds),
         NEW x, Caught(x, i), NEW y, y = CatchOne(x, At(NextAt + i))
  PROVE  Caught(y, i + 1)
<1> DEFINE q == TakeOrPredict(x.cmdq, At(NextAt + i))
<1>1. y.cmdq = q /\ y.ack = Append(x.ack, q.last)
  BY DEF CatchOne
<1>2. PICK len, a, k : len = Len(clientq.cmds) /\ a = Len(headAck) /\ k = NextAt + i
  OBVIOUS
<1>3. /\ len \in Nat \ {0} /\ NextAt \in 0 .. H - 1 /\ NextAt + len = ClientAt
      /\ ClientAt \in 0 .. H - 1 /\ a \in Nat /\ H \in Nat /\ i \in Nat /\ i <= len
  BY <1>2, PendingFacts, ClockFacts, Bounds
<1>4. k \in 0 .. H - 1 /\ (i < len => k + 1 \in 0 .. H - 1)
  BY <1>2, <1>3
<1>5. At(k) \in Frames
  BY <1>4, AtIs
<1>6. PICK p, r : p = x.cmdq /\ r = q
  OBVIOUS
<1>7. /\ p \in CmdQueues /\ x.ack \in Seq(Cmd)
      /\ Len(p.cmds) = len - i
      /\ \A j \in 1 .. Len(p.cmds) : p.cmds[j] = clientq.cmds[i + j]
      /\ p.cmds # << >> => p.first = At(k)
      /\ Len(x.ack) = a + i
      /\ \A j \in 1 .. a : x.ack[j] = headAck[j]
      /\ \A j \in 1 .. i : x.ack[a + j] = clientq.cmds[j]
  BY <1>2, <1>6 DEF Caught
<1>8. p.cmds \in Seq(Cmd) /\ Len(p.cmds) \in Nat /\ p.last \in Cmd
  BY <1>7 DEF CmdQueues
<1>9. Len(p.cmds) <= M
  BY <1>3, <1>7, <1>8 DEF M
<1>10. r = TakeOrPredict(p, At(k)) /\ y.cmdq = r /\ y.ack = Append(x.ack, r.last)
  BY <1>1, <1>2, <1>6
<1> HIDE DEF q
<1>11. r \in CmdQueues /\ r.last \in Cmd
  BY <1>5, <1>7, <1>9, <1>10, TakeType
<1>12. /\ y.ack \in Seq(Cmd) /\ Len(y.ack) = a + i + 1 /\ y.ack[a + i + 1] = r.last
       /\ \A j \in 1 .. a + i : y.ack[j] = x.ack[j]
  <2>1. PICK n, s, t, e : n = a + i /\ s = x.ack /\ t = y.ack /\ e = r.last
    OBVIOUS
  <2>2. s \in Seq(Cmd) /\ e \in Cmd /\ t = Append(s, e) /\ Len(s) = n /\ n \in Nat
    BY <1>3, <1>7, <1>10, <1>11, <2>1
  <2>3. /\ t \in Seq(Cmd) /\ Len(t) = n + 1 /\ t[n + 1] = e
        /\ \A j \in 1 .. n : t[j] = s[j]
    BY <2>2
  <2>4. QED
    BY <2>1, <2>3
<1>13. CASE p.cmds = << >>
  <2>1. i = len
    <3>1. Len(p.cmds) = 0
      BY <1>13
    <3>2. QED
      BY <1>3, <1>7, <3>1
  <2>2. r.cmds = << >>
    BY <1>5, <1>7, <1>10, <1>13, TakesDue
  <2>3. PICK l : l = i + 1
    OBVIOUS
  <2>4. l > len /\ ~ (l <= len)
    BY <1>3, <2>1, <2>3
  <2>5. Caught(y, l)
    BY <1>2, <1>10, <1>11, <1>12, <2>2, <2>4 DEF Caught
  <2>6. QED
    BY <2>3, <2>5
<1>14. CASE p.cmds # << >>
  <2>1. i < len
    <3>1. Len(p.cmds) # 0
      BY <1>8, <1>14
    <3>2. QED
      BY <1>3, <1>7, <1>8, <3>1
  <2>2. /\ r.first = At(k + 1) /\ Len(r.cmds) = Len(p.cmds) - 1 /\ r.last = p.cmds[1]
        /\ \A j \in 1 .. Len(r.cmds) : r.cmds[j] = p.cmds[j + 1]
    BY <1>4, <1>5, <1>7, <1>10, <1>14, <2>1, TakesDue
  <2>3. PICK n, l : n = Len(r.cmds) /\ l = i + 1
    OBVIOUS
  <2>4. n = len - l /\ n \in Nat /\ l \in Nat /\ l <= len /\ n + 1 = Len(p.cmds)
    BY <1>3, <1>7, <1>8, <2>1, <2>2, <2>3
  <2>5. ASSUME NEW j \in 1 .. n
        PROVE  r.cmds[j] = clientq.cmds[l + j]
    <3>1. PICK jj : jj = j + 1
      OBVIOUS
    <3>2. jj \in 1 .. Len(p.cmds) /\ i + jj = l + j
      BY <1>3, <2>3, <2>4, <3>1
    <3>3. r.cmds[j] = p.cmds[jj] /\ p.cmds[jj] = clientq.cmds[i + jj]
      BY <1>7, <2>2, <2>3, <3>1, <3>2
    <3>4. QED
      BY <3>2, <3>3
  <2>6. NextAt + l = k + 1
    BY <1>2, <1>3, <2>3
  <2>7. \A j \in 1 .. a : y.ack[j] = headAck[j]
    <3>1. \A j \in 1 .. a : j \in 1 .. a + i
      BY <1>3
    <3>2. QED
      BY <1>7, <1>12, <3>1
  <2>8. ASSUME NEW j \in 1 .. l
        PROVE  y.ack[a + j] = clientq.cmds[j]
    <3>1. PICK jj : jj = a + j
      OBVIOUS
    <3>2. CASE j = l
      <4>1. 1 \in 1 .. Len(p.cmds) /\ i + 1 = l /\ jj = a + i + 1
        BY <1>3, <2>3, <2>4, <3>1, <3>2
      <4>2. r.last = clientq.cmds[i + 1]
        BY <1>7, <2>2, <4>1
      <4>3. QED
        BY <1>12, <3>1, <3>2, <4>1, <4>2
    <3>3. CASE j # l
      <4>1. j \in 1 .. i /\ jj \in 1 .. a + i
        BY <1>3, <2>3, <3>1, <3>3
      <4>2. y.ack[jj] = x.ack[jj] /\ x.ack[a + j] = clientq.cmds[j]
        BY <1>7, <1>12, <4>1
      <4>3. QED
        BY <3>1, <4>2
    <3>4. QED
      BY <3>2, <3>3
  <2>9. Len(y.ack) = a + l
    BY <1>3, <1>12, <2>3
  <2>12. r.first = At(NextAt + l)
    BY <2>2, <2>6
  <2>13. ~ (l > len)
    BY <1>3, <2>4
  <2>14. /\ y.cmdq \in CmdQueues /\ y.ack \in Seq(Cmd)
         /\ Len(y.cmdq.cmds) = Len(clientq.cmds) - l
         /\ y.cmdq.cmds # << >> => y.cmdq.first = At(NextAt + l)
         /\ Len(y.ack) = Len(headAck) + l
    BY <1>2, <1>10, <1>11, <1>12, <2>3, <2>4, <2>9, <2>12
  <2>15. \A j \in 1 .. Len(y.cmdq.cmds) : y.cmdq.cmds[j] = clientq.cmds[l + j]
    BY <1>10, <2>3, <2>5
  <2>16. \A j \in 1 .. Len(headAck) : y.ack[j] = headAck[j]
    BY <1>2, <2>7
  <2>17. \A j \in 1 .. l : y.ack[Len(headAck) + j] = clientq.cmds[j]
    BY <1>2, <2>8
  <2>18. ~ (l > Len(clientq.cmds))
    BY <1>2, <2>13
  <2>10. Caught(y, l)
    BY <2>14, <2>15, <2>16, <2>17, <2>18, Zenon DEF Caught
  <2>11. QED
    BY <2>3, <2>10
<1>15. QED
  BY <1>13, <1>14

LEMMA CatchUpIs ==
  ASSUME Clocks, Pending, clientq.cmds # << >>, headAck \in Seq(Cmd),
         NEW f \in Frames, NEW d \in 0 .. Len(clientq.cmds),
         Ahead(f, frame_begin(clientq)) = d
  PROVE  Caught(CatchUp(f), d + 1)
<1> DEFINE start == [cmdq |-> clientq, ack |-> headAck]
           at(i) == Plus(frame_begin(clientq), i - 1)
           Unfold(c) ==
             [i \in 0 .. Ahead(f, frame_begin(clientq)) + 1 |->
                IF i = 0 THEN [cmdq |-> clientq, ack |-> headAck]
                ELSE LET q == TakeOrPredict(c[i - 1].cmdq,
                                            Plus(frame_begin(clientq), i - 1))
                     IN  [cmdq |-> q, ack |-> Append(c[i - 1].ack, q.last)]]
           r == CHOOSE c : c = Unfold(c)
<1>1. CatchUp(f) = r[Ahead(f, frame_begin(clientq)) + 1]
  BY DEF CatchUp, Unfold
<1>2. PICK n, len : n = d + 1 /\ len = Len(clientq.cmds)
  OBVIOUS
<1>3. /\ len \in Nat \ {0} /\ NextAt \in 0 .. H - 1 /\ NextAt + len = ClientAt
      /\ ClientAt \in 0 .. H - 1 /\ H \in Nat /\ clientq.first = At(NextAt)
      /\ clientq \in CmdQueues /\ clientq.cmds \in Seq(Cmd)
      /\ n \in Nat /\ n <= len + 1 /\ d \in Nat
  BY <1>2, PendingFacts, ClockFacts, Bounds
<1>4. ASSUME NEW i \in 1 .. n
      PROVE  at(i) = At(NextAt + i - 1) /\ at(i) \in Frames
  <2>1. PICK j : j = i - 1
    OBVIOUS
  <2>2. j \in Nat /\ NextAt + j \in 0 .. H - 1 /\ NextAt + i - 1 = NextAt + j
    <3>1. j \in 0 .. len /\ i = j + 1
      BY <1>3, <2>1
    <3>2. PICK p : p = NextAt
      OBVIOUS
    <3>3. p \in Nat /\ len \in Nat /\ p + len \in 0 .. H - 1
      BY <1>3, <3>2
    <3>4. p + j \in 0 .. H - 1 /\ p + i - 1 = p + j
      BY <3>1, <3>3, Bounds
    <3>5. QED
      BY <3>1, <3>2, <3>4
  <2>3. Plus(At(NextAt), j) = At(NextAt + j) /\ At(NextAt + j) \in Frames
    BY <1>3, <2>2, AtPlus, AtIs
  <2>4. QED
    BY <1>3, <2>1, <2>2, <2>3 DEF frame_begin
<1>5. \E c : c = Unfold(c)
  <2> DEFINE X == {x \in [cmdq : CmdQueues, ack : Seq(Cmd)] : Len(x.cmdq.cmds) <= M}
             step == [i \in 1 .. n |-> [x \in X |-> CatchOne(x, at(i))]]
  <2>1. ASSUME NEW i \in 1 .. n, NEW x \in X
        PROVE  CatchOne(x, at(i)) \in X
    <3>1. PICK p, g : p = x.cmdq /\ g = at(i)
      OBVIOUS
    <3>2. p \in CmdQueues /\ Len(p.cmds) <= M /\ g \in Frames /\ x.ack \in Seq(Cmd)
      BY <1>4, <3>1
    <3>3. PICK q : q = TakeOrPredict(p, g)
      OBVIOUS
    <3>4. q \in CmdQueues /\ Len(q.cmds) <= M /\ q.last \in Cmd
      BY <3>2, <3>3, TakeType
    <3>5. CatchOne(x, g) = [cmdq |-> q, ack |-> Append(x.ack, q.last)]
      BY <3>1, <3>3 DEF CatchOne
    <3>6. Append(x.ack, q.last) \in Seq(Cmd)
      BY <3>2, <3>4
    <3>7. PICK t, z : t = Append(x.ack, q.last) /\ z = CatchOne(x, g)
      OBVIOUS
    <3>8. z \in [cmdq : CmdQueues, ack : Seq(Cmd)] /\ z.cmdq = q
      BY <3>4, <3>5, <3>6, <3>7
    <3>9. z \in X
      BY <3>4, <3>8
    <3>10. QED
      BY <3>1, <3>7, <3>9
  <2>2. start \in X
    <3>1. Len(clientq.cmds) <= M
      BY <1>2, <1>3 DEF M
    <3>2. QED
      BY <1>3, <3>1
  <2>3. step \in [1 .. n -> [X -> X]]
    BY <2>1
  <2>4. \A i \in 1 .. n : \A x \in X : step[i][x] = CatchOne(x, at(i))
    OBVIOUS
  <2> HIDE DEF step, X
  <2>5. PICK c : Recurs(c, X, start, step, n)
    BY <1>3, <2>2, <2>3, Recursion
  <2>6. /\ c \in [0 .. n -> X] /\ c[0] = start
        /\ \A i \in 1 .. n : c[i] = step[i][c[i - 1]]
    BY <2>5 DEF Recurs
  <2>7. ASSUME NEW i \in 0 .. n
        PROVE  c[i] = Unfold(c)[i]
    <3>1. i \in 0 .. Ahead(f, frame_begin(clientq)) + 1
      BY <1>2
    <3>2. CASE i = 0
      BY <2>6, <3>1, <3>2
    <3>3. CASE i # 0
      <4>1. i \in 1 .. n /\ i - 1 \in 0 .. n
        BY <1>3, <3>3
      <4>2. c[i] = CatchOne(c[i - 1], at(i))
        BY <2>4, <2>6, <4>1
      <4>3. QED
        BY <3>1, <3>3, <4>2 DEF CatchOne
    <3>4. QED
      BY <3>2, <3>3
  <2>8. c = Unfold(c)
    BY <1>2, <2>6, <2>7
  <2>9. QED
    BY <2>8
<1> HIDE DEF Unfold
<1>6. r = Unfold(r)
  BY <1>5
<1> HIDE DEF r
<1>7. r[0] = start
  <2>1. 0 \in 0 .. Ahead(f, frame_begin(clientq)) + 1
    BY <1>3
  <2>2. QED
    BY <1>6, <2>1 DEF Unfold
<1>8. ASSUME NEW i \in 1 .. n
      PROVE  r[i] = CatchOne(r[i - 1], At(NextAt + i - 1))
  <2>1. i \in 0 .. Ahead(f, frame_begin(clientq)) + 1 /\ i # 0
    BY <1>2, <1>3
  <2>2. r[i] = CatchOne(r[i - 1], at(i))
    BY <1>6, <2>1 DEF Unfold, CatchOne
  <2>3. QED
    BY <1>4, <2>2
<1> DEFINE S == {i \in Nat : i <= n => Caught(r[i], i)}
<1>9. 0 \in S
  <2>1. Caught(start, 0)
    <3>1. /\ start.cmdq = clientq /\ start.ack = headAck
          /\ Len(clientq.cmds) - 0 = Len(clientq.cmds) /\ NextAt + 0 = NextAt
          /\ Len(headAck) + 0 = Len(headAck)
          /\ \A j \in 1 .. Len(clientq.cmds) : 0 + j = j
      BY <1>2, <1>3
    <3>2. ~ (0 > Len(clientq.cmds)) /\ 1 .. 0 = {}
      BY <1>2, <1>3
    <3>3. QED
      BY <1>3, <3>1, <3>2 DEF Caught
  <2>2. QED
    BY <1>7, <2>1
<1>10. ASSUME NEW i \in Nat, i \in S
       PROVE  i + 1 \in S
  <2>1. SUFFICES ASSUME i + 1 <= n
                 PROVE  Caught(r[i + 1], i + 1)
    OBVIOUS
  <2>2. PICK j, x, y : j = i + 1 /\ x = r[i] /\ y = r[j]
    OBVIOUS
  <2>3. j \in 1 .. n /\ j - 1 = i /\ NextAt + j - 1 = NextAt + i /\ i \in 0 .. len
    BY <1>3, <2>1, <2>2
  <2>4. Caught(x, i)
    BY <1>3, <1>10, <2>1, <2>2
  <2>5. y = CatchOne(x, At(NextAt + i))
    BY <1>8, <2>2, <2>3
  <2>6. i \in 0 .. Len(clientq.cmds)
    BY <1>2, <2>3
  <2>7. Caught(y, i + 1)
    BY <2>4, <2>5, <2>6, CaughtStep
  <2>8. QED
    BY <2>2, <2>7
<1> HIDE DEF S
<1>11. n \in S
  BY <1>3, <1>9, <1>10, SetInduction
<1>12. Caught(r[n], n)
  BY <1>3, <1>11 DEF S
<1>13. QED
  BY <1>1, <1>2, <1>12

(* Where a head the client accepts belongs, and what it leaves.            *)
LEMMA Accepts ==
  ASSUME IInv, NEW m \in headMsgs, ClientRecv(m),
         NEW d, d = Off(m.frame) - NextAt
  PROVE  /\ clientq.cmds # << >> /\ ~ hold
         /\ m \in HeadMsgs /\ m.frame \in Frames /\ HeadAt(m.head, Off(m.frame))
         /\ Off(m.frame) \in ReleasedAt .. ServerAt - 1 /\ Off(m.frame) \in 0 .. H - 1
         /\ d \in 0 .. Len(clientq.cmds)
         /\ d = Len(clientq.cmds) => mayPass
         /\ Caught(CatchUp(m.frame), d + 1)
<1>1. /\ clientq.cmds # << >>
      /\ ge_wrap(m.frame, frame_begin(clientq))
      /\ le_wrap(m.frame, frame_end(clientq))
  BY DEF ClientRecv
<1>2. ~ hold /\ m \in HeadMsgs /\ HeadAt(m.head, Off(m.frame))
  BY DEF IInv, Executed
<1>3. m.frame \in Frames /\ Off(m.frame) \in ReleasedAt .. ServerAt - 1
  BY <1>2 DEF HeadMsgs, HeadAt
<1>4. PICK len, f, l : len = Len(clientq.cmds) /\ f = Off(m.frame) /\ l = NextAt + len
  OBVIOUS
<1>5. /\ len \in Nat \ {0} /\ NextAt \in 0 .. H - 1 /\ l = ClientAt
      /\ ClientAt \in 0 .. H - 1 /\ ServerAt \in 0 .. H - 1 /\ H \in Nat
      /\ clientq.first = At(NextAt)
  BY <1>1, <1>4, PendingFacts, ClockFacts, Bounds DEF IInv
<1>6. f \in 0 .. H - 1 /\ f < ServerAt /\ m.frame = At(f)
  <2>1. f \in 0 .. M - 1 /\ m.frame = At(f)
    BY <1>3, <1>4, OffIs
  <2>2. f <= ServerAt - 1
    <3>1. serverHead \in Seq(Cmd) /\ Len(serverHead) \in Nat
      BY DEF IInv, Executed
    <3>2. ReleasedAt \in Int
      BY <1>5, <3>1 DEF ReleasedAt
    <3>3. QED
      BY <1>3, <1>4, <1>5, <3>2
  <2>3. QED
    BY <1>5, <2>1, <2>2
<1>7. frame_end(clientq) = At(l) /\ l \in 0 .. H - 1
  <2>1. l \in 0 .. H - 1 /\ NextAt + len \in 0 .. H - 1
    BY <1>4, <1>5
  <2>2. Plus(At(NextAt), len) = At(NextAt + len)
    BY <1>5, <2>1, AtPlus
  <2>3. QED
    BY <1>4, <1>5, <2>1, <2>2 DEF frame_end
<1>8. f >= NextAt /\ f <= l
  BY <1>1, <1>5, <1>6, <1>7, AtOrder DEF frame_begin
<1>9. d = f - NextAt /\ d \in 0 .. len
  BY <1>4, <1>5, <1>6, <1>8
<1>10. d = len => mayPass
  <2>1. ~ mayPass => ServerAt <= ClientAt
    BY DEF IInv, Clocks
  <2>2. QED
    BY <1>4, <1>5, <1>6, <1>9, <2>1
<1>11. Ahead(m.frame, frame_begin(clientq)) = d
  BY <1>5, <1>6, <1>8, <1>9, AtOrder DEF frame_begin
<1>12. Caught(CatchUp(m.frame), d + 1)
  <2>1. PICK fr : fr = m.frame
    OBVIOUS
  <2>2. fr \in Frames /\ Ahead(fr, frame_begin(clientq)) = d /\ d \in 0 .. Len(clientq.cmds)
    BY <1>3, <1>4, <1>9, <1>11, <2>1
  <2>3. Caught(CatchUp(fr), d + 1)
    BY <1>1, <2>2, CatchUpIs DEF IInv, Acked
  <2>4. QED
    BY <2>1, <2>3
<1>13. QED
  BY <1>1, <1>2, <1>3, <1>4, <1>6, <1>9, <1>10, <1>12

LEMMA ClientRecvStep ==
  ASSUME IInv, NEW m \in headMsgs, ClientRecv(m), UNCHANGED mayPass
  PROVE  IInv'
<1>1. /\ clientq' = CatchUp(m.frame).cmdq
      /\ headAck' = m.head
      /\ head' = (IF CatchUp(m.frame).ack = m.head THEN head ELSE m.head \o clientq'.cmds)
      /\ UNCHANGED <<clientFrame, command, serverFrame, serverq, serverHead, hold, lastMsg,
                     commandMsgs, headMsgs, given, executed, mayPass>>
  BY DEF ClientRecv, server
<1>2. PICK d, f : f = Off(m.frame) /\ d = f - NextAt
  OBVIOUS
<1>3. /\ clientq.cmds # << >> /\ ~ hold
      /\ m \in HeadMsgs /\ m.frame \in Frames /\ HeadAt(m.head, f)
      /\ f \in ReleasedAt .. ServerAt - 1 /\ f \in 0 .. H - 1
      /\ d \in 0 .. Len(clientq.cmds)
      /\ d = Len(clientq.cmds) => mayPass
      /\ Caught(CatchUp(m.frame), d + 1)
  BY <1>2, Accepts
<1>4. PICK len, q, n : len = Len(clientq.cmds) /\ q = clientq' /\ n = d + 1
  OBVIOUS
<1>5. /\ len \in Nat \ {0} /\ NextAt \in 0 .. H - 1 /\ NextAt + len = ClientAt
      /\ NextAt \in FirstAt .. ClientAt /\ FirstAt \in Nat
      /\ ClientAt \in 0 .. H - 1 /\ ServerAt \in 0 .. H - 1 /\ H \in Nat
      /\ \A i \in 1 .. len : clientq.cmds[i] = given[At(NextAt + i - 1)]
      /\ len <= MaxPending
  BY <1>3, <1>4, PendingFacts, ClockFacts, Bounds DEF IInv, Pending
<1>6. f < ServerAt
  <2>1. serverHead \in Seq(Cmd) /\ Len(serverHead) \in Nat
    BY DEF IInv, Executed
  <2>2. ReleasedAt \in Int
    BY <1>5, <2>1 DEF ReleasedAt
  <2>3. QED
    BY <1>3, <1>5, <2>2
<1>7. /\ d \in 0 .. len /\ f = NextAt + d /\ n = d + 1 /\ f + 1 = NextAt + n
      /\ n <= len \/ (n > len /\ d = len)
  <2>1. d = f - NextAt /\ n = d + 1 /\ d \in 0 .. len
    BY <1>2, <1>3, <1>4
  <2>2. f \in Nat /\ NextAt \in Nat /\ len \in Nat
    BY <1>3, <1>5
  <2>3. QED
    BY <2>1, <2>2
<1>8. /\ q \in CmdQueues
      /\ n <= len =>
           /\ Len(q.cmds) = len - n
           /\ \A j \in 1 .. Len(q.cmds) : q.cmds[j] = clientq.cmds[n + j]
           /\ q.cmds # << >> => q.first = At(f + 1)
      /\ n > len => q.cmds = << >>
  BY <1>1, <1>3, <1>4, <1>7 DEF Caught
<1>9. q.cmds \in Seq(Cmd) /\ Len(q.cmds) \in Nat
  BY <1>8 DEF CmdQueues
<1>10. UNCHANGED <<ServerAt, ClientAt, FirstAt, ReleasedAt>>
  BY <1>1 DEF ServerAt, ClientAt, FirstAt, ReleasedAt
<1>11. ASSUME q.cmds # << >>
       PROVE  /\ n <= len /\ Off(q.first) = f + 1 /\ Agrees(q.cmds, f + 1)
              /\ (f + 1) + Len(q.cmds) = ClientAt
  <2>1. n <= len
    BY <1>7, <1>8, <1>11
  <2>2. f + 1 \in 0 .. H - 1 /\ q.first = At(f + 1)
    BY <1>3, <1>5, <1>6, <1>8, <1>11, <2>1
  <2>3. Off(q.first) = f + 1
    BY <2>2, AtIs
  <2>8. Len(q.cmds) = len - n /\ Len(q.cmds) \in Nat
    BY <1>8, <1>9, <2>1
  <2>9. /\ len \in Nat /\ NextAt + len = ClientAt /\ NextAt \in Nat /\ FirstAt \in Nat
        /\ ClientAt \in Nat /\ FirstAt <= NextAt
    BY <1>5
  <2>4. (f + 1) + Len(q.cmds) = ClientAt /\ f + 1 \in FirstAt .. ClientAt
    BY <1>7, <2>1, <2>8, <2>9
  <2>5. ASSUME NEW j \in 1 .. Len(q.cmds)
        PROVE  q.cmds[j] = given[At((f + 1) + j - 1)]
    <3>1. PICK i : i = n + j
      OBVIOUS
    <3>2. i \in 1 .. len /\ (f + 1) + j - 1 = NextAt + i - 1
      BY <1>5, <1>7, <1>8, <1>9, <2>1, <3>1
    <3>3. q.cmds[j] = clientq.cmds[i]
      BY <1>8, <2>1, <3>1
    <3>4. QED
      BY <1>5, <3>2, <3>3
  <2>6. Agrees(q.cmds, f + 1)
    <3>1. PICK g : g = f + 1
      OBVIOUS
    <3>2. \A j \in 1 .. Len(q.cmds) : q.cmds[j] = given[At(g + j - 1)]
      BY <2>5, <3>1
    <3>3. g \in FirstAt .. ClientAt /\ g + Len(q.cmds) <= ClientAt
      BY <1>5, <2>4, <3>1
    <3>4. QED
      BY <3>1, <3>2, <3>3 DEF Agrees
  <2>7. QED
    BY <2>1, <2>3, <2>4, <2>6
<1>12. PICK next : next = NextAt'
  OBVIOUS
<1>13. next = (IF q.cmds = << >> THEN ClientAt ELSE Off(q.first))
  BY <1>4, <1>10, <1>12 DEF NextAt
<1>14. next <= ServerAt /\ (d < len => next = f + 1)
  <2>1. CASE q.cmds = << >>
    <3>1. next = ClientAt
      BY <1>13, <2>1
    <3>2. n <= len => n = len
      <4>1. Len(q.cmds) = 0
        BY <2>1
      <4>2. QED
        BY <1>5, <1>7, <1>8, <4>1
    <3>3. QED
      BY <1>5, <1>6, <1>7, <3>1, <3>2
  <2>2. CASE q.cmds # << >>
    <3>1. next = f + 1
      BY <1>11, <1>13, <2>2
    <3>2. f \in Nat /\ ServerAt \in Nat
      BY <1>3, <1>5
    <3>3. QED
      BY <1>6, <3>1, <3>2
  <2>3. QED
    BY <2>1, <2>2
<1>15. Pending'
  <2>1. Len(q.cmds) <= MaxPending
    <3>1. n > len => Len(q.cmds) = 0
      BY <1>8
    <3>2. QED
      BY <1>5, <1>7, <1>8, <1>9, <3>1, Bounds
  <2>2. ASSUME q.cmds # << >>
        PROVE  /\ Agrees(clientq.cmds, Off(clientq.first))'
               /\ Off(clientq'.first) + Len(clientq'.cmds) = ClientAt'
    <3>1. PICK at : at = Off(q.first)
      OBVIOUS
    <3>2. Agrees(q.cmds, at) /\ at + Len(q.cmds) = ClientAt
      BY <1>11, <2>2, <3>1
    <3>3. Agrees(q.cmds, at)'
      BY <1>1, <1>10, <3>2 DEF Agrees
    <3>4. QED
      BY <1>4, <1>10, <3>1, <3>2, <3>3 DEF Agrees
  <2>3. NextAt' <= ServerAt'
    BY <1>10, <1>12, <1>14
  <2>4. QED
    BY <1>4, <1>8, <2>1, <2>2, <2>3 DEF Pending
<1>16. Acked'
  <2>1. head \in Seq(Cmd) /\ m.head \in Seq(Cmd)
    BY <1>3 DEF IInv, Acked, HeadMsgs
  <2>2. head' \in Seq(Cmd)
    BY <1>1, <1>4, <1>9, <2>1
  <2>3. mayPass \/ NextAt' = Off(m.frame) + 1
    BY <1>2, <1>3, <1>4, <1>7, <1>12, <1>14
  <2>4. QED
    BY <1>1, <2>1, <2>2, <2>3 DEF Acked
<1>17. Clocks' /\ Given'
  BY <1>1, <1>10 DEF IInv, Clocks, Given
<1>18. \A n1 \in commandMsgs' : Carries(n1)'
  BY <1>1, <1>10 DEF IInv, Carries, Agrees
<1>19. Queued(serverq)'
  BY <1>1, <1>10 DEF IInv, Queued, Agrees
<1>20. Executed'
  BY <1>1, <1>10 DEF IInv, Executed, HeadAt
<1>21. lastMsg' \in Frames
  BY <1>1 DEF IInv
<1>22. QED
  BY <1>15, <1>16, <1>17, <1>18, <1>19, <1>20, <1>21 DEF IInv

-----------------------------------------------------------------------------
(* The invariant holds.                                                    *)

LEMMA InitIInv ==
  ASSUME Init
  PROVE  IInv
<1>1. PICK lead \in 0 .. MaxLead : clientFrame = Plus(Start, lead)
  BY DEF Init
<1>2. lead \in 0 .. H - 1 /\ 0 \in 0 .. H - 1 /\ Start = At(0) /\ clientFrame = At(lead)
  BY <1>1, Bounds, MPositive DEF At, Plus, Frames
<1>3. ClientAt = lead /\ clientFrame \in Frames /\ ServerAt = 0 /\ serverFrame \in Frames
  BY <1>2, AtIs DEF Init, ClientAt, ServerAt
<1>4. DOMAIN given = {} /\ DOMAIN executed = {}
  BY DEF Init
<1>5. Cardinality(DOMAIN given) = 0 /\ IsFiniteSet(DOMAIN given)
  BY <1>4, FS_EmptySet
<1>6. FirstAt = lead
  BY <1>3, <1>5 DEF FirstAt
<1>7. Clocks
  <2>1. FirstAt .. ClientAt - 1 = {}
    BY <1>3, <1>6
  <2>2. {At(i) : i \in {}} = {}
    OBVIOUS
  <2>3. FirstAt \in 0 .. MaxLead /\ ServerAt <= ClientAt /\ ServerAt <= MaxFrames
        /\ Cardinality(DOMAIN given) <= MaxFrames
    BY <1>3, <1>5, <1>6, Bounds
  <2>4. QED
    BY <1>3, <1>4, <1>5, <2>1, <2>2, <2>3 DEF Clocks, Init
<1>8. Given
  <2>1. FirstAt .. ClientAt - 1 = {} /\ FirstAt .. ClientAt - 2 = {} /\ ~ (ClientAt > FirstAt)
    BY <1>3, <1>6
  <2>2. command \in Cmd
    BY CmdAssumption DEF Init
  <2>3. QED
    BY <2>1, <2>2 DEF Given
<1>9. EmptyQueue \in CmdQueues /\ EmptyQueue.cmds = << >>
  BY CmdAssumption, MPositive DEF EmptyQueue, CmdQueues, Frames
<1>10. Pending
  <2>1. NextAt = FirstAt
    BY <1>3, <1>6, <1>9 DEF Init, NextAt
  <2>2. Len(clientq.cmds) <= MaxPending
    BY <1>9, Bounds DEF Init
  <2>3. QED
    BY <1>9, <2>1, <2>2 DEF Init, Pending
<1>11. Queued(serverq)
  BY <1>9 DEF Init, Queued
<1>12. Executed
  BY <1>4 DEF Init, Executed, Spawn
<1>13. Acked
  <2>1. NextAt = FirstAt
    BY <1>3, <1>6, <1>9 DEF Init, NextAt
  <2>2. QED
    BY <2>1 DEF Init, Acked, Spawn
<1>14. lastMsg \in Frames /\ commandMsgs = {}
  BY Bounds DEF Init
<1>15. QED
  BY <1>7, <1>8, <1>10, <1>11, <1>12, <1>13, <1>14 DEF IInv

LEMMA NextIInv ==
  ASSUME IInv, [Next]_vars, MaxPending <= Chunk
  PROVE  IInv'
<1>1. CASE \E want \in Wishes, net \in BOOLEAN : ClientFrame(want, net) /\ UNCHANGED mayPass
  BY <1>1, ClientFrameStep
<1>2. CASE \E m \in commandMsgs : ServerRecv(m) /\ UNCHANGED mayPass
  BY <1>2, ServerRecvStep
<1>3. CASE \E net \in BOOLEAN : ServerFrame(net) /\ UNCHANGED mayPass
  BY <1>3, HeldStep, ExecuteStep
<1>4. CASE \E m \in headMsgs : ClientRecv(m) /\ UNCHANGED mayPass
  BY <1>4, ClientRecvStep
<1>5. CASE UNCHANGED vars
  <2>1. UNCHANGED <<clientFrame, command, clientq, head, headAck, serverFrame, serverq,
                    serverHead, hold, lastMsg, commandMsgs, headMsgs, given, executed,
                    mayPass>>
    BY <1>5 DEF vars, client, server
  <2>2. UNCHANGED <<ServerAt, ClientAt, FirstAt, ReleasedAt, NextAt>>
    BY <2>1 DEF ServerAt, ClientAt, FirstAt, ReleasedAt, NextAt
  <2>3. Clocks' /\ Given'
    BY <2>1, <2>2 DEF IInv, Clocks, Given
  <2>4. Pending'
    BY <2>1, <2>2 DEF IInv, Pending, Agrees
  <2>5. \A m \in commandMsgs' : Carries(m)'
    BY <2>1, <2>2 DEF IInv, Carries, Agrees
  <2>6. Queued(serverq)'
    BY <2>1, <2>2 DEF IInv, Queued, Agrees
  <2>7. Executed' /\ Acked'
    BY <2>1, <2>2 DEF IInv, Executed, HeadAt, Acked
  <2>8. QED
    BY <2>1, <2>3, <2>4, <2>5, <2>6, <2>7 DEF IInv
<1>6. QED
  BY <1>1, <1>2, <1>3, <1>4, <1>5 DEF Next

THEOREM Invariance == MaxPending <= Chunk => (Spec => []IInv)
<1> SUFFICES ASSUME MaxPending <= Chunk
             PROVE  Spec => []IInv
  OBVIOUS
<1>1. Init => IInv
  BY InitIInv
<1>2. IInv /\ [Next]_vars => IInv'
  BY NextIInv
<1>3. QED
  BY <1>1, <1>2, PTL DEF Spec

(* Every message fits the memory msg_commands() allocates for it, and      *)
(* frame numbers, queues and heads are what they should be.                *)
THEOREM TypeCorrect == MaxPending <= Chunk => (Spec => []TypeOK)
<1>1. IInv => TypeOK
  <2>1. SUFFICES ASSUME IInv
                 PROVE  TypeOK
    OBVIOUS
  <2>2. /\ clientFrame \in Frames /\ serverFrame \in Frames /\ hold \in BOOLEAN
        /\ mayPass \in BOOLEAN
    BY <2>1 DEF IInv, Clocks
  <2>3. command \in Cmd /\ clientq \in CmdQueues /\ serverq \in CmdQueues
    BY <2>1 DEF IInv, Given, Pending, Queued
  <2>4. head \in Seq(Cmd) /\ headAck \in Seq(Cmd) /\ serverHead \in Seq(Cmd)
    BY <2>1 DEF IInv, Acked, Executed
  <2>5. \A m \in commandMsgs : m.first \in Frames /\ PayloadLen(m) <= Allocated(m)
    BY <2>1 DEF IInv, Carries
  <2>6. headMsgs \subseteq HeadMsgs /\ lastMsg \in Frames
    BY <2>1 DEF IInv, Executed
  <2>7. QED
    BY <2>2, <2>3, <2>4, <2>5, <2>6 DEF TypeOK
<1>2. QED
  BY <1>1, Invariance, PTL

(* Where the server's queue is, in frames since the start.                 *)
LEMMA QueuedFacts ==
  ASSUME Clocks, Queued(serverq), serverq.cmds # << >>, NEW at, at = Off(serverq.first)
  PROVE  /\ at \in FirstAt .. ClientAt /\ at \in 0 .. H - 1 /\ serverq.first = At(at)
         /\ Len(serverq.cmds) \in Nat /\ at + Len(serverq.cmds) <= ClientAt
         /\ \A i \in 1 .. Len(serverq.cmds) : serverq.cmds[i] = given[At(at + i - 1)]
         /\ \/ at = ServerAt
            \/ hold /\ at = FirstAt /\ FirstAt >= ServerAt
<1>1. /\ serverq.first \in Frames /\ Len(serverq.cmds) \in Nat
      /\ Agrees(serverq.cmds, at)
      /\ \/ at = ServerAt
         \/ hold /\ at = FirstAt /\ FirstAt >= ServerAt
  BY DEF Queued, CmdQueues
<1>2. serverq.first = At(at)
  BY <1>1, OffIs
<1>3. /\ at \in FirstAt .. ClientAt /\ at + Len(serverq.cmds) <= ClientAt
      /\ \A i \in 1 .. Len(serverq.cmds) : serverq.cmds[i] = given[At(at + i - 1)]
  BY <1>1 DEF Agrees
<1>4. at \in 0 .. H - 1
  BY <1>3, ClockFacts, Bounds
<1>5. QED
  BY <1>1, <1>2, <1>3, <1>4

(* Whatever is lost, repeated or reordered on the way, the server has      *)
(* queued for a frame what the player did in it (cmd_queue_put() in        *)
(* msg_commands_unpack_into()).                                            *)
THEOREM QueueIsPlayers == MaxPending <= Chunk => (Spec => []QueueAgrees)
<1>1. IInv => QueueAgrees
  <2>1. SUFFICES ASSUME IInv, NEW i \in 1 .. Len(serverq.cmds),
                        NEW f, f = Plus(serverq.first, i - 1)
                 PROVE  f \in DOMAIN given /\ serverq.cmds[i] = given[f]
    BY DEF QueueAgrees
  <2>2. PICK at, len, k, n : /\ at = Off(serverq.first) /\ len = Len(serverq.cmds)
                             /\ k = i - 1 /\ n = at + i - 1
    OBVIOUS
  <2>3. serverq.cmds # << >>
    <3>1. Len(<< >>) = 0
      OBVIOUS
    <3>2. QED
      BY <2>1, <3>1
  <2>4. Clocks /\ Queued(serverq)
    BY <2>1 DEF IInv
  <2>5. /\ at \in FirstAt .. ClientAt /\ at \in 0 .. H - 1 /\ serverq.first = At(at)
        /\ len \in Nat /\ at + len <= ClientAt
        /\ serverq.cmds[i] = given[At(n)]
    BY <2>1, <2>2, <2>3, <2>4, QueuedFacts
  <2>6. ClientAt \in 0 .. H - 1 /\ FirstAt \in Nat /\ H \in Nat
    BY <2>4, ClockFacts, Bounds
  <2>7. i \in Nat /\ 1 <= i /\ i <= len
    BY <2>1, <2>2, <2>5
  <2>8. k \in Nat /\ n = at + k /\ n \in 0 .. H - 1 /\ n \in FirstAt .. ClientAt - 1
    BY <2>2, <2>5, <2>6, <2>7
  <2>9. f = At(n)
    BY <2>1, <2>2, <2>5, <2>8, AtPlus
  <2>10. At(n) \in DOMAIN given
    BY <2>4, <2>8, ClockFacts
  <2>11. QED
    BY <2>5, <2>9, <2>10
<1>2. QED
  BY <1>1, Invariance, PTL

(* The server never skips a command, and releases a held snake             *)
(* (cmd_queue_take_or_predict(), snake_try_reset_hold()).                  *)
THEOREM CommandsAreDue == MaxPending <= Chunk => (Spec => []QueueIsDue)
<1>1. IInv => QueueIsDue
  <2>1. SUFFICES ASSUME IInv, serverq.cmds # << >>
                 PROVE  IF hold THEN ge_wrap(serverq.first, serverFrame)
                        ELSE serverq.first = serverFrame
    BY DEF QueueIsDue
  <2>2. PICK at : at = Off(serverq.first)
    OBVIOUS
  <2>3. Clocks /\ Queued(serverq)
    BY <2>1 DEF IInv
  <2>4. /\ at \in 0 .. H - 1 /\ serverq.first = At(at)
        /\ \/ at = ServerAt
           \/ hold /\ at = FirstAt /\ FirstAt >= ServerAt
    BY <2>1, <2>2, <2>3, QueuedFacts
  <2>5. ServerAt \in 0 .. H - 1 /\ serverFrame = At(ServerAt)
    BY <2>3, ClockFacts
  <2>6. at >= ServerAt
    BY <2>4, <2>5
  <2>7. ge_wrap(serverq.first, serverFrame)
    BY <2>4, <2>5, <2>6, AtOrder
  <2>8. QED
    BY <2>4, <2>5, <2>7
<1>2. QED
  BY <1>1, Invariance, PTL

(* The confirmed head is one of the server's, for the frame before the     *)
(* oldest command that is still sent (snake_ack_frame()).                  *)
THEOREM AckIsOfServer == MaxPending <= Chunk => (Spec => []AckIsServers)
<1>1. IInv => AckIsServers
  <2>1. SUFFICES ASSUME IInv, NEW m \in headMsgs, m.head = headAck,
                        NextAt = Off(m.frame) + 1, clientq.cmds # << >>
                 PROVE  clientq.first = Plus(m.frame, 1)
    BY DEF IInv, Acked, AckIsServers
  <2>2. clientq.first = At(NextAt) /\ NextAt \in 0 .. H - 1
    BY <2>1, PendingFacts DEF IInv
  <2>3. m.frame \in Frames
    BY <2>1 DEF IInv, Executed, HeadMsgs
  <2>4. PICK f : f = Off(m.frame)
    OBVIOUS
  <2>5. f \in 0 .. M - 1 /\ m.frame = At(f)
    BY <2>3, <2>4, OffIs
  <2>6. f + 1 = NextAt
    BY <2>1, <2>4
  <2>7. f \in 0 .. H - 1 /\ f + 1 \in 0 .. H - 1 /\ 1 \in Nat
    BY <2>2, <2>5, <2>6, Bounds
  <2>8. Plus(At(f), 1) = At(f + 1)
    BY <2>7, AtPlus
  <2>9. QED
    BY <2>2, <2>5, <2>6, <2>8
<1>2. QED
  BY <1>1, Invariance, PTL

(* The frames up to the one of an accepted head are confirmed.             *)
LEMMA ConfirmedAre ==
  ASSUME IInv, ~ mayPass, NEW m \in headMsgs, ClientRecv(m),
         NEW d, d = Off(m.frame) - NextAt, NEW i \in 0 .. d
  PROVE  At(NextAt + i) \in Confirmed
<1>1. clientq' = CatchUp(m.frame).cmdq
  BY DEF ClientRecv
<1>2. PICK f : f = Off(m.frame)
  OBVIOUS
<1>3. /\ clientq.cmds # << >>
      /\ d \in 0 .. Len(clientq.cmds) /\ d # Len(clientq.cmds)
      /\ Caught(CatchUp(m.frame), d + 1) /\ f \in 0 .. H - 1 /\ d = f - NextAt
  BY <1>2, Accepts
<1>4. PICK len, p, q, n : len = Len(clientq.cmds) /\ p = NextAt /\ q = clientq' /\ n = d + 1
  OBVIOUS
<1>5. /\ len \in Nat \ {0} /\ p \in 0 .. H - 1 /\ p + len = ClientAt
      /\ ClientAt \in 0 .. H - 1 /\ H \in Nat /\ clientq.first = At(p)
  BY <1>3, <1>4, PendingFacts, ClockFacts, Bounds DEF IInv
<1>6. d \in 0 .. len - 1 /\ n = d + 1 /\ n <= len /\ i \in 0 .. len - 1 /\ i \in Nat
  BY <1>3, <1>4, <1>5
<1>7. /\ Len(q.cmds) = len - n
      /\ q.cmds # << >> => q.first = At(p + n)
      /\ q \in CmdQueues
  BY <1>1, <1>3, <1>4, <1>6 DEF Caught
<1>8. p + i \in 0 .. H - 1 /\ i \in Nat
  BY <1>5, <1>6
<1>9. Plus(clientq.first, i) = At(p + i)
  BY <1>5, <1>8, AtPlus
<1>10. At(p + i) \in {Plus(clientq.first, j) : j \in 0 .. Len(clientq.cmds) - 1}
  BY <1>4, <1>6, <1>9
<1>11. ASSUME NEW j \in 0 .. Len(q.cmds) - 1
       PROVE  Plus(q.first, j) # At(p + i)
  <2>1. q.cmds # << >>
    <3>1. q.cmds = << >> => Len(q.cmds) = 0
      OBVIOUS
    <3>2. QED
      BY <1>11, <3>1
  <2>2. PICK g : g = p + n
    OBVIOUS
  <2>3. j \in Nat /\ g \in 0 .. H - 1 /\ g + j \in 0 .. H - 1 /\ g + j # p + i
    <3>1. PICK k : k = Len(q.cmds)
      OBVIOUS
    <3>2. j \in 0 .. k - 1 /\ k = len - n
      BY <1>7, <1>11, <3>1
    <3>3. PICK at : at = ClientAt
      OBVIOUS
    <3>4. p \in 0 .. H - 1 /\ p + len = at /\ at \in 0 .. H - 1 /\ H \in Nat /\ len \in Nat
      BY <1>5, <3>3
    <3>5. d \in Nat /\ n = d + 1 /\ i \in 0 .. d /\ n <= len
      BY <1>6
    <3>6. len \in Nat /\ n \in Nat /\ k \in Nat /\ k = len - n
      BY <3>2, <3>4, <3>5
    <3>7. j \in Nat /\ j < k
      BY <3>2, <3>6
    <3>8. i \in Nat /\ i < n
      BY <3>5
    <3>9. p \in Nat /\ at \in Nat /\ p + len = at /\ at <= H - 1
      BY <3>4
    <3>10. g \in Nat /\ g + j < at /\ g + j > p + i
      BY <2>2, <3>6, <3>7, <3>8, <3>9
    <3>11. QED
      BY <3>4, <3>7, <3>9, <3>10
  <2>4. Plus(q.first, j) = At(g + j)
    BY <1>7, <2>1, <2>2, <2>3, AtPlus
  <2>5. QED
    BY <1>8, <2>3, <2>4, AtOrder
<1>12. QED
  BY <1>4, <1>10, <1>11 DEF Confirmed

(* If the server executed what the player did, the two heads are the same. *)
LEMMA NoRollback ==
  ASSUME IInv, ~ mayPass, NEW m \in headMsgs, ClientRecv(m),
         \A f \in Confirmed : ~ Differs(f)
  PROVE  CatchUp(m.frame).ack = m.head
<1>1. PICK d, f, r : f = Off(m.frame) /\ d = f - NextAt /\ r = CatchUp(m.frame).ack
  OBVIOUS
<1>2. /\ clientq.cmds # << >> /\ ~ hold
      /\ d \in 0 .. Len(clientq.cmds) /\ d # Len(clientq.cmds)
      /\ Caught(CatchUp(m.frame), d + 1)
      /\ HeadAt(m.head, f) /\ f \in ReleasedAt .. ServerAt - 1 /\ f \in 0 .. H - 1
  BY <1>1, Accepts
<1>3. PICK len, a, p, n, R : /\ len = Len(clientq.cmds) /\ a = Len(headAck)
                             /\ p = NextAt /\ n = d + 1 /\ R = ReleasedAt
  OBVIOUS
<1>4. /\ len \in Nat \ {0} /\ p \in 0 .. H - 1 /\ p + len = ClientAt
      /\ ClientAt \in 0 .. H - 1 /\ ServerAt \in 0 .. H - 1 /\ H \in Nat
      /\ p \in FirstAt .. ClientAt /\ FirstAt \in Nat
  BY <1>2, <1>3, PendingFacts, ClockFacts, Bounds DEF IInv
<1>5. \A k \in 1 .. len : clientq.cmds[k] = given[At(p + k - 1)]
  BY <1>2, <1>3, PendingFacts DEF IInv
<1>6. /\ FirstAt <= R /\ R < ServerAt /\ R \in Nat
      /\ DOMAIN executed = {At(i) : i \in R .. ServerAt - 1}
  <2>1. serverHead \in Seq(Cmd) /\ Len(serverHead) \in Nat
    BY DEF IInv, Executed
  <2>2. R \in Int
    BY <1>3, <1>4, <2>1 DEF ReleasedAt
  <2>3. /\ FirstAt <= R /\ R < ServerAt
        /\ DOMAIN executed = {At(i) : i \in R .. ServerAt - 1}
    BY <1>2, <1>3 DEF IInv, Executed
  <2>4. QED
    BY <1>4, <2>2, <2>3
<1>7. d \in 0 .. len - 1 /\ n = d + 1 /\ n <= len /\ d = f - p /\ f = p + d /\ d \in Nat
  <2>1. d \in 0 .. len /\ d # len /\ n = d + 1 /\ d = f - p
    BY <1>1, <1>2, <1>3
  <2>2. QED
    BY <1>2, <1>4, <2>1
<1>8. /\ r \in Seq(Cmd) /\ Len(r) = a + n
      /\ \A j \in 1 .. a : r[j] = headAck[j]
      /\ \A j \in 1 .. n : r[a + j] = clientq.cmds[j]
  BY <1>1, <1>2, <1>3, <1>7 DEF Caught
<1>9. ASSUME NEW k \in 1 .. n
      PROVE  /\ At(p + k - 1) \in DOMAIN executed
             /\ executed[At(p + k - 1)] = clientq.cmds[k]
  <2>1. PICK i : i = k - 1
    OBVIOUS
  <2>2. i \in 0 .. d /\ p + k - 1 = p + i /\ k \in 1 .. len
    BY <1>4, <1>7, <2>1
  <2>3. At(p + i) \in Confirmed
    <3>1. d = Off(m.frame) - NextAt
      BY <1>1
    <3>2. At(NextAt + i) \in Confirmed
      BY <2>2, <3>1, ConfirmedAre
    <3>3. QED
      BY <1>3, <3>2
  <2>4. At(p + i) \in DOMAIN executed /\ executed[At(p + i)] = given[At(p + i)]
    BY <2>3 DEF Differs
  <2>5. QED
    BY <1>5, <2>2, <2>4
<1>10. R <= p
  <2>1. PICK k : k = p
    OBVIOUS
  <2>2. 1 \in 1 .. n /\ p + 1 - 1 = k
    BY <1>4, <1>7, <2>1
  <2>3. At(k) \in DOMAIN executed
    BY <1>9, <2>2
  <2>4. PICK i \in R .. ServerAt - 1 : At(k) = At(i)
    BY <1>6, <2>3
  <2>5. i \in 0 .. H - 1 /\ k \in 0 .. H - 1
    BY <1>4, <1>6, <2>1, <2>4
  <2>6. QED
    BY <1>6, <2>1, <2>4, <2>5, AtOrder
<1>11. /\ headAck \in Seq(Cmd) /\ a \in Nat /\ a = p - R
       /\ \A j \in 1 .. a : headAck[j] = executed[At(R + j - 1)]
  <2>1. headAck \in Seq(Cmd) /\ a \in Nat
    BY <1>3 DEF IInv, Acked
  <2>2. CASE headAck = Spawn /\ NextAt = FirstAt
    <3>1. a = 0 /\ p = FirstAt
      BY <1>3, <2>2 DEF Spawn
    <3>2. p = R
      BY <1>4, <1>6, <1>10, <3>1
    <3>3. a = p - R /\ 1 .. a = {}
      BY <1>4, <1>6, <3>1, <3>2
    <3>4. QED
      BY <2>1, <3>3
  <2>3. CASE \E m2 \in headMsgs : m2.head = headAck /\ NextAt = Off(m2.frame) + 1
    <3>1. PICK m2 \in headMsgs : m2.head = headAck /\ NextAt = Off(m2.frame) + 1
      BY <2>3
    <3>2. PICK g : g = Off(m2.frame)
      OBVIOUS
    <3>3. HeadAt(headAck, g) /\ p = g + 1
      BY <1>3, <3>1, <3>2 DEF IInv, Executed
    <3>4. /\ g \in R .. ServerAt - 1 /\ a = g - R + 1
          /\ \A j \in 1 .. a : headAck[j] = executed[At(R + j - 1)]
      BY <1>3, <3>3 DEF HeadAt
    <3>5. g \in Nat
      BY <1>4, <1>6, <3>4
    <3>6. a = p - R
      BY <1>6, <3>3, <3>4, <3>5
    <3>7. QED
      BY <2>1, <3>4, <3>6
  <2>4. QED
    BY <2>2, <2>3 DEF IInv, Acked
<1>12. PICK s : s = m.head
  OBVIOUS
<1>13. /\ s \in Seq(Cmd) /\ Len(s) = f - R + 1 /\ Len(s) \in Nat
       /\ \A j \in 1 .. Len(s) : s[j] = executed[At(R + j - 1)]
  BY <1>2, <1>3, <1>12 DEF HeadAt
<1>14. Len(s) = a + n /\ Len(r) = Len(s)
  <2>1. Len(s) = f - R + 1 /\ a = p - R /\ f = p + d /\ n = d + 1
    BY <1>7, <1>11, <1>13
  <2>2. Len(s) = a + n
    BY <1>4, <1>6, <1>7, <2>1
  <2>3. QED
    BY <1>8, <2>2
<1>15. ASSUME NEW j \in 1 .. Len(r)
       PROVE  r[j] = s[j]
  <2>1. PICK i : i = R + j - 1
    OBVIOUS
  <2>2. s[j] = executed[At(i)] /\ j \in Nat /\ 1 <= j /\ j <= a + n
    BY <1>13, <1>14, <2>1
  <2>3. CASE j <= a
    <3>1. j \in 1 .. a
      BY <1>11, <2>2, <2>3
    <3>2. QED
      BY <1>8, <1>11, <2>1, <2>2, <3>1
  <2>4. CASE j > a
    <3>1. PICK k : k = j - a
      OBVIOUS
    <3>2. k \in 1 .. n /\ a + k = j /\ p + k - 1 = i
      <4>1. a \in Nat /\ a = p - R /\ n \in Nat
        BY <1>7, <1>11
      <4>2. QED
        BY <1>4, <1>6, <2>1, <2>2, <2>4, <3>1, <4>1
    <3>3. executed[At(i)] = clientq.cmds[k]
      BY <1>9, <3>2
    <3>4. r[j] = clientq.cmds[k]
      BY <1>8, <3>2
    <3>5. QED
      BY <2>2, <3>3, <3>4
  <2>5. QED
    BY <1>11, <2>2, <2>3, <2>4
<1>16. r = s
  BY <1>8, <1>13, <1>14, <1>15, SeqEqual
<1>17. QED
  BY <1>1, <1>12, <1>16

(* Loss, delay and reordering alone never correct the player's snake: the  *)
(* server executed something else in one of the frames the correction is   *)
(* about (snake_ack_frame()).                                              *)
THEOREM CorrectionsAreTheServers == MaxPending <= Chunk => (Spec => RollbackIsJustified)
<1>1. ASSUME IInv, [Next]_vars, ~ mayPass, clientFrame' = clientFrame, head' # head
      PROVE  \E f \in Confirmed : Differs(f)
  <2>1. \A want \in Wishes, net \in BOOLEAN : ~ ClientFrame(want, net)
    <3>1. SUFFICES ASSUME NEW want \in Wishes, NEW net \in BOOLEAN, ClientFrame(want, net)
                   PROVE  FALSE
      OBVIOUS
    <3>2. clientFrame = Plus(clientFrame, 1) /\ clientFrame \in Frames
      BY <1>1, <3>1 DEF ClientFrame, IInv, Clocks
    <3>3. QED
      BY <3>2, HAssumption, SMT DEF Plus, Frames, M
  <2>2. \A m \in commandMsgs : ~ ServerRecv(m)
    BY <1>1 DEF ServerRecv, client
  <2>3. \A net \in BOOLEAN : ~ ServerFrame(net)
    BY <1>1 DEF ServerFrame, client
  <2>4. ~ UNCHANGED vars
    BY <1>1 DEF vars, client
  <2>5. PICK m \in headMsgs : ClientRecv(m)
    BY <1>1, <2>1, <2>2, <2>3, <2>4 DEF Next
  <2>6. CatchUp(m.frame).ack # m.head
    BY <1>1, <2>5 DEF ClientRecv
  <2>7. QED
    BY <1>1, <2>5, <2>6, NoRollback
<1>2. IInv /\ [Next]_vars =>
        [~ mayPass /\ clientFrame' = clientFrame /\ head' # head =>
           \E f \in Confirmed : Differs(f)]_vars
  BY <1>1
<1>3. QED
  BY <1>2, Invariance, PTL DEF Spec, RollbackIsJustified

=============================================================================
