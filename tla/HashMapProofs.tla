---------------------------- MODULE HashMapProofs ----------------------------
(***************************************************************************)
(* The hash map implements a map from keys to values: for any keys, any    *)
(* hash function, and a table of any size.  For that nothing is used of    *)
(* the probing but that it stays in the table: it might come to the same   *)
(* slot twice, or leave slots out.  A search that does not end hangs, and  *)
(* changes nothing.                                                        *)
(*                                                                         *)
(* Probing comes to every slot because the capacity is a power of two:     *)
(* were two of its probes to meet, 2 * capacity would divide the product   *)
(* of two smaller numbers, of which one is odd.                            *)
(***************************************************************************)
EXTENDS HashMap, WellFoundedInduction, FiniteSetTheorems, TLAPS

Slots == Entries \cup {Unused, Rip}

Tables(n) == [capacity : {n}, count : Nat, slots : [0 .. n - 1 -> Slots]]

(* A search for the key of slot s comes to it.                             *)
Reached(m, s) ==
  LET k == m.slots[s].key
  IN  m.slots[s].hash = HashOf(k) /\ Ends(m, k) /\ LastSlot(m, k) = s

IsTable(m) ==
  /\ m.capacity \in Nat
  /\ m \in Tables(m.capacity)
  /\ \A s \in InUse(m) : Reached(m, s)
  /\ m.count = Cardinality(InUse(m))

(* What a map holds.                                                       *)
EntriesOf(m) == {m.slots[s] : s \in InUse(m)}

(* The entries of the slots before slot s.                                 *)
Before(m, s) == {m.slots[t] : t \in {u \in InUse(m) : u < s}}

(* While the map grows, the new one holds what was in the slots before.    *)
Moved == EntriesOf(moving.to) = Before(hm, moving.at)

Settled(c) == c = Idle \/ c.op = "hung" \/ \E n \in Nat : c = Each(n)

Inserting(c) == c.op \in {"new", "update"} /\ c.key \in Key /\ c.value \in Value

Answers == Value \cup Key \cup {"none", "ok", "failed", "null"}

IInv ==
  /\ hash \in [Key -> Hashes]
  /\ IsTable(hm) /\ IsTable(moving.to)
  /\ moving = [to |-> moving.to, at |-> moving.at] /\ moving.at \in 0 .. hm.capacity
  /\ \/ Settled(call) /\ moving = NotMoving
     \/ Inserting(call) /\ Moved
  /\ result \in Answers

(* A set of natural numbers has a least element.                           *)
LEMMA LeastElement ==
  ASSUME NEW T \in SUBSET Nat, T # {}
  PROVE  \E x \in T : \A y \in T : x <= y
<1>1. PICK x \in T : \A y \in T : ~ (<<y, x>> \in OpToRel(<, Nat))
  BY NatLessThanWellFounded, WFMin
<1>2. \A y \in T : ~ (y < x)
  BY <1>1, Zenon DEF OpToRel
<1>3. QED
  BY <1>2

-----------------------------------------------------------------------------
(* Slots and hashes.                                                       *)

LEMMA HashIs ==
  ASSUME hash \in [Key -> Hashes], NEW k \in Key
  PROVE  HashOf(k) \in Nat \ {0, 1}
<1>1. hash[k] \in Nat
  BY HashMapAssumption
<1>2. QED
  BY <1>1 DEF HashOf

LEMMA SlotKinds ==
  /\ Unused \in Slots /\ Rip \in Slots /\ Unused # Rip
  /\ Unused.hash = 0 /\ Rip.hash = 1
  /\ \A e \in Entries : /\ e \notin {Unused, Rip} /\ e \in Slots
                        /\ e.hash \in Nat \ {0, 1} /\ e.key \in Key /\ e.value \in Value
  /\ \A e \in Slots : e \notin {Unused, Rip} => e \in Entries
<1>1. Unused.hash = 0 /\ Rip.hash = 1
  BY DEF Unused, Rip
<1>2. \A e \in Entries : e.hash \in Nat \ {0, 1} /\ e.key \in Key /\ e.value \in Value
  BY DEF Entries
<1>3. Unused # Rip
  BY <1>1
<1>4. \A e \in Entries : e \notin {Unused, Rip}
  BY <1>1, <1>2
<1>5. QED
  BY <1>1, <1>2, <1>3, <1>4 DEF Slots

LEMMA EntryIs ==
  ASSUME hash \in [Key -> Hashes], NEW k \in Key, NEW v \in Value,
         NEW e, e = Entry(k, HashOf(k), v)
  PROVE  e \in Entries /\ e.key = k /\ e.value = v /\ e.hash = HashOf(k)
<1>1. PICK h \in Nat \ {0, 1} : h = HashOf(k)
  BY HashIs
<1>2. e = [hash |-> h, key |-> k, value |-> v]
  BY <1>1 DEF Entry
<1>3. QED
  BY <1>1, <1>2 DEF Entries

(* Only entries match a key.                                               *)
LEMMA MatchIs ==
  ASSUME hash \in [Key -> Hashes], NEW k \in Key, NEW e \in Slots, Matches(e, k)
  PROVE  e \in Entries /\ e.key = k
<1>1. e.hash \notin {0, 1}
  BY HashIs DEF Matches
<1>2. e \notin {Unused, Rip}
  BY <1>1, SlotKinds
<1>3. QED
  BY <1>2, SlotKinds DEF Matches

LEMMA TableType ==
  ASSUME NEW m, IsTable(m)
  PROVE  /\ m.capacity \in Nat /\ m.count \in Nat /\ m \in Tables(m.capacity)
         /\ m.slots \in [0 .. m.capacity - 1 -> Slots]
         /\ \A s \in 0 .. m.capacity - 1 : m.slots[s] \in Slots
         /\ \A s \in InUse(m) : s \in 0 .. m.capacity - 1 /\ m.slots[s] \in Entries
         /\ IsFiniteSet(InUse(m))
<1>1. m.capacity \in Nat /\ m \in Tables(m.capacity)
  BY DEF IsTable
<1>2. m.count \in Nat /\ m.slots \in [0 .. m.capacity - 1 -> Slots]
  BY <1>1 DEF Tables
<1>3. \A s \in 0 .. m.capacity - 1 : m.slots[s] \in Slots
  BY <1>2
<1>4. \A s \in InUse(m) : s \in 0 .. m.capacity - 1 /\ m.slots[s] \in Entries
  BY <1>3, SlotKinds DEF InUse
<1>5. IsFiniteSet(InUse(m))
  <2>1. IsFiniteSet(0 .. m.capacity - 1)
    BY <1>1, FS_Interval
  <2>2. InUse(m) \subseteq 0 .. m.capacity - 1
    BY DEF InUse
  <2>3. QED
    BY <2>1, <2>2, FS_Subset
<1>6. QED
  BY <1>1, <1>2, <1>3, <1>4, <1>5

-----------------------------------------------------------------------------
(* Searching.                                                              *)

(* A probe is a slot of the table.                                         *)
LEMMA ProbeType ==
  ASSUME NEW m, m.capacity \in Nat \ {0}, NEW h \in Nat, NEW i \in Nat
  PROVE  Probe(m, h, i) \in 0 .. m.capacity - 1
<1>1. PICK p : p = i * (i + 1)
  OBVIOUS
<1>2. p \in Nat
  BY <1>1, SMT
<1>3. p \div 2 \in Nat
  BY <1>2, SMT
<1>4. PICK x \in Nat, c \in Nat \ {0} : x = h + p \div 2 /\ c = m.capacity
  BY <1>3
<1>5. x % c \in 0 .. c - 1
  BY SMT
<1>6. QED
  BY <1>1, <1>4, <1>5 DEF Probe

(* A set of numbers up to n has a greatest element.                        *)
LEMMA GreatestElement ==
  ASSUME NEW n \in Nat, NEW T \in SUBSET (0 .. n), T # {}
  PROVE  \E x \in T : \A y \in T : y <= x
<1> DEFINE U == {n - x : x \in T}
<1>1. U \in SUBSET Nat /\ U # {}
  <2>1. ASSUME NEW x \in T
        PROVE  n - x \in Nat
    <3>1. x \in 0 .. n
      OBVIOUS
    <3>2. QED
      BY <3>1
  <2>2. QED
    BY <2>1
<1> HIDE DEF U
<1>2. PICK z \in U : \A u \in U : z <= u
  BY <1>1, LeastElement
<1>3. PICK x \in T : z = n - x
  BY <1>2 DEF U
<1>4. ASSUME NEW y \in T
      PROVE  y <= x
  <2>1. n - y \in U
    BY DEF U
  <2>2. z <= n - y
    BY <1>2, <2>1
  <2>3. x \in 0 .. n /\ y \in 0 .. n
    OBVIOUS
  <2>4. QED
    BY <1>3, <2>2, <2>3
<1>5. QED
  BY <1>4

(* i is the number of the probe at which a search for k ends.              *)
EndsAt(m, k, i) == /\ i \in Probes(m) /\ Stops(m, k, i)
                   /\ \A j \in 0 .. i - 1 : ~ Stops(m, k, j)

LEMMA SearchEnds ==
  ASSUME NEW m, m.capacity \in Nat, NEW k, Ends(m, k)
  PROVE  EndsAt(m, k, Length(m, k)) /\ Length(m, k) \in Nat /\ m.capacity # 0
<1> DEFINE T == {i \in Probes(m) : Stops(m, k, i)}
<1>1. Probes(m) \subseteq Nat /\ (m.capacity = 0 => Probes(m) = {})
  BY DEF Probes
<1>2. T \in SUBSET Nat /\ T # {}
  BY <1>1 DEF Ends
<1>3. PICK i \in T : \A j \in T : i <= j
  BY <1>2, LeastElement
<1>4. EndsAt(m, k, i)
  <2>1. i \in Probes(m) /\ Stops(m, k, i) /\ i \in Nat /\ i <= 2 * m.capacity - 1
    BY <1>3 DEF Probes
  <2>2. ASSUME NEW j \in 0 .. i - 1, Stops(m, k, j)
        PROVE  FALSE
    <3>1. j \in Probes(m)
      BY <2>1 DEF Probes
    <3>2. i <= j
      BY <1>3, <2>2, <3>1
    <3>3. QED
      BY <2>1, <3>2
  <2>3. QED
    BY <2>1, <2>2 DEF EndsAt
<1>5. Length(m, k) = CHOOSE l \in Probes(m) : EndsAt(m, k, l)
  BY Zenon DEF Length, EndsAt
<1>6. \E l \in Probes(m) : EndsAt(m, k, l)
  BY <1>3, <1>4
<1>7. Length(m, k) \in Probes(m) /\ EndsAt(m, k, Length(m, k))
  BY <1>5, <1>6, Zenon
<1>8. QED
  BY <1>1, <1>7

LEMMA EndsOnce ==
  ASSUME NEW m, m.capacity \in Nat, NEW k, NEW i, EndsAt(m, k, i)
  PROVE  Ends(m, k) /\ Length(m, k) = i
<1>1. Ends(m, k) /\ i \in Nat
  BY DEF EndsAt, Ends, Probes
<1>2. PICK l : l = Length(m, k)
  OBVIOUS
<1>3. EndsAt(m, k, l) /\ l \in Nat
  BY <1>1, <1>2, SearchEnds
<1>4. ~ (i < l)
  <2>1. i < l => i \in 0 .. l - 1
    BY <1>1, <1>3
  <2>2. QED
    BY <1>3, <2>1 DEF EndsAt
<1>5. ~ (l < i)
  <2>1. l < i => l \in 0 .. i - 1
    BY <1>1, <1>3
  <2>2. QED
    BY <1>3, <2>1 DEF EndsAt
<1>6. i = l
  BY <1>1, <1>3, <1>4, <1>5
<1>7. QED
  BY <1>1, <1>2, <1>6

-----------------------------------------------------------------------------
(* Changing a slot.                                                        *)

(* m with another slot f, and another count.                               *)
WithSlot(m, f, e, n) ==
  [capacity |-> m.capacity, count |-> n, slots |-> [m.slots EXCEPT ![f] = e]]

LEMMA ExceptSlot ==
  ASSUME NEW N, NEW m \in Tables(N), NEW f, NEW e, NEW n
  PROVE  [m EXCEPT !.slots[f] = e, !.count = n] = WithSlot(m, f, e, n)
<1>1. /\ m = [capacity |-> N, count |-> m.count, slots |-> m.slots]
      /\ m.capacity = N
  BY DEF Tables
<1>2. PICK d : d = [m EXCEPT !.slots[f] = e, !.count = n]
  OBVIOUS
<1>3. PICK S : S = [m.slots EXCEPT ![f] = e]
  OBVIOUS
<1>4. d = [capacity |-> N, count |-> n, slots |-> S]
  BY <1>1, <1>2, <1>3, Zenon
<1>5. WithSlot(m, f, e, n) = [capacity |-> N, count |-> n, slots |-> S]
  BY <1>1, <1>3, Zenon DEF WithSlot
<1>6. QED
  BY <1>2, <1>4, <1>5, Zenon

LEMMA SetSlot ==
  ASSUME NEW m, m.capacity \in Nat, m \in Tables(m.capacity),
         NEW f \in 0 .. m.capacity - 1, NEW e \in Slots, NEW n \in Nat
  PROVE  /\ WithSlot(m, f, e, n) \in Tables(m.capacity)
         /\ WithSlot(m, f, e, n).capacity = m.capacity
         /\ WithSlot(m, f, e, n).count = n
         /\ WithSlot(m, f, e, n).slots[f] = e
         /\ \A t \in 0 .. m.capacity - 1 :
              t # f => WithSlot(m, f, e, n).slots[t] = m.slots[t]
<1>1. PICK N, d : N = m.capacity /\ d = WithSlot(m, f, e, n)
  OBVIOUS
<1>2. m.slots \in [0 .. N - 1 -> Slots]
  BY <1>1 DEF Tables
<1>3. PICK S : S = [m.slots EXCEPT ![f] = e]
  OBVIOUS
<1>4. S \in [0 .. N - 1 -> Slots] /\ S[f] = e
      /\ \A t \in 0 .. N - 1 : t # f => S[t] = m.slots[t]
  BY <1>1, <1>2, <1>3
<1>5. d = [capacity |-> N, count |-> n, slots |-> S]
  BY <1>1, <1>3 DEF WithSlot
<1>6. d \in Tables(N)
  BY <1>4, <1>5 DEF Tables
<1>7. QED
  BY <1>1, <1>4, <1>5, <1>6

(* A change that neither frees the slot for the search, nor is what it     *)
(* looks for, is passed by.                                                *)
LEMMA SearchUnchanged ==
  ASSUME NEW N \in Nat, NEW m, m.capacity = N, NEW d, d.capacity = N,
         NEW f \in 0 .. N - 1,
         \A t \in 0 .. N - 1 : t # f => d.slots[t] = m.slots[t],
         NEW k, HashOf(k) \in Nat, Ends(m, k), LastSlot(m, k) # f,
         m.slots[f] # Unused => d.slots[f] # Unused,
         ~ Matches(d.slots[f], k)
  PROVE  Ends(d, k) /\ LastSlot(d, k) = LastSlot(m, k)
<1>1. PICK l, h : l = Length(m, k) /\ h = HashOf(k)
  OBVIOUS
<1>2. EndsAt(m, k, l) /\ l \in Nat /\ N # 0
  BY <1>1, SearchEnds
<1>3. \A i \in Nat : Probe(d, h, i) = Probe(m, h, i)
  BY DEF Probe
<1>4. \A i \in Nat : Probe(m, h, i) \in 0 .. N - 1
  BY <1>1, <1>2, ProbeType
<1>5. LastSlot(m, k) = Probe(m, h, l)
  BY <1>1 DEF LastSlot
<1>6. Stops(d, k, l)
  <2>1. Stops(m, k, l)
    BY <1>2 DEF EndsAt
  <2>2. d.slots[Probe(d, h, l)] = m.slots[Probe(m, h, l)]
    BY <1>2, <1>3, <1>4, <1>5
  <2>3. QED
    BY <1>1, <2>1, <2>2 DEF Stops
<1>7. ASSUME NEW j \in 0 .. l - 1
      PROVE  ~ Stops(d, k, j)
  <2>1. ~ Stops(m, k, j) /\ j \in Nat
    BY <1>2 DEF EndsAt
  <2>2. PICK p : p = Probe(m, h, j)
    OBVIOUS
  <2>3. p = Probe(d, h, j) /\ p \in 0 .. N - 1
    BY <1>3, <1>4, <2>1, <2>2
  <2>4. m.slots[p] # Unused /\ ~ Matches(m.slots[p], k)
    BY <1>1, <2>1, <2>2 DEF Stops
  <2>5. d.slots[p] # Unused /\ ~ Matches(d.slots[p], k)
    BY <2>3, <2>4
  <2>6. QED
    BY <1>1, <2>3, <2>5 DEF Stops
<1>8. l \in Probes(d)
  BY <1>2 DEF EndsAt, Probes
<1>9. EndsAt(d, k, l)
  BY <1>6, <1>7, <1>8 DEF EndsAt
<1>10. Ends(d, k) /\ Length(d, k) = l
  BY <1>9, EndsOnce
<1>11. QED
  BY <1>1, <1>2, <1>3, <1>5, <1>10 DEF LastSlot

(* The other entries are still reached after a slot was changed to one     *)
(* that is not unused and not of their key.                                *)
LEMMA OthersReached ==
  ASSUME hash \in [Key -> Hashes], NEW m, IsTable(m), NEW d, d \in Tables(m.capacity),
         d.capacity = m.capacity,
         NEW f \in 0 .. m.capacity - 1,
         \A t \in 0 .. m.capacity - 1 : t # f => d.slots[t] = m.slots[t],
         d.slots[f] # Unused,
         \A s \in InUse(m) : s # f => ~ Matches(d.slots[f], m.slots[s].key)
  PROVE  \A s \in InUse(d) : s # f => s \in InUse(m) /\ Reached(d, s)
<1>1. SUFFICES ASSUME NEW s \in InUse(d), s # f
               PROVE  s \in InUse(m) /\ Reached(d, s)
  OBVIOUS
<1>2. s \in 0 .. m.capacity - 1 /\ d.slots[s] = m.slots[s]
  BY <1>1 DEF InUse
<1>3. s \in InUse(m)
  BY <1>1, <1>2 DEF InUse
<1>4. PICK k : k = m.slots[s].key
  OBVIOUS
<1>5. m.capacity \in Nat /\ k \in Key
  BY <1>3, <1>4, TableType, SlotKinds
<1>6. HashOf(k) \in Nat
  BY <1>5, HashIs
<1>7. m.slots[s].hash = HashOf(k) /\ Ends(m, k) /\ LastSlot(m, k) = s
  BY <1>3, <1>4 DEF IsTable, Reached
<1>8. ~ Matches(d.slots[f], k)
  BY <1>1, <1>3, <1>4
<1>9. Ends(d, k) /\ LastSlot(d, k) = s
  BY <1>1, <1>5, <1>6, <1>7, <1>8, SearchUnchanged
<1>10. QED
  BY <1>2, <1>3, <1>4, <1>7, <1>9 DEF Reached

(* A search that ends at an entry is for its key; there is no other entry  *)
(* of that key.                                                            *)
LEMMA FoundIs ==
  ASSUME hash \in [Key -> Hashes], NEW m, IsTable(m), NEW k \in Key, Ends(m, k),
         NEW s, s = LastSlot(m, k)
  PROVE  /\ s \in 0 .. m.capacity - 1
         /\ Found(m, k) <=> s \in InUse(m)
         /\ Found(m, k) => m.slots[s].key = k /\ m.slots[s] \in Entries
                           /\ m.slots[s].hash = HashOf(k)
         /\ ~ Found(m, k) => m.slots[s] = Unused
         /\ \A t \in InUse(m) : m.slots[t].key = k => Found(m, k) /\ t = s
<1>1. PICK l, h : l = Length(m, k) /\ h = HashOf(k)
  OBVIOUS
<1>2. /\ m.capacity \in Nat /\ \A t \in 0 .. m.capacity - 1 : m.slots[t] \in Slots
      /\ h \in Nat
  BY <1>1, TableType, HashIs
<1>3. Stops(m, k, l) /\ l \in Nat /\ m.capacity # 0
  BY <1>1, <1>2, SearchEnds DEF EndsAt
<1>4. s = Probe(m, h, l)
  BY <1>1 DEF LastSlot
<1>5. s \in 0 .. m.capacity - 1
  BY <1>2, <1>3, <1>4, ProbeType
<1>6. m.slots[s] = Unused \/ Matches(m.slots[s], k)
  BY <1>1, <1>3, <1>4 DEF Stops
<1>7. Found(m, k) <=> m.slots[s] \notin {Unused, Rip}
  BY DEF Found
<1>8. Matches(m.slots[s], k) => m.slots[s] \in Entries
  BY <1>2, <1>5, MatchIs
<1>9. Found(m, k) => Matches(m.slots[s], k)
  BY <1>6, <1>7
<1>10. ~ Found(m, k) => m.slots[s] = Unused
  BY <1>6, <1>7, <1>8, SlotKinds
<1>11. Found(m, k) <=> s \in InUse(m)
  BY <1>5, <1>7 DEF InUse
<1>12. ASSUME NEW t \in InUse(m), m.slots[t].key = k
       PROVE  t = s /\ Found(m, k)
  BY <1>11, <1>12 DEF IsTable, Reached
<1>13. QED
  BY <1>5, <1>8, <1>9, <1>10, <1>11, <1>12 DEF Matches

-----------------------------------------------------------------------------
(* Storing an entry.                                                       *)

(* An absent key goes to a free slot its search comes by.                  *)
LEMMA FreeSlotIs ==
  ASSUME hash \in [Key -> Hashes], NEW m, IsTable(m), NEW k \in Key, Ends(m, k),
         ~ Found(m, k), NEW f, f = FreeSlot(m, k)
  PROVE  /\ f \in 0 .. m.capacity - 1 /\ m.slots[f] \in {Unused, Rip}
         /\ \E q \in 0 .. Length(m, k) : f = Probe(m, HashOf(k), q)
<1>1. PICK l, h : l = Length(m, k) /\ h = HashOf(k)
  OBVIOUS
<1>2. m.capacity \in Nat /\ l \in Nat /\ m.capacity # 0 /\ h \in Nat
  BY <1>1, TableType, SearchEnds, HashIs
<1>3. CASE Passed(m, k) = {}
  <2>1. f = LastSlot(m, k)
    BY <1>3 DEF FreeSlot
  <2>2. f \in 0 .. m.capacity - 1 /\ m.slots[f] = Unused
    BY <2>1, FoundIs
  <2>3. f = Probe(m, h, l) /\ l \in 0 .. l
    BY <1>1, <1>2, <2>1 DEF LastSlot
  <2>4. QED
    BY <1>1, <2>2, <2>3
<1>4. CASE Passed(m, k) # {}
  <2>1. PICK T : T = Passed(m, k)
    OBVIOUS
  <2>2. T \in SUBSET (0 .. l) /\ T # {}
    BY <1>1, <1>2, <1>4, <2>1 DEF Passed
  <2>3. \E x \in T : \A y \in T : y <= x
    BY <1>2, <2>2, GreatestElement
  <2>4. PICK q : q = CHOOSE x \in T : \A y \in T : y <= x
    OBVIOUS
  <2>5. q \in T
    BY <2>3, <2>4, Zenon
  <2>6. f = Probe(m, h, q)
    BY <1>1, <1>4, <2>1, <2>4 DEF FreeSlot
  <2>7. q \in 0 .. l /\ q \in Nat /\ m.slots[Probe(m, h, q)] = Rip
    BY <1>1, <1>2, <2>1, <2>2, <2>5 DEF Passed
  <2>8. f \in 0 .. m.capacity - 1
    BY <1>2, <2>6, <2>7, ProbeType
  <2>9. QED
    BY <1>1, <2>6, <2>7, <2>8
<1>5. QED
  BY <1>3, <1>4

(* The key stored there is reached.                                        *)
LEMMA NewReached ==
  ASSUME hash \in [Key -> Hashes], NEW m, IsTable(m), NEW k \in Key, Ends(m, k),
         NEW d, d.capacity = m.capacity,
         NEW q \in 0 .. Length(m, k), NEW f, f = Probe(m, HashOf(k), q),
         \A t \in 0 .. m.capacity - 1 : t # f => d.slots[t] = m.slots[t],
         d.slots[f].key = k, d.slots[f].hash = HashOf(k)
  PROVE  Reached(d, f)
<1>1. PICK l, h, N : l = Length(m, k) /\ h = HashOf(k) /\ N = m.capacity
  OBVIOUS
<1>2. EndsAt(m, k, l) /\ l \in Nat /\ N \in Nat \ {0} /\ h \in Nat
  BY <1>1, TableType, SearchEnds, HashIs
<1>3. \A i \in Nat : Probe(d, h, i) = Probe(m, h, i) /\ Probe(m, h, i) \in 0 .. N - 1
  <2>1. \A i \in Nat : Probe(d, h, i) = Probe(m, h, i)
    BY DEF Probe
  <2>2. \A i \in Nat : Probe(m, h, i) \in 0 .. N - 1
    BY <1>1, <1>2, ProbeType
  <2>3. QED
    BY <2>1, <2>2
<1> DEFINE T == {i \in Nat : Probe(m, h, i) = f}
<1>4. q \in T /\ q \in Nat /\ q <= l
  BY <1>1, <1>2
<1>5. PICK p \in T : \A i \in T : p <= i
  <2>1. T \in SUBSET Nat /\ T # {}
    BY <1>4
  <2> HIDE DEF T
  <2>2. QED
    BY <2>1, LeastElement
<1>6. p \in Nat /\ p <= l /\ Probe(d, h, p) = f
  <2>1. p <= q /\ p \in Nat /\ Probe(m, h, p) = f
    BY <1>4, <1>5
  <2>2. QED
    BY <1>2, <1>3, <1>4, <2>1
<1>7. Stops(d, k, p)
  BY <1>1, <1>6 DEF Stops, Matches
<1>8. ASSUME NEW j \in 0 .. p - 1
      PROVE  ~ Stops(d, k, j)
  <2>1. j \in Nat /\ j < p /\ j \in 0 .. l - 1
    BY <1>2, <1>6
  <2>2. Probe(m, h, j) # f
    <3>1. j \in T => p <= j
      BY <1>5
    <3>2. QED
      BY <1>6, <2>1, <3>1
  <2>3. d.slots[Probe(d, h, j)] = m.slots[Probe(m, h, j)]
    BY <1>1, <1>3, <2>1, <2>2
  <2>4. ~ Stops(m, k, j)
    BY <1>2, <2>1 DEF EndsAt
  <2>5. QED
    BY <1>1, <2>3, <2>4 DEF Stops
<1>9. p \in Probes(d)
  <2>1. l <= 2 * N - 1
    BY <1>1, <1>2 DEF EndsAt, Probes
  <2>2. QED
    BY <1>1, <1>2, <1>6, <2>1 DEF Probes
<1>10. EndsAt(d, k, p)
  BY <1>7, <1>8, <1>9 DEF EndsAt
<1>11. Ends(d, k) /\ Length(d, k) = p
  BY <1>1, <1>2, <1>10, EndsOnce
<1>12. LastSlot(d, k) = f
  BY <1>1, <1>6, <1>11 DEF LastSlot
<1>13. QED
  BY <1>11, <1>12 DEF Reached

LEMMA StoreIs ==
  ASSUME hash \in [Key -> Hashes], NEW m, IsTable(m), NEW k \in Key, NEW v \in Value,
         Ends(m, k), ~ Found(m, k), NEW d, d = Store(m, k, v)
  PROVE  /\ IsTable(d) /\ d.capacity = m.capacity
         /\ EntriesOf(d) = EntriesOf(m) \cup {Entry(k, HashOf(k), v)}
         /\ \A e \in EntriesOf(m) : e.key # k
<1>1. PICK f, e, n : f = FreeSlot(m, k) /\ e = Entry(k, HashOf(k), v) /\ n = m.count + 1
  OBVIOUS
<1>2. /\ m.capacity \in Nat /\ m.count \in Nat /\ m \in Tables(m.capacity)
      /\ IsFiniteSet(InUse(m)) /\ n \in Nat
      /\ \A s \in InUse(m) : s \in 0 .. m.capacity - 1 /\ m.slots[s] \in Entries
  BY <1>1, TableType
<1>3. /\ f \in 0 .. m.capacity - 1 /\ m.slots[f] \in {Unused, Rip}
      /\ \E q \in 0 .. Length(m, k) : f = Probe(m, HashOf(k), q)
  BY <1>1, FreeSlotIs
<1>4. /\ e \in Entries /\ e.key = k /\ e.hash = HashOf(k)
      /\ e \in Slots /\ e \notin {Unused, Rip}
  BY <1>1, EntryIs, SlotKinds
<1>5. d = WithSlot(m, f, e, n)
  <2>1. d = [m EXCEPT !.slots[f] = e, !.count = n]
    BY <1>1 DEF Store
  <2>2. m \in Tables(m.capacity)
    BY <1>2
  <2>3. [m EXCEPT !.slots[f] = e, !.count = n] = WithSlot(m, f, e, n)
    BY <2>2, ExceptSlot, ZenonT(60)
  <2>4. QED
    BY <2>1, <2>3, Zenon
<1>6. /\ d \in Tables(m.capacity) /\ d.capacity = m.capacity /\ d.count = n
      /\ d.slots[f] = e
      /\ \A t \in 0 .. m.capacity - 1 : t # f => d.slots[t] = m.slots[t]
  <2>1. m.capacity \in Nat /\ m \in Tables(m.capacity) /\ n \in Nat
    BY <1>2
  <2>2. f \in 0 .. m.capacity - 1 /\ e \in Slots
    BY <1>3, <1>4
  <2>3. QED
    BY <1>5, <2>1, <2>2, SetSlot
<1>7. f \notin InUse(m)
  BY <1>3 DEF InUse
<1>8. InUse(d) = InUse(m) \cup {f}
  <2>1. ASSUME NEW t \in 0 .. m.capacity - 1
        PROVE  d.slots[t] \notin {Unused, Rip} <=> m.slots[t] \notin {Unused, Rip} \/ t = f
    BY <1>4, <1>6
  <2>2. QED
    BY <1>3, <1>6, <2>1 DEF InUse
<1>9. \A s \in InUse(m) : m.slots[s].key # k
  BY FoundIs
<1>10. \A s \in InUse(d) : Reached(d, s)
  <2>1. Reached(d, f)
    <3>1. PICK q \in 0 .. Length(m, k) : f = Probe(m, HashOf(k), q)
      BY <1>3
    <3>2. QED
      BY <1>4, <1>6, <3>1, NewReached
  <2>2. \A s \in InUse(m) : ~ Matches(d.slots[f], m.slots[s].key)
    BY <1>4, <1>6, <1>9 DEF Matches
  <2>3. \A s \in InUse(d) : s # f => s \in InUse(m) /\ Reached(d, s)
    BY <1>3, <1>4, <1>6, <2>2, OthersReached
  <2>4. QED
    BY <2>1, <2>3
<1>11. d.count = Cardinality(InUse(d))
  <2>1. Cardinality(InUse(m) \cup {f}) = Cardinality(InUse(m)) + 1
    BY <1>2, <1>7, FS_AddElement
  <2>2. m.count = Cardinality(InUse(m))
    BY DEF IsTable
  <2>3. QED
    BY <1>1, <1>6, <1>8, <2>1, <2>2
<1>12. IsTable(d)
  BY <1>2, <1>6, <1>10, <1>11 DEF IsTable
<1>13. EntriesOf(d) = EntriesOf(m) \cup {e}
  <2>1. \A s \in InUse(m) : d.slots[s] = m.slots[s]
    BY <1>2, <1>6, <1>7
  <2>2. {d.slots[s] : s \in InUse(m)} = {m.slots[s] : s \in InUse(m)}
    BY <2>1
  <2>3. EntriesOf(d) = {d.slots[s] : s \in InUse(m)} \cup {d.slots[f]}
    BY <1>8 DEF EntriesOf
  <2>4. QED
    BY <1>6, <2>2, <2>3 DEF EntriesOf
<1>14. \A x \in EntriesOf(m) : x.key # k
  BY <1>9 DEF EntriesOf
<1>15. QED
  BY <1>1, <1>6, <1>12, <1>13, <1>14

-----------------------------------------------------------------------------
(* Erasing and replacing an entry.                                         *)

EraseOf(m, k) == [m EXCEPT !.slots[LastSlot(m, k)] = Rip, !.count = @ - 1]

LEMMA EraseIs ==
  ASSUME hash \in [Key -> Hashes], NEW m, IsTable(m), NEW k \in Key,
         Ends(m, k), Found(m, k), NEW d, d = EraseOf(m, k)
  PROVE  /\ IsTable(d) /\ d.capacity = m.capacity
         /\ InUse(d) = InUse(m) \ {LastSlot(m, k)}
         /\ \A s \in InUse(d) : d.slots[s] = m.slots[s] /\ m.slots[s].key # k
<1>1. PICK f, n : f = LastSlot(m, k) /\ n = m.count - 1
  OBVIOUS
<1>2. /\ m.capacity \in Nat /\ m.count \in Nat /\ m \in Tables(m.capacity)
      /\ IsFiniteSet(InUse(m))
      /\ \A s \in InUse(m) : s \in 0 .. m.capacity - 1 /\ m.slots[s] \in Entries
  BY TableType
<1>3. /\ f \in 0 .. m.capacity - 1 /\ f \in InUse(m)
      /\ \A t \in InUse(m) : m.slots[t].key = k => t = f
  BY <1>1, FoundIs
<1>4. Cardinality(InUse(m) \ {f}) = n /\ n \in Nat
  <2>1. Cardinality(InUse(m) \ {f}) = Cardinality(InUse(m)) - 1
    BY <1>2, <1>3, FS_RemoveElement
  <2>2. IsFiniteSet(InUse(m) \ {f})
    BY <1>2, <1>3, FS_RemoveElement
  <2>3. Cardinality(InUse(m) \ {f}) \in Nat
    BY <2>2, FS_CardinalityType
  <2>4. QED
    BY <1>1, <2>1, <2>3 DEF IsTable
<1>5. d = WithSlot(m, f, Rip, n)
  <2>1. d = [m EXCEPT !.slots[f] = Rip, !.count = n]
    BY <1>1 DEF EraseOf
  <2>2. m \in Tables(m.capacity)
    BY <1>2
  <2>3. [m EXCEPT !.slots[f] = Rip, !.count = n] = WithSlot(m, f, Rip, n)
    BY <2>2, ExceptSlot, ZenonT(60)
  <2>4. QED
    BY <2>1, <2>3, Zenon
<1>6. /\ d \in Tables(m.capacity) /\ d.capacity = m.capacity /\ d.count = n
      /\ d.slots[f] = Rip
      /\ \A t \in 0 .. m.capacity - 1 : t # f => d.slots[t] = m.slots[t]
  <2>1. m.capacity \in Nat /\ m \in Tables(m.capacity) /\ n \in Nat
    BY <1>2, <1>4
  <2>2. f \in 0 .. m.capacity - 1 /\ Rip \in Slots
    BY <1>3, SlotKinds
  <2>3. QED
    BY <1>5, <2>1, <2>2, SetSlot
<1>7. InUse(d) = InUse(m) \ {f}
  <2>1. ASSUME NEW t \in 0 .. m.capacity - 1
        PROVE  d.slots[t] \notin {Unused, Rip} <=> m.slots[t] \notin {Unused, Rip} /\ t # f
    BY <1>6
  <2>2. QED
    BY <1>6, <2>1 DEF InUse
<1>8. \A s \in InUse(d) : Reached(d, s)
  <2>1. \A s \in InUse(m) : ~ Matches(d.slots[f], m.slots[s].key)
    <3>1. SUFFICES ASSUME NEW s \in InUse(m)
                   PROVE  Rip.hash # HashOf(m.slots[s].key)
      BY <1>6 DEF Matches
    <3>2. m.slots[s].key \in Key
      BY <1>2, SlotKinds
    <3>3. QED
      BY <3>2, HashIs, SlotKinds
  <2>2. \A s \in InUse(d) : s # f => s \in InUse(m) /\ Reached(d, s)
    BY <1>3, <1>6, <2>1, SlotKinds, OthersReached
  <2>3. QED
    BY <1>7, <2>2
<1>9. IsTable(d)
  BY <1>2, <1>4, <1>6, <1>7, <1>8 DEF IsTable
<1>10. \A s \in InUse(d) : d.slots[s] = m.slots[s] /\ m.slots[s].key # k
  BY <1>2, <1>3, <1>6, <1>7
<1>11. QED
  BY <1>1, <1>6, <1>7, <1>9, <1>10

(* Overwriting the value of an entry.                                      *)
LEMMA UpdateIs ==
  ASSUME hash \in [Key -> Hashes], NEW m, IsTable(m), NEW k \in Key, NEW v \in Value,
         Ends(m, k), Found(m, k), NEW d, d = Update(m, k, v)
  PROVE  /\ IsTable(d) /\ d.capacity = m.capacity
         /\ InUse(d) = InUse(m) /\ LastSlot(m, k) \in InUse(m)
         /\ d.slots[LastSlot(m, k)] = Entry(k, HashOf(k), v)
         /\ m.slots[LastSlot(m, k)].key = k
         /\ \A s \in InUse(m) : s # LastSlot(m, k) =>
              d.slots[s] = m.slots[s] /\ m.slots[s].key # k
<1>1. PICK f, e, n : f = LastSlot(m, k) /\ e = Entry(k, HashOf(k), v) /\ n = m.count
  OBVIOUS
<1>2. /\ m.capacity \in Nat /\ m.count \in Nat /\ m \in Tables(m.capacity)
      /\ \A s \in InUse(m) : s \in 0 .. m.capacity - 1 /\ m.slots[s] \in Entries
  BY TableType
<1>3. /\ f \in 0 .. m.capacity - 1 /\ f \in InUse(m)
      /\ \A t \in InUse(m) : m.slots[t].key = k => t = f
      /\ m.slots[f] \in Entries /\ m.slots[f].key = k /\ m.slots[f].hash = HashOf(k)
  BY <1>1, FoundIs
<1>4. /\ e \in Entries /\ e.key = k /\ e.hash = HashOf(k)
      /\ e \in Slots /\ e \notin {Unused, Rip}
  BY <1>1, EntryIs, SlotKinds
<1>5. [m.slots[f] EXCEPT !.value = v] = e
  <2>1. PICK x, h : x = m.slots[f] /\ h = HashOf(k)
    OBVIOUS
  <2>2. x = [hash |-> h, key |-> k, value |-> x.value]
    BY <1>3, <2>1 DEF Entries
  <2>3. [x EXCEPT !.value = v] = [hash |-> h, key |-> k, value |-> v]
    BY <2>2
  <2>4. QED
    BY <1>1, <2>1, <2>3 DEF Entry
<1>6. d = WithSlot(m, f, e, n)
  <2>1. d = [m EXCEPT !.slots = [m.slots EXCEPT ![f] = [m.slots[f] EXCEPT !.value = v]]]
    BY <1>1 DEF Update
  <2>2. PICK S : S = [m.slots EXCEPT ![f] = e]
    OBVIOUS
  <2>3. d = [m EXCEPT !.slots = S]
    BY <1>5, <2>1, <2>2
  <2>4. m = [capacity |-> m.capacity, count |-> n, slots |-> m.slots]
    BY <1>1, <1>2 DEF Tables
  <2>5. d = [capacity |-> m.capacity, count |-> n, slots |-> S]
    BY <2>3, <2>4
  <2>6. WithSlot(m, f, e, n) = [capacity |-> m.capacity, count |-> n, slots |-> S]
    BY <2>2, Zenon DEF WithSlot
  <2>7. QED
    BY <2>5, <2>6, Zenon
<1>7. /\ d \in Tables(m.capacity) /\ d.capacity = m.capacity /\ d.count = n
      /\ d.slots[f] = e
      /\ \A t \in 0 .. m.capacity - 1 : t # f => d.slots[t] = m.slots[t]
  <2>1. m.capacity \in Nat /\ m \in Tables(m.capacity) /\ n \in Nat
    BY <1>1, <1>2
  <2>2. f \in 0 .. m.capacity - 1 /\ e \in Slots
    BY <1>3, <1>4
  <2>3. QED
    BY <1>6, <2>1, <2>2, SetSlot
<1>8. InUse(d) = InUse(m)
  <2>1. ASSUME NEW t \in 0 .. m.capacity - 1
        PROVE  d.slots[t] \notin {Unused, Rip} <=> m.slots[t] \notin {Unused, Rip}
    <3>1. m.slots[f] \notin {Unused, Rip}
      BY <1>3 DEF InUse
    <3>2. QED
      BY <1>4, <1>7, <3>1
  <2>2. QED
    BY <1>7, <2>1 DEF InUse
<1>9. \A s \in InUse(d) : Reached(d, s)
  <2>1. Reached(d, f)
    <3>1. PICK q : q = Length(m, k)
      OBVIOUS
    <3>2. q \in 0 .. Length(m, k) /\ f = Probe(m, HashOf(k), q)
      BY <1>1, <1>2, <3>1, SearchEnds DEF LastSlot
    <3>3. QED
      BY <1>4, <1>7, <3>2, NewReached
  <2>2. \A s \in InUse(m) : s # f => ~ Matches(d.slots[f], m.slots[s].key)
    BY <1>3, <1>4, <1>7 DEF Matches
  <2>3. \A s \in InUse(d) : s # f => s \in InUse(m) /\ Reached(d, s)
    BY <1>3, <1>4, <1>7, <2>2, OthersReached
  <2>4. QED
    BY <2>1, <2>3
<1>10. IsTable(d)
  BY <1>1, <1>2, <1>7, <1>8, <1>9 DEF IsTable
<1>11. \A s \in InUse(m) : s # f => d.slots[s] = m.slots[s] /\ m.slots[s].key # k
  BY <1>2, <1>3, <1>7
<1>12. QED
  BY <1>1, <1>3, <1>7, <1>8, <1>10, <1>11

-----------------------------------------------------------------------------
(* What a table holds, as a map from keys to values.                       *)

(* f maps the key of each of the entries to its value, and no other key.   *)
Shows(f, entries) == /\ f = [k \in {e.key : e \in entries} |-> f[k]]
                     /\ \A e \in entries : f[e.key] = e.value

Plus(f, k, v) == [j \in DOMAIN f \cup {k} |-> IF j = k THEN v ELSE f[j]]

Minus(f, k) == [j \in DOMAIN f \ {k} |-> f[j]]

ContentsOf(m) == [k \in {m.slots[s].key : s \in InUse(m)} |->
                    m.slots[CHOOSE s \in InUse(m) : m.slots[s].key = k].value]

LEMMA ContentsIs ==
  ASSUME hash \in [Key -> Hashes], NEW m, IsTable(m)
  PROVE  Shows(ContentsOf(m), EntriesOf(m))
<1>1. \A s, t \in InUse(m) : m.slots[s].key = m.slots[t].key => s = t
  BY DEF IsTable, Reached
<1>2. PICK f : f = ContentsOf(m)
  OBVIOUS
<1>3. DOMAIN f = {m.slots[s].key : s \in InUse(m)}
      /\ f = [k \in DOMAIN f |-> f[k]]
  BY <1>2 DEF ContentsOf
<1>4. {m.slots[s].key : s \in InUse(m)} = {e.key : e \in EntriesOf(m)}
  BY DEF EntriesOf
<1>5. ASSUME NEW t \in InUse(m)
      PROVE  f[m.slots[t].key] = m.slots[t].value
  <2>1. PICK k : k = m.slots[t].key
    OBVIOUS
  <2>2. PICK u : u = CHOOSE s \in InUse(m) : m.slots[s].key = k
    OBVIOUS
  <2>3. u \in InUse(m) /\ m.slots[u].key = k
    BY <2>1, <2>2, Zenon
  <2>4. u = t
    BY <1>1, <2>1, <2>3
  <2>5. f[k] = m.slots[u].value
    BY <1>2, <2>1, <2>2 DEF ContentsOf
  <2>6. QED
    BY <2>1, <2>4, <2>5
<1>6. \A e \in EntriesOf(m) : f[e.key] = e.value
  BY <1>5 DEF EntriesOf
<1>7. QED
  BY <1>2, <1>3, <1>4, <1>6 DEF Shows

LEMMA ShowsOnce ==
  ASSUME NEW E, NEW f, NEW g, Shows(f, E), Shows(g, E)
  PROVE  f = g
<1>1. \A k \in {e.key : e \in E} : f[k] = g[k]
  BY DEF Shows
<1>2. PICK K : K = {e.key : e \in E}
  OBVIOUS
<1>3. f = [k \in K |-> f[k]] /\ g = [k \in K |-> g[k]]
  BY <1>2 DEF Shows
<1>4. QED
  BY <1>1, <1>2, <1>3

LEMMA ShowsPlus ==
  ASSUME NEW E, NEW f, Shows(f, E), NEW e
  PROVE  Shows(Plus(f, e.key, e.value), {x \in E : x.key # e.key} \cup {e})
<1>1. PICK g : g = Plus(f, e.key, e.value)
  OBVIOUS
<1>2. PICK F : F = {x \in E : x.key # e.key} \cup {e}
  OBVIOUS
<1>3. DOMAIN f = {x.key : x \in E}
  BY DEF Shows
<1>4. {x.key : x \in F} = DOMAIN f \cup {e.key}
  BY <1>2, <1>3
<1>5. DOMAIN g = DOMAIN f \cup {e.key} /\ g = [k \in DOMAIN g |-> g[k]]
  BY <1>1 DEF Plus
<1>6. ASSUME NEW x \in F
      PROVE  g[x.key] = x.value
  <2>1. CASE x = e
    BY <1>1, <2>1 DEF Plus
  <2>2. CASE x # e
    <3>1. x \in E /\ x.key # e.key
      BY <1>2, <2>2
    <3>2. x.key \in DOMAIN f /\ f[x.key] = x.value
      BY <1>3, <3>1 DEF Shows
    <3>3. g[x.key] = f[x.key]
      BY <1>1, <3>1, <3>2 DEF Plus
    <3>4. QED
      BY <3>2, <3>3
  <2>3. QED
    BY <2>1, <2>2
<1>7. Shows(g, F)
  BY <1>4, <1>5, <1>6 DEF Shows
<1>8. QED
  BY <1>1, <1>2, <1>7

LEMMA ShowsMinus ==
  ASSUME NEW E, NEW f, Shows(f, E), NEW k
  PROVE  Shows(Minus(f, k), {x \in E : x.key # k})
<1>1. PICK g : g = Minus(f, k)
  OBVIOUS
<1>2. PICK F : F = {x \in E : x.key # k}
  OBVIOUS
<1>3. DOMAIN f = {x.key : x \in E}
  BY DEF Shows
<1>4. {x.key : x \in F} = DOMAIN f \ {k}
  BY <1>2, <1>3
<1>5. DOMAIN g = DOMAIN f \ {k} /\ g = [j \in DOMAIN g |-> g[j]]
  BY <1>1 DEF Minus
<1>6. ASSUME NEW x \in F
      PROVE  g[x.key] = x.value
  <2>1. x \in E /\ x.key # k
    BY <1>2
  <2>2. x.key \in DOMAIN f /\ f[x.key] = x.value
    BY <1>3, <2>1 DEF Shows
  <2>3. QED
    BY <1>1, <2>1, <2>2 DEF Minus
<1>7. Shows(g, F)
  BY <1>4, <1>5, <1>6 DEF Shows
<1>8. QED
  BY <1>1, <1>2, <1>7

(* The search for a key tells whether the table holds it.                  *)
LEMMA ShowsFound ==
  ASSUME hash \in [Key -> Hashes], NEW m, IsTable(m), NEW k \in Key, Ends(m, k),
         NEW f, Shows(f, EntriesOf(m))
  PROVE  /\ Found(m, k) <=> k \in DOMAIN f
         /\ Found(m, k) => m.slots[LastSlot(m, k)].value = f[k]
<1>1. DOMAIN f = {x.key : x \in EntriesOf(m)}
  BY DEF Shows
<1>2. PICK s : s = LastSlot(m, k)
  OBVIOUS
<1>3. ASSUME Found(m, k)
      PROVE  k \in DOMAIN f /\ m.slots[s].value = f[k]
  <2>1. s \in InUse(m) /\ m.slots[s].key = k
    BY <1>2, <1>3, FoundIs
  <2>2. m.slots[s] \in EntriesOf(m)
    BY <2>1 DEF EntriesOf
  <2>3. QED
    BY <1>1, <2>1, <2>2 DEF Shows
<1>4. ASSUME k \in DOMAIN f
      PROVE  Found(m, k)
  <2>1. PICK t \in InUse(m) : m.slots[t].key = k
    BY <1>1, <1>4 DEF EntriesOf
  <2>2. QED
    BY <2>1, FoundIs
<1>5. QED
  BY <1>2, <1>3, <1>4

(* What storing, replacing and erasing do to the map the table shows.      *)
LEMMA ShowsStored ==
  ASSUME hash \in [Key -> Hashes], NEW m, IsTable(m), NEW k \in Key, NEW v \in Value,
         Ends(m, k), ~ Found(m, k), NEW d, d = Store(m, k, v),
         NEW f, Shows(f, EntriesOf(m))
  PROVE  IsTable(d) /\ Shows(Plus(f, k, v), EntriesOf(d))
<1>1. PICK e, E : e = Entry(k, HashOf(k), v) /\ E = EntriesOf(m)
  OBVIOUS
<1>2. e.key = k /\ e.value = v
  BY <1>1, EntryIs
<1>3. IsTable(d) /\ EntriesOf(d) = E \cup {e} /\ \A x \in E : x.key # k
  BY <1>1, StoreIs
<1>4. Shows(Plus(f, e.key, e.value), {x \in E : x.key # e.key} \cup {e})
  BY <1>1, ShowsPlus
<1>5. {x \in E : x.key # e.key} = E
  BY <1>2, <1>3
<1>6. QED
  BY <1>2, <1>3, <1>4, <1>5

LEMMA ShowsUpdated ==
  ASSUME hash \in [Key -> Hashes], NEW m, IsTable(m), NEW k \in Key, NEW v \in Value,
         Ends(m, k), Found(m, k), NEW d, d = Update(m, k, v),
         NEW f, Shows(f, EntriesOf(m))
  PROVE  IsTable(d) /\ Shows(Plus(f, k, v), EntriesOf(d))
<1>1. PICK e, E, s : e = Entry(k, HashOf(k), v) /\ E = EntriesOf(m) /\ s = LastSlot(m, k)
  OBVIOUS
<1>2. e.key = k /\ e.value = v
  BY <1>1, EntryIs
<1>3. /\ IsTable(d) /\ InUse(d) = InUse(m) /\ s \in InUse(m)
      /\ d.slots[s] = e /\ m.slots[s].key = k
      /\ \A t \in InUse(m) : t # s => d.slots[t] = m.slots[t] /\ m.slots[t].key # k
  BY <1>1, UpdateIs
<1>4. EntriesOf(d) = {x \in E : x.key # k} \cup {e}
  <2>1. ASSUME NEW x \in EntriesOf(d)
        PROVE  x \in {y \in E : y.key # k} \cup {e}
    BY <1>1, <1>3 DEF EntriesOf
  <2>2. ASSUME NEW x \in E, x.key # k
        PROVE  x \in EntriesOf(d)
    BY <1>1, <1>3, <2>2 DEF EntriesOf
  <2>3. e \in EntriesOf(d)
    BY <1>3 DEF EntriesOf
  <2>4. QED
    BY <2>1, <2>2, <2>3
<1>5. Shows(Plus(f, e.key, e.value), {x \in E : x.key # e.key} \cup {e})
  BY <1>1, ShowsPlus
<1>6. QED
  BY <1>2, <1>3, <1>4, <1>5

LEMMA ShowsErased ==
  ASSUME hash \in [Key -> Hashes], NEW m, IsTable(m), NEW k \in Key,
         Ends(m, k), Found(m, k), NEW d, d = EraseOf(m, k),
         NEW f, Shows(f, EntriesOf(m))
  PROVE  IsTable(d) /\ Shows(Minus(f, k), EntriesOf(d))
<1>1. PICK E, s : E = EntriesOf(m) /\ s = LastSlot(m, k)
  OBVIOUS
<1>2. /\ IsTable(d) /\ InUse(d) = InUse(m) \ {s}
      /\ \A t \in InUse(d) : d.slots[t] = m.slots[t] /\ m.slots[t].key # k
      /\ m.slots[s].key = k
  BY <1>1, EraseIs, FoundIs
<1>3. EntriesOf(d) = {x \in E : x.key # k}
  <2>1. ASSUME NEW x \in EntriesOf(d)
        PROVE  x \in E /\ x.key # k
    BY <1>1, <1>2 DEF EntriesOf
  <2>2. ASSUME NEW x \in E, x.key # k
        PROVE  x \in EntriesOf(d)
    BY <1>1, <1>2, <2>2 DEF EntriesOf
  <2>3. QED
    BY <2>1, <2>2
<1>4. Shows(Minus(f, k), {x \in E : x.key # k})
  BY <1>1, ShowsMinus
<1>5. QED
  BY <1>2, <1>3, <1>4

(* The end of an insertion into table m, which shows f.                    *)
LEMMA PlaceIs ==
  ASSUME hash \in [Key -> Hashes], NEW m, IsTable(m), NEW f, Shows(f, EntriesOf(m)),
         NEW op \in {"new", "update"}, NEW k \in Key, NEW v \in Value,
         Place(m, op, k, v)
  PROVE  \/ Hang
         \/ /\ UNCHANGED hash /\ moving' = NotMoving /\ call' = Idle
            /\ \E d : /\ IsTable(d) /\ hm' = d
                      /\ IF op = "new" /\ k \in DOMAIN f
                         THEN Shows(f, EntriesOf(d)) /\ result' = "failed"
                         ELSE Shows(Plus(f, k, v), EntriesOf(d)) /\ result' = "ok"
<1>1. CASE ~ Ends(m, k)
  BY <1>1 DEF Place
<1>2. CASE Ends(m, k)
  <2>1. UNCHANGED hash /\ moving' = NotMoving /\ call' = Idle
    BY <1>2 DEF Place
  <2>2. Found(m, k) <=> k \in DOMAIN f
    BY <1>2, ShowsFound
  <2>3. CASE ~ Found(m, k)
    <3>1. PICK d : d = Store(m, k, v)
      OBVIOUS
    <3>2. hm' = d /\ result' = "ok"
      BY <1>2, <2>3, <3>1 DEF Place
    <3>3. IsTable(d) /\ Shows(Plus(f, k, v), EntriesOf(d))
      BY <1>2, <2>3, <3>1, ShowsStored
    <3>4. QED
      BY <2>1, <2>2, <2>3, <3>2, <3>3
  <2>4. CASE Found(m, k) /\ op = "update"
    <3>1. PICK d : d = Update(m, k, v)
      OBVIOUS
    <3>2. hm' = d /\ result' = "ok"
      BY <1>2, <2>4, <3>1 DEF Place
    <3>3. IsTable(d) /\ Shows(Plus(f, k, v), EntriesOf(d))
      BY <1>2, <2>4, <3>1, ShowsUpdated
    <3>4. QED
      BY <2>1, <2>4, <3>2, <3>3
  <2>5. CASE Found(m, k) /\ op = "new"
    <3>1. hm' = m /\ result' = "failed"
      BY <1>2, <2>5 DEF Place
    <3>2. QED
      BY <2>1, <2>2, <2>5, <3>1
  <2>6. QED
    BY <2>3, <2>4, <2>5
<1>3. QED
  BY <1>1, <1>2

-----------------------------------------------------------------------------
(* Empty tables, and moving to a new one.                                  *)

LEMMA EmptyTable ==
  ASSUME NEW n \in Nat,
         NEW m, m = [capacity |-> n, count |-> 0, slots |-> [s \in 0 .. n - 1 |-> Unused]]
  PROVE  IsTable(m) /\ EntriesOf(m) = {}
<1>1. m.capacity = n /\ m.count = 0 /\ \A s \in 0 .. n - 1 : m.slots[s] = Unused
  OBVIOUS
<1>2. m \in Tables(n)
  <2>1. PICK S : S = [s \in 0 .. n - 1 |-> Unused]
    OBVIOUS
  <2>2. S \in [0 .. n - 1 -> Slots]
    BY <2>1, SlotKinds
  <2>3. m = [capacity |-> n, count |-> 0, slots |-> S]
    BY <2>1
  <2>4. QED
    BY <2>2, <2>3 DEF Tables
<1>3. InUse(m) = {}
  BY <1>1 DEF InUse
<1>4. Cardinality(InUse(m)) = 0
  BY <1>3, FS_EmptySet
<1>5. QED
  BY <1>1, <1>2, <1>3, <1>4 DEF IsTable, EntriesOf

LEMMA NewMapIs ==
  ASSUME NEW n \in Nat, NEW m, m = NewMap(n)
  PROVE  IsTable(m) /\ EntriesOf(m) = {}
<1>1. m = [capacity |-> n, count |-> 0, slots |-> [s \in 0 .. n - 1 |-> Unused]]
  BY DEF NewMap
<1>2. QED
  BY <1>1, EmptyTable

LEMMA NullIs ==
  IsTable(Null) /\ EntriesOf(Null) = {} /\ Null.capacity = 0
<1>1. PICK m : m = [capacity |-> 0, count |-> 0, slots |-> [s \in 0 .. 0 - 1 |-> Unused]]
  OBVIOUS
<1>2. IsTable(m) /\ EntriesOf(m) = {}
  BY <1>1, EmptyTable
<1>3. 0 .. 0 - 1 = {}
  BY SMT
<1>4. m = Null
  BY <1>1, <1>3 DEF Null
<1>5. m.capacity = 0
  BY <1>1
<1>6. QED
  BY <1>2, <1>4, <1>5

LEMMA MoveIs ==
  ASSUME hash \in [Key -> Hashes], NEW m, IsTable(m), NEW to, IsTable(to),
         NEW at \in 0 .. m.capacity - 1, EntriesOf(to) = Before(m, at),
         NEW e, e = m.slots[at], e \notin {Unused, Rip},
         Ends(to, e.key), NEW d, d = Store(to, e.key, e.value)
  PROVE  IsTable(d) /\ EntriesOf(d) = Before(m, at + 1)
<1>1. at \in InUse(m) /\ m.capacity \in Nat
  BY TableType DEF InUse
<1>2. e \in Entries /\ e.key \in Key /\ e.value \in Value
  BY <1>1, TableType, SlotKinds
<1>3. \A s, t \in InUse(m) : m.slots[s].key = m.slots[t].key => s = t
  BY DEF IsTable, Reached
<1>4. ~ Found(to, e.key)
  <2>1. SUFFICES ASSUME Found(to, e.key)
                 PROVE  FALSE
    OBVIOUS
  <2>2. PICK s : s = LastSlot(to, e.key)
    OBVIOUS
  <2>3. s \in InUse(to) /\ to.slots[s].key = e.key
    BY <1>2, <2>1, <2>2, FoundIs
  <2>4. to.slots[s] \in Before(m, at)
    BY <2>3 DEF EntriesOf
  <2>5. PICK t \in InUse(m) : t < at /\ m.slots[t].key = e.key
    BY <2>3, <2>4 DEF Before
  <2>6. t = at
    BY <1>1, <1>3, <2>5
  <2>7. QED
    BY <2>5, <2>6
<1>5. Entry(e.key, HashOf(e.key), e.value) = e
  <2>1. e.hash = HashOf(e.key)
    BY <1>1 DEF IsTable, Reached
  <2>2. e = [hash |-> e.hash, key |-> e.key, value |-> e.value]
    BY <1>2 DEF Entries
  <2>3. QED
    BY <2>1, <2>2 DEF Entry
<1>6. IsTable(d) /\ EntriesOf(d) = EntriesOf(to) \cup {e}
  BY <1>2, <1>4, <1>5, StoreIs
<1>7. Before(m, at + 1) = Before(m, at) \cup {e}
  <2>1. \A t \in InUse(m) : t < at + 1 <=> t < at \/ t = at
    BY <1>1 DEF InUse
  <2>2. QED
    BY <1>1, <2>1 DEF Before
<1>8. QED
  BY <1>6, <1>7

(* Nothing is moved of a slot without an entry.                            *)
LEMMA NothingMoved ==
  ASSUME NEW m, m.capacity \in Nat, NEW at \in 0 .. m.capacity - 1,
         m.slots[at] \in {Unused, Rip}
  PROVE  Before(m, at + 1) = Before(m, at)
<1>1. \A t \in InUse(m) : t < at + 1 <=> t < at
  BY DEF InUse
<1>2. QED
  BY <1>1 DEF Before

(* In the end all is moved.                                                *)
LEMMA AllMoved ==
  ASSUME NEW m, m.capacity \in Nat
  PROVE  Before(m, m.capacity) = EntriesOf(m) /\ Before(m, 0) = {}
<1>1. \A t \in InUse(m) : t < m.capacity /\ ~ (t < 0)
  BY DEF InUse
<1>2. QED
  BY <1>1 DEF Before, EntriesOf

-----------------------------------------------------------------------------
(* The invariant.                                                          *)

(* The hash function stays the same, and so does what is a table.          *)
LEMMA SameTable ==
  ASSUME NEW m, UNCHANGED hash
  PROVE  /\ hm' = m => (IsTable(hm)' <=> IsTable(m))
         /\ moving'.to = m => (IsTable(moving.to)' <=> IsTable(m))
<1>1. ASSUME NEW k
      PROVE  Ends(m, k)' <=> Ends(m, k)
  BY DEF Ends, Stops, Matches, HashOf
<1>2. ASSUME NEW k
      PROVE  LastSlot(m, k)' = LastSlot(m, k)
  BY DEF LastSlot, Length, Stops, Matches, HashOf
<1>3. \A k : HashOf(k)' = HashOf(k)
  BY DEF HashOf
<1>4. IsTable(m)' <=> IsTable(m)
  BY <1>1, <1>2, <1>3 DEF IsTable, Reached
<1>5. hm' = m => (IsTable(hm)' <=> IsTable(m)')
  BY DEF IsTable, Reached, Ends, LastSlot, Length, Stops, Probe, Probes, Matches, HashOf, InUse
<1>6. moving'.to = m => (IsTable(moving.to)' <=> IsTable(m)')
  BY DEF IsTable, Reached, Ends, LastSlot, Length, Stops, Probe, Probes, Matches, HashOf, InUse
<1>7. QED
  BY <1>4, <1>5, <1>6

(* An operation that ends, and a step of an iteration.                     *)
LEMMA Settles ==
  ASSUME hash \in [Key -> Hashes], UNCHANGED hash, NEW d, IsTable(d), hm' = d,
         moving' = NotMoving, NEW c, Settled(c), call' = c, result' \in Answers
  PROVE  IInv'
<1>1. IsTable(hm)'
  BY SameTable
<1>2. moving'.to = Null /\ moving'.at = 0 /\ moving' = [to |-> moving'.to, at |-> moving'.at]
  BY DEF NotMoving
<1>3. IsTable(moving.to)'
  <2>1. PICK m : m = Null
    OBVIOUS
  <2>2. IsTable(m) /\ moving'.to = m
    BY <1>2, <2>1, NullIs
  <2>3. QED
    BY <2>2, SameTable
<1>4. moving'.at \in 0 .. hm'.capacity
  BY <1>2, TableType
<1>5. Settled(call)' /\ (moving = NotMoving)'
  BY DEF Settled, Idle, Each, NotMoving, Null
<1>6. QED
  BY <1>1, <1>2, <1>3, <1>4, <1>5 DEF IInv, Answers

-----------------------------------------------------------------------------
(* Each step is one of the dictionary's, or none.                          *)

LEMMA ContentsShow ==
  ASSUME IInv
  PROVE  Shows(Contents, EntriesOf(hm))
<1>1. PICK m : m = hm
  OBVIOUS
<1>2. Contents = ContentsOf(m)
  BY <1>1 DEF Contents, EntryOf, ContentsOf
<1>3. QED
  BY <1>1, <1>2, ContentsIs DEF IInv

LEMMA ContentsBecome ==
  ASSUME hash \in [Key -> Hashes], NEW d, IsTable(d), hm' = d,
         NEW g, Shows(g, EntriesOf(d))
  PROVE  Contents' = g
<1>1. Contents' = ContentsOf(d)
  BY DEF Contents, EntryOf, ContentsOf, InUse
<1>2. Shows(ContentsOf(d), EntriesOf(d))
  BY ContentsIs
<1>3. QED
  BY <1>1, <1>2, ShowsOnce

LEMMA SameContents ==
  UNCHANGED hm => UNCHANGED Contents
BY DEF Contents, EntryOf, InUse

LEMMA NothingLeft ==
  /\ call.op # "each" => Left = {}
  /\ \A c : call' = c /\ c.op # "each" => Left' = {}
BY DEF Left

(* A search that does not end changes nothing for the caller.              *)
LEMMA HangIsQuiet ==
  ASSUME IInv, Hang, call.op # "each"
  PROVE  IInv' /\ UNCHANGED D!vars
<1>1. PICK c, d : c = [op |-> "hung"] /\ d = hm
  OBVIOUS
<1>2. call' = c /\ Settled(c) /\ c.op # "each"
  BY <1>1 DEF Hang, Settled
<1>3. hm' = d /\ IsTable(d) /\ hash \in [Key -> Hashes]
  BY <1>1 DEF Hang, IInv
<1>4. UNCHANGED <<hash, hm, result>> /\ moving' = NotMoving
  BY DEF Hang
<1>5. result' \in Answers
  BY <1>4 DEF IInv
<1>6. IInv'
  BY <1>2, <1>3, <1>4, <1>5, Settles
<1>7. UNCHANGED Contents
  BY <1>4, SameContents
<1>8. UNCHANGED Left
  BY <1>2, NothingLeft
<1>9. QED
  BY <1>4, <1>6, <1>7, <1>8 DEF D!vars

LEMMA PlaceStep ==
  ASSUME IInv, call.op # "each", NEW m, IsTable(m), EntriesOf(m) = EntriesOf(hm),
         NEW op \in {"new", "update"}, NEW k \in Key, NEW v \in Value,
         Place(m, op, k, v)
  PROVE  IInv' /\ [D!Next]_(D!vars)
<1>1. CASE Hang
  BY <1>1, HangIsQuiet
<1>2. CASE ~ Hang
  <2>1. PICK f : f = Contents
    OBVIOUS
  <2>2. hash \in [Key -> Hashes] /\ Shows(f, EntriesOf(m))
    BY <2>1, ContentsShow DEF IInv
  <2>3. /\ UNCHANGED hash /\ moving' = NotMoving /\ call' = Idle
        /\ \E d : /\ IsTable(d) /\ hm' = d
                  /\ IF op = "new" /\ k \in DOMAIN f
                     THEN Shows(f, EntriesOf(d)) /\ result' = "failed"
                     ELSE Shows(Plus(f, k, v), EntriesOf(d)) /\ result' = "ok"
    BY <1>2, <2>2, PlaceIs
  <2>4. PICK d : /\ IsTable(d) /\ hm' = d
                 /\ IF op = "new" /\ k \in DOMAIN f
                    THEN Shows(f, EntriesOf(d)) /\ result' = "failed"
                    ELSE Shows(Plus(f, k, v), EntriesOf(d)) /\ result' = "ok"
    BY <2>3
  <2>5. PICK c : c = Idle
    OBVIOUS
  <2>6. Settled(c) /\ c.op # "each" /\ call' = c
    BY <2>3, <2>5 DEF Settled, Idle
  <2>7. result' \in Answers
    BY <2>4 DEF Answers
  <2>8. IInv'
    BY <2>2, <2>3, <2>4, <2>6, <2>7, Settles
  <2>9. Left = {} /\ Left' = {}
    BY <2>6, NothingLeft
  <2>10. CASE op = "new" /\ k \in DOMAIN f
    <3>1. Contents' = f /\ result' = "failed"
      BY <2>2, <2>4, <2>10, ContentsBecome
    <3>2. D!InsertNew(k, v)
      BY <2>1, <2>10, <3>1 DEF D!InsertNew, D!Returns
    <3>3. D!Next
      BY <2>9, <3>2 DEF D!Next, D!Call
    <3>4. QED
      BY <2>8, <3>3
  <2>11. CASE ~ (op = "new" /\ k \in DOMAIN f)
    <3>1. Contents' = Plus(f, k, v) /\ result' = "ok"
      BY <2>2, <2>4, <2>11, ContentsBecome
    <3>2. D!With(k, v)
      BY <2>1, <3>1 DEF D!With, Plus
    <3>3. D!InsertNew(k, v) \/ D!InsertUpdate(k, v)
      BY <2>1, <2>11, <3>1, <3>2 DEF D!InsertNew, D!InsertUpdate, D!Returns
    <3>4. D!Next
      BY <2>9, <3>3 DEF D!Next, D!Call
    <3>5. QED
      BY <2>8, <3>4
  <2>12. QED
    BY <2>10, <2>11
<1>3. QED
  BY <1>1, <1>2

(* A call that leaves the map alone.                                       *)
LEMMA ReturnStep ==
  ASSUME IInv, call = Idle, UNCHANGED <<hash, hm, moving, call>>, result' \in Answers
  PROVE  IInv' /\ UNCHANGED Contents /\ Left = {} /\ UNCHANGED Left
<1>1. PICK c, d : c = Idle /\ d = hm
  OBVIOUS
<1>2. call' = c /\ Settled(c) /\ c.op # "each" /\ call.op # "each"
  BY <1>1 DEF Settled, Idle
<1>3. hm' = d /\ IsTable(d) /\ hash \in [Key -> Hashes]
  BY <1>1 DEF IInv
<1>4. moving' = NotMoving
  BY DEF IInv, Inserting, Idle
<1>5. IInv'
  BY <1>2, <1>3, <1>4, Settles
<1>6. QED
  BY <1>2, <1>5, SameContents, NothingLeft

LEMMA FindStep ==
  ASSUME IInv, NEW k \in Key, Find(k)
  PROVE  IInv' /\ [D!Next]_(D!vars)
<1>1. call = Idle /\ call.op # "each"
  BY DEF Find, Idle
<1>2. CASE Hang
  BY <1>1, <1>2, HangIsQuiet
<1>3. PICK f, m : f = Contents /\ m = hm
  OBVIOUS
<1>4. IsTable(m) /\ hash \in [Key -> Hashes] /\ Shows(f, EntriesOf(m))
  BY <1>3, ContentsShow DEF IInv
<1>5. CASE ~ Hang
  <2>1. UNCHANGED <<hash, hm, moving, call>>
    BY <1>5 DEF Find
  <2>2. result' = (IF k \in DOMAIN f THEN f[k] ELSE "null") /\ result' \in Answers
    <3>1. CASE m.capacity = 0
      <4>1. InUse(m) = {}
        BY <3>1 DEF InUse
      <4>2. k \notin DOMAIN f
        BY <1>4, <4>1 DEF Shows, EntriesOf
      <4>3. QED
        BY <1>3, <3>1, <4>2 DEF Find, Answers
    <3>2. CASE m.capacity # 0
      <4>1. Ends(m, k)
        BY <1>3, <1>5, <3>2 DEF Find
      <4>2. result' = IF Found(m, k) THEN m.slots[LastSlot(m, k)].value ELSE "null"
        BY <1>3, <3>2, <4>1 DEF Find
      <4>3. /\ Found(m, k) <=> k \in DOMAIN f
            /\ Found(m, k) => m.slots[LastSlot(m, k)].value = f[k]
        BY <1>4, <4>1, ShowsFound
      <4>4. Found(m, k) => m.slots[LastSlot(m, k)].value \in Value
        BY <1>4, <4>1, FoundIs, SlotKinds
      <4>5. QED
        BY <4>2, <4>3, <4>4 DEF Answers
    <3>3. QED
      BY <3>1, <3>2
  <2>3. IInv' /\ UNCHANGED Contents /\ Left = {} /\ UNCHANGED Left
    BY <1>1, <2>1, <2>2, ReturnStep
  <2>4. D!Find(k)
    BY <1>3, <2>2, <2>3 DEF D!Find, D!Returns
  <2>5. QED
    BY <2>3, <2>4 DEF D!Next, D!Call
<1>6. QED
  BY <1>2, <1>5

LEMMA EraseStep ==
  ASSUME IInv, NEW k \in Key, Erase(k)
  PROVE  IInv' /\ [D!Next]_(D!vars)
<1>1. call = Idle /\ call.op # "each"
  BY DEF Erase, Idle
<1>2. CASE Hang
  BY <1>1, <1>2, HangIsQuiet
<1>3. PICK f, m, s : f = Contents /\ m = hm /\ s = LastSlot(m, k)
  OBVIOUS
<1>4. IsTable(m) /\ hash \in [Key -> Hashes] /\ Shows(f, EntriesOf(m))
  BY <1>3, ContentsShow DEF IInv
<1>5. CASE ~ Hang
  <2>1. Ends(m, k) /\ UNCHANGED <<hash, moving, call>>
    BY <1>3, <1>5 DEF Erase
  <2>2. /\ Found(m, k) <=> k \in DOMAIN f
        /\ Found(m, k) => m.slots[s].value = f[k]
    BY <1>3, <1>4, <2>1, ShowsFound
  <2>3. CASE Found(m, k)
    <3>1. PICK d, c : d = EraseOf(m, k) /\ c = Idle
      OBVIOUS
    <3>2. hm' = d /\ result' = m.slots[s].value
      BY <1>3, <2>1, <2>3, <3>1 DEF Erase, EraseOf
    <3>3. IsTable(d) /\ Shows(Minus(f, k), EntriesOf(d))
      BY <1>4, <2>1, <2>3, <3>1, ShowsErased
    <3>4. result' \in Answers
      <4>1. m.slots[s].value \in Value
        BY <1>3, <1>4, <2>1, <2>3, FoundIs, SlotKinds
      <4>2. QED
        BY <3>2, <4>1 DEF Answers
    <3>5. call' = c /\ Settled(c) /\ c.op # "each" /\ moving' = NotMoving
      BY <1>1, <2>1, <3>1 DEF IInv, Settled, Inserting, Idle
    <3>6. IInv'
      BY <1>4, <2>1, <3>2, <3>3, <3>4, <3>5, Settles
    <3>7. Contents' = Minus(f, k)
      BY <1>4, <3>2, <3>3, ContentsBecome
    <3>8. Left = {} /\ Left' = {}
      BY <1>1, <3>5, NothingLeft
    <3>9. D!Erase(k)
      BY <1>3, <2>2, <2>3, <3>2, <3>7 DEF D!Erase, D!Returns, Minus
    <3>10. QED
      BY <3>6, <3>8, <3>9 DEF D!Next, D!Call
  <2>4. CASE ~ Found(m, k)
    <3>1. UNCHANGED <<hash, hm, moving, call>> /\ result' = "null"
      BY <1>3, <2>1, <2>4 DEF Erase
    <3>2. IInv' /\ UNCHANGED Contents /\ Left = {} /\ UNCHANGED Left
      BY <1>1, <3>1, ReturnStep DEF Answers
    <3>3. f = [j \in DOMAIN f \ {k} |-> f[j]]
      <4>1. DOMAIN f \ {k} = DOMAIN f /\ f = [j \in DOMAIN f |-> f[j]]
        BY <1>4, <2>2, <2>4 DEF Shows
      <4>2. QED
        BY <4>1
    <3>4. D!Erase(k)
      BY <1>3, <2>2, <2>4, <3>1, <3>2, <3>3 DEF D!Erase, D!Returns
    <3>5. QED
      BY <3>2, <3>4 DEF D!Next, D!Call
  <2>5. QED
    BY <2>3, <2>4
<1>6. QED
  BY <1>2, <1>5

LEMMA InsertStep ==
  ASSUME IInv, NEW op \in {"new", "update"}, NEW k \in Key, NEW v \in Value,
         Insert(op, k, v)
  PROVE  IInv' /\ [D!Next]_(D!vars)
<1>1. PICK m : m = hm
  OBVIOUS
<1>2. call.op # "each" /\ Place(m, op, k, v)
  BY <1>1 DEF Insert, Idle
<1>3. IsTable(m) /\ EntriesOf(m) = EntriesOf(hm)
  BY <1>1 DEF IInv
<1>4. QED
  BY <1>2, <1>3, PlaceStep

LEMMA GrowFailsStep ==
  ASSUME IInv, NEW op \in {"new", "update"}, GrowFails(op)
  PROVE  IInv' /\ (UpdateCanFail = FALSE => [D!Next]_(D!vars))
<1>1. call = Idle /\ UNCHANGED <<hash, hm, moving, call>> /\ result' \in {"failed", "ok"}
  BY DEF GrowFails
<1>2. IInv' /\ UNCHANGED Contents /\ Left = {} /\ UNCHANGED Left
  BY <1>1, ReturnStep DEF Answers
<1>3. ASSUME UpdateCanFail = FALSE
      PROVE  D!Next
  <2>1. result' = "failed"
    BY <1>3 DEF GrowFails
  <2>2. QED
    BY <1>2, <2>1 DEF D!Next, D!Call, D!InsertFails, D!Returns
<1>4. QED
  BY <1>2, <1>3

(* The larger table is empty, and nothing is moved yet.                    *)
LEMMA StartGrowStep ==
  ASSUME IInv, NEW op \in {"new", "update"}, NEW k \in Key, NEW v \in Value,
         StartGrow(op, k, v)
  PROVE  IInv' /\ UNCHANGED D!vars
<1>1. call = Idle /\ call.op # "each" /\ UNCHANGED <<hash, hm, result>>
  BY DEF StartGrow, Idle
<1>2. PICK m, c, n : /\ m = hm /\ c = [op |-> op, key |-> k, value |-> v]
                     /\ n = IF hm.capacity = 0 THEN MinCapacity ELSE 2 * hm.capacity
  OBVIOUS
<1>3. IsTable(m) /\ m.capacity \in Nat
  BY <1>2, TableType DEF IInv
<1>4. n \in Nat
  BY <1>2, <1>3, HashMapAssumption
<1>5. PICK to : to = NewMap(n)
  OBVIOUS
<1>6. IsTable(to) /\ EntriesOf(to) = {}
  BY <1>4, <1>5, NewMapIs
<1>7. call' = c /\ moving' = [to |-> to, at |-> 0] /\ hm' = m
  BY <1>1, <1>2, <1>5 DEF StartGrow
<1>8. IInv'
  <2>1. IsTable(hm)' /\ IsTable(moving.to)'
    BY <1>1, <1>3, <1>6, <1>7, SameTable
  <2>2. Inserting(call)'
    BY <1>2, <1>7 DEF Inserting
  <2>3. Moved'
    BY <1>3, <1>6, <1>7, AllMoved DEF Moved
  <2>4. /\ moving' = [to |-> moving'.to, at |-> moving'.at]
        /\ moving'.at \in 0 .. hm'.capacity
    BY <1>3, <1>7
  <2>5. hash' \in [Key -> Hashes] /\ result' \in Answers
    BY <1>1 DEF IInv
  <2>6. QED
    BY <2>1, <2>2, <2>3, <2>4, <2>5 DEF IInv, Answers
<1>9. c.op # "each"
  BY <1>2
<1>10. UNCHANGED Contents /\ UNCHANGED Left
  BY <1>1, <1>7, <1>9, SameContents, NothingLeft
<1>11. QED
  BY <1>1, <1>8, <1>10 DEF D!vars

LEMMA MoveStep ==
  ASSUME IInv, Move
  PROVE  IInv' /\ UNCHANGED D!vars
<1>1. PICK m, to, at, e : m = hm /\ to = moving.to /\ at = moving.at /\ e = m.slots[at]
  OBVIOUS
<1>2. call.op \in {"new", "update"} /\ at < m.capacity
  BY <1>1 DEF Move, Growing
<1>3. CASE Hang
  BY <1>2, <1>3, HangIsQuiet
<1>4. CASE ~ Hang
  <2>1. /\ hash \in [Key -> Hashes] /\ IsTable(m) /\ IsTable(to) /\ m.capacity \in Nat
        /\ moving = [to |-> to, at |-> at] /\ result \in Answers
    BY <1>1, TableType DEF IInv
  <2>2. at \in 0 .. m.capacity - 1 /\ at + 1 \in 0 .. m.capacity
    <3>1. at \in 0 .. m.capacity
      BY <1>1 DEF IInv
    <3>2. QED
      BY <1>2, <2>1, <3>1
  <2>3. Inserting(call) /\ EntriesOf(to) = Before(m, at)
    BY <1>1, <1>2 DEF IInv, Moved, Settled, Idle, Each
  <2>4. UNCHANGED <<hash, hm, call, result>>
    BY <1>4 DEF Move
  <2>5. \E d : /\ moving' = [to |-> d, at |-> at + 1]
               /\ IsTable(d) /\ EntriesOf(d) = Before(m, at + 1)
    <3>1. CASE e \in {Unused, Rip}
      <4>1. moving' = [moving EXCEPT !.at = @ + 1]
        BY <1>1, <3>1 DEF Move
      <4>2. moving' = [to |-> to, at |-> at + 1]
        BY <2>1, <4>1
      <4>3. EntriesOf(to) = Before(m, at + 1)
        BY <1>1, <2>1, <2>2, <2>3, <3>1, NothingMoved
      <4>4. QED
        BY <2>1, <4>2, <4>3
    <3>2. CASE e \notin {Unused, Rip}
      <4>1. PICK d : d = Store(to, e.key, e.value)
        OBVIOUS
      <4>2. Ends(to, e.key) /\ moving' = [to |-> d, at |-> at + 1]
        BY <1>1, <1>4, <3>2, <4>1 DEF Move
      <4>3. IsTable(d) /\ EntriesOf(d) = Before(m, at + 1)
        BY <1>1, <2>1, <2>2, <2>3, <3>2, <4>1, <4>2, MoveIs
      <4>4. QED
        BY <4>2, <4>3
    <3>3. QED
      BY <3>1, <3>2
  <2>6. PICK d : /\ moving' = [to |-> d, at |-> at + 1]
                 /\ IsTable(d) /\ EntriesOf(d) = Before(m, at + 1)
    BY <2>5
  <2>7. IInv'
    <3>1. IsTable(hm)' /\ IsTable(moving.to)'
      <4>1. hm' = m /\ moving'.to = d
        BY <1>1, <2>4, <2>6
      <4>2. QED
        BY <2>1, <2>4, <2>6, <4>1, SameTable
    <3>2. Inserting(call)'
      BY <2>3, <2>4 DEF Inserting
    <3>3. Moved'
      BY <1>1, <2>4, <2>6 DEF Moved
    <3>4. /\ moving' = [to |-> moving'.to, at |-> moving'.at]
          /\ moving'.at \in 0 .. hm'.capacity
      BY <1>1, <2>2, <2>4, <2>6
    <3>5. hash' \in [Key -> Hashes] /\ result' \in Answers
      BY <2>1, <2>4
    <3>6. QED
      BY <3>1, <3>2, <3>3, <3>4, <3>5 DEF IInv, Answers
  <2>8. UNCHANGED Contents /\ UNCHANGED Left
    <3>1. PICK c : c = call
      OBVIOUS
    <3>2. call' = c /\ c.op # "each" /\ call.op # "each"
      BY <1>2, <2>4, <3>1
    <3>3. QED
      BY <2>4, <3>2, SameContents, NothingLeft
  <2>9. QED
    BY <2>4, <2>7, <2>8 DEF D!vars
<1>5. QED
  BY <1>3, <1>4

LEMMA EndGrowStep ==
  ASSUME IInv, EndGrow
  PROVE  IInv' /\ [D!Next]_(D!vars)
<1>1. PICK m, to, op, k, v : /\ m = hm /\ to = moving.to
                             /\ op = call.op /\ k = call.key /\ v = call.value
  OBVIOUS
<1>2. op \in {"new", "update"} /\ moving.at = m.capacity /\ Place(to, op, k, v)
  BY <1>1 DEF EndGrow, Growing
<1>3. call.op # "each" /\ k \in Key /\ v \in Value
  BY <1>1, <1>2 DEF IInv, Settled, Inserting, Idle, Each
<1>4. EntriesOf(to) = Before(m, m.capacity)
  BY <1>1, <1>2 DEF IInv, Moved, Settled, Idle, Each
<1>5. m.capacity \in Nat /\ IsTable(to)
  BY <1>1, TableType DEF IInv
<1>6. EntriesOf(to) = EntriesOf(hm)
  BY <1>1, <1>4, <1>5, AllMoved
<1>7. QED
  BY <1>2, <1>3, <1>5, <1>6, PlaceStep

-----------------------------------------------------------------------------
(* Iterating.                                                              *)

(* The keys of the entries from slot n on.                                 *)
KeysFrom(m, n) == {m.slots[s].key : s \in {t \in InUse(m) : t >= n}}

LEMMA LeftIs ==
  ASSUME NEW n, NEW d
  PROVE  /\ call = Each(n) => Left = KeysFrom(hm, n)
         /\ call' = Each(n) /\ hm' = d => Left' = KeysFrom(d, n)
BY DEF Left, KeysFrom, From, Each, InUse

LEMMA StartForEachStep ==
  ASSUME IInv, StartForEach
  PROVE  IInv' /\ [D!Next]_(D!vars)
<1>1. call = Idle /\ call.op # "each" /\ UNCHANGED <<hash, hm, moving, result>>
  BY DEF StartForEach, Idle
<1>2. PICK m, c, f : m = hm /\ c = Each(0) /\ f = Contents
  OBVIOUS
<1>3. call' = c /\ Settled(c) /\ hm' = m
  <2>1. \E n \in Nat : c = Each(n)
    BY <1>2
  <2>2. QED
    BY <1>1, <1>2, <2>1 DEF StartForEach, Settled
<1>4. IsTable(m) /\ hash \in [Key -> Hashes] /\ result' \in Answers /\ moving' = NotMoving
  BY <1>1, <1>2 DEF IInv, Inserting, Idle
<1>5. IInv'
  BY <1>1, <1>3, <1>4, Settles
<1>6. Left = {} /\ Left' = KeysFrom(m, 0)
  BY <1>1, <1>2, <1>3, NothingLeft, LeftIs
<1>7. KeysFrom(m, 0) = DOMAIN f
  <2>1. \A s \in InUse(m) : s >= 0
    BY DEF InUse
  <2>2. {t \in InUse(m) : t >= 0} = InUse(m)
    BY <2>1
  <2>3. DOMAIN f = {e.key : e \in EntriesOf(m)}
    BY <1>2, ContentsShow DEF Shows
  <2>4. QED
    BY <2>2, <2>3 DEF KeysFrom, EntriesOf
<1>8. UNCHANGED Contents
  BY <1>1, SameContents
<1>9. D!StartForEach
  BY <1>1, <1>2, <1>6, <1>7, <1>8 DEF D!StartForEach
<1>10. QED
  BY <1>5, <1>6, <1>9 DEF D!Next

LEMMA EndForEachStep ==
  ASSUME IInv, EndForEach
  PROVE  IInv' /\ UNCHANGED D!vars
<1>1. call.op = "each" /\ From(call.slot) = {} /\ UNCHANGED <<hash, hm, moving, result>>
  BY DEF EndForEach
<1>2. PICK m, c : m = hm /\ c = Idle
  OBVIOUS
<1>3. call' = c /\ Settled(c) /\ c.op # "each" /\ hm' = m
  BY <1>1, <1>2 DEF EndForEach, Settled, Idle
<1>4. IsTable(m) /\ hash \in [Key -> Hashes] /\ result' \in Answers /\ moving' = NotMoving
  BY <1>1, <1>2 DEF IInv, Inserting
<1>5. IInv'
  BY <1>1, <1>3, <1>4, Settles
<1>6. Left = {}
  BY <1>1 DEF Left
<1>7. Left' = {}
  BY <1>3, NothingLeft
<1>8. QED
  BY <1>1, <1>5, <1>6, <1>7, SameContents DEF D!vars

Least(T) == CHOOSE t \in T : \A u \in T : t <= u

(* The slot of the next entry, and what is left after it.                  *)
LEMMA NextEntry ==
  ASSUME NEW m, IsTable(m), NEW n \in Nat, NEW T, T = {t \in InUse(m) : t >= n}, T # {},
         NEW s, s = Least(T)
  PROVE  /\ s \in InUse(m) /\ s >= n /\ s \in Nat
         /\ KeysFrom(m, s + 1) = KeysFrom(m, n) \ {m.slots[s].key}
<1>1. InUse(m) \subseteq Nat
  BY TableType DEF InUse
<1>2. \E t \in T : \A u \in T : t <= u
  BY <1>1, LeastElement
<1>3. s \in T /\ \A u \in T : s <= u
  BY <1>2, Zenon DEF Least
<1>4. s \in InUse(m) /\ s >= n /\ s \in Nat
  BY <1>1, <1>3
<1>5. \A t, u \in InUse(m) : m.slots[t].key = m.slots[u].key => t = u
  BY DEF IsTable, Reached
<1>6. \A t \in InUse(m) : t >= s + 1 <=> t >= n /\ t # s
  <2>1. SUFFICES ASSUME NEW t \in InUse(m)
                 PROVE  t >= s + 1 <=> t >= n /\ t # s
    OBVIOUS
  <2>2. PICK x, y \in Nat : x = t /\ y = s
    BY <1>1, <1>4
  <2>3. x >= n => y <= x
    BY <1>3, <2>2
  <2>4. x >= y + 1 <=> x >= n /\ x # y
    <3>1. y >= n
      BY <1>4, <2>2
    <3>2. QED
      BY <2>3, <3>1
  <2>5. QED
    BY <2>2, <2>4
<1>7. {t \in InUse(m) : t >= s + 1} = T \ {s}
  BY <1>6
<1>8. KeysFrom(m, s + 1) = {m.slots[t].key : t \in T \ {s}}
  BY <1>7 DEF KeysFrom
<1>9. KeysFrom(m, n) = {m.slots[t].key : t \in T}
  BY DEF KeysFrom
<1>10. \A t \in T : t # s <=> m.slots[t].key # m.slots[s].key
  BY <1>4, <1>5
<1>11. {m.slots[t].key : t \in T \ {s}} = {m.slots[t].key : t \in T} \ {m.slots[s].key}
  BY <1>3, <1>10
<1>12. s \in InUse(m) /\ s >= n /\ s \in Nat
  BY <1>3, <1>4
<1>13. QED
  BY <1>8, <1>9, <1>11, <1>12

LEMMA VisitStep ==
  ASSUME IInv, NEW erases \in BOOLEAN, Visit(erases)
  PROVE  IInv' /\ [D!Next]_(D!vars)
<1>1. PICK m, n, f : m = hm /\ n = call.slot /\ f = Contents
  OBVIOUS
<1>2. PICK T : T = {t \in InUse(m) : t >= n}
  OBVIOUS
<1>3. PICK s : s = Least(T)
  OBVIOUS
<1>4. PICK k : k = m.slots[s].key
  OBVIOUS
<1>5. T = From(call.slot) /\ s = NextValidSlot(call.slot)
  BY <1>1, <1>2, <1>3 DEF From, NextValidSlot, Least
<1>6. call.op = "each" /\ T # {}
  BY <1>5 DEF Visit
<1>7. /\ n \in Nat /\ call = Each(n) /\ moving = NotMoving
      /\ IsTable(m) /\ hash \in [Key -> Hashes]
  BY <1>1, <1>6 DEF IInv, Settled, Inserting, Idle, Each
<1>8. /\ s \in InUse(m) /\ s >= n /\ s \in Nat
      /\ KeysFrom(m, s + 1) = KeysFrom(m, n) \ {k}
  <2>1. s = Least({t \in InUse(m) : t >= n}) /\ {t \in InUse(m) : t >= n} # {}
    BY <1>2, <1>3, <1>6
  <2>2. QED
    BY <1>4, <1>7, <2>1, NextEntry
<1>9. Ends(m, k) /\ LastSlot(m, k) = s /\ k \in Key
  BY <1>4, <1>7, <1>8, TableType, SlotKinds DEF IsTable, Reached
<1>10. Found(m, k)
  BY <1>7, <1>8, <1>9, FoundIs
<1>11. PICK d, c : /\ d = IF erases THEN EraseOf(m, k) ELSE m
                   /\ c = Each(s + 1)
  OBVIOUS
<1>12. result' = k /\ hm' = d /\ call' = c /\ UNCHANGED <<hash, moving>>
  <2>1. /\ result' = k /\ call' = c /\ UNCHANGED <<hash, moving>>
        /\ hm' = IF erases /\ Found(m, k)
                 THEN [m EXCEPT !.slots[LastSlot(m, k)] = Rip, !.count = @ - 1]
                 ELSE m
    BY <1>1, <1>4, <1>5, <1>9, <1>11 DEF Visit
  <2>2. QED
    BY <1>10, <1>11, <2>1 DEF EraseOf
<1>13. Shows(f, EntriesOf(m))
  BY <1>1, ContentsShow
<1>14. /\ IsTable(d) /\ KeysFrom(d, s + 1) = KeysFrom(m, s + 1)
       /\ Contents' = IF erases THEN Minus(f, k) ELSE f
  <2>1. CASE ~ erases
    BY <1>7, <1>11, <1>12, <1>13, <2>1, ContentsBecome
  <2>2. CASE erases
    <3>1. d = EraseOf(m, k)
      BY <1>11, <2>2
    <3>2. IsTable(d) /\ Shows(Minus(f, k), EntriesOf(d))
      BY <1>7, <1>9, <1>10, <1>13, <3>1, ShowsErased
    <3>3. InUse(d) = InUse(m) \ {s} /\ \A t \in InUse(d) : d.slots[t] = m.slots[t]
      BY <1>7, <1>9, <1>10, <3>1, EraseIs
    <3>4. {t \in InUse(d) : t >= s + 1} = {t \in InUse(m) : t >= s + 1}
      BY <1>8, <3>3
    <3>5. KeysFrom(d, s + 1) = KeysFrom(m, s + 1)
      BY <3>3, <3>4 DEF KeysFrom
    <3>6. Contents' = Minus(f, k)
      BY <1>7, <1>12, <3>2, ContentsBecome
    <3>7. QED
      BY <2>2, <3>2, <3>5, <3>6
  <2>3. QED
    BY <2>1, <2>2
<1>15. IInv'
  <2>1. Settled(c)
    <3>1. s + 1 \in Nat
      BY <1>8
    <3>2. QED
      BY <1>11, <3>1 DEF Settled
  <2>2. result' \in Answers /\ moving' = NotMoving
    BY <1>7, <1>9, <1>12 DEF Answers
  <2>3. QED
    BY <1>7, <1>12, <1>14, <2>1, <2>2, Settles
<1>16. Left = KeysFrom(m, n) /\ Left' = KeysFrom(d, s + 1)
  <2>1. call' = Each(s + 1)
    BY <1>11, <1>12
  <2>2. QED
    BY <1>1, <1>7, <1>12, <2>1, LeftIs
<1>17. k \in Left /\ Left' = Left \ {k}
  <2>1. k \in KeysFrom(m, n)
    BY <1>4, <1>8 DEF KeysFrom
  <2>2. QED
    BY <1>8, <1>14, <1>16, <2>1
<1>18. D!Visit(k)
  BY <1>1, <1>12, <1>14, <1>17 DEF D!Visit, D!Returns, Minus
<1>19. QED
  BY <1>15, <1>17, <1>18 DEF D!Next

-----------------------------------------------------------------------------

(* The invariant holds, and each step maps to one of the dictionary.       *)
LEMMA Starts ==
  ASSUME Init
  PROVE  IInv /\ D!Init
<1>1. PICK m : m = Null
  OBVIOUS
<1>2. IsTable(m) /\ EntriesOf(m) = {} /\ m.capacity = 0
  BY <1>1, NullIs
<1>3. hm = m /\ moving = [to |-> m, at |-> 0] /\ call = Idle /\ result = "none"
  BY <1>1 DEF Init, NotMoving
<1>4. IsTable(hm) /\ IsTable(moving.to) /\ moving.to = m /\ moving.at = 0
  BY <1>2, <1>3
<1>5. moving.at \in 0 .. hm.capacity
  BY <1>2, <1>3, <1>4
<1>6. IInv
  BY <1>3, <1>4, <1>5 DEF Init, IInv, Settled, Answers
<1>7. Shows(Contents, {})
  BY <1>2, <1>3, <1>6, ContentsShow
<1>8. Contents = [k \in {} |-> k]
  BY <1>7 DEF Shows
<1>9. Left = {}
  BY <1>3, NothingLeft DEF Idle
<1>10. QED
  BY <1>3, <1>6, <1>8, <1>9 DEF D!Init

LEMMA Steps ==
  ASSUME IInv, [Next]_vars
  PROVE  IInv' /\ (UpdateCanFail = FALSE => [D!Next]_(D!vars))
<1>1. CASE UNCHANGED vars
  <2>1. PICK d, to : d = hm /\ to = moving.to
    OBVIOUS
  <2>2. IsTable(d) /\ IsTable(to) /\ hm' = d /\ moving'.to = to
    BY <1>1, <2>1 DEF IInv, vars
  <2>3. IsTable(hm)' /\ IsTable(moving.to)'
    BY <1>1, <2>2, SameTable DEF vars
  <2>4. IInv'
    BY <1>1, <2>3 DEF IInv, vars, Settled, Inserting, Moved, Answers
  <2>5. UNCHANGED D!vars
    BY <1>1 DEF D!vars, vars, Contents, EntryOf, Left, From, InUse
  <2>6. QED
    BY <2>4, <2>5
<1>2. CASE Move
  BY <1>2, MoveStep
<1>3. CASE EndGrow
  BY <1>3, EndGrowStep
<1>4. CASE StartForEach
  BY <1>4, StartForEachStep
<1>5. CASE EndForEach
  BY <1>5, EndForEachStep
<1>6. ASSUME NEW erases \in BOOLEAN, Visit(erases)
      PROVE  IInv' /\ [D!Next]_(D!vars)
  BY <1>6, VisitStep
<1>7. ASSUME NEW k \in Key, Find(k) \/ Erase(k)
      PROVE  IInv' /\ [D!Next]_(D!vars)
  BY <1>7, FindStep, EraseStep
<1>8. ASSUME NEW op \in {"new", "update"}, GrowFails(op)
      PROVE  IInv' /\ (UpdateCanFail = FALSE => [D!Next]_(D!vars))
  BY <1>8, GrowFailsStep
<1>9. ASSUME NEW op \in {"new", "update"}, NEW k \in Key, NEW v \in Value,
             Insert(op, k, v) \/ StartGrow(op, k, v)
      PROVE  IInv' /\ [D!Next]_(D!vars)
  BY <1>9, InsertStep, StartGrowStep
<1>10. QED
  BY <1>1, <1>2, <1>3, <1>4, <1>5, <1>6, <1>7, <1>8, <1>9 DEF Next

(* A set that contains 0, and with each number its successor, contains all.*)
LEMMA SetInduction ==
  ASSUME NEW S, 0 \in S, \A n \in Nat : n \in S => n + 1 \in S
  PROVE  \A n \in Nat : n \in S
<1>1. SUFFICES ASSUME Nat \ S # {}
               PROVE  FALSE
  OBVIOUS
<1>2. PICK m \in Nat \ S : \A y \in Nat \ S : m <= y
  BY <1>1, LeastElement
<1>3. m - 1 \in Nat /\ m - 1 \in S
  BY <1>2
<1>4. QED
  BY <1>3

-----------------------------------------------------------------------------
(* Powers of two.                                                          *)

LEMMA OddProduct ==
  ASSUME NEW a \in Nat, NEW b \in Nat, a % 2 = 1, b % 2 = 1
  PROVE  (a * b) % 2 = 1
<1>1. PICK i \in Nat : a = 2 * i + 1
  <2>1. a \div 2 \in Nat /\ a = 2 * (a \div 2) + 1
    OBVIOUS
  <2>2. QED
    BY <2>1
<1>2. PICK j \in Nat : b = 2 * j + 1
  <2>1. b \div 2 \in Nat /\ b = 2 * (b \div 2) + 1
    OBVIOUS
  <2>2. QED
    BY <2>1
<1>3. PICK k \in Nat : k = 2 * (i * j) + i + j
  OBVIOUS
<1>4. a * b = 2 * k + 1
  BY <1>1, <1>2, <1>3
<1>5. (2 * k + 1) % 2 = 1
  OBVIOUS
<1>6. QED
  BY <1>4, <1>5

LEMMA EvenHalf ==
  ASSUME NEW a \in Nat, a % 2 # 1
  PROVE  \E i \in Nat : a = 2 * i
<1>1. a \div 2 \in Nat /\ a = 2 * (a \div 2)
  OBVIOUS
<1>2. QED
  BY <1>1

LEMMA PowerHalves ==
  ASSUME NEW n \in Nat, PowerOfTwo(n), n # 1
  PROVE  \E m \in Nat : n = 2 * m /\ PowerOfTwo(m)
<1>1. n \in 1 .. n /\ 1 \in 1 .. n /\ n * 1 = n
  BY DEF PowerOfTwo
<1>2. n % 2 # 1
  BY <1>1 DEF PowerOfTwo
<1>3. PICK m \in Nat : n = 2 * m
  BY <1>2, EvenHalf
<1>4. m > 0
  BY <1>3 DEF PowerOfTwo
<1>5. ASSUME NEW d \in 1 .. m, NEW q \in 1 .. m, d * q = m, d % 2 = 1
      PROVE  d = 1
  <2>1. d \in 1 .. n /\ 2 * q \in 1 .. n
    BY <1>3
  <2>2. d * (2 * q) = n
    <3>1. d * (2 * q) = 2 * (d * q)
      OBVIOUS
    <3>2. QED
      BY <1>3, <1>5, <3>1
  <2>3. QED
    BY <1>5, <2>1, <2>2 DEF PowerOfTwo
<1>6. QED
  BY <1>3, <1>4, <1>5 DEF PowerOfTwo

LEMMA PowerDoubles ==
  ASSUME NEW n \in Nat, PowerOfTwo(n)
  PROVE  PowerOfTwo(2 * n)
<1>1. n > 0
  BY DEF PowerOfTwo
<1>2. ASSUME NEW d \in 1 .. 2 * n, NEW q \in 1 .. 2 * n, d * q = 2 * n, d % 2 = 1
      PROVE  d = 1
  <2>1. (2 * n) % 2 # 1
    OBVIOUS
  <2>2. q % 2 # 1
    BY <1>2, <2>1, OddProduct
  <2>3. PICK r \in Nat : q = 2 * r
    BY <2>2, EvenHalf
  <2>4. d * r = n
    <3>1. d * (2 * r) = 2 * (d * r)
      OBVIOUS
    <3>2. d * r \in Nat
      OBVIOUS
    <3>3. QED
      BY <1>2, <2>3, <3>1, <3>2
  <2>5. r \in 1 .. n
    BY <1>2, <2>3
  <2>6. d \in 1 .. n
    <3>1. r >= 1
      BY <2>5
    <3>2. d * r >= d
      BY <3>1
    <3>3. QED
      BY <2>4, <3>2
  <2>7. QED
    BY <1>2, <2>4, <2>5, <2>6 DEF PowerOfTwo
<1>3. QED
  BY <1>1, <1>2 DEF PowerOfTwo

(* If a power of two divides a product, an odd factor has no part in it.   *)
Divides(n, y) == \E z \in Nat : y = n * z

LEMMA OddFactor ==
  ASSUME NEW n \in Nat, PowerOfTwo(n)
  PROVE  \A x, y, q \in Nat : x % 2 = 1 /\ x * y = n * q => Divides(n, y)
<1> DEFINE Cancels(m) ==
             \A x, y, q \in Nat : x % 2 = 1 /\ x * y = m * q => Divides(m, y)
           S == {m \in Nat : \A k \in 1 .. m : PowerOfTwo(k) => Cancels(k)}
<1>1. 0 \in S
  OBVIOUS
<1>2. ASSUME NEW m \in Nat, m \in S
      PROVE  m + 1 \in S
  <2>1. PICK k \in Nat : k = m + 1
    OBVIOUS
  <2>2. SUFFICES ASSUME PowerOfTwo(k)
                 PROVE  Cancels(k)
    <3> HIDE DEF Cancels
    <3>1. k \in S <=> \A i \in 1 .. k : PowerOfTwo(i) => Cancels(i)
      OBVIOUS
    <3>2. \A i \in 1 .. m : PowerOfTwo(i) => Cancels(i)
      BY <1>2
    <3>3. \A i \in 1 .. k : i \in 1 .. m \/ i = k
      BY <2>1
    <3>4. QED
      BY <2>1, <2>2, <3>1, <3>2, <3>3
  <2>3. SUFFICES ASSUME NEW x \in Nat, NEW y \in Nat, NEW q \in Nat,
                        x % 2 = 1, x * y = k * q
                 PROVE  Divides(k, y)
    OBVIOUS
  <2>4. CASE k = 1
    BY <2>4 DEF Divides
  <2>5. CASE k # 1
    <3>1. PICK l \in Nat : k = 2 * l /\ PowerOfTwo(l)
      BY <2>2, <2>5, PowerHalves
    <3>2. l \in 1 .. m
      BY <2>1, <3>1 DEF PowerOfTwo
    <3>3. Cancels(l)
      BY <1>2, <3>1, <3>2
    <3>4. PICK r \in Nat : r = l * q
      OBVIOUS
    <3>5. x * y = 2 * r
      <4>1. (2 * l) * q = 2 * (l * q)
        OBVIOUS
      <4>2. QED
        BY <2>3, <3>1, <3>4, <4>1
    <3>6. (2 * r) % 2 # 1
      OBVIOUS
    <3>7. y % 2 # 1
      BY <2>3, <3>5, <3>6, OddProduct
    <3>8. PICK w \in Nat : y = 2 * w
      BY <3>7, EvenHalf
    <3>9. x * w = l * q
      <4>1. x * (2 * w) = 2 * (x * w) /\ x * w \in Nat
        OBVIOUS
      <4>2. QED
        BY <3>4, <3>5, <3>8, <4>1
    <3>10. PICK z \in Nat : w = l * z
      <4>1. x % 2 = 1 /\ x * w = l * q => Divides(l, w)
        BY <3>3, Zenon
      <4>2. QED
        BY <2>3, <3>9, <4>1 DEF Divides
    <3>11. y = k * z
      <4>1. (2 * l) * z = 2 * (l * z)
        OBVIOUS
      <4>2. QED
        BY <3>1, <3>8, <3>10, <4>1
    <3>12. QED
      BY <3>11 DEF Divides
  <2>6. QED
    BY <2>4, <2>5
<1> HIDE DEF S
<1>3. \A m \in Nat : m \in S
  BY <1>1, <1>2, SetInduction
<1>4. n \in 1 .. n
  BY DEF PowerOfTwo
<1>5. QED
  BY <1>3, <1>4 DEF S

LEMMA NoMultipleBetween ==
  ASSUME NEW n \in Nat, NEW y \in Nat, 0 < y, y < n
  PROVE  ~ Divides(n, y)
<1>1. SUFFICES ASSUME NEW z \in Nat, y = n * z
               PROVE  FALSE
  BY DEF Divides
<1>2. CASE z = 0
  <2>1. n * 0 = 0
    OBVIOUS
  <2>2. QED
    BY <1>1, <1>2, <2>1
<1>3. CASE z # 0
  <2>1. z >= 1
    BY <1>3
  <2>2. n * z >= n
    BY <2>1
  <2>3. QED
    BY <1>1, <2>2
<1>4. QED
  BY <1>2, <1>3

-----------------------------------------------------------------------------
(* Probing, in a table whose capacity is a power of two.                   *)

(* The distance of the i-th probe from the first: 0, 1, 3, 6, 10 ...       *)
Triangle(i) == (i * (i + 1)) \div 2

LEMMA TriangleIs ==
  ASSUME NEW i \in Nat
  PROVE  Triangle(i) \in Nat /\ 2 * Triangle(i) = i * (i + 1)
<1>1. PICK p \in Nat : p = i * (i + 1)
  OBVIOUS
<1>2. PICK k \in Nat : p = 2 * k
  <2>1. CASE i % 2 # 1
    <3>1. PICK j \in Nat : i = 2 * j
      BY <2>1, EvenHalf
    <3>2. (2 * j) * (i + 1) = 2 * (j * (i + 1)) /\ j * (i + 1) \in Nat
      OBVIOUS
    <3>3. QED
      BY <1>1, <3>1, <3>2
  <2>2. CASE i % 2 = 1
    <3>1. (i + 1) % 2 # 1
      BY <2>2
    <3>2. PICK j \in Nat : i + 1 = 2 * j
      BY <3>1, EvenHalf
    <3>3. i * (2 * j) = 2 * (i * j) /\ i * j \in Nat
      OBVIOUS
    <3>4. QED
      BY <1>1, <3>2, <3>3
  <2>3. QED
    BY <2>1, <2>2
<1>3. p \div 2 = k
  BY <1>2
<1>4. QED
  BY <1>1, <1>2, <1>3 DEF Triangle

(* Two numbers with the same remainder are a multiple apart.               *)
LEMMA SameRemainder ==
  ASSUME NEW c \in Nat \ {0}, NEW x \in Nat, NEW y \in Nat, x <= y, x % c = y % c
  PROVE  \E q \in Nat : y - x = c * q
<1>1. PICK a \in Nat, b \in Nat : a = x \div c /\ b = y \div c
  OBVIOUS
<1>2. x = c * a + (x % c) /\ y = c * b + (y % c) /\ x % c \in Nat
  BY <1>1
<1>3. PICK r \in Nat : x = c * a + r /\ y = c * b + r
  BY <1>2
<1>4. c * b >= c * a
  BY <1>3
<1>5. b >= a
  BY <1>4
<1>6. PICK q \in Nat : q = b - a
  BY <1>5
<1>7. c * q = c * b - c * a
  BY <1>6
<1>8. QED
  BY <1>3, <1>7

(* A capacity's worth of probes are all of different slots.                *)
LEMMA ProbesDiffer ==
  ASSUME NEW c \in Nat, PowerOfTwo(c), NEW h \in Nat,
         NEW i \in 0 .. c - 1, NEW j \in 0 .. c - 1, i < j
  PROVE  (h + Triangle(i)) % c # (h + Triangle(j)) % c
<1>1. SUFFICES ASSUME (h + Triangle(i)) % c = (h + Triangle(j)) % c
               PROVE  FALSE
  OBVIOUS
<1>2. c \in Nat \ {0} /\ i \in Nat /\ j \in Nat
  BY DEF PowerOfTwo
<1>3. PICK s \in Nat, t \in Nat : /\ s = Triangle(i) /\ 2 * s = i * (i + 1)
                                  /\ t = Triangle(j) /\ 2 * t = j * (j + 1)
  BY <1>2, TriangleIs
<1>4. PICK a \in Nat, b \in Nat : a = j - i /\ b = i + j + 1
  BY <1>2
<1>5. a * b = 2 * t - 2 * s
  <2>1. a * b = j * (j + 1) - i * (i + 1)
    BY <1>2, <1>4
  <2>2. QED
    BY <1>3, <2>1
<1>6. s <= t
  <2>1. a * b >= 0
    OBVIOUS
  <2>2. QED
    BY <1>5, <2>1
<1>7. PICK q \in Nat : t - s = c * q
  <2>1. h + s <= h + t /\ h + s \in Nat /\ h + t \in Nat
    BY <1>6
  <2>2. \E q \in Nat : (h + t) - (h + s) = c * q
    BY <1>1, <1>2, <1>3, <2>1, SameRemainder
  <2>3. QED
    BY <2>2
<1>8. PICK n \in Nat : n = 2 * c
  OBVIOUS
<1>9. a * b = n * q /\ b * a = n * q
  <2>1. (2 * c) * q = 2 * (c * q) /\ c * q \in Nat
    OBVIOUS
  <2>2. a * b = b * a
    OBVIOUS
  <2>3. QED
    BY <1>5, <1>7, <1>8, <2>1, <2>2
<1>10. PowerOfTwo(n)
  BY <1>8, PowerDoubles
<1>11. 0 < a /\ a < n /\ 0 < b /\ b < n
  BY <1>2, <1>4, <1>8
<1>12. a % 2 = 1 \/ b % 2 = 1
  <2>1. a + b = 2 * j + 1
    BY <1>4
  <2>2. QED
    BY <2>1
<1>13. CASE a % 2 = 1
  BY <1>9, <1>10, <1>11, <1>13, OddFactor, NoMultipleBetween
<1>14. CASE b % 2 = 1
  BY <1>9, <1>10, <1>11, <1>14, OddFactor, NoMultipleBetween
<1>15. QED
  BY <1>12, <1>13, <1>14

(* So they are of all slots.                                               *)
LEMMA ProbesReachAll ==
  ASSUME NEW m, m.capacity \in Nat, PowerOfTwo(m.capacity), NEW h \in Nat,
         NEW s \in 0 .. m.capacity - 1
  PROVE  \E i \in Probes(m) : Probe(m, h, i) = s
<1>1. PICK c \in Nat \ {0} : c = m.capacity
  BY DEF PowerOfTwo
<1>2. PICK I : I = 0 .. c - 1
  OBVIOUS
<1>3. PICK f : f = [i \in I |-> Probe(m, h, i)]
  OBVIOUS
<1>4. f \in [I -> I]
  BY <1>1, <1>2, <1>3, ProbeType
<1>5. ASSUME NEW i \in I, NEW j \in I, i < j
      PROVE  f[i] # f[j]
  BY <1>1, <1>2, <1>3, <1>5, ProbesDiffer DEF Probe, Triangle
<1>6. f \in Injection(I, I)
  <2>1. ASSUME NEW i \in I, NEW j \in I, f[i] = f[j]
        PROVE  i = j
    BY <1>2, <1>5, <2>1
  <2>2. QED
    BY <1>4, <2>1 DEF Injection, IsInjective
<1>7. f \in Surjection(I, I)
  <2>1. IsFiniteSet(I)
    BY <1>2, FS_Interval
  <2>2. QED
    BY <1>6, <2>1, FS_Injection
<1>8. PICK i \in I : f[i] = s
  BY <1>1, <1>2, <1>7 DEF Surjection
<1>9. i \in Probes(m)
  BY <1>1, <1>2 DEF Probes
<1>10. QED
  BY <1>3, <1>8, <1>9

(* A search ends at an unused slot, if there is one.                       *)
LEMMA UnusedEndsSearch ==
  ASSUME hash \in [Key -> Hashes], NEW m, m.capacity \in Nat, PowerOfTwo(m.capacity),
         NEW s \in 0 .. m.capacity - 1, m.slots[s] = Unused, NEW k \in Key
  PROVE  Ends(m, k)
<1>1. PICK h \in Nat : h = HashOf(k)
  BY HashIs
<1>2. PICK i \in Probes(m) : Probe(m, h, i) = s
  BY <1>1, ProbesReachAll
<1>3. Stops(m, k, i)
  BY <1>1, <1>2 DEF Stops
<1>4. QED
  BY <1>3 DEF Ends

-----------------------------------------------------------------------------
(* Capacities.                                                             *)

Sized(m) == m.capacity = 0 \/ PowerOfTwo(m.capacity)

Capacities == Sized(hm) /\ Sized(moving.to)

LEMMA SameSize ==
  ASSUME NEW d, NEW to, Sized(d), Sized(to), hm' = d, moving'.to = to
  PROVE  Capacities'
BY DEF Capacities, Sized

LEMMA NullSized == Sized(Null) /\ NotMoving.to = Null
BY NullIs DEF Sized, NotMoving

LEMMA StoreKeepsSize ==
  ASSUME NEW m, IsTable(m), Sized(m), NEW k, NEW v
  PROVE  Sized(Store(m, k, v))
<1>1. PICK f, e, n : f = FreeSlot(m, k) /\ e = Entry(k, HashOf(k), v) /\ n = m.count + 1
  OBVIOUS
<1>2. Store(m, k, v) = [m EXCEPT !.slots[f] = e, !.count = n]
  BY <1>1 DEF Store
<1>3. m = [capacity |-> m.capacity, count |-> m.count, slots |-> m.slots]
  BY DEF IsTable, Tables
<1>4. Store(m, k, v).capacity = m.capacity
  BY <1>2, <1>3, Zenon
<1>5. QED
  BY <1>4 DEF Sized

LEMMA HangKeepsSizes ==
  ASSUME Capacities, Hang
  PROVE  Capacities'
<1>1. PICK d, to : d = hm /\ to = Null
  OBVIOUS
<1>2. Sized(d) /\ Sized(to) /\ hm' = d /\ moving'.to = to
  BY <1>1, NullSized DEF Hang, Capacities
<1>3. QED
  BY <1>2, SameSize

LEMMA PlaceKeepsSizes ==
  ASSUME hash \in [Key -> Hashes], Capacities, NEW m, IsTable(m), Sized(m),
         NEW op, NEW k \in Key, NEW v \in Value, Place(m, op, k, v)
  PROVE  Capacities'
<1>1. CASE ~ Ends(m, k)
  BY <1>1, HangKeepsSizes DEF Place
<1>2. CASE Ends(m, k)
  <2>1. PICK d : d = IF ~ Found(m, k) THEN Store(m, k, v)
                     ELSE IF op = "update" THEN Update(m, k, v) ELSE m
    OBVIOUS
  <2>2. hm' = d /\ moving' = NotMoving
    BY <1>2, <2>1 DEF Place
  <2>3. CASE ~ Found(m, k)
    BY <2>1, <2>2, <2>3, StoreKeepsSize, NullSized, SameSize
  <2>4. CASE Found(m, k) /\ op = "update"
    <3>1. d.capacity = m.capacity
      BY <1>2, <2>1, <2>4, UpdateIs
    <3>2. Sized(d)
      BY <3>1 DEF Sized
    <3>3. QED
      BY <2>2, <3>2, NullSized, SameSize
  <2>5. CASE Found(m, k) /\ op # "update"
    BY <2>1, <2>2, <2>5, NullSized, SameSize
  <2>6. QED
    BY <2>3, <2>4, <2>5
<1>3. QED
  BY <1>1, <1>2

LEMMA EraseKeepsSizes ==
  ASSUME hash \in [Key -> Hashes], Capacities, IsTable(hm), NEW k \in Key,
         Ends(hm, k), Found(hm, k),
         NEW d, d = EraseOf(hm, k), hm' = d, UNCHANGED moving
  PROVE  Capacities'
<1>1. d.capacity = hm.capacity
  BY EraseIs
<1>2. PICK to : to = moving.to
  OBVIOUS
<1>3. Sized(d) /\ Sized(to)
  BY <1>1, <1>2 DEF Capacities, Sized
<1>4. QED
  BY <1>2, <1>3, SameSize

LEMMA NothingResized ==
  ASSUME Capacities, UNCHANGED <<hm, moving>>
  PROVE  Capacities'
BY DEF Capacities, Sized

LEMMA VisitedIsInUse ==
  ASSUME IsTable(hm), NEW n, From(n) # {}
  PROVE  NextValidSlot(n) \in InUse(hm)
<1>1. InUse(hm) \subseteq Nat
  BY TableType DEF InUse
<1>2. From(n) \in SUBSET Nat /\ From(n) \subseteq InUse(hm)
  BY <1>1 DEF From
<1>3. \E t \in From(n) : \A u \in From(n) : t <= u
  BY <1>2, LeastElement
<1>4. NextValidSlot(n) \in From(n)
  BY <1>3, Zenon DEF NextValidSlot
<1>5. QED
  BY <1>2, <1>4

LEMMA StepsKeepSizes ==
  ASSUME IInv, Capacities, [Next]_vars
  PROVE  Capacities'
<1>1. hash \in [Key -> Hashes] /\ IsTable(hm) /\ IsTable(moving.to)
  BY DEF IInv
<1>2. CASE UNCHANGED vars
  BY <1>2, NothingResized DEF vars
<1>3. CASE Move
  <2>1. PICK e : e = hm.slots[moving.at]
    OBVIOUS
  <2>2. CASE Hang
    BY <2>2, HangKeepsSizes
  <2>3. CASE ~ Hang /\ e \in {Unused, Rip}
    <3>1. moving' = [moving EXCEPT !.at = @ + 1] /\ hm' = hm
      BY <1>3, <2>1, <2>3 DEF Move
    <3>2. moving'.to = moving.to
      BY <3>1 DEF IInv
    <3>3. QED
      BY <3>1, <3>2 DEF Capacities, Sized
  <2>4. CASE ~ Hang /\ e \notin {Unused, Rip}
    <3>1. PICK d, m : d = Store(moving.to, e.key, e.value) /\ m = hm
      OBVIOUS
    <3>2. moving'.to = d /\ hm' = m
      BY <1>3, <2>1, <2>4, <3>1 DEF Move
    <3>3. Sized(d) /\ Sized(m)
      BY <1>1, <3>1, StoreKeepsSize DEF Capacities
    <3>4. QED
      BY <3>2, <3>3, SameSize
  <2>5. QED
    BY <2>2, <2>3, <2>4
<1>4. CASE EndGrow
  <2>1. Inserting(call)
    BY <1>4 DEF EndGrow, Growing, IInv, Settled, Idle, Each
  <2>2. QED
    BY <1>1, <1>4, <2>1, PlaceKeepsSizes DEF EndGrow, Inserting, Capacities
<1>5. CASE StartForEach
  BY <1>5, NothingResized DEF StartForEach
<1>6. CASE EndForEach
  BY <1>6, NothingResized DEF EndForEach
<1>7. ASSUME NEW erases \in BOOLEAN, Visit(erases)
      PROVE  Capacities'
  <2>1. PICK k : k = hm.slots[NextValidSlot(call.slot)].key
    OBVIOUS
  <2>2. CASE erases /\ ~ Ends(hm, k)
    BY <1>7, <2>1, <2>2, HangKeepsSizes DEF Visit
  <2>3. CASE erases /\ Ends(hm, k) /\ Found(hm, k)
    <3>1. PICK d : d = EraseOf(hm, k)
      OBVIOUS
    <3>2. hm' = d /\ UNCHANGED moving
      BY <1>7, <2>1, <2>3, <3>1 DEF Visit, EraseOf
    <3>3. k \in Key
      <4>1. PICK s \in InUse(hm) : s = NextValidSlot(call.slot)
        BY <1>1, <1>7, VisitedIsInUse DEF Visit
      <4>2. QED
        BY <1>1, <2>1, <4>1, TableType, SlotKinds
    <3>4. QED
      BY <1>1, <2>3, <3>1, <3>2, <3>3, EraseKeepsSizes
  <2>4. CASE ~ erases \/ (Ends(hm, k) /\ ~ Found(hm, k))
    <3>1. UNCHANGED <<hm, moving>>
      BY <1>7, <2>1, <2>4 DEF Visit
    <3>2. QED
      BY <3>1, NothingResized
  <2>5. QED
    BY <2>2, <2>3, <2>4
<1>8. ASSUME NEW k \in Key, Find(k)
      PROVE  Capacities'
  <2>1. Hang \/ UNCHANGED <<hm, moving>>
    BY <1>8 DEF Find
  <2>2. QED
    BY <2>1, HangKeepsSizes, NothingResized
<1>9. ASSUME NEW k \in Key, Erase(k)
      PROVE  Capacities'
  <2>1. CASE Ends(hm, k) /\ Found(hm, k)
    <3>1. PICK d : d = EraseOf(hm, k)
      OBVIOUS
    <3>2. hm' = d /\ UNCHANGED moving
      BY <1>9, <2>1, <3>1 DEF Erase, EraseOf
    <3>3. QED
      BY <1>1, <2>1, <3>1, <3>2, EraseKeepsSizes
  <2>2. CASE ~ (Ends(hm, k) /\ Found(hm, k))
    <3>1. Hang \/ UNCHANGED <<hm, moving>>
      BY <1>9, <2>2 DEF Erase
    <3>2. QED
      BY <3>1, HangKeepsSizes, NothingResized
  <2>3. QED
    BY <2>1, <2>2
<1>10. ASSUME NEW op \in {"new", "update"}, GrowFails(op)
       PROVE  Capacities'
  BY <1>10, NothingResized DEF GrowFails
<1>11. ASSUME NEW op \in {"new", "update"}, NEW k \in Key, NEW v \in Value, Insert(op, k, v)
       PROVE  Capacities'
  BY <1>1, <1>11, PlaceKeepsSizes DEF Insert, Capacities
<1>12. ASSUME NEW op \in {"new", "update"}, NEW k \in Key, NEW v \in Value,
              StartGrow(op, k, v)
       PROVE  Capacities'
  <2>1. PICK m, n, to : /\ m = hm /\ to = NewMap(n)
                        /\ n = IF hm.capacity = 0 THEN MinCapacity ELSE 2 * hm.capacity
    OBVIOUS
  <2>2. hm' = m /\ moving'.to = to
    BY <1>12, <2>1 DEF StartGrow
  <2>3. PowerOfTwo(n)
    <3>1. m.capacity \in Nat
      BY <1>1, <2>1, TableType
    <3>2. QED
      BY <2>1, <3>1, PowerDoubles, HashMapAssumption DEF Capacities, Sized
  <2>4. Sized(m) /\ Sized(to)
    BY <2>1, <2>3 DEF NewMap, Capacities, Sized
  <2>5. QED
    BY <2>2, <2>4, SameSize
<1>13. QED
  BY <1>2, <1>3, <1>4, <1>5, <1>6, <1>7, <1>8, <1>9, <1>10, <1>11, <1>12 DEF Next

THEOREM Invariance == Spec => []IInv
<1>1. Init => IInv
  BY Starts
<1>2. IInv /\ [Next]_vars => IInv'
  BY Steps
<1>3. QED
  BY <1>1, <1>2, PTL DEF Spec

(* Slots, counters and calls are of their types, and no entry has one of   *)
(* the two reserved hashes (hm.h:8-9, 294-295), in maps of every size.    *)
THEOREM TypeCorrect == Spec => []TypeOK
<1>1. ASSUME IInv
      PROVE  TypeOK
  <2>1. \A m : IsTable(m) => IsMap(m)
    BY TableType DEF IsMap, Slots
  <2>2. IsMap(hm) /\ IsMap(moving.to)
    BY <1>1, <2>1 DEF IInv
  <2>3. call.op \in {"none", "new", "update", "each", "hung"}
    BY <1>1 DEF IInv, Settled, Inserting, Idle, Each
  <2>4. QED
    BY <1>1, <2>2, <2>3 DEF IInv, TypeOK, Answers
<1>2. QED
  BY <1>1, Invariance, PTL

(* Whatever was erased and inserted since an entry was stored, the search  *)
(* for its key ends at it: tombstones keep its path open (hm.h:334-351),   *)
(* for every hash function and every order of the calls.                   *)
THEOREM EntriesStayFound == Spec => []EntriesAreFound
<1>1. ASSUME IInv
      PROVE  EntriesAreFound
  BY <1>1 DEF IInv, EntriesAreFound, IsTable, Reached
<1>2. QED
  BY <1>1, Invariance, PTL

(* "If the hash table size is a power of two, this will visit every slot"  *)
(* (hm.h:347-348), and maps only double in size: while a slot is unused,   *)
(* every search ends, for every key and hash function, and whatever has    *)
(* become of the other slots.                                              *)
THEOREM ProbingReachesAllSlots == Spec => []ProbingIsComplete
<1>1. Init => Capacities
  <2>1. ASSUME Init
        PROVE  Capacities
    BY <2>1, NullSized DEF Init, Capacities
  <2>2. QED
    BY <2>1
<1>2. IInv /\ Capacities /\ [Next]_vars => Capacities'
  BY StepsKeepSizes
<1>3. IInv /\ Capacities => ProbingIsComplete
  <2>1. SUFFICES ASSUME IInv, Capacities, NEW m \in {hm, moving.to},
                        NEW s \in DOMAIN m.slots, m.slots[s] = Unused, NEW k \in Key
                 PROVE  Ends(m, k)
    BY DEF ProbingIsComplete
  <2>2. hash \in [Key -> Hashes] /\ IsTable(m) /\ Sized(m)
    BY <2>1 DEF IInv, Capacities
  <2>3. m.capacity \in Nat /\ m.slots \in [0 .. m.capacity - 1 -> Slots]
    BY <2>2, TableType
  <2>4. s \in 0 .. m.capacity - 1
    BY <2>1, <2>3
  <2>5. PowerOfTwo(m.capacity)
    BY <2>2, <2>3, <2>4 DEF Sized
  <2>6. QED
    BY <2>1, <2>2, <2>3, <2>4, <2>5, UnusedEndsSearch
<1>4. QED
  BY <1>1, <1>2, <1>3, Invariance, PTL DEF Spec

(* The hash map implements the dictionary: each call returns what a map    *)
(* from keys to values returns, growing loses and doubles no entry, and an *)
(* iteration comes to each key once, whichever it erases on its way.  A    *)
(* call whose search does not end never returns, and changes nothing.      *)
(* Memory may run out in every insertion but insert_update(), which does   *)
(* not tell.                                                               *)
THEOREM IsADictionary ==
  ASSUME UpdateCanFail = FALSE PROVE Spec => ImplementsDictionary
<1>1. Init => D!Init
  BY Starts
<1>2. IInv /\ [Next]_vars => [D!Next]_(D!vars)
  BY Steps
<1>3. QED
  BY <1>1, <1>2, Invariance, PTL DEF Spec, ImplementsDictionary, D!Spec

=============================================================================
