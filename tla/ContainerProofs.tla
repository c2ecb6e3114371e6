---------------------------- MODULE ContainerProofs ----------------------------
(***************************************************************************)
(* The ring buffer implements a double ended queue for every capacity it   *)
(* may have (that it is a power of two only matters for the bit mask).     *)
(*                                                                         *)
(* The sorted map implements a dictionary, finds the place of every key    *)
(* and stays within its buffers, for every number of elements, every size  *)
(* of the values and every type of sizes in which twice the bytes of the   *)
(* first allocation fit.  This is of a map whose two buffers are resized   *)
(* both or not at all.                                                     *)
(***************************************************************************)
EXTENDS RingBuffer, SortedMap, SequenceTheorems, WellFoundedInduction, TLAPS

-----------------------------------------------------------------------------
(* The ring buffer.                                                        *)

Contained == Elem \cup {Garbage}

(* A buffer that was allocated.                                            *)
Buffer(r) ==
  /\ r.capacity \in Nat \ {0}
  /\ r.read \in 0 .. r.capacity - 1
  /\ r.write \in 0 .. r.capacity - 1
  /\ r.data \in [0 .. r.capacity - 1 -> Contained]
  /\ r = [read |-> r.read, write |-> r.write, capacity |-> r.capacity, data |-> r.data]

(* The index after a lap at most.                                          *)
LEMMA Lap ==
  ASSUME NEW c \in Nat \ {0}, NEW x \in Int
  PROVE  /\ x \in 0 .. c - 1 => x % c = x
         /\ x \in c .. 2 * c - 1 => x % c = x - c
         /\ x \in -c .. -1 => x % c = x + c
  BY SMT

(* How many elements there are, without the modulus.                       *)
LEMMA CountIs ==
  ASSUME NEW r, Buffer(r)
  PROVE  /\ rb_count(r) = IF r.write >= r.read THEN r.write - r.read
                          ELSE r.write - r.read + r.capacity
         /\ rb_count(r) \in 0 .. r.capacity - 1
<1> DEFINE c == r.capacity
           x == r.write - r.read
<1>1. c \in Nat \ {0} /\ x \in Int /\ x \in -c .. c - 1
  BY DEF Buffer
<1>2. /\ x \in 0 .. c - 1 => x % c = x
      /\ x \in -c .. -1 => x % c = x + c
  BY <1>1, Lap
<1>3. QED
  BY <1>1, <1>2 DEF rb_count, Buffer

(* Where the elements are, without the modulus.                            *)
LEMMA PeekIs ==
  ASSUME NEW r, Buffer(r), NEW i \in Int, NEW at \in 0 .. r.capacity - 1,
         at = r.read + i \/ at = r.read + i - r.capacity
  PROVE  Peek(r, i) = r.data[at]
<1> DEFINE c == r.capacity
           x == r.read + i
<1>1. /\ c \in Nat \ {0} /\ x \in Int /\ at \in 0 .. c - 1
      /\ at = x \/ at = x - c
  BY DEF Buffer
<1>2. Peek(r, i) = r.data[x % c]
  BY DEF Peek
<1> HIDE DEF c, x
<1>3. /\ x \in 0 .. c - 1 => x % c = x
      /\ x \in c .. 2 * c - 1 => x % c = x - c
  BY <1>1, Lap
<1>4. x % c = at
  BY <1>1, <1>3
<1>5. QED
  BY <1>2, <1>4

(* The index one further, and one back.                                    *)
LEMMA NextIs ==
  ASSUME NEW c \in Nat \ {0}, NEW i \in 0 .. c - 1
  PROVE  /\ (i + 1) % c = IF i + 1 = c THEN 0 ELSE i + 1
         /\ (i - 1) % c = IF i = 0 THEN c - 1 ELSE i - 1
<1> DEFINE x == i + 1
           y == i - 1
<1>1. x \in Int /\ x = i + 1 /\ y \in Int /\ y = i - 1
  OBVIOUS
<1> HIDE DEF x, y
<1>2. /\ x \in 0 .. c - 1 => x % c = x
      /\ x \in c .. 2 * c - 1 => x % c = x - c
  BY <1>1, Lap
<1>3. /\ y \in 0 .. c - 1 => y % c = y
      /\ y \in -c .. -1 => y % c = y + c
  BY <1>1, Lap
<1>4. x % c = IF x = c THEN 0 ELSE x
  BY <1>1, <1>2
<1>5. y % c = IF i = 0 THEN c - 1 ELSE y
  BY <1>1, <1>3
<1>6. QED
  BY <1>4, <1>5 DEF x, y

(* A buffer is full with one slot unused.                                  *)
LEMMA FullIs ==
  ASSUME NEW r, Buffer(r)
  PROVE  rb_is_full(r) <=> rb_count(r) = r.capacity - 1
<1> DEFINE c == r.capacity
           rd == r.read
           wr == r.write
           n == rb_count(r)
<1>1. c \in Nat \ {0} /\ rd \in 0 .. c - 1 /\ wr \in 0 .. c - 1
  BY DEF Buffer
<1>2. rb_is_full(r) <=> (wr + 1) % c = rd
  BY <1>1 DEF rb_is_full
<1>3. n = IF wr >= rd THEN wr - rd ELSE wr - rd + c
  BY CountIs
<1> HIDE DEF c, rd, wr, n
<1>4. (wr + 1) % c = IF wr + 1 = c THEN 0 ELSE wr + 1
  BY <1>1, NextIs
<1>5. (wr + 1) % c = rd <=> n = c - 1
  BY <1>1, <1>3, <1>4
<1>6. QED
  BY <1>2, <1>5 DEF n, c

(* A record with the fields of a buffer is one.                            *)
LEMMA IsBuffer ==
  ASSUME NEW c \in Nat \ {0}, NEW rd \in 0 .. c - 1, NEW wr \in 0 .. c - 1,
         NEW d \in [0 .. c - 1 -> Contained]
  PROVE  Buffer([read |-> rd, write |-> wr, capacity |-> c, data |-> d])
  BY DEF Buffer

(* The indexes of a buffer into which one more element was stored: the     *)
(* count is one more, and the new element is the last one.                 *)
LEMMA StoredIndexes ==
  ASSUME NEW c \in Nat \ {0}, NEW rd \in 0 .. c - 1, NEW wr \in 0 .. c - 1,
         NEW n \in 0 .. c - 2,
         n = IF wr >= rd THEN wr - rd ELSE wr - rd + c,
         NEW nx, nx = IF wr + 1 = c THEN 0 ELSE wr + 1
  PROVE  /\ nx \in 0 .. c - 1
         /\ n + 1 = IF nx >= rd THEN nx - rd ELSE nx - rd + c
         /\ \A i \in 1 .. n + 1 :
              LET at == IF rd + (i - 1) < c THEN rd + (i - 1) ELSE rd + (i - 1) - c
              IN  at \in 0 .. c - 1 /\ (at = wr <=> i = n + 1)
<1>1. nx \in 0 .. c - 1 /\ n + 1 = IF nx >= rd THEN nx - rd ELSE nx - rd + c
  BY SMT
<1>2. ASSUME NEW i \in 1 .. n + 1
      PROVE  LET at == IF rd + (i - 1) < c THEN rd + (i - 1) ELSE rd + (i - 1) - c
             IN  at \in 0 .. c - 1 /\ (at = wr <=> i = n + 1)
  <2>1. CASE wr >= rd
    BY <2>1
  <2>2. CASE ~ (wr >= rd)
    BY <2>2
  <2>3. QED
    BY <2>1, <2>2
<1>3. QED
  BY <1>1, <1>2

-----------------------------------------------------------------------------

(* Storing an element appends it to the content, if there is room.         *)
LEMMA StoredAppends ==
  ASSUME NEW r, Buffer(r), ~ rb_is_full(r), NEW e \in Elem
  PROVE  /\ Buffer(Stored(r, e)) /\ Stored(r, e).capacity = r.capacity
         /\ Contents(Stored(r, e)) = Append(Contents(r), e)
<1> DEFINE s == Stored(r, e)
           c == r.capacity
           rd == r.read
           wr == r.write
           d == r.data
           n == rb_count(r)
           nx == (wr + 1) % c
           at(i) == IF rd + (i - 1) < c THEN rd + (i - 1) ELSE rd + (i - 1) - c
<1>1. /\ c \in Nat \ {0} /\ rd \in 0 .. c - 1 /\ wr \in 0 .. c - 1
      /\ d \in [0 .. c - 1 -> Contained]
      /\ r = [read |-> rd, write |-> wr, capacity |-> c, data |-> d]
  BY DEF Buffer
<1>2. s = [read |-> rd, write |-> nx, capacity |-> c, data |-> [d EXCEPT ![wr] = e]]
  BY <1>1 DEF Stored
<1>3. /\ n \in 0 .. c - 1 /\ n # c - 1
      /\ n = IF wr >= rd THEN wr - rd ELSE wr - rd + c
  BY CountIs, FullIs
<1>4. nx = IF wr + 1 = c THEN 0 ELSE wr + 1
  BY <1>1, NextIs
<1>a. \A i \in Int, k \in 0 .. c - 1 :
        k = rd + i \/ k = rd + i - c => Peek(r, i) = d[k]
  BY PeekIs
<1>b. Contents(r) = [i \in 1 .. n |-> Peek(r, i - 1)]
  BY DEF Contents
<1> HIDE DEF s, c, rd, wr, d, n, nx
<1>5. n \in 0 .. c - 2
  BY <1>1, <1>3
<1>6. /\ nx \in 0 .. c - 1
      /\ n + 1 = IF nx >= rd THEN nx - rd ELSE nx - rd + c
      /\ \A i \in 1 .. n + 1 : at(i) \in 0 .. c - 1 /\ (at(i) = wr <=> i = n + 1)
  BY <1>1, <1>3, <1>4, <1>5, StoredIndexes
<1> HIDE DEF at
<1>7. [d EXCEPT ![wr] = e] \in [0 .. c - 1 -> Contained]
  BY <1>1 DEF Contained
<1>8. Buffer(s) /\ s.capacity = c /\ s.read = rd /\ s.write = nx /\ s.data = [d EXCEPT ![wr] = e]
  BY <1>1, <1>2, <1>6, <1>7, IsBuffer
<1>9. rb_count(s) = n + 1
  <2>1. rb_count(s) = IF s.write >= s.read THEN s.write - s.read
                      ELSE s.write - s.read + s.capacity
    BY <1>8, CountIs
  <2>2. QED
    BY <1>6, <1>8, <2>1
<1>10. \A i \in 1 .. n + 1 : Peek(s, i - 1) = IF i = n + 1 THEN e ELSE Peek(r, i - 1)
  <2> SUFFICES ASSUME NEW i \in 1 .. n + 1
               PROVE  Peek(s, i - 1) = IF i = n + 1 THEN e ELSE Peek(r, i - 1)
    OBVIOUS
  <2>1. /\ i - 1 \in Int /\ at(i) \in 0 .. c - 1
        /\ at(i) = rd + (i - 1) \/ at(i) = rd + (i - 1) - c
    BY <1>5, <1>6 DEF at
  <2>2. Peek(r, i - 1) = d[at(i)]
    BY <1>a, <2>1
  <2>3. Peek(s, i - 1) = s.data[at(i)]
    <3>1. /\ at(i) \in 0 .. s.capacity - 1
          /\ at(i) = s.read + (i - 1) \/ at(i) = s.read + (i - 1) - s.capacity
      BY <1>8, <2>1
    <3>2. QED
      BY <1>8, <2>1, <3>1, PeekIs
  <2>4. at(i) \in 0 .. c - 1 /\ (at(i) = wr <=> i = n + 1)
    BY <1>6
  <2>5. [d EXCEPT ![wr] = e][at(i)] = IF at(i) = wr THEN e ELSE d[at(i)]
    BY <1>1, <2>4
  <2>6. QED
    BY <1>8, <2>2, <2>3, <2>4, <2>5
<1>11. Contents(s) = Append(Contents(r), e)
  <2>1. Contents(s) = [i \in 1 .. n + 1 |-> Peek(s, i - 1)]
    BY <1>9 DEF Contents
  <2>2. n \in Nat
    BY <1>1, <1>5
  <2>3. Append(Contents(r), e) = [i \in 1 .. n + 1 |-> IF i = n + 1 THEN e ELSE Peek(r, i - 1)]
    BY <1>b, <2>2
  <2>4. QED
    BY <1>10, <2>1, <2>3
<1>12. QED
  BY <1>8, <1>11 DEF s, c

(* The i-th element of a buffer of c slots: unless it is behind the read   *)
(* index, the content is wrapped, and the element is in front of the write *)
(* index.                                                                  *)
LEMMA GrownIndexes ==
  ASSUME NEW c \in Nat \ {0}, NEW rd \in 0 .. c - 1, NEW wr \in 0 .. c - 1,
         NEW n, n = IF rd > wr THEN wr - rd + c ELSE wr - rd,
         NEW i \in 1 .. n
  PROVE  \E at \in 0 .. 2 * c - 1 :
           /\ at = rd + (i - 1)
           /\ at < c \/ (rd > wr /\ at - c \in 0 .. c - 1 /\ at - c < wr)
<1> DEFINE at == rd + (i - 1)
<1>1. /\ at \in 0 .. 2 * c - 1
      /\ at < c \/ (rd > wr /\ at - c \in 0 .. c - 1 /\ at - c < wr)
  <2>1. CASE rd > wr
    BY <2>1
  <2>2. CASE ~ (rd > wr)
    BY <2>2
  <2>3. QED
    BY <2>1, <2>2
<1>2. QED
  BY <1>1

(* Growing keeps the content, also when it runs around the end of the old  *)
(* slots, and makes room.                                                  *)
LEMMA GrownKeeps ==
  ASSUME NEW r, Buffer(r), r.capacity > 1
  PROVE  LET g == Grown(r, 2 * r.capacity)
         IN  /\ Buffer(g) /\ g.capacity = 2 * r.capacity
             /\ ~ rb_is_full(g)
             /\ Contents(g) = Contents(r)
<1> DEFINE g == Grown(r, 2 * r.capacity)
           c == r.capacity
           n == rb_count(r)
           wrapped == r.read > r.write
<1>1. /\ c \in Nat \ {0, 1} /\ r.read \in 0 .. c - 1 /\ r.write \in 0 .. c - 1
      /\ r.data \in [0 .. c - 1 -> Contained]
  BY DEF Buffer
<1>2. /\ g.read = r.read /\ g.capacity = 2 * c
      /\ g.write = IF wrapped THEN r.write + c ELSE r.write
  BY DEF Grown
<1>d. g.data = [i \in 0 .. 2 * c - 1 |->
                  IF i < c THEN r.data[i]
                  ELSE IF wrapped /\ i < c + r.write THEN r.data[i - c] ELSE Garbage]
  BY DEF Grown
<1>3. Buffer(g)
  <2>1. g.data \in [0 .. 2 * c - 1 -> Contained]
    <3> DEFINE F(i) == IF i < c THEN r.data[i]
                       ELSE IF wrapped /\ i < c + r.write THEN r.data[i - c] ELSE Garbage
    <3>1. \A i \in 0 .. 2 * c - 1 : F(i) \in Contained
      BY <1>1 DEF Contained
    <3>2. g.data = [i \in 0 .. 2 * c - 1 |-> F(i)]
      BY <1>d
    <3> HIDE DEF F
    <3>3. QED
      BY <3>1, <3>2
  <2>2. /\ g.read \in 0 .. 2 * c - 1 /\ g.write \in 0 .. 2 * c - 1
        /\ 2 * c \in Nat \ {0}
    <3> DEFINE rd == r.read
               wr == r.write
    <3>1. c \in Nat \ {0, 1} /\ rd \in 0 .. c - 1 /\ wr \in 0 .. c - 1
      BY <1>1
    <3>2. g.read = rd /\ g.write = IF rd > wr THEN wr + c ELSE wr
      BY <1>2
    <3> HIDE DEF g, c, rd, wr
    <3>3. /\ rd \in 0 .. 2 * c - 1 /\ wr \in 0 .. 2 * c - 1
          /\ rd > wr => wr + c \in 0 .. 2 * c - 1
          /\ 2 * c \in Nat \ {0}
      BY <3>1
    <3>4. QED
      BY <3>2, <3>3
  <2>3. g = [read |-> g.read, write |-> g.write, capacity |-> g.capacity, data |-> g.data]
    BY DEF Grown
  <2>4. QED
    BY <1>2, <2>1, <2>2, <2>3 DEF Buffer
<1>4. n \in 0 .. c - 1 /\ n = IF wrapped THEN r.write - r.read + c ELSE r.write - r.read
  BY <1>1, CountIs
<1>5. rb_count(g) = n
  BY <1>1, <1>2, <1>3, <1>4, CountIs
<1>6. \A i \in 1 .. n : Peek(g, i - 1) = Peek(r, i - 1)
  <2> SUFFICES ASSUME NEW i \in 1 .. n
               PROVE  Peek(g, i - 1) = Peek(r, i - 1)
    OBVIOUS
  <2>1. PICK at \in 0 .. 2 * c - 1 :
          /\ at = r.read + (i - 1)
          /\ at < c \/ (wrapped /\ at - c \in 0 .. c - 1 /\ at - c < r.write)
    <3> DEFINE rd == r.read
               wr == r.write
    <3>1. /\ c \in Nat \ {0} /\ rd \in 0 .. c - 1 /\ wr \in 0 .. c - 1
          /\ i \in 1 .. n /\ n = IF rd > wr THEN wr - rd + c ELSE wr - rd
      BY <1>1, <1>4
    <3> SUFFICES \E at \in 0 .. 2 * c - 1 :
                   /\ at = rd + (i - 1)
                   /\ at < c \/ (rd > wr /\ at - c \in 0 .. c - 1 /\ at - c < wr)
      OBVIOUS
    <3> HIDE DEF rd, wr, c, n
    <3>2. QED
      BY <3>1, GrownIndexes
  <2>2. Peek(g, i - 1) = g.data[at]
    <3>1. i - 1 \in Int /\ at \in 0 .. g.capacity - 1 /\ at = g.read + (i - 1)
      BY <1>2, <2>1
    <3>2. QED
      BY <1>3, <3>1, PeekIs
  <2>3. CASE at < c
    <3>1. i - 1 \in Int /\ at \in 0 .. r.capacity - 1
      BY <1>1, <2>1, <2>3
    <3>2. Peek(r, i - 1) = r.data[at]
      BY <2>1, <3>1, PeekIs
    <3>3. g.data[at] = r.data[at]
      BY <1>d, <2>1, <2>3
    <3>4. QED
      BY <2>2, <3>2, <3>3
  <2>4. CASE wrapped /\ at - c \in 0 .. c - 1 /\ at - c < r.write
    <3>1. ~ (at < c) /\ at < c + r.write
      BY <1>1, <2>1, <2>4
    <3>2. g.data[at] = r.data[at - c]
      BY <1>d, <2>1, <2>4, <3>1
    <3>3. i - 1 \in Int /\ at - c \in 0 .. r.capacity - 1 /\ at - c = r.read + (i - 1) - r.capacity
      BY <1>1, <2>1, <2>4
    <3>4. Peek(r, i - 1) = r.data[at - c]
      BY <3>3, PeekIs
    <3>5. QED
      BY <2>2, <3>2, <3>4
  <2>5. QED
    BY <2>1, <2>3, <2>4
<1>7. Contents(g) = Contents(r)
  BY <1>5, <1>6 DEF Contents
<1>8. ~ rb_is_full(g)
  BY <1>1, <1>2, <1>3, <1>4, <1>5, FullIs
<1>9. QED
  BY <1>2, <1>3, <1>7, <1>8

(* The first slots are empty.                                              *)
LEMMA FirstGrown ==
  LET g == Grown(RingNull, MinSlots)
  IN  /\ Buffer(g) /\ g.capacity = MinSlots
      /\ ~ rb_is_full(g)
      /\ Contents(g) = << >> /\ Contents(RingNull) = << >>
<1> DEFINE g == Grown(RingNull, MinSlots)
<1>1. MinSlots \in Nat \ {0, 1}
  BY RingAssumption
<1>2. /\ g.read = 0 /\ g.write = 0 /\ g.capacity = MinSlots
      /\ g.data = [i \in 0 .. MinSlots - 1 |-> Garbage]
      /\ g = [read |-> g.read, write |-> g.write, capacity |-> g.capacity, data |-> g.data]
  BY <1>1 DEF Grown, RingNull
<1>3. Buffer(g)
  BY <1>1, <1>2 DEF Buffer, Contained
<1>4. rb_count(g) = 0 /\ rb_count(RingNull) = 0
  BY <1>1, <1>2, <1>3, CountIs DEF rb_count, RingNull
<1>5. QED
  BY <1>1, <1>2, <1>3, <1>4, FullIs DEF Contents

-----------------------------------------------------------------------------

(* Every element of a buffer is in one of its slots.                       *)
LEMMA SlotOf ==
  ASSUME NEW c \in Nat \ {0}, NEW rd \in 0 .. c - 1, NEW i \in 0 .. c - 1
  PROVE  \E at \in 0 .. c - 1 : at = rd + i \/ at = rd + i - c
<1>1. CASE rd + i < c
  <2>1. rd + i \in 0 .. c - 1
    BY <1>1
  <2>2. QED
    BY <2>1
<1>2. CASE ~ (rd + i < c)
  <2>1. rd + i - c \in 0 .. c - 1
    BY <1>2
  <2>2. QED
    BY <2>1
<1>3. QED
  BY <1>1, <1>2

(* The indexes of a buffer before and after its first element was taken.   *)
LEMMA TakenIndexes ==
  ASSUME NEW c \in Nat \ {0}, NEW rd \in 0 .. c - 1, NEW wr \in 0 .. c - 1, rd # wr,
         NEW n, n = IF wr >= rd THEN wr - rd ELSE wr - rd + c,
         NEW nx, nx = IF rd + 1 = c THEN 0 ELSE rd + 1
  PROVE  /\ nx \in 0 .. c - 1 /\ n \in Nat \ {0}
         /\ n - 1 = IF wr >= nx THEN wr - nx ELSE wr - nx + c
  BY SMT

(* An element taken from the reading end is the first of the content.      *)
LEMMA TakesFirst ==
  ASSUME NEW r, Buffer(r), ~ rb_is_empty(r),
         NEW t, t = [r EXCEPT !.read = (@ + 1) % r.capacity]
  PROVE  /\ Buffer(t) /\ t.capacity = r.capacity
         /\ Contents(r) # << >> /\ r.data[r.read] = Contents(r)[1]
         /\ Contents(t) = SubSeq(Contents(r), 2, Len(Contents(r)))
<1> DEFINE c == r.capacity
           rd == r.read
           wr == r.write
           d == r.data
           n == rb_count(r)
           nx == (rd + 1) % c
<1>1. /\ c \in Nat \ {0} /\ rd \in 0 .. c - 1 /\ wr \in 0 .. c - 1 /\ rd # wr
      /\ d \in [0 .. c - 1 -> Contained]
      /\ r = [read |-> rd, write |-> wr, capacity |-> c, data |-> d]
  BY DEF Buffer, rb_is_empty
<1>2. t = [read |-> nx, write |-> wr, capacity |-> c, data |-> d]
  BY <1>1
<1>3. /\ n \in 0 .. c - 1
      /\ n = IF wr >= rd THEN wr - rd ELSE wr - rd + c
  BY CountIs
<1>4. nx = IF rd + 1 = c THEN 0 ELSE rd + 1
  BY <1>1, NextIs
<1>5. \A i \in Int, k \in 0 .. c - 1 :
        k = rd + i \/ k = rd + i - c => Peek(r, i) = d[k]
  BY PeekIs
<1>6. Contents(r) = [i \in 1 .. n |-> Peek(r, i - 1)]
  BY DEF Contents
<1>7. Buffer(t) /\ t.capacity = c /\ t.read = nx /\ t.write = wr /\ t.data = d
  <2> HIDE DEF c, rd, wr, d, n, nx
  <2>1. nx \in 0 .. c - 1
    BY <1>1, <1>4
  <2>2. QED
    BY <1>1, <1>2, <2>1, IsBuffer
<1>8. rb_count(t) = IF t.write >= t.read THEN t.write - t.read
                    ELSE t.write - t.read + t.capacity
  BY <1>7, CountIs
<1> HIDE DEF c, rd, wr, d, n, nx
<1>9. \A i \in Int, k \in 0 .. t.capacity - 1 :
        k = t.read + i \/ k = t.read + i - t.capacity => Peek(t, i) = t.data[k]
  BY <1>7, PeekIs
<1>10. /\ n \in Nat \ {0}
       /\ n - 1 = IF wr >= nx THEN wr - nx ELSE wr - nx + c
  BY <1>1, <1>3, <1>4, TakenIndexes
<1>11. ASSUME NEW i \in 1 .. n - 1
       PROVE  Peek(t, i - 1) = Peek(r, i)
  <2>1. i \in 0 .. c - 1
    BY <1>1, <1>3, <1>10
  <2>2. PICK at \in 0 .. c - 1 : at = rd + i \/ at = rd + i - c
    BY <1>1, <2>1, SlotOf
  <2>3. i - 1 \in Int /\ (at = nx + (i - 1) \/ at = nx + (i - 1) - c)
    BY <1>1, <1>4, <2>1, <2>2
  <2>4. Peek(r, i) = d[at]
    BY <1>5, <2>1, <2>2
  <2>5. Peek(t, i - 1) = d[at]
    BY <1>7, <1>9, <2>3
  <2>6. QED
    BY <2>4, <2>5
<1>12. Contents(r) # << >> /\ d[rd] = Contents(r)[1] /\ Len(Contents(r)) = n
  <2>1. Peek(r, 0) = d[rd]
    BY <1>1, <1>5
  <2>2. QED
    BY <1>6, <1>10, <2>1
<1>13. Contents(t) = SubSeq(Contents(r), 2, n)
  <2>1. Contents(t) = [i \in 1 .. n - 1 |-> Peek(t, i - 1)]
    BY <1>7, <1>8, <1>10 DEF Contents
  <2>2. SubSeq(Contents(r), 2, n) = [i \in 1 .. n - 1 |-> Peek(r, i)]
    BY <1>6, <1>10
  <2>3. QED
    BY <1>11, <2>1, <2>2
<1>14. QED
  BY <1>7, <1>12, <1>13 DEF c, rd, d

(* The indexes of a buffer before and after its last element was taken.    *)
LEMMA TakenWIndexes ==
  ASSUME NEW c \in Nat \ {0}, NEW rd \in 0 .. c - 1, NEW wr \in 0 .. c - 1, rd # wr,
         NEW n, n = IF wr >= rd THEN wr - rd ELSE wr - rd + c,
         NEW pv, pv = IF wr = 0 THEN c - 1 ELSE wr - 1
  PROVE  /\ pv \in 0 .. c - 1 /\ n \in Nat \ {0}
         /\ n - 1 = IF pv >= rd THEN pv - rd ELSE pv - rd + c
         /\ pv = rd + (n - 1) \/ pv = rd + (n - 1) - c
  BY SMT

(* An element taken from the writing end is the last of the content.       *)
LEMMA TakesLast ==
  ASSUME NEW r, Buffer(r), ~ rb_is_empty(r),
         NEW t, t = [r EXCEPT !.write = (r.write - 1) % r.capacity]
  PROVE  /\ Buffer(t) /\ t.capacity = r.capacity
         /\ Contents(r) # << >> /\ r.data[(r.write - 1) % r.capacity] = Contents(r)[Len(Contents(r))]
         /\ Contents(t) = SubSeq(Contents(r), 1, Len(Contents(r)) - 1)
<1> DEFINE c == r.capacity
           rd == r.read
           wr == r.write
           d == r.data
           n == rb_count(r)
           last == (wr - 1) % c
<1>1. /\ c \in Nat \ {0} /\ rd \in 0 .. c - 1 /\ wr \in 0 .. c - 1 /\ rd # wr
      /\ d \in [0 .. c - 1 -> Contained]
      /\ r = [read |-> rd, write |-> wr, capacity |-> c, data |-> d]
  BY DEF Buffer, rb_is_empty
<1>2. t = [read |-> rd, write |-> last, capacity |-> c, data |-> d]
  BY <1>1
<1>3. /\ n \in 0 .. c - 1
      /\ n = IF wr >= rd THEN wr - rd ELSE wr - rd + c
  BY CountIs
<1>4. last = IF wr = 0 THEN c - 1 ELSE wr - 1
  BY <1>1, NextIs
<1>5. \A i \in Int, k \in 0 .. c - 1 :
        k = rd + i \/ k = rd + i - c => Peek(r, i) = d[k]
  BY PeekIs
<1>6. Contents(r) = [i \in 1 .. n |-> Peek(r, i - 1)]
  BY DEF Contents
<1>7. Buffer(t) /\ t.capacity = c /\ t.read = rd /\ t.write = last /\ t.data = d
  <2> HIDE DEF c, rd, wr, d, n, last
  <2>1. last \in 0 .. c - 1
    BY <1>1, <1>4
  <2>2. QED
    BY <1>1, <1>2, <2>1, IsBuffer
<1>8. rb_count(t) = IF t.write >= t.read THEN t.write - t.read
                    ELSE t.write - t.read + t.capacity
  BY <1>7, CountIs
<1>9. \A i \in Int, k \in 0 .. t.capacity - 1 :
        k = t.read + i \/ k = t.read + i - t.capacity => Peek(t, i) = t.data[k]
  BY <1>7, PeekIs
<1> HIDE DEF c, rd, wr, d, n, last
<1>10. /\ last \in 0 .. c - 1 /\ n \in Nat \ {0}
       /\ n - 1 = IF last >= rd THEN last - rd ELSE last - rd + c
       /\ last = rd + (n - 1) \/ last = rd + (n - 1) - c
  BY <1>1, <1>3, <1>4, TakenWIndexes
<1>11. ASSUME NEW i \in 1 .. n - 1
       PROVE  Peek(t, i - 1) = Peek(r, i - 1)
  <2> DEFINE j == i - 1
  <2>a. j \in 0 .. c - 1
    BY <1>1, <1>3, <1>10
  <2> SUFFICES Peek(t, j) = Peek(r, j)
    OBVIOUS
  <2> HIDE DEF j
  <2>1. PICK at \in 0 .. c - 1 : at = rd + j \/ at = rd + j - c
    BY <1>1, <2>a, SlotOf
  <2>2. Peek(r, j) = d[at]
    BY <1>1, <1>5, <2>a, <2>1
  <2>3. Peek(t, j) = d[at]
    BY <1>1, <1>7, <1>9, <2>a, <2>1
  <2>4. QED
    BY <2>2, <2>3
<1>12. Contents(r) # << >> /\ d[last] = Contents(r)[n] /\ Len(Contents(r)) = n
  <2>1. Peek(r, n - 1) = d[last]
    BY <1>5, <1>10
  <2>2. QED
    BY <1>6, <1>10, <2>1
<1>13. Contents(t) = SubSeq(Contents(r), 1, n - 1)
  <2>1. Contents(t) = [i \in 1 .. n - 1 |-> Peek(t, i - 1)]
    BY <1>7, <1>8, <1>10 DEF Contents
  <2>2. SubSeq(Contents(r), 1, n - 1) = [i \in 1 .. n - 1 |-> Peek(r, i - 1)]
    BY <1>6, <1>10
  <2>3. QED
    BY <1>11, <2>1, <2>2
<1>14. QED
  BY <1>7, <1>12, <1>13 DEF c, d, wr, last

(* A cleared buffer is empty.                                              *)
LEMMA ClearEmpties ==
  ASSUME NEW r, Buffer(r), NEW t, t = [r EXCEPT !.read = r.write]
  PROVE  Buffer(t) /\ t.capacity = r.capacity /\ Contents(t) = << >>
<1>1. Buffer(t) /\ t.capacity = r.capacity /\ t.read = t.write
  <2>1. t = [read |-> r.write, write |-> r.write, capacity |-> r.capacity, data |-> r.data]
    BY DEF Buffer
  <2>2. QED
    BY <2>1, IsBuffer DEF Buffer
<1>2. rb_count(t) = IF t.write >= t.read THEN t.write - t.read
                    ELSE t.write - t.read + t.capacity
  BY <1>1, CountIs
<1>3. rb_count(t) = 0
  BY <1>1, <1>2 DEF Buffer
<1>4. QED
  BY <1>1, <1>3 DEF Contents

-----------------------------------------------------------------------------

(* NULL, or an allocated buffer that is not larger than it may be.         *)
Inv ==
  \/ rb = RingNull
  \/ Buffer(rb) /\ rb.capacity > 1 /\ rb.capacity <= MaxSlots

(* A buffer into which an element is put after it was grown if necessary.  *)
LEMMA PutReallocAppends ==
  ASSUME Inv, NEW e \in Elem, PutRealloc(e)
  PROVE  Inv' /\ Contents(rb)' = Append(Contents(rb), e)
<1> DEFINE b == IF rb_is_full(rb) THEN Grown(rb, Larger) ELSE rb
<1>1. /\ Buffer(b) /\ b.capacity > 1 /\ b.capacity <= MaxSlots
      /\ ~ rb_is_full(b) /\ Contents(b) = Contents(rb)
  <2>1. CASE rb = RingNull
    <3>1. rb_is_full(rb) /\ Larger = MinSlots
      BY <2>1 DEF rb_is_full, Larger, RingNull
    <3>2. b = Grown(RingNull, MinSlots) /\ MinSlots <= MaxSlots /\ MinSlots > 1
      BY <2>1, <3>1, RingAssumption
    <3>3. QED
      BY <2>1, <3>2, FirstGrown
  <2>2. CASE rb # RingNull
    <3>1. Buffer(rb) /\ rb.capacity > 1 /\ rb.capacity <= MaxSlots
      BY <2>2 DEF Inv
    <3>2. CASE rb_is_full(rb)
      <4>1. Larger = 2 * rb.capacity /\ Larger <= MaxSlots /\ Larger > 1
        BY <3>1, <3>2 DEF Larger, PutRealloc, Buffer
      <4>2. QED
        BY <3>1, <3>2, <4>1, GrownKeeps
    <3>3. CASE ~ rb_is_full(rb)
      BY <3>1, <3>3
    <3>4. QED
      BY <3>2, <3>3
  <2>3. QED
    BY <2>1, <2>2
<1>2. rb' = Stored(b, e)
  BY DEF PutRealloc
<1> HIDE DEF b
<1>3. /\ Buffer(Stored(b, e)) /\ Stored(b, e).capacity = b.capacity
      /\ Contents(Stored(b, e)) = Append(Contents(b), e)
  BY <1>1, StoredAppends
<1>4. QED
  BY <1>1, <1>2, <1>3 DEF Inv

(* Every step keeps the invariant, and is one of the queue.                *)
LEMMA Step ==
  ASSUME Inv, [RingNext]_ringVars
  PROVE  Inv' /\ [D!Next]_(D!vars)
<1>1. ASSUME NEW e \in Elem, Put(e)
      PROVE  Inv' /\ [D!Next]_(D!vars)
  <2>1. Buffer(rb) /\ rb.capacity > 1 /\ rb.capacity <= MaxSlots
    BY <1>1 DEF Inv, Put, RingNull
  <2>2. CASE rb_is_full(rb)
    BY <1>1, <2>2 DEF Put, Inv, D!Next, D!PutFails
  <2>3. CASE ~ rb_is_full(rb)
    <3>1. rb' = Stored(rb, e) /\ returned' = "ok"
      BY <1>1, <2>3 DEF Put
    <3>2. Inv' /\ Contents(rb)' = Append(Contents(rb), e)
      BY <2>1, <2>3, <3>1, StoredAppends DEF Inv
    <3>3. D!Put(e)
      BY <3>1, <3>2 DEF D!Put
    <3>4. QED
      BY <3>2, <3>3 DEF D!Next
  <2>4. QED
    BY <2>2, <2>3
<1>2. ASSUME NEW e \in Elem, PutRealloc(e)
      PROVE  Inv' /\ [D!Next]_(D!vars)
  <2>1. Inv' /\ D!Put(e)
    BY <1>2, PutReallocAppends DEF D!Put, PutRealloc
  <2>2. QED
    BY <2>1 DEF D!Next
<1>3. CASE PutReallocFails
  BY <1>3 DEF PutReallocFails, Inv, D!Next, D!PutFails
<1>4. CASE Take
  <2>1. ~ rb_is_empty(rb) /\ returned' = rb.data[rb.read]
        /\ rb' = [rb EXCEPT !.read = (@ + 1) % rb.capacity]
    BY <1>4 DEF Take
  <2>2. Buffer(rb) /\ rb.capacity > 1 /\ rb.capacity <= MaxSlots
    BY <2>1 DEF Inv, RingNull, rb_is_empty
  <2>3. /\ Buffer(rb') /\ rb'.capacity = rb.capacity
        /\ Contents(rb) # << >> /\ rb.data[rb.read] = Contents(rb)[1]
        /\ Contents(rb') = SubSeq(Contents(rb), 2, Len(Contents(rb)))
    BY <2>1, <2>2, TakesFirst
  <2>4. Inv' /\ D!Take
    BY <2>1, <2>2, <2>3 DEF Inv, D!Take
  <2>5. QED
    BY <2>4 DEF D!Next
<1>5. CASE TakeW
  <2> DEFINE last == (rb.write - 1) % rb.capacity
  <2>1. ~ rb_is_empty(rb) /\ returned' = rb.data[last] /\ rb' = [rb EXCEPT !.write = last]
    BY <1>5 DEF TakeW
  <2>2. Buffer(rb) /\ rb.capacity > 1 /\ rb.capacity <= MaxSlots
    BY <2>1 DEF Inv, RingNull, rb_is_empty
  <2>3. /\ Buffer(rb') /\ rb'.capacity = rb.capacity
        /\ Contents(rb) # << >> /\ rb.data[last] = Contents(rb)[Len(Contents(rb))]
        /\ Contents(rb') = SubSeq(Contents(rb), 1, Len(Contents(rb)) - 1)
    BY <2>1, <2>2, TakesLast
  <2>4. Inv' /\ D!TakeW
    BY <2>1, <2>2, <2>3 DEF Inv, D!TakeW
  <2>5. QED
    BY <2>4 DEF D!Next
<1>6. CASE RingClear
  <2>1. rb' = [rb EXCEPT !.read = rb.write] /\ returned' = "none"
    BY <1>6 DEF RingClear
  <2>2. Buffer(rb) /\ rb.capacity > 1 /\ rb.capacity <= MaxSlots
    BY <1>6 DEF RingClear, Inv, RingNull
  <2>3. Buffer(rb') /\ rb'.capacity = rb.capacity /\ Contents(rb') = << >>
    BY <2>1, <2>2, ClearEmpties
  <2>4. Inv' /\ D!Clear
    BY <2>1, <2>2, <2>3 DEF Inv, D!Clear
  <2>5. QED
    BY <2>4 DEF D!Next
<1>7. CASE UNCHANGED ringVars
  BY <1>7 DEF ringVars, Inv, D!vars
<1>8. QED
  BY <1>1, <1>2, <1>3, <1>4, <1>5, <1>6, <1>7 DEF RingNext

(* The indexes of a ring buffer (rb.h) stay within its slots.              *)
THEOREM RingTypeCorrect == RingSpec => []RingTypeOK
<1>1. RingInit => Inv
  BY DEF RingInit, Inv
<1>2. Inv /\ [RingNext]_ringVars => Inv'
  BY Step
<1>3. Inv => RingTypeOK
  <2>1. rb = RingNull => RingTypeOK
    BY RingAssumption DEF RingTypeOK, RingNull, Slots
  <2>2. Buffer(rb) /\ rb.capacity > 1 /\ rb.capacity <= MaxSlots => RingTypeOK
    BY RingAssumption DEF RingTypeOK, Buffer, Slots, Contained
  <2>3. QED
    BY <2>1, <2>2 DEF Inv
<1>4. QED
  BY <1>1, <1>2, <1>3, PTL DEF RingSpec

(* The ring buffer of rb.h implements a double ended queue, of any         *)
(* elements, at any capacity, wherever its content lies when it grows.     *)
THEOREM RingImplementsDeque == RingSpec => ImplementsDeque
<1>1. RingInit => Inv /\ D!Init
  BY FirstGrown DEF RingInit, Inv, D!Init
<1>2. Inv /\ [RingNext]_ringVars => Inv' /\ [D!Next]_(D!vars)
  BY Step
<1>3. QED
  BY <1>1, <1>2, PTL DEF RingSpec, ImplementsDeque, D!Spec

-----------------------------------------------------------------------------
(* The sorted map.                                                         *)

LEMMA LeastElement ==
  ASSUME NEW T \in SUBSET Nat, T # {}
  PROVE  \E x \in T : \A y \in T : x <= y
<1>1. PICK x \in T : \A y \in T : ~ (<<y, x>> \in OpToRel(<, Nat))
  BY NatLessThanWellFounded, WFMin
<1>2. \A y \in T : ~ (y < x)
  BY <1>1, Zenon DEF OpToRel
<1>3. QED
  BY <1>2

(* A set that contains 0, and with each number its successor, contains all.*)
LEMMA SetInduction ==
  ASSUME NEW S, 0 \in S, \A n \in Nat : n \in S => n + 1 \in S
  PROVE  \A n \in Nat : n \in S
<1>1. SUFFICES ASSUME Nat \ S # {}
               PROVE  FALSE
  OBVIOUS
<1>2. PICK m \in Nat \ S : \A y \in Nat \ S : m <= y
  BY <1>1, LeastElement
<1>3. m - 1 \in Nat /\ m - 1 \in S
  BY <1>2
<1>4. QED
  BY <1>3

-----------------------------------------------------------------------------
(* f is what a loop comes to in N steps from x.                            *)
Runs(f, x, step, N) ==
  /\ f = [n \in 0 .. N |-> f[n]]
  /\ f[0] = x
  /\ \A n \in 1 .. N : f[n] = step[f[n - 1]]

LEMMA LoopRuns ==
  ASSUME NEW X, NEW x \in X, NEW step \in [X -> X], NEW N \in Nat
  PROVE  \E f \in [0 .. N -> X] : Runs(f, x, step, N)
<1> DEFINE S == {n \in Nat : \E f \in [0 .. n -> X] : Runs(f, x, step, n)}
<1>1. 0 \in S
  <2>1. PICK f : f = [n \in 0 .. 0 |-> x]
    OBVIOUS
  <2>2. f \in [0 .. 0 -> X] /\ f[0] = x /\ f = [n \in 0 .. 0 |-> f[n]]
    BY <2>1
  <2>3. QED
    BY <2>2 DEF Runs
<1>2. ASSUME NEW n \in Nat, n \in S
      PROVE  n + 1 \in S
  <2>1. PICK f \in [0 .. n -> X] : Runs(f, x, step, n)
    BY <1>2
  <2>2. PICK m \in Nat : m = n + 1
    OBVIOUS
  <2>3. PICK g : g = [i \in 0 .. m |-> IF i = m THEN step[f[n]] ELSE f[i]]
    OBVIOUS
  <2>4. \A i \in 0 .. n : i \in 0 .. m /\ i # m /\ g[i] = f[i]
    BY <2>2, <2>3
  <2>5. g[m] = step[f[n]] /\ n \in 0 .. n
    BY <2>2, <2>3
  <2>6. g \in [0 .. m -> X]
    <3>1. \A i \in 0 .. m : i = m \/ i \in 0 .. n
      BY <2>2
    <3>2. QED
      BY <2>3, <2>4, <2>5, <3>1
  <2>7. g[0] = x
    BY <2>1, <2>4 DEF Runs
  <2>8. ASSUME NEW i \in 1 .. m
        PROVE  g[i] = step[g[i - 1]]
    <3>1. CASE i = m
      <4>1. i - 1 = n
        BY <2>2, <3>1
      <4>2. QED
        BY <2>4, <2>5, <3>1, <4>1
    <3>2. CASE i # m
      <4>1. i \in 1 .. n /\ i \in 0 .. n /\ i - 1 \in 0 .. n
        BY <2>2, <3>2
      <4>2. f[i] = step[f[i - 1]]
        BY <2>1, <4>1 DEF Runs
      <4>3. QED
        BY <2>4, <4>1, <4>2
    <3>3. QED
      BY <3>1, <3>2
  <2>9. Runs(g, x, step, m)
    BY <2>6, <2>7, <2>8 DEF Runs
  <2>10. QED
    BY <2>2, <2>6, <2>9
<1> HIDE DEF S
<1>3. \A n \in Nat : n \in S
  BY <1>1, <1>2, SetInduction
<1>4. QED
  BY <1>3 DEF S

-----------------------------------------------------------------------------
(* The binary search.                                                      *)

Ordered(keys) ==
  \A i, j \in 1 .. Len(keys) : i < j => keys[i] < keys[j]

(* A part of the keys: the len ones from found on.                         *)
Parts == [found : Int, len : Int]

Half(keys, key, s) ==
  IF s.len = 0 THEN s
  ELSE IF keys[s.found + s.len \div 2 + 1] < key
  THEN [found |-> s.found + s.len \div 2 + 1, len |-> s.len - s.len \div 2 - 1]
  ELSE [found |-> s.found, len |-> s.len \div 2]

LEMMA HalfIsPart ==
  ASSUME NEW keys, NEW key, NEW s \in Parts
  PROVE  Half(keys, key, s) \in Parts
<1>1. s.found \in Int /\ s.len \in Int /\ s.len \div 2 \in Int
  BY DEF Parts
<1>2. QED
  BY <1>1 DEF Half, Parts

(* The search as a sequence of steps.                                      *)
LEMMA SearchRuns ==
  ASSUME NEW b, Len(b.keys) \in Nat, NEW key
  PROVE  \E N \in Nat : N = Len(b.keys) /\ \E f \in [0 .. N -> Parts] :
           /\ f[0] = [found |-> 0, len |-> N]
           /\ \A n \in 1 .. N : f[n] = Half(b.keys, key, f[n - 1])
           /\ LowerBound(b, key) = f[N].found
<1>0. PICK N \in Nat : N = Len(b.keys)
  OBVIOUS
<1> DEFINE Unfold(f) == [n \in 0 .. N |-> IF n = 0 THEN [found |-> 0, len |-> N]
                                          ELSE Half(b.keys, key, f[n - 1])]
           r == CHOOSE f : f = Unfold(f)
           step == [s \in Parts |-> Half(b.keys, key, s)]
           x == [found |-> 0, len |-> N]
<1>1. x \in Parts
  BY DEF Parts
<1>2. step \in [Parts -> Parts]
  BY HalfIsPart
<1>3. PICK f \in [0 .. N -> Parts] : Runs(f, x, step, N)
  <2> HIDE DEF x, step
  <2>1. QED
    BY <1>1, <1>2, LoopRuns
<1>4. f[0] = x /\ \A n \in 1 .. N : f[n] = Half(b.keys, key, f[n - 1])
  <2>1. \A n \in 1 .. N : n - 1 \in 0 .. N /\ f[n - 1] \in Parts
    OBVIOUS
  <2>2. QED
    BY <1>3, <2>1 DEF Runs
<1>5. f = Unfold(f)
  <2>1. ASSUME NEW n \in 0 .. N
        PROVE  f[n] = Unfold(f)[n]
    <3>1. n # 0 => n \in 1 .. N
      OBVIOUS
    <3>2. QED
      BY <1>4, <3>1
  <2>2. QED
    BY <2>1
<1>6. LowerBound(b, key) = r[N].found
  BY <1>0 DEF LowerBound, Count, Half
<1> HIDE DEF Unfold
<1>7. r = Unfold(r)
  BY <1>5
<1>8. PICK g : g = r
  OBVIOUS
<1>9. g = Unfold(g)
  BY <1>7, <1>8
<1>10. g[0] = x /\ \A n \in 1 .. N : g[n] = Half(b.keys, key, g[n - 1])
  <2>1. g[0] = x
    BY <1>9 DEF Unfold
  <2>2. ASSUME NEW n \in 1 .. N
        PROVE  g[n] = Half(b.keys, key, g[n - 1])
    <3>1. n \in 0 .. N /\ n # 0
      OBVIOUS
    <3>2. QED
      BY <1>9, <3>1 DEF Unfold
  <2>3. QED
    BY <2>1, <2>2
<1> HIDE DEF x
<1>11. g \in [0 .. N -> Parts]
  <2> DEFINE S == {n \in Nat : n <= N => g[n] \in Parts}
  <2>1. 0 \in S
    BY <1>1, <1>10
  <2>2. ASSUME NEW n \in Nat, n \in S
        PROVE  n + 1 \in S
    <3>1. n + 1 <= N => n + 1 \in 1 .. N /\ (n + 1) - 1 = n /\ n <= N
      OBVIOUS
    <3>2. QED
      BY <1>10, <2>2, <3>1, HalfIsPart
  <2> HIDE DEF S
  <2>3. \A n \in Nat : n \in S
    BY <2>1, <2>2, SetInduction
  <2>4. \A n \in 0 .. N : g[n] \in Parts
    BY <2>3 DEF S
  <2>5. g = [n \in 0 .. N |-> g[n]]
    BY <1>9 DEF Unfold
  <2>6. QED
    BY <2>4, <2>5
<1>12. QED
  BY <1>0, <1>6, <1>8, <1>10, <1>11 DEF x

(* What comes before the part is less than the key, what comes after is    *)
(* not.                                                                    *)
Bounded(keys, key, s) ==
  /\ s.found \in Nat /\ s.len \in Nat /\ s.found + s.len <= Len(keys)
  /\ \A i \in 1 .. Len(keys) : /\ i <= s.found => keys[i] < key
                               /\ i > s.found + s.len => ~ (keys[i] < key)

LEMMA HalfIsBounded ==
  ASSUME NEW keys \in Seq(Nat), Ordered(keys), NEW key \in Nat, NEW s, Bounded(keys, key, s),
         NEW t, t = Half(keys, key, s)
  PROVE  /\ Bounded(keys, key, t)
         /\ s.len = 0 => t.len = 0
         /\ s.len # 0 => t.len < s.len
<1>1. CASE s.len = 0
  BY <1>1 DEF Half
<1>2. CASE s.len # 0
  <2>0. PICK l \in Nat, m \in Nat : l = s.len /\ m = s.found /\ m + l <= Len(keys) /\ l > 0
    BY <1>2 DEF Bounded
  <2>1. PICK h \in Nat : l = s.len /\ m = s.found /\ h = l \div 2
    BY <2>0
  <2>2. h < l /\ m + l <= Len(keys) /\ Len(keys) \in Nat /\ l \in Nat /\ m \in Nat /\ h \in Nat
    <3>1. h < l
      BY <2>0, <2>1
    <3>2. Len(keys) \in Nat
      OBVIOUS
    <3>3. QED
      BY <2>0, <2>1, <3>1, <3>2
  <2>3. PICK p \in Nat : p \in 1 .. Len(keys) /\ p = m + h + 1
    BY <2>2
  <2>4. \A i \in 1 .. Len(keys) : keys[i] \in Nat
    OBVIOUS
  <2>5. \A i \in 1 .. Len(keys) : (i < p => keys[i] < keys[p]) /\ (i > p => keys[p] < keys[i])
    BY <2>3 DEF Ordered
  <2>6. CASE keys[p] < key
    <3>1. t = [found |-> p, len |-> l - h - 1]
      BY <1>2, <2>1, <2>3, <2>6 DEF Half
    <3>2. t.found = p /\ t.len = l - h - 1 /\ t.len \in Nat
      <4>1. l - h - 1 \in Nat
        BY <2>0, <2>1, <2>2
      <4>2. t.found = p
        BY <3>1
      <4>3. t.len = l - h - 1
        BY <3>1
      <4>4. QED
        BY <4>1, <4>2, <4>3
    <3>3. ASSUME NEW i \in 1 .. Len(keys)
          PROVE  /\ i <= p => keys[i] < key
                 /\ i > p + (l - h - 1) => ~ (keys[i] < key)
      <4>1. i <= p => keys[i] < key
        BY <2>3, <2>4, <2>5, <2>6
      <4>2. p + (l - h - 1) = m + l
        BY <2>2, <2>3
      <4>3. QED
        BY <2>0, <2>1, <4>1, <4>2 DEF Bounded
    <3>4. p \in Nat /\ p + (l - h - 1) <= Len(keys) /\ l - h - 1 < l
      BY <2>2, <2>3
    <3>5. QED
      BY <1>2, <2>1, <3>2, <3>3, <3>4 DEF Bounded
  <2>7. CASE ~ (keys[p] < key)
    <3>1. t = [found |-> m, len |-> h]
      BY <1>2, <2>1, <2>3, <2>7 DEF Half
    <3>2. t.found = m /\ t.len = h
      BY <3>1
    <3>3. ASSUME NEW i \in 1 .. Len(keys)
          PROVE  /\ i <= m => keys[i] < key
                 /\ i > m + h => ~ (keys[i] < key)
      <4>1. i <= m => keys[i] < key
        BY <2>1 DEF Bounded
      <4>2. i > m + h => i = p \/ i > p
        <5>1. i \in Nat /\ m \in Nat /\ h \in Nat /\ p = m + h + 1
          BY <2>2, <2>3
        <5>2. QED
          BY <5>1
      <4>3. QED
        BY <2>3, <2>4, <2>5, <2>7, <4>1, <4>2
    <3>4. QED
      BY <1>2, <2>1, <2>2, <3>2, <3>3 DEF Bounded
  <2>8. QED
    BY <2>6, <2>7
<1>3. QED
  BY <1>1, <1>2

(* The search ends at the number of keys that are less.                    *)
LEMMA LowerBoundIs ==
  ASSUME NEW b, b.keys \in Seq(Nat), Ordered(b.keys), NEW key \in Nat,
         NEW idx, idx = LowerBound(b, key)
  PROVE  /\ idx \in 0 .. Len(b.keys)
         /\ \A i \in 1 .. Len(b.keys) : b.keys[i] < key <=> i <= idx
<1>0. Len(b.keys) \in Nat
  OBVIOUS
<1>1. PICK N \in Nat : /\ N = Len(b.keys)
                       /\ \E f \in [0 .. N -> Parts] :
                            /\ f[0] = [found |-> 0, len |-> N]
                            /\ \A n \in 1 .. N : f[n] = Half(b.keys, key, f[n - 1])
                            /\ LowerBound(b, key) = f[N].found
  BY <1>0, SearchRuns
<1>2. PICK f \in [0 .. N -> Parts] :
        /\ f[0] = [found |-> 0, len |-> N]
        /\ \A n \in 1 .. N : f[n] = Half(b.keys, key, f[n - 1])
        /\ LowerBound(b, key) = f[N].found
  BY <1>1
<1>3. PICK keys \in Seq(Nat) : keys = b.keys
  OBVIOUS
<1>4. N = Len(keys) /\ Ordered(keys) /\ idx = f[N].found
      /\ \A n \in 1 .. N : f[n] = Half(keys, key, f[n - 1])
  BY <1>1, <1>2, <1>3
<1> DEFINE S == {n \in Nat : n <= N => Bounded(keys, key, f[n]) /\ f[n].len <= N - n}
<1>5. 0 \in S
  <2>1. f[0].found = 0 /\ f[0].len = N
    BY <1>2
  <2>2. \A i \in 1 .. N : ~ (i <= 0) /\ ~ (i > 0 + N)
    OBVIOUS
  <2>3. Bounded(keys, key, f[0])
    BY <1>4, <2>1, <2>2 DEF Bounded
  <2>4. QED
    BY <2>1, <2>3
<1>6. ASSUME NEW n \in Nat, n \in S
      PROVE  n + 1 \in S
  <2>1. SUFFICES ASSUME n + 1 <= N
                 PROVE  Bounded(keys, key, f[n + 1]) /\ f[n + 1].len <= N - (n + 1)
    OBVIOUS
  <2>2. n + 1 \in 1 .. N /\ (n + 1) - 1 = n /\ n <= N
    BY <2>1
  <2>3. f[n + 1] = Half(keys, key, f[n])
    BY <1>4, <2>2
  <2>4. Bounded(keys, key, f[n]) /\ f[n].len <= N - n /\ f[n].len \in Nat
    BY <1>6, <2>2 DEF Bounded
  <2>5. /\ Bounded(keys, key, f[n + 1])
        /\ f[n].len = 0 => f[n + 1].len = 0
        /\ f[n].len # 0 => f[n + 1].len < f[n].len
    BY <1>4, <2>3, <2>4, HalfIsBounded
  <2>6. f[n + 1].len \in Nat
    BY <2>5 DEF Bounded
  <2>7. QED
    BY <2>1, <2>4, <2>5, <2>6
<1> HIDE DEF S
<1>7. \A n \in Nat : n \in S
  BY <1>5, <1>6, SetInduction
<1>8. Bounded(keys, key, f[N]) /\ f[N].len <= 0
  BY <1>7 DEF S
<1>9. f[N].len = 0
  BY <1>8 DEF Bounded
<1>10. idx \in Nat /\ idx <= N
  BY <1>4, <1>8, <1>9 DEF Bounded
<1>11. ASSUME NEW i \in 1 .. N
      PROVE  keys[i] < key <=> i <= idx
  BY <1>4, <1>8, <1>9, <1>10 DEF Bounded
<1>12. QED
  BY <1>3, <1>4, <1>10, <1>11

-----------------------------------------------------------------------------
(* Adding and removing an element.                                         *)

(* t is s with e before the element at idx, counted from 0.                *)
IsWith(t, s, idx, e) ==
  /\ Len(t) = Len(s) + 1
  /\ t[idx + 1] = e
  /\ \A i \in 1 .. Len(s) : IF i <= idx THEN t[i] = s[i] ELSE t[i + 1] = s[i]

LEMMA ConcatIs ==
  ASSUME NEW S, NEW a \in Seq(S), NEW b \in Seq(S), NEW t, t = a \o b
  PROVE  /\ t \in Seq(S) /\ Len(t) = Len(a) + Len(b)
         /\ \A i \in 1 .. Len(a) : t[i] = a[i]
         /\ \A i \in 1 .. Len(b), j \in Nat : j = Len(a) + i => t[j] = b[i]
<1>1. /\ t \in Seq(S) /\ Len(t) = Len(a) + Len(b)
      /\ \A i \in 1 .. Len(a) : t[i] = a[i]
  BY ConcatProperties
<1>2. ASSUME NEW i \in 1 .. Len(b), NEW j \in Nat, j = Len(a) + i
      PROVE  t[j] = b[i]
  <2>1. /\ Len(a) \in Nat /\ Len(b) \in Nat /\ i \in Nat
    OBVIOUS
  <2>2. j = Len(a) + i
    BY <1>2
  <2>3. j \in 1 .. Len(a) + Len(b) /\ ~ (j <= Len(a)) /\ j - Len(a) = i
    BY <2>1, <2>2
  <2>4. t[j] = b[j - Len(a)]
    BY <2>3
  <2>5. QED
    BY <2>2, <2>3, <2>4
<1>3. QED
  BY <1>1, <1>2

LEMMA InsertAtIs ==
  ASSUME NEW S, NEW s \in Seq(S), NEW idx \in 0 .. Len(s), NEW e \in S,
         NEW t, t = InsertAt(s, idx + 1, e)
  PROVE  t \in Seq(S) /\ IsWith(t, s, idx, e)
<1>1. PICK n \in Nat, x \in Nat : n = Len(s) /\ x = idx /\ x <= n
  OBVIOUS
<1>2. PICK a \in Seq(S), b \in Seq(S) : a = SubSeq(s, 1, x) /\ b = SubSeq(s, x + 1, n)
  <2>1. SubSeq(s, 1, x) \in Seq(S)
    BY <1>1
  <2>2. SubSeq(s, x + 1, n) \in Seq(S)
    BY <1>1
  <2>3. QED
    BY <2>1, <2>2
<1>3. /\ Len(a) = x /\ \A i \in 1 .. x : a[i] = s[i]
      /\ Len(b) = n - x /\ \A i \in 1 .. n - x : b[i] = s[x + i]
  <2>1. Len(a) = x /\ \A i \in 1 .. x : a[i] = s[i]
    BY <1>1, <1>2
  <2>2. Len(b) = n - x
    BY <1>1, <1>2
  <2>3. \A i \in 1 .. n - x : b[i] = s[x + i]
    BY <1>1, <1>2
  <2>4. QED
    BY <2>1, <2>2, <2>3
<1>4. t = (a \o <<e>>) \o b
  <2>1. (x + 1) - 1 = x
    BY <1>1
  <2>2. QED
    BY <1>1, <1>2, <2>1 DEF InsertAt
<1>5. PICK c \in Seq(S) : c = a \o <<e>>
  <2>1. <<e>> \in Seq(S)
    OBVIOUS
  <2>2. QED
    BY <1>2, <2>1, ConcatProperties
<1>6. Len(c) = x + 1 /\ c[x + 1] = e /\ \A i \in 1 .. x : c[i] = a[i]
  BY <1>1, <1>2, <1>3, <1>5
<1>7. t = c \o b /\ t \in Seq(S)
  BY <1>2, <1>4, <1>5, ConcatProperties
<1>8. /\ Len(t) = n + 1
      /\ \A i \in 1 .. x + 1 : t[i] = c[i]
      /\ \A i \in x + 1 .. n : t[i + 1] = s[i]
  <2>1. c \in Seq(S) /\ b \in Seq(S) /\ t = c \o b
    BY <1>7
  <2>2. Len(t) = Len(c) + Len(b) /\ \A i \in 1 .. Len(c) : t[i] = c[i]
    BY <2>1, ConcatProperties
  <2>3. \A i \in 1 .. Len(b), j \in Nat : j = Len(c) + i => t[j] = b[i]
    BY <2>1, ConcatIs
  <2>4. ASSUME NEW i \in x + 1 .. n
        PROVE  t[i + 1] = s[i]
    <3>1. PICK j \in 1 .. n - x : i = x + j
      <4>1. i - x \in 1 .. n - x /\ i = x + (i - x)
        BY <1>1
      <4>2. QED
        BY <4>1
    <3>2. (x + 1) + j = i + 1
      BY <1>1, <3>1
    <3>3. t[i + 1] = b[j] /\ b[j] = s[x + j]
      <4>1. i + 1 \in Nat /\ i + 1 = Len(c) + j /\ j \in 1 .. Len(b)
        BY <1>1, <1>3, <1>6, <3>1, <3>2
      <4>2. QED
        BY <1>3, <2>3, <3>1, <4>1
    <3>4. QED
      BY <3>1, <3>2, <3>3
  <2>5. Len(t) = n + 1
    BY <1>1, <1>3, <1>6, <2>2
  <2>6. QED
    BY <1>6, <2>2, <2>4, <2>5
<1>9. t[x + 1] = e /\ \A i \in 1 .. x : t[i] = s[i]
  BY <1>1, <1>3, <1>6, <1>8
<1>10. ASSUME NEW i \in 1 .. n
       PROVE  IF i <= x THEN t[i] = s[i] ELSE t[i + 1] = s[i]
  <2>1. i <= x => i \in 1 .. x
    BY <1>1
  <2>2. ~ (i <= x) => i \in x + 1 .. n
    BY <1>1
  <2>3. QED
    BY <1>8, <1>9, <2>1, <2>2
<1>11. QED
  BY <1>1, <1>7, <1>8, <1>9, <1>10 DEF IsWith

LEMMA RemoveAtIs ==
  ASSUME NEW S, NEW s \in Seq(S), NEW idx \in Nat, idx < Len(s),
         NEW t, t = RemoveAt(s, idx + 1)
  PROVE  t \in Seq(S) /\ IsWith(s, t, idx, s[idx + 1])
<1>1. PICK n \in Nat : n = Len(s) /\ idx < n
  OBVIOUS
<1>2. PICK a \in Seq(S), b \in Seq(S) : a = SubSeq(s, 1, idx) /\ b = SubSeq(s, idx + 2, n)
  <2>1. SubSeq(s, 1, idx) \in Seq(S)
    BY <1>1
  <2>2. SubSeq(s, idx + 2, n) \in Seq(S)
    BY <1>1
  <2>3. QED
    BY <2>1, <2>2
<1>3. /\ Len(a) = idx /\ \A i \in 1 .. idx : a[i] = s[i]
      /\ Len(b) = n - (idx + 1) /\ \A i \in 1 .. n - (idx + 1) : b[i] = s[(idx + 1) + i]
  <2>1. Len(a) = idx /\ \A i \in 1 .. idx : a[i] = s[i]
    BY <1>1, <1>2
  <2>2. Len(b) = n - (idx + 1)
    BY <1>1, <1>2
  <2>3. \A i \in 1 .. n - (idx + 1) : b[i] = s[(idx + 1) + i]
    BY <1>1, <1>2
  <2>4. QED
    BY <2>1, <2>2, <2>3
<1>4. t = a \o b
  <2>1. (idx + 1) - 1 = idx /\ (idx + 1) + 1 = idx + 2
    OBVIOUS
  <2>2. QED
    BY <1>1, <1>2, <2>1 DEF RemoveAt
<1>5. /\ t \in Seq(S) /\ Len(t) = Len(a) + Len(b)
      /\ \A i \in 1 .. Len(a) : t[i] = a[i]
      /\ \A i \in 1 .. Len(b), j \in Nat : j = Len(a) + i => t[j] = b[i]
  <2>1. t \in Seq(S) /\ Len(t) = Len(a) + Len(b)
    BY <1>2, <1>4, ConcatProperties
  <2>2. \A i \in 1 .. Len(a) : t[i] = a[i]
    BY <1>2, <1>4, ConcatIs
  <2>3. \A i \in 1 .. Len(b), j \in Nat : j = Len(a) + i => t[j] = b[i]
    BY <1>2, <1>4, ConcatIs
  <2>4. QED
    BY <2>1, <2>2, <2>3
<1>6. PICK m \in Nat : m = Len(t) /\ n = m + 1 /\ idx <= m
  BY <1>1, <1>3, <1>5
<1>7. ASSUME NEW i \in 1 .. m
      PROVE  IF i <= idx THEN s[i] = t[i] ELSE s[i + 1] = t[i]
  <2>1. CASE i <= idx
    BY <1>3, <1>5, <1>6, <2>1
  <2>2. CASE ~ (i <= idx)
    <3>1. PICK j \in 1 .. n - (idx + 1) : i = idx + j
      <4>1. i - idx \in 1 .. n - (idx + 1) /\ i = idx + (i - idx)
        BY <1>6, <2>2
      <4>2. QED
        BY <4>1
    <3>2. (idx + 1) + j = i + 1
      BY <3>1
    <3>3. i \in Nat /\ i = Len(a) + j /\ j \in 1 .. Len(b)
      BY <1>3, <3>1
    <3>4. t[i] = b[j] /\ b[j] = s[(idx + 1) + j]
      BY <1>3, <1>5, <3>1, <3>3
    <3>5. QED
      BY <2>2, <3>2, <3>4
  <2>3. QED
    BY <2>1, <2>2
<1>8. QED
  BY <1>1, <1>5, <1>6, <1>7 DEF IsWith

(* A key is at home where the search for it ends.                          *)
LEMMA WithOrdered ==
  ASSUME NEW s \in Seq(Nat), NEW t \in Seq(Nat), Ordered(s), NEW idx \in 0 .. Len(s),
         NEW k \in Nat, IsWith(t, s, idx, k),
         \A i \in 1 .. Len(s) : s[i] < k <=> i <= idx,
         \A i \in 1 .. Len(s) : s[i] # k
  PROVE  Ordered(t)
<1>1. PICK n \in Nat, x \in Nat : n = Len(s) /\ x = idx /\ x <= n
  OBVIOUS
<1>2. /\ Len(t) = n + 1 /\ t[x + 1] = k
      /\ \A i \in 1 .. n : IF i <= x THEN t[i] = s[i] ELSE t[i + 1] = s[i]
  BY <1>1 DEF IsWith
<1>3. ASSUME NEW i \in 1 .. n + 1, i # x + 1
      PROVE  \E j \in 1 .. n : t[i] = s[j] /\ (IF i <= x THEN j = i ELSE j = i - 1)
  <2>1. CASE i <= x
    BY <1>1, <1>2, <2>1
  <2>2. CASE ~ (i <= x)
    <3>1. PICK j \in 1 .. n : j = i - 1 /\ ~ (j <= x) /\ j + 1 = i
      BY <1>1, <1>3, <2>2
    <3>2. QED
      BY <1>2, <2>2, <3>1
  <2>3. QED
    BY <2>1, <2>2
<1>4. SUFFICES ASSUME NEW i \in 1 .. n + 1, NEW j \in 1 .. n + 1, i < j
               PROVE  t[i] < t[j]
  BY <1>2 DEF Ordered
<1>5. \A a \in 1 .. n : s[a] \in Nat
  BY <1>1
<1>6. CASE i = x + 1
  <2>1. PICK b \in 1 .. n : t[j] = s[b] /\ b = j - 1
    BY <1>1, <1>3, <1>4, <1>6
  <2>2. ~ (b <= x)
    BY <1>1, <1>4, <1>6, <2>1
  <2>3. s[b] # k /\ ~ (s[b] < k)
    BY <1>1, <2>2
  <2>4. QED
    BY <1>2, <1>5, <1>6, <2>1, <2>3
<1>7. CASE j = x + 1
  <2>1. PICK a \in 1 .. n : t[i] = s[a] /\ a = i
    BY <1>1, <1>3, <1>4, <1>7
  <2>2. a <= x
    BY <1>1, <1>4, <1>7, <2>1
  <2>3. s[a] < k
    BY <1>1, <2>2
  <2>4. QED
    BY <1>2, <1>7, <2>1, <2>3
<1>8. CASE i # x + 1 /\ j # x + 1
  <2>1. PICK a \in 1 .. n : t[i] = s[a] /\ (IF i <= x THEN a = i ELSE a = i - 1)
    BY <1>3, <1>8
  <2>2. PICK b \in 1 .. n : t[j] = s[b] /\ (IF j <= x THEN b = j ELSE b = j - 1)
    BY <1>3, <1>8
  <2>3. a < b
    BY <1>1, <1>4, <1>8, <2>1, <2>2
  <2>4. s[a] < s[b]
    BY <1>1, <2>3 DEF Ordered
  <2>5. QED
    BY <2>1, <2>2, <2>4
<1>9. QED
  BY <1>6, <1>7, <1>8

LEMMA WithoutOrdered ==
  ASSUME NEW s \in Seq(Nat), NEW t \in Seq(Nat), Ordered(s), NEW idx \in Nat, NEW e,
         IsWith(s, t, idx, e)
  PROVE  Ordered(t)
<1>1. PICK m \in Nat : m = Len(t) /\ Len(s) = m + 1
  BY DEF IsWith
<1>2. \A i \in 1 .. m : IF i <= idx THEN s[i] = t[i] ELSE s[i + 1] = t[i]
  BY <1>1 DEF IsWith
<1>3. SUFFICES ASSUME NEW i \in 1 .. m, NEW j \in 1 .. m, i < j
               PROVE  t[i] < t[j]
  BY <1>1 DEF Ordered
<1>4. ASSUME NEW x \in 1 .. m
      PROVE  \E a \in 1 .. m + 1 : s[a] = t[x] /\ a = IF x <= idx THEN x ELSE x + 1
  <2>1. x \in 1 .. m + 1 /\ x + 1 \in 1 .. m + 1
    OBVIOUS
  <2>2. CASE x <= idx
    BY <1>2, <2>1, <2>2
  <2>3. CASE ~ (x <= idx)
    BY <1>2, <2>1, <2>3
  <2>4. QED
    BY <2>2, <2>3
<1>5. PICK a \in 1 .. m + 1 : s[a] = t[i] /\ a = IF i <= idx THEN i ELSE i + 1
  BY <1>4
<1>6. PICK b \in 1 .. m + 1 : s[b] = t[j] /\ b = IF j <= idx THEN j ELSE j + 1
  BY <1>4
<1>7. a < b
  BY <1>3, <1>5, <1>6
<1>8. QED
  BY <1>1, <1>5, <1>6, <1>7 DEF Ordered

-----------------------------------------------------------------------------
(* Maps.                                                                   *)

Maps == [keys : Seq(Key), values : Seq(Value), capacity : Nat,
         keySlots : Nat, valueSlots : Nat]

Sorted(b) == b \in Maps /\ Len(b.values) = Len(b.keys) /\ Ordered(b.keys)

(* The buffers have the size the map believes, and twice its bytes fit the *)
(* type of sizes.                                                          *)
Fits(b) ==
  /\ Len(b.keys) <= b.capacity
  /\ b.keySlots = b.capacity /\ b.valueSlots = b.capacity
  /\ 2 * ValueSize * b.capacity < Sizes

(* b with other elements.                                                  *)
WithSeqs(b, ks, vs) ==
  [keys |-> ks, values |-> vs, capacity |-> b.capacity,
   keySlots |-> b.keySlots, valueSlots |-> b.valueSlots]

(* b with other buffers.                                                   *)
WithSlots(b, n, v) ==
  [keys |-> b.keys, values |-> b.values, capacity |-> n, keySlots |-> n, valueSlots |-> v]

LEMMA MapType ==
  ASSUME NEW b, Sorted(b), SortedMapAssumption
  PROVE  /\ b.keys \in Seq(Key) /\ b.keys \in Seq(Nat) /\ b.values \in Seq(Value)
         /\ Len(b.keys) \in Nat /\ Len(b.values) = Len(b.keys) /\ Ordered(b.keys)
         /\ b.capacity \in Nat /\ b.keySlots \in Nat /\ b.valueSlots \in Nat
         /\ b = [keys |-> b.keys, values |-> b.values, capacity |-> b.capacity,
                 keySlots |-> b.keySlots, valueSlots |-> b.valueSlots]
<1>1. b \in Maps
  BY DEF Sorted
<1>2. /\ b.keys \in Seq(Key) /\ b.values \in Seq(Value)
      /\ b.capacity \in Nat /\ b.keySlots \in Nat /\ b.valueSlots \in Nat
      /\ b = [keys |-> b.keys, values |-> b.values, capacity |-> b.capacity,
              keySlots |-> b.keySlots, valueSlots |-> b.valueSlots]
  BY <1>1 DEF Maps
<1>3. b.keys \in Seq(Nat)
  <2>1. Key \subseteq Nat
    BY DEF SortedMapAssumption
  <2>2. QED
    BY <1>2, <2>1, SeqMonotonic
<1>4. Len(b.keys) \in Nat
  BY <1>2
<1>5. QED
  BY <1>2, <1>3, <1>4 DEF Sorted

LEMMA ExceptSeqs ==
  ASSUME NEW b, NEW ks, NEW vs,
         b = [keys |-> b.keys, values |-> b.values, capacity |-> b.capacity,
              keySlots |-> b.keySlots, valueSlots |-> b.valueSlots]
  PROVE  [b EXCEPT !.keys = ks, !.values = vs] = WithSeqs(b, ks, vs)
<1>1. PICK k, v, c, x, y :
        /\ b = [keys |-> k, values |-> v, capacity |-> c, keySlots |-> x, valueSlots |-> y]
        /\ c = b.capacity /\ x = b.keySlots /\ y = b.valueSlots
  OBVIOUS
<1>2. PICK d : d = [b EXCEPT !.keys = ks]
  OBVIOUS
<1>3. d = [keys |-> ks, values |-> v, capacity |-> c, keySlots |-> x, valueSlots |-> y]
  BY <1>1, <1>2
<1>4. [d EXCEPT !.values = vs]
      = [keys |-> ks, values |-> vs, capacity |-> c, keySlots |-> x, valueSlots |-> y]
  BY <1>3
<1>5. [b EXCEPT !.keys = ks, !.values = vs] = [d EXCEPT !.values = vs]
  BY <1>2, Zenon
<1>6. QED
  BY <1>1, <1>4, <1>5 DEF WithSeqs

LEMMA ExceptSlots ==
  ASSUME NEW b, NEW n, NEW v,
         b = [keys |-> b.keys, values |-> b.values, capacity |-> b.capacity,
              keySlots |-> b.keySlots, valueSlots |-> b.valueSlots]
  PROVE  [b EXCEPT !.capacity = n, !.keySlots = n, !.valueSlots = v] = WithSlots(b, n, v)
<1>1. PICK k, w, c, x, y :
        /\ b = [keys |-> k, values |-> w, capacity |-> c, keySlots |-> x, valueSlots |-> y]
        /\ k = b.keys /\ w = b.values
  OBVIOUS
<1>2. PICK d : d = [b EXCEPT !.capacity = n]
  OBVIOUS
<1>3. PICK e : e = [d EXCEPT !.keySlots = n]
  OBVIOUS
<1>4. d = [keys |-> k, values |-> w, capacity |-> n, keySlots |-> x, valueSlots |-> y]
  BY <1>1, <1>2
<1>5. e = [keys |-> k, values |-> w, capacity |-> n, keySlots |-> n, valueSlots |-> y]
  BY <1>3, <1>4
<1>6. [e EXCEPT !.valueSlots = v]
      = [keys |-> k, values |-> w, capacity |-> n, keySlots |-> n, valueSlots |-> v]
  BY <1>5
<1>7. [b EXCEPT !.capacity = n, !.keySlots = n, !.valueSlots = v] = [e EXCEPT !.valueSlots = v]
  BY <1>2, <1>3, Zenon
<1>8. QED
  BY <1>1, <1>6, <1>7 DEF WithSlots

LEMMA NullMap ==
  ASSUME SortedMapAssumption
  PROVE  Sorted(Null) /\ Fits(Null) /\ Null.keys = << >> /\ Null.values = << >>
<1>1. PICK e : e = << >>
  OBVIOUS
<1>2. e \in Seq(Key) /\ e \in Seq(Value) /\ Len(e) = 0 /\ Ordered(e)
  BY <1>1 DEF Ordered
<1>3. Null = [keys |-> e, values |-> e, capacity |-> 0, keySlots |-> 0, valueSlots |-> 0]
  BY <1>1 DEF Null
<1>4. Sorted(Null)
  BY <1>2, <1>3 DEF Sorted, Maps
<1>5. 2 * ValueSize * 0 < Sizes
  <2>1. PICK p \in Nat : p = 2 * ValueSize
    BY DEF SortedMapAssumption
  <2>2. MinCapacity \in Nat \ {0} /\ Sizes \in Nat /\ p * MinCapacity < Sizes
    BY <2>1 DEF SortedMapAssumption
  <2>3. p * 0 = 0 /\ p * MinCapacity >= 0
    BY <2>2
  <2>4. QED
    BY <2>1, <2>2, <2>3
<1>6. Fits(Null)
  BY <1>2, <1>3, <1>5 DEF Fits
<1>7. QED
  BY <1>1, <1>3, <1>4, <1>6

(* Only a map without memory has no capacity.                              *)
LEMMA IsNull ==
  ASSUME NEW b, SortedMapAssumption, Sorted(b), Fits(b), b.capacity = 0
  PROVE  b = Null
<1>1. PICK ks \in Seq(Key), vs \in Seq(Value) : ks = b.keys /\ vs = b.values
  BY MapType
<1>2. Len(ks) = 0 /\ Len(vs) = 0
  BY <1>1, MapType DEF Fits
<1>3. ks = << >> /\ vs = << >>
  BY <1>2
<1>4. b.keySlots = 0 /\ b.valueSlots = 0
  BY DEF Fits
<1>5. QED
  BY <1>1, <1>3, <1>4, MapType DEF Null

-----------------------------------------------------------------------------
(* Sizes.                                                                  *)

LEMMA BytesIs ==
  ASSUME SortedMapAssumption, NEW n \in Nat, 2 * ValueSize * n < Sizes
  PROVE  Bytes(n) = ValueSize * n /\ Bytes(n) >= 0 /\ Bytes(n) \div ValueSize = n
<1>1. PICK v \in Nat, s \in Nat, h \in Nat : v = ValueSize /\ v >= 2 /\ s = Sizes /\ s = 2 * h
  <2>1. ValueSize \in Nat /\ ValueSize >= 2 /\ Sizes \in Nat /\ Sizes % 2 = 0
    BY DEF SortedMapAssumption
  <2>2. Sizes \div 2 \in Nat /\ Sizes = 2 * (Sizes \div 2)
    BY <2>1
  <2>3. QED
    BY <2>1, <2>2
<1>2. PICK p \in Nat : p = v * n
  OBVIOUS
<1>3. 2 * p < s
  <2>1. 2 * v * n = 2 * (v * n)
    OBVIOUS
  <2>2. QED
    BY <1>1, <1>2, <2>1
<1>4. p % s = p /\ s \div 2 = h /\ p < h
  BY <1>1, <1>3
<1>5. Bytes(n) = p
  BY <1>1, <1>2, <1>4 DEF Bytes
<1>6. p \div v = n
  <2>1. PICK q \in Nat, r \in Nat : q = p \div v /\ p = v * q + r /\ r < v
    <3>1. v \in Nat \ {0} /\ p \in Nat
      BY <1>1
    <3>2. p \div v \in Nat /\ p % v \in 0 .. v - 1
      BY <3>1
    <3>3. p = v * (p \div v) + (p % v)
      BY <3>1
    <3>4. QED
      BY <3>2, <3>3
  <2>2. ~ (q < n)
    <3>1. SUFFICES ASSUME q < n
                   PROVE  FALSE
      OBVIOUS
    <3>2. PICK d \in Nat : n = q + d /\ d >= 1
      <4>1. n - q \in Nat /\ n = q + (n - q) /\ n - q >= 1
        BY <3>1
      <4>2. QED
        BY <4>1
    <3>3. v * n = v * q + v * d
      BY <3>2
    <3>4. v * d >= v
      BY <3>2
    <3>5. QED
      BY <1>2, <2>1, <3>3, <3>4
  <2>3. ~ (n < q)
    <3>1. SUFFICES ASSUME n < q
                   PROVE  FALSE
      OBVIOUS
    <3>2. PICK d \in Nat : q = n + d /\ d >= 1
      <4>1. q - n \in Nat /\ q = n + (q - n) /\ q - n >= 1
        BY <3>1
      <4>2. QED
        BY <4>1
    <3>3. v * q = v * n + v * d
      BY <3>2
    <3>4. v * d >= v
      BY <3>2
    <3>5. QED
      BY <1>1, <1>2, <2>1, <3>3, <3>4
  <2>4. QED
    BY <2>1, <2>2, <2>3
<1>7. QED
  BY <1>1, <1>2, <1>5, <1>6

(* A doubled size that does not fit is negative.                           *)
LEMMA SaneDouble ==
  ASSUME SortedMapAssumption, NEW n \in Nat, 2 * ValueSize * n < Sizes,
         NEW m \in Nat, m = 2 * n, Sane(m)
  PROVE  2 * ValueSize * m < Sizes
<1>1. PICK v \in Nat, s \in Nat, h \in Nat : v = ValueSize /\ s = Sizes /\ s = 2 * h
  <2>1. ValueSize \in Nat /\ Sizes \in Nat /\ Sizes % 2 = 0
    BY DEF SortedMapAssumption
  <2>2. Sizes \div 2 \in Nat /\ Sizes = 2 * (Sizes \div 2)
    BY <2>1
  <2>3. QED
    BY <2>1, <2>2
<1>2. PICK p \in Nat : p = v * m
  OBVIOUS
<1>3. p < s
  <2>1. 2 * v * n = v * (2 * n)
    OBVIOUS
  <2>2. QED
    BY <1>1, <1>2, <2>1
<1>4. p % s = p /\ s \div 2 = h
  BY <1>1, <1>3
<1>5. Bytes(m) = IF p < h THEN p ELSE p - s
  BY <1>1, <1>2, <1>4 DEF Bytes
<1>6. p < h
  BY <1>1, <1>3, <1>5 DEF Sane
<1>7. 2 * v * m = 2 * (v * m)
  OBVIOUS
<1>8. QED
  BY <1>1, <1>2, <1>6, <1>7

(* What can be said of a capacity that was asked for.                      *)
HasIfOk(r, n) == r.ok => n = r.map.capacity

FitsIfSane(n) == Sane(n) => 2 * ValueSize * n < Sizes

(* What kvs_realloc() leaves: the elements, in buffers of the same size.   *)
LEMMA ReallocIs ==
  ASSUME SortedMapAssumption, KeysCanFail = FALSE,
         NEW b, Sorted(b), Fits(b), NEW n \in Nat, Len(b.keys) <= n,
         FitsIfSane(n),
         NEW r \in Reallocs(b, n)
  PROVE  /\ Sorted(r.map) /\ Fits(r.map)
         /\ r.map.keys = b.keys /\ r.map.values = b.values
         /\ HasIfOk(r, n)
<1>1. CASE n = 0
  <2>1. r.map = Null
    BY <1>1 DEF Reallocs
  <2>2. PICK ks \in Seq(Key), vs \in Seq(Value) : ks = b.keys /\ vs = b.values
    BY MapType
  <2>3. Len(ks) = 0 /\ Len(vs) = 0
    BY <1>1, <2>2, MapType
  <2>4. ks = << >> /\ vs = << >>
    BY <2>3
  <2>5. Null.capacity = 0
    BY DEF Null
  <2>6. QED
    BY <1>1, <2>1, <2>2, <2>4, <2>5, NullMap DEF HasIfOk
<1>2. CASE n # 0
  <2>1. PICK done : done = [b EXCEPT !.capacity = n, !.keySlots = n,
                                     !.valueSlots = Bytes(n) \div ValueSize]
    OBVIOUS
  <2>2. r = [map |-> b, ok |-> FALSE] \/ (Sane(n) /\ r = [map |-> done, ok |-> TRUE])
    BY <1>2, <2>1 DEF Reallocs
  <2>3. CASE r = [map |-> b, ok |-> FALSE]
    <3>1. r.map = b /\ r.ok = FALSE
      BY <2>3
    <3>2. QED
      BY <3>1 DEF HasIfOk
  <2>4. CASE Sane(n) /\ r = [map |-> done, ok |-> TRUE]
    <3>1. r.map = done
      BY <2>4
    <3>2. Bytes(n) \div ValueSize = n /\ 2 * ValueSize * n < Sizes
      BY <2>4, BytesIs DEF FitsIfSane
    <3>3. done = WithSlots(b, n, n)
      <4>1. done = [b EXCEPT !.capacity = n, !.keySlots = n, !.valueSlots = n]
        BY <2>1, <3>2, Zenon
      <4>2. QED
        BY <4>1, MapType, ExceptSlots, Zenon
    <3>4. /\ done = [keys |-> b.keys, values |-> b.values, capacity |-> n,
                     keySlots |-> n, valueSlots |-> n]
          /\ done.keys = b.keys /\ done.values = b.values
          /\ done.capacity = n /\ done.keySlots = n /\ done.valueSlots = n
      BY <3>3 DEF WithSlots
    <3>5. done \in Maps
      BY <3>4, MapType DEF Maps
    <3>6. Sorted(done)
      BY <3>4, <3>5, MapType DEF Sorted
    <3>7. Fits(done)
      BY <3>2, <3>4 DEF Fits
    <3>8. QED
      BY <3>1, <3>4, <3>6, <3>7 DEF HasIfOk
  <2>5. QED
    BY <2>2, <2>3, <2>4
<1>3. QED
  BY <1>1, <1>2

(* There is room for one more element.                                     *)
LEMMA RoomIs ==
  ASSUME SortedMapAssumption, KeysCanFail = FALSE,
         NEW b, Sorted(b), Fits(b), NEW r \in Room(b)
  PROVE  /\ Sorted(r.map) /\ Fits(r.map)
         /\ r.map.keys = b.keys /\ r.map.values = b.values
         /\ r.ok => Len(b.keys) < r.map.capacity
<1>1. PICK c \in Nat, l \in Nat : c = b.capacity /\ l = Len(b.keys) /\ l <= c
  BY MapType DEF Fits
<1>2. CASE l # c
  <2>1. r = [map |-> b, ok |-> TRUE]
    BY <1>1, <1>2 DEF Room, Count
  <2>2. QED
    BY <1>1, <1>2, <2>1
<1>3. CASE l = c
  <2>1. PICK n : n = IF b = Null THEN MinCapacity ELSE 2 * b.capacity
    OBVIOUS
  <2>2. r \in Reallocs(b, n)
    BY <1>1, <1>3, <2>1 DEF Room, Count
  <2>3. n \in Nat /\ l < n /\ (Sane(n) => 2 * ValueSize * n < Sizes)
    <3>1. CASE b = Null
      <4>1. c = 0 /\ n = MinCapacity
        BY <1>1, <2>1, <3>1 DEF Null
      <4>2. n \in Nat \ {0} /\ 2 * ValueSize * n < Sizes
        BY <4>1 DEF SortedMapAssumption
      <4>3. QED
        BY <1>3, <4>1, <4>2
    <3>2. CASE b # Null
      <4>1. c # 0 /\ n = 2 * c
        BY <1>1, <2>1, <3>2, IsNull
      <4>2. n \in Nat /\ c < n
        BY <4>1
      <4>3. 2 * ValueSize * c < Sizes
        BY <1>1 DEF Fits
      <4>4. QED
        BY <1>3, <4>1, <4>2, <4>3, SaneDouble
    <3>3. QED
      BY <3>1, <3>2
  <2>4. Len(b.keys) <= n
    BY <1>1, <2>3
  <2>5. /\ Sorted(r.map) /\ Fits(r.map)
        /\ r.map.keys = b.keys /\ r.map.values = b.values
        /\ r.ok => n = r.map.capacity
    <3>1. PICK m \in Nat : m = n
      BY <2>3
    <3>2. r \in Reallocs(b, m) /\ Len(b.keys) <= m
      BY <2>2, <2>4, <3>1
    <3>3. FitsIfSane(m)
      BY <2>3, <3>1 DEF FitsIfSane
    <3>4. Sorted(r.map) /\ Fits(r.map)
      BY <3>1, <3>2, <3>3, ReallocIs
    <3>5. r.map.keys = b.keys /\ r.map.values = b.values
      BY <3>1, <3>2, <3>3, ReallocIs
    <3>6. HasIfOk(r, m)
      BY <3>1, <3>2, <3>3, ReallocIs
    <3>7. r.ok => n = r.map.capacity
      BY <3>1, <3>6 DEF HasIfOk
    <3>8. QED
      BY <3>4, <3>5, <3>7
  <2>6. QED
    BY <1>1, <2>3, <2>5
<1>4. QED
  BY <1>2, <1>3

-----------------------------------------------------------------------------
(* What a map shows.                                                       *)

KeysOf(b) == {b.keys[i] : i \in 1 .. Len(b.keys)}

Holds(b) == [k \in {b.keys[i] : i \in 1 .. Count(b)} |->
               b.values[CHOOSE i \in 1 .. Count(b) : b.keys[i] = k]]

(* f is the function from the keys of b to its values.                     *)
Shown(f, b) == /\ f = [k \in DOMAIN f |-> f[k]]
               /\ DOMAIN f = KeysOf(b)
               /\ \A i \in 1 .. Len(b.keys) : f[b.keys[i]] = b.values[i]

Added(f, k, v) == [j \in DOMAIN f \cup {k} |-> IF j = k THEN v ELSE f[j]]

Less(f, S) == [j \in DOMAIN f \ S |-> f[j]]

(* No key is there twice.                                                  *)
LEMMA KeysDiffer ==
  ASSUME SortedMapAssumption, NEW b, Sorted(b),
         NEW i \in 1 .. Len(b.keys), NEW j \in 1 .. Len(b.keys), b.keys[i] = b.keys[j]
  PROVE  i = j
<1>1. PICK ks \in Seq(Nat) : ks = b.keys /\ Ordered(ks)
  BY MapType
<1>2. PICK x \in 1 .. Len(ks), y \in 1 .. Len(ks) : x = i /\ y = j
  BY <1>1
<1>3. x \in Nat /\ y \in Nat /\ ks[x] \in Nat /\ ks[y] \in Nat /\ ks[x] = ks[y]
  BY <1>1, <1>2
<1>4. ~ (x < y) /\ ~ (y < x)
  BY <1>1, <1>2, <1>3 DEF Ordered
<1>5. QED
  BY <1>2, <1>3, <1>4

(* The refinement mapping shows the map, and nothing else does.            *)
LEMMA HoldsShown ==
  ASSUME SortedMapAssumption, NEW b, Sorted(b)
  PROVE  Shown(Holds(b), b)
<1>1. DOMAIN Holds(b) = KeysOf(b) /\ Holds(b) = [k \in DOMAIN Holds(b) |-> Holds(b)[k]]
  BY DEF Holds, KeysOf, Count
<1>2. ASSUME NEW i \in 1 .. Len(b.keys)
      PROVE  Holds(b)[b.keys[i]] = b.values[i]
  <2>1. PICK j : j = CHOOSE x \in 1 .. Len(b.keys) : b.keys[x] = b.keys[i]
    OBVIOUS
  <2>2. j \in 1 .. Len(b.keys) /\ b.keys[j] = b.keys[i]
    BY <2>1
  <2>3. j = i
    BY <2>2, KeysDiffer
  <2>4. b.keys[i] \in {b.keys[x] : x \in 1 .. Len(b.keys)}
    OBVIOUS
  <2>5. Holds(b)[b.keys[i]] = b.values[j]
    BY <2>1, <2>4 DEF Holds, Count
  <2>6. QED
    BY <2>3, <2>5
<1>3. QED
  BY <1>1, <1>2 DEF Shown

LEMMA ShownOnce ==
  ASSUME NEW b, NEW f, NEW g, Shown(f, b), Shown(g, b)
  PROVE  f = g
<1>1. DOMAIN f = DOMAIN g
  BY DEF Shown
<1>2. ASSUME NEW k \in DOMAIN f
      PROVE  f[k] = g[k]
  <2>1. PICK i \in 1 .. Len(b.keys) : k = b.keys[i]
    BY DEF Shown, KeysOf
  <2>2. QED
    BY <2>1 DEF Shown
<1>3. QED
  BY <1>1, <1>2 DEF Shown

LEMMA SameShown ==
  ASSUME NEW f, NEW b, NEW d, Shown(f, b), d.keys = b.keys, d.values = b.values
  PROVE  Shown(f, d)
BY DEF Shown, KeysOf

(* Another element.                                                        *)
LEMMA ShownWith ==
  ASSUME NEW b, NEW d, NEW f, Shown(f, b), NEW idx \in Nat, NEW k, NEW v,
         b.keys \in Seq(Key), Len(b.values) = Len(b.keys), idx <= Len(b.keys),
         IsWith(d.keys, b.keys, idx, k), IsWith(d.values, b.values, idx, v),
         \A i \in 1 .. Len(b.keys) : b.keys[i] # k
  PROVE  Shown(Added(f, k, v), d) /\ k \notin DOMAIN f
<1>0. PICK g : g = Added(f, k, v)
  OBVIOUS
<1>1. PICK n \in Nat : n = Len(b.keys)
  OBVIOUS
<1>2. /\ Len(d.keys) = n + 1 /\ d.keys[idx + 1] = k /\ d.values[idx + 1] = v
      /\ \A i \in 1 .. n : IF i <= idx
                           THEN d.keys[i] = b.keys[i] /\ d.values[i] = b.values[i]
                           ELSE d.keys[i + 1] = b.keys[i] /\ d.values[i + 1] = b.values[i]
  BY <1>1 DEF IsWith
<1>3. DOMAIN f = {b.keys[i] : i \in 1 .. n} /\ \A i \in 1 .. n : f[b.keys[i]] = b.values[i]
  BY <1>1 DEF Shown, KeysOf
<1>4. k \notin DOMAIN f
  BY <1>1, <1>3
<1>5. /\ DOMAIN g = DOMAIN f \cup {k} /\ g[k] = v /\ \A j \in DOMAIN f : g[j] = f[j]
      /\ g = [j \in DOMAIN g |-> g[j]]
  BY <1>0, <1>4 DEF Added
<1>6. ASSUME NEW i \in 1 .. n + 1
      PROVE  \/ d.keys[i] = k /\ d.values[i] = v
             \/ \E j \in 1 .. n : d.keys[i] = b.keys[j] /\ d.values[i] = b.values[j]
  <2>1. CASE i <= idx
    <3>1. i \in 1 .. n
      BY <1>1, <2>1
    <3>2. QED
      BY <1>2, <2>1, <3>1
  <2>2. CASE i = idx + 1
    BY <1>2, <2>2
  <2>3. CASE i > idx + 1
    <3>1. PICK j \in 1 .. n : j = i - 1 /\ ~ (j <= idx) /\ j + 1 = i
      BY <1>1, <2>3
    <3>2. QED
      BY <1>2, <3>1
  <2>4. QED
    BY <1>1, <2>1, <2>2, <2>3
<1>7. ASSUME NEW i \in 1 .. n + 1
      PROVE  d.keys[i] \in DOMAIN g /\ g[d.keys[i]] = d.values[i]
  <2>1. CASE d.keys[i] = k /\ d.values[i] = v
    BY <1>5, <2>1
  <2>2. CASE \E j \in 1 .. n : d.keys[i] = b.keys[j] /\ d.values[i] = b.values[j]
    <3>1. PICK j \in 1 .. n : d.keys[i] = b.keys[j] /\ d.values[i] = b.values[j]
      BY <2>2
    <3>2. b.keys[j] \in DOMAIN f /\ f[b.keys[j]] = b.values[j]
      BY <1>3
    <3>3. QED
      BY <1>5, <3>1, <3>2
  <2>3. QED
    BY <1>6, <2>1, <2>2
<1>8. ASSUME NEW j \in DOMAIN g
      PROVE  j \in {d.keys[i] : i \in 1 .. n + 1}
  <2>1. CASE j = k
    <3>1. idx + 1 \in 1 .. n + 1
      BY <1>1
    <3>2. QED
      BY <1>2, <2>1, <3>1
  <2>2. CASE j # k
    <3>1. PICK i \in 1 .. n : j = b.keys[i]
      BY <1>3, <1>5, <2>2
    <3>2. i \in 1 .. n + 1 /\ i + 1 \in 1 .. n + 1
      OBVIOUS
    <3>3. QED
      BY <1>2, <3>1, <3>2
  <2>3. QED
    BY <2>1, <2>2
<1>9. DOMAIN g = {d.keys[i] : i \in 1 .. n + 1}
  BY <1>7, <1>8
<1>10. QED
  BY <1>0, <1>1, <1>2, <1>4, <1>5, <1>7, <1>9 DEF Shown, KeysOf

(* One less.                                                               *)
LEMMA ShownWithout ==
  ASSUME NEW b, NEW d, NEW f, Shown(f, b), NEW idx \in Nat, NEW k, NEW v,
         d.keys \in Seq(Key), idx < Len(b.keys), Len(b.keys) \in Nat,
         Len(d.values) = Len(d.keys),
         IsWith(b.keys, d.keys, idx, k), IsWith(b.values, d.values, idx, v),
         \A i, j \in 1 .. Len(b.keys) : b.keys[i] = b.keys[j] => i = j
  PROVE  Shown(Less(f, {k}), d)
<1>0. PICK g : g = Less(f, {k})
  OBVIOUS
<1>1. PICK m \in Nat : m = Len(d.keys)
  OBVIOUS
<1>2. /\ Len(b.keys) = m + 1 /\ b.keys[idx + 1] = k
      /\ \A i \in 1 .. m : IF i <= idx
                           THEN b.keys[i] = d.keys[i] /\ b.values[i] = d.values[i]
                           ELSE b.keys[i + 1] = d.keys[i] /\ b.values[i + 1] = d.values[i]
  BY <1>1 DEF IsWith
<1>3. /\ DOMAIN f = {b.keys[i] : i \in 1 .. m + 1}
      /\ \A i \in 1 .. m + 1 : f[b.keys[i]] = b.values[i]
  BY <1>2 DEF Shown, KeysOf
<1>4. /\ DOMAIN g = DOMAIN f \ {k} /\ \A j \in DOMAIN g : g[j] = f[j]
      /\ g = [j \in DOMAIN g |-> g[j]]
  BY <1>0 DEF Less
<1>5. ASSUME NEW i \in 1 .. m
      PROVE  \E j \in 1 .. m + 1 : /\ b.keys[j] = d.keys[i] /\ b.values[j] = d.values[i]
                                   /\ j # idx + 1
  <2>1. CASE i <= idx
    <3>1. i \in 1 .. m + 1 /\ i # idx + 1
      BY <2>1
    <3>2. QED
      BY <1>2, <2>1, <3>1
  <2>2. CASE ~ (i <= idx)
    <3>1. i + 1 \in 1 .. m + 1 /\ i + 1 # idx + 1
      BY <2>2
    <3>2. QED
      BY <1>2, <2>2, <3>1
  <2>3. QED
    BY <2>1, <2>2
<1>6. idx + 1 \in 1 .. m + 1
  BY <1>2
<1>7. ASSUME NEW i \in 1 .. m
      PROVE  d.keys[i] \in DOMAIN g /\ g[d.keys[i]] = d.values[i]
  <2>1. PICK j \in 1 .. m + 1 : /\ b.keys[j] = d.keys[i] /\ b.values[j] = d.values[i]
                                /\ j # idx + 1
    BY <1>5
  <2>2. b.keys[j] # k
    BY <1>2, <1>6, <2>1
  <2>3. QED
    BY <1>3, <1>4, <2>1, <2>2
<1>8. ASSUME NEW j \in DOMAIN g
      PROVE  j \in {d.keys[i] : i \in 1 .. m}
  <2>1. PICK i \in 1 .. m + 1 : j = b.keys[i] /\ i # idx + 1
    BY <1>2, <1>3, <1>4
  <2>2. CASE i <= idx
    <3>1. i \in 1 .. m
      BY <1>2, <2>2
    <3>2. QED
      BY <1>2, <2>1, <2>2, <3>1
  <2>3. CASE ~ (i <= idx)
    <3>1. PICK l \in 1 .. m : l + 1 = i /\ ~ (l <= idx)
      <4>1. i - 1 \in 1 .. m /\ (i - 1) + 1 = i /\ ~ (i - 1 <= idx)
        BY <2>1, <2>3
      <4>2. QED
        BY <4>1
    <3>2. QED
      BY <1>2, <2>1, <3>1
  <2>4. QED
    BY <2>2, <2>3
<1>9. DOMAIN g = {d.keys[i] : i \in 1 .. m}
  <2>1. \A x \in {d.keys[i] : i \in 1 .. m} : x \in DOMAIN g
    BY <1>7
  <2>2. QED
    BY <1>8, <2>1
<1>10. DOMAIN g = KeysOf(d)
  BY <1>1, <1>9 DEF KeysOf
<1>11. \A i \in 1 .. Len(d.keys) : g[d.keys[i]] = d.values[i]
  BY <1>1, <1>7
<1>12. QED
  BY <1>0, <1>1, <1>4, <1>10, <1>11 DEF Shown

-----------------------------------------------------------------------------
(* What the calls make of a map.                                           *)

(* Where a key is, or belongs.                                             *)
LEMMA HasIs ==
  ASSUME SortedMapAssumption, NEW b, Sorted(b), NEW k \in Key,
         NEW idx, idx = LowerBound(b, k)
  PROVE  /\ idx \in 0 .. Len(b.keys)
         /\ \A i \in 1 .. Len(b.keys) : b.keys[i] < k <=> i <= idx
         /\ Has(b, k) <=> k \in KeysOf(b)
         /\ Has(b, k) => idx < Len(b.keys) /\ b.keys[idx + 1] = k
<1>1. PICK ks \in Seq(Nat), n \in Nat : ks = b.keys /\ n = Len(ks) /\ Ordered(ks)
  BY MapType
<1>2. k \in Nat
  BY DEF SortedMapAssumption
<1>3. idx \in 0 .. n /\ \A i \in 1 .. n : ks[i] < k <=> i <= idx
  BY <1>1, <1>2, LowerBoundIs
<1>4. PICK x \in Nat : x = idx /\ x <= n
  BY <1>1, <1>3
<1>5. Has(b, k) <=> x < n /\ ks[x + 1] = k
  BY <1>1, <1>4 DEF Has, Count
<1>6. ASSUME NEW i \in 1 .. n, ks[i] = k
      PROVE  x < n /\ i = x + 1
  <2>1. i \in Nat /\ ~ (i <= x)
    BY <1>1, <1>2, <1>3, <1>4, <1>6
  <2>2. x < n /\ x + 1 \in 1 .. n
    BY <1>1, <1>4, <2>1
  <2>3. ~ (x + 1 < i)
    <3>1. SUFFICES ASSUME x + 1 < i
                   PROVE  FALSE
      OBVIOUS
    <3>2. PICK j \in 1 .. n : j = x + 1
      BY <2>2
    <3>3. ks[j] < k
      BY <1>1, <1>6, <3>1, <3>2 DEF Ordered
    <3>4. j <= x
      BY <1>3, <1>4, <3>3
    <3>5. QED
      BY <3>2, <3>4
  <2>4. QED
    BY <2>1, <2>2, <2>3
<1>7. k \in KeysOf(b) => Has(b, k)
  <2>1. SUFFICES ASSUME NEW i \in 1 .. n, ks[i] = k
                 PROVE  Has(b, k)
    BY <1>1 DEF KeysOf
  <2>2. x < n /\ i = x + 1
    BY <1>6, <2>1
  <2>3. QED
    BY <1>5, <2>1, <2>2
<1>8. Has(b, k) => k \in KeysOf(b)
  <2>1. SUFFICES ASSUME x < n, ks[x + 1] = k
                 PROVE  k \in KeysOf(b)
    BY <1>5
  <2>2. x + 1 \in 1 .. n
    BY <1>1, <1>4, <2>1
  <2>3. QED
    BY <1>1, <2>1, <2>2 DEF KeysOf
<1>9. QED
  BY <1>1, <1>3, <1>4, <1>5, <1>7, <1>8

LEMMA InsertedIs ==
  ASSUME SortedMapAssumption, NEW b, Sorted(b), Fits(b), Len(b.keys) < b.capacity,
         NEW k \in Key, NEW v \in Value, NEW f, Shown(f, b), k \notin KeysOf(b),
         NEW idx \in 0 .. Len(b.keys), \A i \in 1 .. Len(b.keys) : b.keys[i] < k <=> i <= idx,
         NEW d, d = Inserted(b, idx, k, v)
  PROVE  Sorted(d) /\ Fits(d) /\ Shown(Added(f, k, v), d) /\ k \notin DOMAIN f
<1>1. PICK ks : ks = InsertAt(b.keys, idx + 1, k)
  OBVIOUS
<1>2. PICK vs : vs = InsertAt(b.values, idx + 1, v)
  OBVIOUS
<1>3. d = WithSeqs(b, ks, vs)
  <2>1. d = [b EXCEPT !.keys = ks, !.values = vs]
    BY <1>1, <1>2, Zenon DEF Inserted
  <2>2. QED
    BY <2>1, MapType, ExceptSeqs, Zenon
<1>4. /\ d.keys = ks /\ d.values = vs /\ d.capacity = b.capacity
      /\ d.keySlots = b.keySlots /\ d.valueSlots = b.valueSlots
      /\ d = [keys |-> ks, values |-> vs, capacity |-> b.capacity,
              keySlots |-> b.keySlots, valueSlots |-> b.valueSlots]
  BY <1>3 DEF WithSeqs
<1>5. PICK n \in Nat : n = Len(b.keys) /\ n = Len(b.values) /\ idx \in 0 .. n
  BY MapType
<1>6. ks \in Seq(Key) /\ IsWith(ks, b.keys, idx, k)
  BY <1>1, MapType, InsertAtIs
<1>7. vs \in Seq(Value) /\ IsWith(vs, b.values, idx, v)
  <2>1. b.values \in Seq(Value) /\ idx \in 0 .. Len(b.values)
    BY <1>5, MapType
  <2>2. QED
    BY <1>2, <2>1, InsertAtIs
<1>8. \A i \in 1 .. Len(b.keys) : b.keys[i] # k
  BY DEF KeysOf
<1>9. Len(ks) = n + 1 /\ Len(vs) = n + 1
  BY <1>5, <1>6, <1>7 DEF IsWith
<1>10. Ordered(ks)
  <2>1. Key \subseteq Nat
    BY DEF SortedMapAssumption
  <2>2. ks \in Seq(Nat) /\ k \in Nat
    BY <1>6, <2>1, SeqMonotonic
  <2>3. b.keys \in Seq(Nat) /\ Ordered(b.keys)
    BY MapType
  <2>4. QED
    BY <1>6, <1>8, <2>2, <2>3, WithOrdered
<1>11. d \in Maps
  BY <1>4, <1>6, <1>7, MapType DEF Maps
<1>12. Sorted(d)
  BY <1>4, <1>9, <1>10, <1>11 DEF Sorted
<1>13. Fits(d)
  <2>1. n + 1 <= b.capacity
    BY <1>5, MapType
  <2>2. QED
    BY <1>4, <1>9, <2>1 DEF Fits
<1>14. Shown(Added(f, k, v), d) /\ k \notin DOMAIN f
  <2>1. b.keys \in Seq(Key) /\ Len(b.values) = Len(b.keys) /\ idx \in Nat /\ idx <= Len(b.keys)
    BY <1>5, MapType
  <2>2. IsWith(d.keys, b.keys, idx, k) /\ IsWith(d.values, b.values, idx, v)
    BY <1>4, <1>6, <1>7
  <2>3. QED
    BY <1>8, <2>1, <2>2, ShownWith
<1>15. QED
  BY <1>12, <1>13, <1>14

LEMMA RemovedIs ==
  ASSUME SortedMapAssumption, NEW b, Sorted(b), Fits(b), NEW f, Shown(f, b),
         NEW idx \in Nat, idx < Len(b.keys), NEW k, k = b.keys[idx + 1],
         NEW d, d = Removed(b, idx)
  PROVE  /\ Sorted(d) /\ Fits(d) /\ Shown(Less(f, {k}), d)
         /\ IsWith(b.keys, d.keys, idx, k)
<1>1. PICK ks : ks = RemoveAt(b.keys, idx + 1)
  OBVIOUS
<1>2. PICK vs : vs = RemoveAt(b.values, idx + 1)
  OBVIOUS
<1>3. d = WithSeqs(b, ks, vs)
  <2>1. d = [b EXCEPT !.keys = ks, !.values = vs]
    BY <1>1, <1>2, Zenon DEF Removed
  <2>2. QED
    BY <2>1, MapType, ExceptSeqs, Zenon
<1>4. /\ d.keys = ks /\ d.values = vs /\ d.capacity = b.capacity
      /\ d.keySlots = b.keySlots /\ d.valueSlots = b.valueSlots
      /\ d = [keys |-> ks, values |-> vs, capacity |-> b.capacity,
              keySlots |-> b.keySlots, valueSlots |-> b.valueSlots]
  BY <1>3 DEF WithSeqs
<1>5. PICK n \in Nat : n = Len(b.keys) /\ n = Len(b.values) /\ idx < n
  BY MapType
<1>6. ks \in Seq(Key) /\ IsWith(b.keys, ks, idx, k)
  BY <1>1, MapType, RemoveAtIs
<1>7. PICK v : vs \in Seq(Value) /\ IsWith(b.values, vs, idx, v)
  <2>1. b.values \in Seq(Value) /\ idx < Len(b.values)
    BY <1>5, MapType
  <2>2. QED
    BY <1>2, <2>1, RemoveAtIs
<1>8. Len(ks) \in Nat /\ n = Len(ks) + 1 /\ Len(vs) = Len(ks)
  <2>1. Len(ks) \in Nat /\ Len(vs) \in Nat
    BY <1>6, <1>7
  <2>2. n = Len(ks) + 1 /\ n = Len(vs) + 1
    BY <1>5, <1>6, <1>7 DEF IsWith
  <2>3. QED
    BY <2>1, <2>2
<1>9. Ordered(ks)
  <2>1. Key \subseteq Nat
    BY DEF SortedMapAssumption
  <2>2. ks \in Seq(Nat)
    BY <1>6, <2>1, SeqMonotonic
  <2>3. b.keys \in Seq(Nat) /\ Ordered(b.keys)
    BY MapType
  <2>4. QED
    BY <1>6, <2>2, <2>3, WithoutOrdered
<1>10. d \in Maps
  BY <1>4, <1>6, <1>7, MapType DEF Maps
<1>11. Sorted(d)
  BY <1>4, <1>8, <1>9, <1>10 DEF Sorted
<1>12. Fits(d)
  <2>1. Len(ks) <= b.capacity
    BY <1>5, <1>8, MapType DEF Fits
  <2>2. QED
    BY <1>4, <2>1 DEF Fits
<1>13. Shown(Less(f, {k}), d)
  <2>1. d.keys \in Seq(Key) /\ Len(b.keys) \in Nat /\ Len(d.values) = Len(d.keys)
    BY <1>4, <1>5, <1>6, <1>8
  <2>2. IsWith(b.keys, d.keys, idx, k) /\ IsWith(b.values, d.values, idx, v)
    BY <1>4, <1>6, <1>7
  <2>3. \A i, j \in 1 .. Len(b.keys) : b.keys[i] = b.keys[j] => i = j
    BY KeysDiffer
  <2>4. QED
    BY <2>1, <2>2, <2>3, ShownWithout
<1>14. QED
  BY <1>4, <1>6, <1>11, <1>12, <1>13

Updated(b, idx, v) == [b EXCEPT !.values[idx + 1] = v]

Cleared(b) == [b EXCEPT !.keys = << >>, !.values = << >>]

LEMMA UpdatedIs ==
  ASSUME SortedMapAssumption, NEW b, Sorted(b), Fits(b), NEW f, Shown(f, b),
         NEW idx \in Nat, idx < Len(b.keys), NEW k, k = b.keys[idx + 1], NEW v \in Value,
         NEW d, d = Updated(b, idx, v)
  PROVE  Sorted(d) /\ Fits(d) /\ Shown(Added(f, k, v), d) /\ k \in DOMAIN f
<1>1. PICK x, vs : x = idx + 1 /\ vs = [b.values EXCEPT ![x] = v]
  OBVIOUS
<1>2. PICK ks, c, y, z :
        /\ \E w : b = [keys |-> ks, values |-> w, capacity |-> c, keySlots |-> y, valueSlots |-> z]
        /\ ks = b.keys /\ c = b.capacity /\ y = b.keySlots /\ z = b.valueSlots
  BY MapType
<1>3. /\ d.keys = b.keys /\ d.values = vs /\ d.capacity = b.capacity
      /\ d.keySlots = b.keySlots /\ d.valueSlots = b.valueSlots
      /\ d = [keys |-> b.keys, values |-> vs, capacity |-> b.capacity,
              keySlots |-> b.keySlots, valueSlots |-> b.valueSlots]
  <2>1. PICK w : b = [keys |-> ks, values |-> w, capacity |-> c, keySlots |-> y, valueSlots |-> z]
    BY <1>2
  <2>2. w = b.values
    BY <2>1
  <2>3. d = [b EXCEPT !.values = vs]
    BY <1>1, Zenon DEF Updated
  <2>4. d = [keys |-> ks, values |-> vs, capacity |-> c, keySlots |-> y, valueSlots |-> z]
    BY <2>1, <2>3
  <2>5. /\ d.keys = ks /\ d.values = vs /\ d.capacity = c
        /\ d.keySlots = y /\ d.valueSlots = z
    BY <2>4
  <2>6. QED
    BY <1>2, <2>4, <2>5, Zenon
<1>4. PICK n \in Nat : n = Len(b.keys) /\ n = Len(b.values) /\ x \in 1 .. n
  <2>1. PICK n \in Nat : n = Len(b.keys) /\ n = Len(b.values)
    BY MapType
  <2>2. x \in Nat /\ x >= 1 /\ x <= n
    BY <1>1, <2>1
  <2>3. QED
    BY <2>1, <2>2
<1>5. /\ vs \in Seq(Value) /\ Len(vs) = n /\ vs[x] = v
      /\ \A i \in 1 .. n : i # x => vs[i] = b.values[i]
  <2>1. b.values \in Seq(Value) /\ x \in 1 .. Len(b.values)
    BY <1>4, MapType
  <2>2. QED
    BY <1>1, <1>4, <2>1, ExceptSeq
<1>6. d \in Maps
  BY <1>3, <1>5, MapType DEF Maps
<1>7. Sorted(d)
  BY <1>3, <1>4, <1>5, <1>6 DEF Sorted
<1>8. Fits(d)
  BY <1>3 DEF Fits
<1>9. /\ DOMAIN f = {b.keys[i] : i \in 1 .. n}
      /\ \A i \in 1 .. n : f[b.keys[i]] = b.values[i]
  BY <1>4 DEF Shown, KeysOf
<1>10. k \in DOMAIN f
  BY <1>1, <1>4, <1>9
<1>11. PICK g : g = Added(f, k, v)
  OBVIOUS
<1>12. /\ DOMAIN g = DOMAIN f /\ g[k] = v /\ \A j \in DOMAIN f : j # k => g[j] = f[j]
       /\ g = [j \in DOMAIN g |-> g[j]]
  BY <1>10, <1>11 DEF Added
<1>13. ASSUME NEW i \in 1 .. n
       PROVE  g[b.keys[i]] = vs[i]
  <2>1. CASE i = x
    BY <1>1, <1>5, <1>12, <2>1
  <2>2. CASE i # x
    <3>1. b.keys[i] # b.keys[x]
      BY <1>4, <2>2, KeysDiffer
    <3>2. QED
      BY <1>1, <1>5, <1>9, <1>12, <2>2, <3>1
  <2>3. QED
    BY <2>1, <2>2
<1>14. Shown(g, d)
  <2>1. DOMAIN g = KeysOf(d)
    BY <1>3, <1>4, <1>9, <1>12 DEF KeysOf
  <2>2. \A i \in 1 .. Len(d.keys) : g[d.keys[i]] = d.values[i]
    BY <1>3, <1>4, <1>13
  <2>3. QED
    BY <1>12, <2>1, <2>2 DEF Shown
<1>15. QED
  BY <1>7, <1>8, <1>10, <1>11, <1>14

LEMMA ClearedIs ==
  ASSUME SortedMapAssumption, NEW b, Sorted(b), Fits(b), NEW f,
         NEW d, d = Cleared(b)
  PROVE  Sorted(d) /\ Fits(d) /\ Shown(Less(f, DOMAIN f), d)
<1>1. PICK e : e = << >>
  OBVIOUS
<1>2. e \in Seq(Key) /\ e \in Seq(Value) /\ Len(e) = 0 /\ Ordered(e)
  BY <1>1 DEF Ordered
<1>3. d = WithSeqs(b, e, e)
  <2>1. d = [b EXCEPT !.keys = e, !.values = e]
    BY <1>1, Zenon DEF Cleared
  <2>2. QED
    BY <2>1, MapType, ExceptSeqs, Zenon
<1>4. /\ d.keys = e /\ d.values = e /\ d.capacity = b.capacity
      /\ d.keySlots = b.keySlots /\ d.valueSlots = b.valueSlots
      /\ d = [keys |-> e, values |-> e, capacity |-> b.capacity,
              keySlots |-> b.keySlots, valueSlots |-> b.valueSlots]
  <2>1. PICK w : w = e
    OBVIOUS
  <2>2. d = WithSeqs(b, e, w)
    BY <1>3, <2>1, Zenon
  <2>3. /\ d.keys = e /\ d.values = w /\ d.capacity = b.capacity
        /\ d.keySlots = b.keySlots /\ d.valueSlots = b.valueSlots
        /\ d = [keys |-> e, values |-> w, capacity |-> b.capacity,
                keySlots |-> b.keySlots, valueSlots |-> b.valueSlots]
    BY <2>2 DEF WithSeqs
  <2>4. QED
    BY <2>1, <2>3, Zenon
<1>5. d \in Maps
  BY <1>2, <1>4, MapType DEF Maps
<1>6. Sorted(d)
  BY <1>2, <1>4, <1>5 DEF Sorted
<1>7. Fits(d)
  BY <1>2, <1>4, MapType DEF Fits
<1>8. KeysOf(d) = {} /\ 1 .. Len(d.keys) = {}
  BY <1>2, <1>4 DEF KeysOf
<1>9. Shown(Less(f, DOMAIN f), d)
  BY <1>8 DEF Shown, Less
<1>10. QED
  BY <1>6, <1>7, <1>9

-----------------------------------------------------------------------------
(* The calls.                                                              *)

(* The inductive invariant of the map.                                     *)
MapInv == Sorted(bmap) /\ Fits(bmap)

Answers(r) == result' = r /\ asked' = {}

LEMMA Becomes ==
  ASSUME SortedMapAssumption, NEW d, bmap' = d, Sorted(d), Fits(d), NEW g, Shown(g, d)
  PROVE  MapInv' /\ Holds(bmap)' = g
<1>1. MapInv'
  BY DEF MapInv
<1>2. Holds(d) = g
  BY HoldsShown, ShownOnce
<1>3. Holds(bmap)' = Holds(d)
  BY DEF Holds, Count
<1>4. QED
  BY <1>1, <1>2, <1>3

LEMMA Stays ==
  ASSUME MapInv, UNCHANGED bmap
  PROVE  MapInv' /\ Holds(bmap)' = Holds(bmap)
<1>1. MapInv'
  BY DEF MapInv
<1>2. Holds(bmap)' = Holds(bmap)
  BY DEF Holds, Count
<1>3. QED
  BY <1>1, <1>2

(* The actions of the dictionary, in terms of what the map holds.          *)
LEMMA AbsInsertNew ==
  ASSUME NEW k, NEW v
  PROVE  Abs!InsertNew(k, v)
           <=> IF k \in DOMAIN Holds(bmap)
               THEN Holds(bmap)' = Holds(bmap) /\ Answers("exists")
               ELSE Holds(bmap)' = Added(Holds(bmap), k, v) /\ Answers("new")
BY DEF Abs!InsertNew, Abs!With, Abs!Returns, Holds, Added, Answers

LEMMA AbsInsertUpdate ==
  ASSUME NEW k, NEW v
  PROVE  Abs!InsertUpdate(k, v)
           <=> /\ Holds(bmap)' = Added(Holds(bmap), k, v)
               /\ Answers(IF k \in DOMAIN Holds(bmap) THEN "exists" ELSE "new")
BY DEF Abs!InsertUpdate, Abs!With, Abs!Returns, Holds, Added, Answers

LEMMA AbsInsertFails ==
  Abs!InsertFails
    <=> /\ Key \ DOMAIN Holds(bmap) # {} 
        /\ Holds(bmap)' = Holds(bmap) /\ Answers("oom")
BY DEF Abs!InsertFails, Abs!Returns, Holds, Answers

LEMMA AbsFind ==
  ASSUME NEW k
  PROVE  Abs!Find(k)
           <=> /\ Holds(bmap)' = Holds(bmap)
               /\ Answers(IF k \in DOMAIN Holds(bmap) THEN Holds(bmap)[k] ELSE "null")
BY DEF Abs!Find, Abs!Returns, Holds, Answers

LEMMA AbsErase ==
  ASSUME NEW k
  PROVE  Abs!Erase(k)
           <=> /\ Holds(bmap)' = Less(Holds(bmap), {k})
               /\ Answers(IF k \in DOMAIN Holds(bmap) THEN "erased" ELSE "absent")
BY DEF Abs!Erase, Abs!Without, Abs!Returns, Holds, Less, Answers

LEMMA AbsClear ==
  Abs!Clear <=> Holds(bmap)' = Less(Holds(bmap), DOMAIN Holds(bmap)) /\ Answers("none")
BY DEF Abs!Clear, Abs!Without, Abs!Returns, Holds, Less, Answers

LEMMA AbsCompact ==
  Abs!Compact <=> Holds(bmap)' = Holds(bmap) /\ Answers("none")
BY DEF Abs!Compact, Abs!Returns, Holds, Answers

LEMMA AbsRetain ==
  ASSUME NEW S
  PROVE  Abs!Retain(S)
           <=> /\ Holds(bmap)' = Less(Holds(bmap), S)
               /\ asked' = DOMAIN Holds(bmap) /\ result' = "ok"
BY DEF Abs!Retain, Abs!Without, Holds, Less

LEMMA AbsRetainAborted ==
  ASSUME NEW S, NEW k
  PROVE  Abs!RetainAborted(S, k)
           <=> /\ k \in DOMAIN Holds(bmap)
               /\ Holds(bmap)' = Less(Holds(bmap), {j \in S : j < k})
               /\ asked' = {j \in DOMAIN Holds(bmap) : j <= k} /\ result' = "error"
BY DEF Abs!RetainAborted, Abs!Without, Holds, Less

(* What the map holds now.                                                 *)
LEMMA NowHolds ==
  ASSUME SortedMapAssumption, MapInv
  PROVE  /\ Shown(Holds(bmap), bmap) /\ DOMAIN Holds(bmap) = KeysOf(bmap)
         /\ \A k \in Key : Has(bmap, k) <=> k \in DOMAIN Holds(bmap)
<1>1. Shown(Holds(bmap), bmap) /\ DOMAIN Holds(bmap) = KeysOf(bmap)
  BY HoldsShown DEF MapInv, Shown
<1>2. \A k \in Key : Has(bmap, k) <=> k \in DOMAIN Holds(bmap)
  BY <1>1, HasIs DEF MapInv
<1>3. QED
  BY <1>1, <1>2

(* A step of each call is a step of the dictionary.                        *)
LEMMA EmplaceStep ==
  ASSUME SortedMapAssumption, KeysCanFail = FALSE, MapInv, NEW k \in Key, NEW v \in Value,
         ~ Has(bmap, k), Emplace(k, v)
  PROVE  /\ MapInv' /\ k \notin DOMAIN Holds(bmap)
         /\ \/ Holds(bmap)' = Added(Holds(bmap), k, v) /\ Answers("new")
            \/ Holds(bmap)' = Holds(bmap) /\ Answers("oom")
<1>1. PICK room \in Room(bmap) :
        \/ /\ room.ok
           /\ bmap' = Inserted(room.map, LowerBound(bmap, k), k, v)
           /\ Answers("new")
        \/ ~ room.ok /\ bmap' = room.map /\ Answers("oom")
  BY DEF Emplace, Answers
<1>2. PICK f : f = Holds(bmap) /\ Shown(f, bmap) /\ DOMAIN f = KeysOf(bmap) /\ k \notin DOMAIN f
  BY NowHolds
<1>3. PICK d : d = room.map
  OBVIOUS
<1>4. Sorted(d) /\ Fits(d) /\ d.keys = bmap.keys /\ d.values = bmap.values
  BY <1>3, RoomIs DEF MapInv
<1>5. Shown(f, d)
  BY <1>2, <1>4, SameShown
<1>6. CASE /\ room.ok
           /\ bmap' = Inserted(room.map, LowerBound(bmap, k), k, v)
           /\ Answers("new")
  <2>1. Len(d.keys) < d.capacity
    BY <1>3, <1>4, <1>6, RoomIs DEF MapInv
  <2>2. PICK idx : idx = LowerBound(bmap, k)
    OBVIOUS
  <2>3. PICK e : e = Inserted(d, idx, k, v)
    OBVIOUS
  <2>4. /\ idx \in 0 .. Len(bmap.keys)
        /\ \A i \in 1 .. Len(bmap.keys) : bmap.keys[i] < k <=> i <= idx
    BY <2>2, HasIs DEF MapInv
  <2>5. k \notin KeysOf(d)
    BY <1>2, <1>4 DEF KeysOf
  <2>6. Sorted(e) /\ Fits(e) /\ Shown(Added(f, k, v), e)
    BY <1>4, <1>5, <2>1, <2>3, <2>4, <2>5, InsertedIs
  <2>7. bmap' = e
    BY <1>3, <1>6, <2>2, <2>3
  <2>8. QED
    BY <1>2, <1>6, <2>6, <2>7, Becomes
<1>7. CASE ~ room.ok /\ bmap' = room.map /\ Answers("oom")
  BY <1>2, <1>3, <1>4, <1>5, <1>7, Becomes
<1>8. QED
  BY <1>1, <1>6, <1>7

LEMMA InsertNewStep ==
  ASSUME SortedMapAssumption, KeysCanFail = FALSE, MapInv, NEW k \in Key, NEW v \in Value,
         InsertNew(k, v)
  PROVE  MapInv' /\ (Abs!InsertNew(k, v) \/ Abs!InsertFails)
<1>1. CASE Has(bmap, k)
  <2>1. UNCHANGED bmap /\ Answers("exists")
    BY <1>1 DEF InsertNew, Answers
  <2>2. k \in DOMAIN Holds(bmap)
    BY <1>1, NowHolds
  <2>3. QED
    BY <2>1, <2>2, Stays, AbsInsertNew
<1>2. CASE ~ Has(bmap, k)
  <2>1. Emplace(k, v)
    BY <1>2 DEF InsertNew
  <2>2. /\ MapInv' /\ k \notin DOMAIN Holds(bmap)
        /\ \/ Holds(bmap)' = Added(Holds(bmap), k, v) /\ Answers("new")
           \/ Holds(bmap)' = Holds(bmap) /\ Answers("oom")
    BY <1>2, <2>1, EmplaceStep
  <2>3. QED
    BY <2>2, AbsInsertNew, AbsInsertFails
<1>3. QED
  BY <1>1, <1>2

LEMMA InsertUpdateStep ==
  ASSUME SortedMapAssumption, KeysCanFail = FALSE, MapInv, NEW k \in Key, NEW v \in Value,
         InsertUpdate(k, v)
  PROVE  MapInv' /\ (Abs!InsertUpdate(k, v) \/ Abs!InsertFails)
<1>1. CASE Has(bmap, k)
  <2>1. PICK idx : idx = LowerBound(bmap, k)
    OBVIOUS
  <2>2. PICK d : d = Updated(bmap, idx, v)
    OBVIOUS
  <2>3. bmap' = d /\ Answers("exists")
    BY <1>1, <2>1, <2>2, Zenon DEF InsertUpdate, Answers, Updated
  <2>4. PICK f : f = Holds(bmap) /\ Shown(f, bmap) /\ k \in DOMAIN f
    BY <1>1, NowHolds
  <2>5. idx \in Nat /\ idx < Len(bmap.keys) /\ k = bmap.keys[idx + 1]
    BY <1>1, <2>1, HasIs DEF MapInv
  <2>6. Sorted(d) /\ Fits(d) /\ Shown(Added(f, k, v), d)
    BY <2>2, <2>4, <2>5, UpdatedIs DEF MapInv
  <2>7. MapInv' /\ Holds(bmap)' = Added(f, k, v)
    BY <2>3, <2>6, Becomes
  <2>8. QED
    BY <2>3, <2>4, <2>7, AbsInsertUpdate
<1>2. CASE ~ Has(bmap, k)
  <2>1. Emplace(k, v)
    BY <1>2 DEF InsertUpdate
  <2>2. /\ MapInv' /\ k \notin DOMAIN Holds(bmap)
        /\ \/ Holds(bmap)' = Added(Holds(bmap), k, v) /\ Answers("new")
           \/ Holds(bmap)' = Holds(bmap) /\ Answers("oom")
    BY <1>2, <2>1, EmplaceStep
  <2>3. QED
    BY <2>2, AbsInsertUpdate, AbsInsertFails
<1>3. QED
  BY <1>1, <1>2

LEMMA FindStep ==
  ASSUME SortedMapAssumption, MapInv, NEW k \in Key, Find(k)
  PROVE  MapInv' /\ Abs!Find(k)
<1>1. MapInv' /\ Holds(bmap)' = Holds(bmap)
  BY Stays DEF Find
<1>2. CASE Has(bmap, k)
  <2>1. PICK idx : idx = LowerBound(bmap, k)
    OBVIOUS
  <2>2. idx \in Nat /\ idx < Len(bmap.keys) /\ k = bmap.keys[idx + 1]
    BY <1>2, <2>1, HasIs DEF MapInv
  <2>3. idx + 1 \in 1 .. Len(bmap.keys)
    BY <2>2, MapType DEF MapInv
  <2>4. Holds(bmap)[k] = bmap.values[idx + 1] /\ k \in DOMAIN Holds(bmap)
    BY <1>2, <2>2, <2>3, NowHolds DEF Shown
  <2>5. Answers(bmap.values[idx + 1])
    BY <1>2, <2>1 DEF Find, ValueOf, Answers
  <2>6. QED
    BY <1>1, <2>4, <2>5, AbsFind
<1>3. CASE ~ Has(bmap, k)
  <2>1. Answers("null") /\ k \notin DOMAIN Holds(bmap)
    BY <1>3, NowHolds DEF Find, Answers
  <2>2. QED
    BY <1>1, <2>1, AbsFind
<1>4. QED
  BY <1>2, <1>3

LEMMA EraseStep ==
  ASSUME SortedMapAssumption, MapInv, NEW k \in Key, Erase(k)
  PROVE  MapInv' /\ Abs!Erase(k)
<1>1. PICK f : f = Holds(bmap) /\ Shown(f, bmap) /\ (Has(bmap, k) <=> k \in DOMAIN f)
  BY NowHolds
<1>2. CASE Has(bmap, k)
  <2>1. PICK idx : idx = LowerBound(bmap, k)
    OBVIOUS
  <2>2. PICK d : d = Removed(bmap, idx)
    OBVIOUS
  <2>3. bmap' = d /\ Answers("erased")
    BY <1>2, <2>1, <2>2 DEF Erase, Answers
  <2>4. idx \in Nat /\ idx < Len(bmap.keys) /\ k = bmap.keys[idx + 1]
    BY <1>2, <2>1, HasIs DEF MapInv
  <2>5. Sorted(d) /\ Fits(d) /\ Shown(Less(f, {k}), d)
    BY <1>1, <2>2, <2>4, RemovedIs DEF MapInv
  <2>6. MapInv' /\ Holds(bmap)' = Less(f, {k})
    BY <2>3, <2>5, Becomes
  <2>7. QED
    BY <1>1, <1>2, <2>3, <2>6, AbsErase
<1>3. CASE ~ Has(bmap, k)
  <2>1. UNCHANGED bmap /\ Answers("absent")
    BY <1>3 DEF Erase, Answers
  <2>2. f = Less(f, {k})
    BY <1>1, <1>3 DEF Shown, Less
  <2>3. QED
    BY <1>1, <1>3, <2>1, <2>2, Stays, AbsErase
<1>4. QED
  BY <1>2, <1>3

LEMMA ClearStep ==
  ASSUME SortedMapAssumption, MapInv, Clear
  PROVE  MapInv' /\ Abs!Clear
<1>1. PICK d : d = Cleared(bmap)
  OBVIOUS
<1>2. bmap' = d /\ Answers("none")
  BY <1>1, Zenon DEF Clear, Cleared, Answers
<1>3. PICK f : f = Holds(bmap)
  OBVIOUS
<1>4. Sorted(d) /\ Fits(d) /\ Shown(Less(f, DOMAIN f), d)
  BY <1>1, ClearedIs DEF MapInv
<1>5. MapInv' /\ Holds(bmap)' = Less(f, DOMAIN f)
  BY <1>2, <1>4, Becomes
<1>6. QED
  BY <1>2, <1>3, <1>5, AbsClear

LEMMA CompactStep ==
  ASSUME SortedMapAssumption, KeysCanFail = FALSE, MapInv, Compact
  PROVE  MapInv' /\ Abs!Compact
<1>1. PICK n \in Nat, c \in Nat : n = Len(bmap.keys) /\ c = bmap.capacity /\ n <= c
  BY MapType DEF MapInv, Fits
<1>2. PICK r \in Reallocs(bmap, n) : bmap' = r.map
  BY <1>1 DEF Compact, Count
<1>3. FitsIfSane(n)
  <2>1. PICK p \in Nat : p = 2 * ValueSize
    BY DEF SortedMapAssumption
  <2>2. Sizes \in Nat /\ p * c < Sizes
    BY <1>1, <2>1 DEF MapInv, Fits, SortedMapAssumption
  <2>3. PICK d \in Nat : c = n + d
    <3>1. c - n \in Nat /\ c = n + (c - n)
      BY <1>1
    <3>2. QED
      BY <3>1
  <2>4. p * c = p * n + p * d /\ p * d >= 0 /\ p * n \in Nat /\ p * d \in Nat
    BY <2>3
  <2>5. QED
    BY <2>1, <2>2, <2>4 DEF FitsIfSane
<1>4. PICK d : d = r.map
  OBVIOUS
<1>5. Sorted(d) /\ Fits(d) /\ d.keys = bmap.keys /\ d.values = bmap.values
  <2>1. Sorted(bmap) /\ Fits(bmap) /\ Len(bmap.keys) <= n
    BY <1>1 DEF MapInv
  <2>2. r \in Reallocs(bmap, n)
    BY <1>2
  <2>3. Sorted(d) /\ Fits(d)
    BY <1>3, <1>4, <2>1, <2>2, ReallocIs
  <2>4. d.keys = bmap.keys /\ d.values = bmap.values
    BY <1>3, <1>4, <2>1, <2>2, ReallocIs
  <2>5. QED
    BY <2>3, <2>4
<1>6. PICK f : f = Holds(bmap) /\ Shown(f, bmap)
  BY NowHolds
<1>7. Shown(f, d)
  BY <1>5, <1>6, SameShown
<1>8. MapInv' /\ Holds(bmap)' = f
  BY <1>2, <1>4, <1>5, <1>7, Becomes
<1>9. Answers("none")
  BY DEF Compact, Answers
<1>10. QED
  BY <1>6, <1>8, <1>9, AbsCompact

-----------------------------------------------------------------------------
(* The loop of bmap_retain().                                              *)

(* One turn of it.                                                         *)
Turn(E, T, s) ==
  IF s.aborted \/ s.i = Len(s.map.keys) THEN s
  ELSE [map     |-> IF s.map.keys[s.i + 1] \in E \ T THEN Removed(s.map, s.i) ELSE s.map,
        i       |-> IF s.map.keys[s.i + 1] \in E THEN s.i ELSE s.i + 1,
        asked   |-> s.asked \cup {s.map.keys[s.i + 1]},
        aborted |-> s.map.keys[s.i + 1] \in T]

State(d, i, A, aborted) == [map |-> d, i |-> i, asked |-> A, aborted |-> aborted]

(* f is what the loop comes to in n turns from x.                          *)
Turns(f, x, E, T, n) ==
  /\ f = [i \in 0 .. n |-> f[i]]
  /\ f[0] = x
  /\ \A i \in 1 .. n : f[i] = Turn(E, T, f[i - 1])

LEMMA TurnsRun ==
  ASSUME NEW x, NEW E, NEW T, NEW N \in Nat
  PROVE  \E f : Turns(f, x, E, T, N)
<1> DEFINE S == {n \in Nat : \E f : Turns(f, x, E, T, n)}
<1>1. 0 \in S
  <2>1. PICK f : f = [n \in 0 .. 0 |-> x]
    OBVIOUS
  <2>2. Turns(f, x, E, T, 0)
    BY <2>1 DEF Turns
  <2>3. QED
    BY <2>2
<1>2. ASSUME NEW n \in Nat, n \in S
      PROVE  n + 1 \in S
  <2>1. PICK f : Turns(f, x, E, T, n)
    BY <1>2
  <2>2. PICK m \in Nat : m = n + 1
    OBVIOUS
  <2>3. PICK g : g = [i \in 0 .. m |-> IF i = m THEN Turn(E, T, f[n]) ELSE f[i]]
    OBVIOUS
  <2>4. \A i \in 0 .. n : i \in 0 .. m /\ i # m /\ g[i] = f[i]
    BY <2>2, <2>3
  <2>5. g[m] = Turn(E, T, f[n]) /\ n \in 0 .. n
    BY <2>2, <2>3
  <2>6. g = [i \in 0 .. m |-> g[i]]
    BY <2>3
  <2>7. g[0] = x
    BY <2>1, <2>4 DEF Turns
  <2>8. ASSUME NEW i \in 1 .. m
        PROVE  g[i] = Turn(E, T, g[i - 1])
    <3>1. CASE i = m
      <4>1. i - 1 = n
        BY <2>2, <3>1
      <4>2. QED
        BY <2>4, <2>5, <3>1, <4>1
    <3>2. CASE i # m
      <4>1. i \in 1 .. n /\ i \in 0 .. n /\ i - 1 \in 0 .. n
        BY <2>2, <3>2
      <4>2. f[i] = Turn(E, T, f[i - 1])
        BY <2>1, <4>1 DEF Turns
      <4>3. QED
        BY <2>4, <4>1, <4>2
    <3>3. QED
      BY <3>1, <3>2
  <2>9. Turns(g, x, E, T, m)
    BY <2>6, <2>7, <2>8 DEF Turns
  <2>10. QED
    BY <2>2, <2>9
<1> HIDE DEF S
<1>3. \A n \in Nat : n \in S
  BY <1>1, <1>2, SetInduction
<1>4. QED
  BY <1>3 DEF S

(* The loop as a sequence of turns.                                        *)
RetainEnds(E, T) ==
  \E N \in Nat : N = Len(bmap.keys) /\ \E f :
    /\ f[0] = State(bmap, 0, {}, FALSE)
    /\ \A n \in 1 .. N : f[n] = Turn(E, T, f[n - 1])
    /\ bmap' = f[N].map /\ asked' = f[N].asked
    /\ result' = IF f[N].aborted THEN "error" ELSE "ok"

LEMMA RetainRuns ==
  ASSUME Len(bmap.keys) \in Nat, NEW E, NEW T, Retain(E, T)
  PROVE  RetainEnds(E, T)
<1>1. PICK N \in Nat : N = Len(bmap.keys)
  OBVIOUS
<1>2. PICK x : x = State(bmap, 0, {}, FALSE)
  OBVIOUS
<1> DEFINE Unfold(f) == [n \in 0 .. N |-> IF n = 0 THEN x ELSE Turn(E, T, f[n - 1])]
           r == CHOOSE f : f = Unfold(f)
<1>3. PICK h : Turns(h, x, E, T, N)
  BY TurnsRun
<1>4. h = Unfold(h)
  <2>1. ASSUME NEW n \in 0 .. N
        PROVE  h[n] = Unfold(h)[n]
    <3>1. n # 0 => n \in 1 .. N
      OBVIOUS
    <3>2. QED
      BY <1>3, <3>1 DEF Turns
  <2>2. QED
    BY <1>3, <2>1 DEF Turns
<1>5. /\ bmap' = r[N].map /\ asked' = r[N].asked
      /\ result' = IF r[N].aborted THEN "error" ELSE "ok"
  <2>1. PICK q : q = CHOOSE f : f = [n \in 0 .. Len(bmap.keys) |->
                                     IF n = 0 THEN State(bmap, 0, {}, FALSE)
                                     ELSE Turn(E, T, f[n - 1])]
    OBVIOUS
  <2>2. /\ bmap' = q[Len(bmap.keys)].map /\ asked' = q[Len(bmap.keys)].asked
        /\ result' = IF q[Len(bmap.keys)].aborted THEN "error" ELSE "ok"
    BY <2>1, Zenon DEF Retain, Count, Turn, State
  <2>3. q = r
    BY <1>1, <1>2, <2>1, Zenon
  <2>4. QED
    BY <1>1, <2>2, <2>3, Zenon
<1> HIDE DEF Unfold
<1>6. r = Unfold(r)
  BY <1>4
<1>7. PICK g : g = r
  OBVIOUS
<1>8. g = Unfold(g)
  BY <1>6, <1>7
<1>9. g[0] = x
  BY <1>8 DEF Unfold
<1>10. ASSUME NEW n \in 1 .. N
       PROVE  g[n] = Turn(E, T, g[n - 1])
  <2>1. n \in 0 .. N /\ n # 0
    OBVIOUS
  <2>2. QED
    BY <1>8, <2>1 DEF Unfold
<1>11. /\ bmap' = g[N].map /\ asked' = g[N].asked
       /\ result' = IF g[N].aborted THEN "error" ELSE "ok"
  BY <1>5, <1>7
<1>12. QED
  BY <1>1, <1>2, <1>9, <1>10, <1>11 DEF RetainEnds

(* t is what a turn makes of the state, that asks about key k.             *)
Gives(E, T, d, i, A, k, t) ==
  /\ k \in T => \E j : t = State(d, j, A \cup {k}, TRUE)
  /\ k \notin T /\ k \in E => t = State(Removed(d, i), i, A \cup {k}, FALSE)
  /\ k \notin T /\ k \notin E => t = State(d, i + 1, A \cup {k}, FALSE)

LEMMA TurnIs ==
  ASSUME NEW E, NEW T, NEW d, NEW i, NEW A, i # Len(d.keys)
  PROVE  Gives(E, T, d, i, A, d.keys[i + 1], Turn(E, T, State(d, i, A, FALSE)))
<1>0. PICK t, k : t = Turn(E, T, State(d, i, A, FALSE)) /\ k = d.keys[i + 1]
  OBVIOUS
<1>1. PICK s : s = State(d, i, A, FALSE)
  OBVIOUS
<1>2. s.map = d /\ s.i = i /\ s.asked = A /\ s.aborted = FALSE
  BY <1>1 DEF State
<1>3. ~ (s.aborted \/ s.i = Len(s.map.keys))
  BY <1>2
<1>4. t = [map     |-> IF k \in E \ T THEN Removed(d, i) ELSE d,
           i       |-> IF k \in E THEN i ELSE i + 1,
           asked   |-> A \cup {k},
           aborted |-> k \in T]
  BY <1>0, <1>1, <1>2, <1>3 DEF Turn
<1>5. ASSUME k \in T
      PROVE  \E j : t = State(d, j, A \cup {k}, TRUE)
  <2>1. t = State(d, IF k \in E THEN i ELSE i + 1, A \cup {k}, TRUE)
    BY <1>4, <1>5 DEF State
  <2>2. QED
    BY <1>5, <2>1
<1>6. ASSUME k \notin T, k \in E
      PROVE  t = State(Removed(d, i), i, A \cup {k}, FALSE)
  <2>1. k \in E \ T /\ (k \in T) = FALSE
    BY <1>6
  <2>2. t = [map |-> Removed(d, i), i |-> i, asked |-> A \cup {k}, aborted |-> FALSE]
    BY <1>4, <1>6, <2>1, Zenon
  <2>3. QED
    BY <1>6, <2>2, Zenon DEF State
<1>7. ASSUME k \notin T, k \notin E
      PROVE  t = State(d, i + 1, A \cup {k}, FALSE)
  <2>1. k \notin E \ T /\ (k \in T) = FALSE
    BY <1>7
  <2>2. t = [map |-> d, i |-> i + 1, asked |-> A \cup {k}, aborted |-> FALSE]
    BY <1>4, <1>7, <2>1, Zenon
  <2>3. QED
    BY <1>7, <2>2, Zenon DEF State
<1>8. Gives(E, T, d, i, A, k, t)
  BY <1>5, <1>6, <1>7, Zenon DEF Gives
<1>9. QED
  BY <1>0, <1>8

(* The first n keys.                                                       *)
First(b, n) == {b.keys[j] : j \in 1 .. n}

(* Before turn n + 1, when none of the first n keys was in T: d shows f    *)
(* without those of them that are in E, and the others follow at i.        *)
Going(b, f, E, T, n, d, i) ==
  /\ Sorted(d) /\ Fits(d) /\ Shown(Less(f, E \cap First(b, n)), d)
  /\ First(b, n) \cap T = {}
  /\ i \in Nat /\ Len(d.keys) + n = Len(b.keys) + i
  /\ \A j \in 1 .. Len(b.keys), l \in Nat : n < j /\ l + n = j + i => d.keys[l] = b.keys[j]

(* After key p was the first one in T.                                     *)
Stopped(b, f, E, T, p, d) ==
  /\ Sorted(d) /\ Fits(d)
  /\ p \in 1 .. Len(b.keys) /\ b.keys[p] \in T
  /\ Shown(Less(f, E \cap First(b, p - 1)), d)

(* Before turn n + 1.                                                      *)
Between(b, f, E, T, n, s) ==
  \/ \E d, i : s = State(d, i, First(b, n), FALSE) /\ Going(b, f, E, T, n, d, i)
  \/ \E d, i, p : s = State(d, i, First(b, p), TRUE) /\ Stopped(b, f, E, T, p, d)

LEMMA NextFirst ==
  ASSUME NEW b, NEW n \in Nat
  PROVE  First(b, n + 1) = First(b, n) \cup {b.keys[n + 1]}
<1>1. PICK m \in Nat : m = n + 1
  OBVIOUS
<1>2. ASSUME NEW x \in First(b, m)
      PROVE  x \in First(b, n) \cup {b.keys[m]}
  <2>1. PICK j \in 1 .. m : x = b.keys[j]
    BY DEF First
  <2>2. j \in 1 .. n \/ j = m
    BY <1>1
  <2>3. QED
    BY <2>1, <2>2 DEF First
<1>3. ASSUME NEW x \in First(b, n) \cup {b.keys[m]}
      PROVE  x \in First(b, m)
  <2>1. CASE x = b.keys[m]
    <3>1. m \in 1 .. m
      BY <1>1
    <3>2. QED
      BY <2>1, <3>1 DEF First
  <2>2. CASE x \in First(b, n)
    <3>1. PICK j \in 1 .. n : x = b.keys[j]
      BY <2>2 DEF First
    <3>2. j \in 1 .. m
      BY <1>1
    <3>3. QED
      BY <3>1, <3>2 DEF First
  <2>3. QED
    BY <1>3, <2>1, <2>2
<1>4. QED
  BY <1>1, <1>2, <1>3

LEMMA TurnStopped ==
  ASSUME NEW E, NEW T, NEW d, NEW i, NEW A
  PROVE  Turn(E, T, State(d, i, A, TRUE)) = State(d, i, A, TRUE)
BY Zenon DEF Turn, State

(* Key k removed.                                                          *)
LEMMA GoingRemoved ==
  ASSUME SortedMapAssumption, NEW b, NEW f, NEW E, NEW T, NEW n \in Nat, NEW d, NEW i,
         Going(b, f, E, T, n, d, i), Len(b.keys) \in Nat, NEW m \in Nat, m = n + 1,
         m <= Len(b.keys), NEW k, k = b.keys[m], k = d.keys[i + 1], i < Len(d.keys),
         k \in E, k \notin T, NEW c, c = Removed(d, i)
  PROVE  Going(b, f, E, T, m, c, i)
<1>1. PICK g : g = Less(f, E \cap First(b, n))
  OBVIOUS
<1>2. Sorted(d) /\ Fits(d) /\ Shown(g, d) /\ i \in Nat
  BY <1>1 DEF Going
<1>3. Sorted(c) /\ Fits(c) /\ Shown(Less(g, {k}), c) /\ IsWith(d.keys, c.keys, i, k)
  BY <1>2, RemovedIs
<1>4. First(b, m) = First(b, n) \cup {k}
  BY NextFirst
<1>5. Less(g, {k}) = Less(f, E \cap First(b, m))
  <2>1. E \cap First(b, m) = (E \cap First(b, n)) \cup {k}
    BY <1>4
  <2>2. PICK A, B : A = E \cap First(b, n) /\ B = E \cap First(b, m) /\ B = A \cup {k}
    BY <2>1
  <2>3. Less(Less(f, A), {k}) = Less(f, B)
    BY <2>2 DEF Less
  <2>4. QED
    BY <1>1, <2>2, <2>3
<1>6. First(b, m) \cap T = {}
  BY <1>4 DEF Going
<1>7. PICK N \in Nat, l \in Nat : N = Len(b.keys) /\ l = Len(c.keys)
  BY <1>3, MapType
<1>8. Len(d.keys) = l + 1 /\ Len(d.keys) + n = N + i
  BY <1>3, <1>7 DEF IsWith, Going
<1>9. l + m = N + i
  <2>1. (l + 1) + n = N + i
    BY <1>8
  <2>2. i \in Nat
    BY <1>2
  <2>3. QED
    BY <2>1, <2>2
<1>10. ASSUME NEW j \in 1 .. N, NEW x \in Nat, m < j, x + m = j + i
       PROVE  c.keys[x] = b.keys[j]
  <2>1. PICK y \in Nat : y = x + 1
    OBVIOUS
  <2>2. n < j /\ y + n = j + i
    BY <1>10, <2>1, <1>2
  <2>3. d.keys[y] = b.keys[j]
    BY <1>7, <2>2 DEF Going
  <2>4. x \in 1 .. l /\ ~ (x <= i)
    <3>1. j \in Nat /\ j <= N /\ i \in Nat /\ l \in Nat /\ N \in Nat
      BY <1>2, <1>7, <1>10
    <3>2. x > i /\ x <= l
      BY <1>9, <1>10, <3>1
    <3>3. QED
      BY <3>1, <3>2
  <2>5. d.keys[x + 1] = c.keys[x]
    BY <1>3, <1>7, <2>4 DEF IsWith
  <2>6. QED
    BY <2>1, <2>3, <2>5
<1>11. QED
  BY <1>2, <1>3, <1>5, <1>6, <1>7, <1>9, <1>10 DEF Going

(* Key k kept.                                                             *)
LEMMA GoingKept ==
  ASSUME NEW b, NEW f, NEW E, NEW T, NEW n \in Nat, NEW d, NEW i,
         Going(b, f, E, T, n, d, i), Len(b.keys) \in Nat, NEW m \in Nat, m = n + 1,
         Len(d.keys) \in Nat, NEW k, k = b.keys[m], k \notin E, k \notin T
  PROVE  Going(b, f, E, T, m, d, i + 1)
<1>1. First(b, m) = First(b, n) \cup {k}
  BY NextFirst
<1>2. E \cap First(b, m) = E \cap First(b, n) /\ First(b, m) \cap T = {}
  BY <1>1 DEF Going
<1>3. PICK x \in Nat : x = i + 1
  BY DEF Going
<1>4. Len(d.keys) + m = Len(b.keys) + x
  <2>1. PICK L \in Nat, N \in Nat, y \in Nat :
          L = Len(d.keys) /\ N = Len(b.keys) /\ y = i /\ L + n = N + y
    BY DEF Going
  <2>2. x = y + 1 /\ L + n = N + y
    BY <1>3, <2>1
  <2>3. L + m = N + x
    BY <2>2
  <2>4. QED
    BY <2>1, <2>3
<1>5. ASSUME NEW j \in 1 .. Len(b.keys), NEW l \in Nat, m < j, l + m = j + x
      PROVE  d.keys[l] = b.keys[j]
  <2>1. n < j /\ l + n = j + i
    BY <1>3, <1>5 DEF Going
  <2>2. QED
    BY <2>1 DEF Going
<1>6. Sorted(d) /\ Fits(d) /\ Shown(Less(f, E \cap First(b, m)), d)
  BY <1>2 DEF Going
<1>7. QED
  BY <1>2, <1>3, <1>4, <1>5, <1>6 DEF Going

LEMMA TurnBetween ==
  ASSUME SortedMapAssumption, NEW b, NEW f, NEW E, NEW T, NEW n \in Nat, NEW s,
         Between(b, f, E, T, n, s), Len(b.keys) \in Nat, NEW m \in Nat, m = n + 1,
         m <= Len(b.keys), NEW t, t = Turn(E, T, s)
  PROVE  Between(b, f, E, T, m, t)
<1>1. CASE \E d, i, p : s = State(d, i, First(b, p), TRUE) /\ Stopped(b, f, E, T, p, d)
  <2>1. PICK d, i, A : s = State(d, i, A, TRUE)
    BY <1>1
  <2>2. Turn(E, T, State(d, i, A, TRUE)) = State(d, i, A, TRUE)
    BY TurnStopped
  <2>3. t = s
    BY <2>1, <2>2
  <2>4. QED
    BY <1>1, <2>3 DEF Between
<1>2. CASE \E d, i : s = State(d, i, First(b, n), FALSE) /\ Going(b, f, E, T, n, d, i)
  <2>1. PICK d, i : s = State(d, i, First(b, n), FALSE) /\ Going(b, f, E, T, n, d, i)
    BY <1>2
  <2>2. PICK k : k = b.keys[m]
    OBVIOUS
  <2>3. PICK l \in Nat : l = Len(d.keys)
    BY <2>1, MapType DEF Going
  <2>4. i \in Nat /\ l + n = Len(b.keys) + i
    BY <2>1, <2>3 DEF Going
  <2>5. i < l
    BY <2>4
  <2>6. k = d.keys[i + 1]
    <3>1. i + 1 \in Nat /\ n < m /\ m \in 1 .. Len(b.keys) /\ (i + 1) + n = m + i
      BY <2>4
    <3>2. QED
      BY <2>1, <2>2, <3>1 DEF Going
  <2>7. First(b, m) = First(b, n) \cup {k}
    BY <2>2, NextFirst
  <2>8. i # Len(d.keys) /\ i < Len(d.keys)
    BY <2>3, <2>4, <2>5
  <2>9. /\ k \in T => \E j : t = State(d, j, First(b, m), TRUE)
        /\ k \notin T /\ k \in E => t = State(Removed(d, i), i, First(b, m), FALSE)
        /\ k \notin T /\ k \notin E => t = State(d, i + 1, First(b, m), FALSE)
    <3>1. PICK A : A = First(b, n)
      OBVIOUS
    <3>2. t = Turn(E, T, State(d, i, A, FALSE))
      BY <2>1, <3>1
    <3>3. /\ k \in T => \E j : t = State(d, j, A \cup {k}, TRUE)
          /\ k \notin T /\ k \in E => t = State(Removed(d, i), i, A \cup {k}, FALSE)
          /\ k \notin T /\ k \notin E => t = State(d, i + 1, A \cup {k}, FALSE)
      <4>1. Gives(E, T, d, i, A, d.keys[i + 1], Turn(E, T, State(d, i, A, FALSE)))
        BY <2>8, TurnIs
      <4>2. Gives(E, T, d, i, A, k, t)
        BY <2>6, <3>2, <4>1
      <4>3. QED
        BY <4>2, Zenon DEF Gives
    <3>4. QED
      BY <2>7, <3>1, <3>3, Zenon
  <2>10. CASE k \in T
    <3>1. m \in 1 .. Len(b.keys) /\ m - 1 = n
      OBVIOUS
    <3>2. Stopped(b, f, E, T, m, d)
      BY <2>1, <2>2, <2>10, <3>1 DEF Stopped, Going
    <3>3. QED
      BY <2>9, <2>10, <3>2 DEF Between
  <2>11. CASE k \notin T /\ k \in E
    <3>1. PICK c : c = Removed(d, i)
      OBVIOUS
    <3>2. Going(b, f, E, T, m, c, i)
      BY <2>1, <2>2, <2>6, <2>8, <2>11, <3>1, GoingRemoved
    <3>3. QED
      BY <2>9, <2>11, <3>1, <3>2 DEF Between
  <2>12. CASE k \notin T /\ k \notin E
    <3>1. Going(b, f, E, T, m, d, i + 1)
      BY <2>1, <2>2, <2>3, <2>12, GoingKept
    <3>2. QED
      BY <2>9, <2>12, <3>1 DEF Between
  <2>13. QED
    BY <2>10, <2>11, <2>12
<1>3. QED
  BY <1>1, <1>2 DEF Between

(* The keys up to the p-th are those not greater than it.                  *)
LEMMA FirstUpTo ==
  ASSUME SortedMapAssumption, NEW b, Sorted(b), NEW p \in 1 .. Len(b.keys)
  PROVE  /\ First(b, p) = {j \in KeysOf(b) : j <= b.keys[p]}
         /\ First(b, p - 1) = {j \in KeysOf(b) : j < b.keys[p]}
<1>1. PICK ks \in Seq(Nat), N \in Nat : ks = b.keys /\ Ordered(ks) /\ N = Len(ks)
  BY MapType
<1>2. PICK k \in Nat : p \in 1 .. N /\ k = ks[p]
  BY <1>1
<1>3. \A i \in 1 .. N : ks[i] \in Nat
  BY <1>1
<1>4. ASSUME NEW i \in 1 .. N
      PROVE  (i <= p <=> ks[i] <= k) /\ (i < p <=> ks[i] < k)
  <2>1. i \in Nat /\ p \in Nat /\ ks[i] \in Nat
    BY <1>2, <1>3
  <2>2. (i < p => ks[i] < k) /\ (p < i => k < ks[i]) /\ (i = p => ks[i] = k)
    BY <1>1, <1>2 DEF Ordered
  <2>3. QED
    BY <2>1, <2>2
<1>5. KeysOf(b) = {ks[i] : i \in 1 .. N}
  BY <1>1 DEF KeysOf
<1>6. First(b, p) = {ks[i] : i \in 1 .. p}
  BY <1>1 DEF First
<1>7. First(b, p - 1) = {ks[i] : i \in 1 .. p - 1}
  BY <1>1 DEF First
<1>8. \A i : i \in 1 .. p <=> i \in 1 .. N /\ i <= p
  BY <1>2
<1>9. \A i : i \in 1 .. p - 1 <=> i \in 1 .. N /\ i < p
  BY <1>2
<1>10. First(b, p) = {j \in KeysOf(b) : j <= k}
  BY <1>4, <1>5, <1>6, <1>8
<1>11. First(b, p - 1) = {j \in KeysOf(b) : j < k}
  BY <1>4, <1>5, <1>7, <1>9
<1>12. QED
  BY <1>1, <1>2, <1>10, <1>11

LEMMA RetainStep ==
  ASSUME SortedMapAssumption, MapInv, NEW E, NEW T, Retain(E, T)
  PROVE  /\ MapInv'
         /\ \/ Abs!Retain(E)
            \/ \E k \in T : Abs!RetainAborted(E, k)
<1>1. PICK b : b = bmap
  OBVIOUS
<1>2. Sorted(b) /\ Fits(b)
  BY <1>1 DEF MapInv
<1>3. PICK h : h = Holds(bmap) /\ Shown(h, b) /\ DOMAIN h = KeysOf(b)
  BY <1>1, NowHolds
<1>4. Len(bmap.keys) \in Nat
  BY <1>1, <1>2, MapType
<1>5. PICK N \in Nat : /\ N = Len(bmap.keys)
                       /\ \E f : /\ f[0] = State(bmap, 0, {}, FALSE)
                                 /\ \A n \in 1 .. N : f[n] = Turn(E, T, f[n - 1])
                                 /\ bmap' = f[N].map /\ asked' = f[N].asked
                                 /\ result' = IF f[N].aborted THEN "error" ELSE "ok"
  <2>1. RetainEnds(E, T)
    BY <1>4, RetainRuns
  <2>2. QED
    BY <2>1 DEF RetainEnds
<1>6. PICK f : /\ f[0] = State(bmap, 0, {}, FALSE)
               /\ \A n \in 1 .. N : f[n] = Turn(E, T, f[n - 1])
               /\ bmap' = f[N].map /\ asked' = f[N].asked
               /\ result' = IF f[N].aborted THEN "error" ELSE "ok"
  BY <1>5
<1> DEFINE S == {n \in Nat : n <= N => Between(b, h, E, T, n, f[n])}
<1>7. 0 \in S
  <2>1. First(b, 0) = {}
    BY DEF First
  <2>2. Less(h, E \cap First(b, 0)) = h
    BY <1>3, <2>1 DEF Less, Shown
  <2>3. Going(b, h, E, T, 0, b, 0)
    <3>1. First(b, 0) \cap T = {} /\ Len(b.keys) + 0 = Len(b.keys) + 0 /\ 0 \in Nat
      BY <2>1
    <3>2. \A j \in 1 .. Len(b.keys), l \in Nat : 0 < j /\ l + 0 = j + 0 => b.keys[l] = b.keys[j]
      OBVIOUS
    <3>3. QED
      BY <1>2, <1>3, <2>2, <3>1, <3>2 DEF Going
  <2>4. f[0] = State(b, 0, First(b, 0), FALSE)
    BY <1>1, <1>6, <2>1
  <2>5. QED
    BY <2>3, <2>4 DEF Between
<1>8. ASSUME NEW n \in Nat, n \in S
      PROVE  n + 1 \in S
  <2>1. SUFFICES ASSUME n + 1 <= N
                 PROVE  Between(b, h, E, T, n + 1, f[n + 1])
    OBVIOUS
  <2>2. PICK m \in Nat : m = n + 1 /\ m \in 1 .. N /\ m - 1 = n /\ n <= N
    BY <2>1
  <2>3. f[m] = Turn(E, T, f[n])
    BY <1>6, <2>2
  <2>4. Between(b, h, E, T, n, f[n])
    BY <1>8, <2>2
  <2>5. Len(b.keys) \in Nat /\ m <= Len(b.keys)
    BY <1>1, <1>5, <2>2
  <2>6. Between(b, h, E, T, m, f[m])
    BY <2>2, <2>3, <2>4, <2>5, TurnBetween
  <2>7. QED
    BY <2>2, <2>6
<1> HIDE DEF S
<1>9. \A n \in Nat : n \in S
  BY <1>7, <1>8, SetInduction
<1>10. PICK s : s = f[N] /\ Between(b, h, E, T, N, s)
  BY <1>9 DEF S
<1>11. /\ bmap' = s.map /\ asked' = s.asked
       /\ result' = IF s.aborted THEN "error" ELSE "ok"
  BY <1>6, <1>10
<1>12. N = Len(b.keys) /\ First(b, N) = DOMAIN h
  BY <1>1, <1>3, <1>5 DEF First, KeysOf
<1>13. CASE \E d, i : s = State(d, i, First(b, N), FALSE) /\ Going(b, h, E, T, N, d, i)
  <2>1. PICK d, i : s = State(d, i, First(b, N), FALSE) /\ Going(b, h, E, T, N, d, i)
    BY <1>13
  <2>2. bmap' = d /\ asked' = DOMAIN h /\ result' = "ok"
    BY <1>11, <1>12, <2>1 DEF State
  <2>3. Less(h, E \cap First(b, N)) = Less(h, E)
    BY <1>12 DEF Less
  <2>4. Sorted(d) /\ Fits(d) /\ Shown(Less(h, E), d)
    BY <2>1, <2>3 DEF Going
  <2>5. MapInv' /\ Holds(bmap)' = Less(h, E)
    BY <2>2, <2>4, Becomes
  <2>6. QED
    BY <1>3, <2>2, <2>5, AbsRetain
<1>14. CASE \E d, i, p : s = State(d, i, First(b, p), TRUE) /\ Stopped(b, h, E, T, p, d)
  <2>1. PICK d, i, p : s = State(d, i, First(b, p), TRUE) /\ Stopped(b, h, E, T, p, d)
    BY <1>14
  <2>2. p \in 1 .. N /\ b.keys[p] \in T
    BY <1>12, <2>1 DEF Stopped
  <2>3. PICK k : k = b.keys[p]
    OBVIOUS
  <2>4. bmap' = d /\ asked' = First(b, p) /\ result' = "error"
    BY <1>11, <2>1 DEF State
  <2>5. k \in DOMAIN h
    BY <1>12, <2>2, <2>3 DEF First
  <2>6. First(b, p) = {j \in DOMAIN h : j <= k} /\ First(b, p - 1) = {j \in DOMAIN h : j < k}
    BY <1>2, <1>3, <1>12, <2>2, <2>3, FirstUpTo
  <2>7. Less(h, E \cap First(b, p - 1)) = Less(h, {j \in E : j < k})
    BY <2>6 DEF Less
  <2>8. Sorted(d) /\ Fits(d) /\ Shown(Less(h, {j \in E : j < k}), d)
    BY <2>1, <2>7 DEF Stopped
  <2>9. MapInv' /\ Holds(bmap)' = Less(h, {j \in E : j < k})
    BY <2>4, <2>8, Becomes
  <2>10. Abs!RetainAborted(E, k)
    BY <1>3, <2>4, <2>5, <2>6, <2>9, AbsRetainAborted
  <2>11. QED
    BY <2>2, <2>3, <2>9, <2>10
<1>15. QED
  BY <1>10, <1>13, <1>14 DEF Between

-----------------------------------------------------------------------------
(* The theorems.                                                           *)

LEMMA MapInit ==
  ASSUME SortedMapAssumption, Init
  PROVE  MapInv /\ Abs!Init
<1>1. bmap = Null /\ result = "none" /\ asked = {}
  BY DEF Init
<1>2. MapInv
  BY <1>1, NullMap DEF MapInv
<1>3. 1 .. Count(bmap) = {}
  BY <1>1 DEF Null, Count
<1>4. DOMAIN Holds(bmap) = {} /\ Holds(bmap) = [k \in {} |-> k]
  BY <1>3 DEF Holds
<1>5. Abs!Init
  BY <1>1, <1>4 DEF Abs!Init, Holds
<1>6. QED
  BY <1>2, <1>5

LEMMA MapStep ==
  ASSUME SortedMapAssumption, KeysCanFail = FALSE, MapInv, [Next]_(vars)
  PROVE  MapInv' /\ [Abs!Next]_(Abs!vars)
<1>1. ASSUME NEW k \in Key, Find(k) \/ Erase(k)
      PROVE  MapInv' /\ Abs!Next
  BY <1>1, FindStep, EraseStep DEF Abs!Next
<1>2. ASSUME NEW k \in Key, NEW v \in Value, InsertNew(k, v) \/ InsertUpdate(k, v)
      PROVE  MapInv' /\ Abs!Next
  BY <1>2, InsertNewStep, InsertUpdateStep DEF Abs!Next
<1>3. CASE Clear
  BY <1>3, ClearStep DEF Abs!Next
<1>4. CASE Compact
  BY <1>4, CompactStep DEF Abs!Next
<1>5. ASSUME NEW E \in SUBSET Key, Retain(E, {})
      PROVE  MapInv' /\ Abs!Next
  <2>1. PICK T : T = {}
    OBVIOUS
  <2>2. MapInv' /\ (Abs!Retain(E) \/ \E k \in T : Abs!RetainAborted(E, k))
    BY <1>5, <2>1, RetainStep
  <2>3. QED
    BY <2>1, <2>2 DEF Abs!Next
<1>6. ASSUME NEW E \in SUBSET Key, NEW k \in Key, Retain(E, {k})
      PROVE  MapInv' /\ Abs!Next
  <2>1. PICK T : T = {k}
    OBVIOUS
  <2>2. MapInv' /\ (Abs!Retain(E) \/ \E j \in T : Abs!RetainAborted(E, j))
    BY <1>6, <2>1, RetainStep
  <2>3. QED
    BY <2>1, <2>2 DEF Abs!Next
<1>7. CASE UNCHANGED vars
  <2>1. UNCHANGED bmap /\ UNCHANGED result /\ UNCHANGED asked
    BY <1>7 DEF vars
  <2>2. MapInv' /\ Holds(bmap)' = Holds(bmap)
    BY <2>1, Stays
  <2>3. UNCHANGED Abs!vars
    BY <2>1, <2>2 DEF Abs!vars, Holds
  <2>4. QED
    BY <2>2, <2>3
<1>8. QED
  BY <1>1, <1>2, <1>3, <1>4, <1>5, <1>6, <1>7 DEF Next

LEMMA MapInvAlways ==
  ASSUME SortedMapAssumption, KeysCanFail = FALSE
  PROVE  Spec => []MapInv
<1>1. Init => MapInv
  BY MapInit
<1>2. MapInv /\ [Next]_(vars) => MapInv'
  BY MapStep
<1>3. QED
  BY <1>1, <1>2, PTL DEF Spec

(* Whatever calls of bmap_insert, bmap_erase, bmap_retain, bmap_clear and  *)
(* bmap_compact came before, bmap_lower_bound() finds the number of keys   *)
(* that are less: for every key, at every number of elements.              *)
THEOREM SortedMapSearchIsExact ==
  ASSUME SortedMapAssumption, KeysCanFail = FALSE
  PROVE  Spec => []SearchIsExact
<1>1. MapInv => SearchIsExact
  <2>1. SUFFICES ASSUME MapInv, NEW k \in Key, NEW idx, idx = LowerBound(bmap, k)
                 PROVE  \A i \in 1 .. Len(bmap.keys) : bmap.keys[i] < k <=> i <= idx
    BY Zenon DEF SearchIsExact, Count
  <2>2. QED
    BY <2>1, HasIs DEF MapInv
<1>2. QED
  BY <1>1, MapInvAlways, PTL

(* kvs_realloc() never lets the map believe its buffers to be longer than  *)
(* they are: a doubled capacity whose size in bytes does not fit the type  *)
(* of sizes is a negative size, and refused.                               *)
THEOREM SortedMapWithinBuffers ==
  ASSUME SortedMapAssumption, KeysCanFail = FALSE
  PROVE  Spec => []WithinBuffers
<1>1. MapInv => WithinBuffers
  <2>1. SUFFICES ASSUME MapInv
                 PROVE  WithinBuffers
    OBVIOUS
  <2>2. PICK c \in Nat : c = bmap.capacity /\ Len(bmap.keys) <= c
                         /\ bmap.keySlots = c /\ bmap.valueSlots = c
    BY <2>1, MapType DEF MapInv, Fits
  <2>3. QED
    BY <2>2 DEF WithinBuffers, Count
<1>2. QED
  BY <1>1, MapInvAlways, PTL

(* Each call of bmap.h does to the map what its comment says, whether      *)
(* memory runs out or not: every step is one of the dictionary.            *)
THEOREM SortedMapImplementsDictionary ==
  ASSUME SortedMapAssumption, KeysCanFail = FALSE
  PROVE  Spec => ImplementsSortedDictionary
<1>1. Init => Abs!Init
  BY MapInit
<1>2. MapInv /\ [Next]_(vars) => [Abs!Next]_(Abs!vars)
  BY MapStep
<1>3. QED
  BY <1>1, <1>2, MapInvAlways, PTL DEF Spec, Abs!Spec, ImplementsSortedDictionary

================================================================================
