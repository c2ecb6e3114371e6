------------------------------- MODULE SortedMap -------------------------------
(***************************************************************************)
(* The sorted map of src/include/clither/bmap.h: the snakes of a world and *)
(* the server's instances are kept in one.  Keys and values are in two     *)
(* buffers of the same capacity; a key is found by binary search.  (A      *)
(* bset.h is the same without the values.)                                 *)
(*                                                                         *)
(* The size of the buffer of values, in bytes, is computed in the type of  *)
(* the counts (int16_t for all maps of the game).  A map is a record:      *)
(*   keys, values           the parts of the buffers in use                *)
(*   capacity               what the map believes their lengths to be      *)
(*   keySlots, valueSlots   what they are                                  *)
(***************************************************************************)
EXTENDS Integers, SequencesExt

CONSTANTS Key, Value,
          MinCapacity,  \* of a new map (32)
          ValueSize,    \* sizeof(V)
          Header,       \* offsetof(struct prefix, values)
          Sizes,        \* the range of the type of sizes (2^16)
          KeysCanFail   \* whether memory can run out between the two buffers

(* The first allocation of a map fits the type of sizes.                   *)
ASSUME SortedMapAssumption ==
  /\ Key \subseteq Nat
  /\ MinCapacity \in Nat \ {0} /\ Header \in Nat
  /\ ValueSize \in Nat /\ ValueSize >= 2
  /\ Sizes \in Nat /\ Sizes % 2 = 0
  /\ 2 * ValueSize * MinCapacity < Sizes
  /\ KeysCanFail \in BOOLEAN

VARIABLES bmap,    \* the map
          result,  \* what the last call returned
          asked    \* the keys its callback was called for

vars == <<bmap, result, asked>>

(* The pointer of a map without memory.                                    *)
Null == [keys |-> << >>, values |-> << >>, capacity |-> 0,
         keySlots |-> 0, valueSlots |-> 0]

Count(b) == Len(b.keys)

-----------------------------------------------------------------------------

(* The first key that is greater.                                          *)
UpperBound(b, key) ==
  LET after[n \in 0 .. Count(b)] ==
        IF n = 0 THEN [found |-> 0, len |-> Count(b)]
        ELSE LET s    == after[n - 1]
                 half == s.len \div 2
             IN  IF s.len = 0 THEN s
                 ELSE IF b.keys[s.found + half + 1] <= key
                 THEN [found |-> s.found + half + 1, len |-> s.len - half - 1]
                 ELSE [found |-> s.found, len |-> half]
  IN  after[Count(b)].found

(* The index of the first key that is not less than key, from 0; the count *)
(* if there is none.  Each step of the search leaves the len elements from *)
(* found on; after Count(b) of them none is left.                          *)
LowerBound(b, key) ==
  LET after[n \in 0 .. Count(b)] ==
        IF n = 0 THEN [found |-> 0, len |-> Count(b)]
        ELSE LET s    == after[n - 1]
                 half == s.len \div 2
             IN  IF s.len = 0 THEN s
                 ELSE IF b.keys[s.found + half + 1] < key
                 THEN [found |-> s.found + half + 1, len |-> s.len - half - 1]
                 ELSE [found |-> s.found, len |-> half]
  IN  after[Count(b)].found

Has(b, key) ==
  LET idx == LowerBound(b, key) IN idx < Count(b) /\ b.keys[idx + 1] = key

ValueOf(b, key) == b.values[LowerBound(b, key) + 1]

-----------------------------------------------------------------------------

(* The size of n values, after it was stored as a signed number.           *)
Bytes(n) ==
  LET size == (ValueSize * n) % Sizes
  IN  IF size < Sizes \div 2 THEN size ELSE size - Sizes

(* A negative size is not made positive again, or 0, by the header.  With  *)
(* the alignment of 8 and the capacities 32 * 2^k of the game's maps, none *)
(* of which is ever compacted, there is no such size.                      *)
ASSUME HeaderAssumption ==
  \A n \in 1 .. Sizes \div ValueSize : Bytes(n) >= 0 \/ Header + Bytes(n) < 0

(* A negative size is an enormous one to mem_realloc(), which fails.       *)
Sane(n) == Bytes(n) >= 0

(* What kvs_realloc() may make of map b, and whether it says so.  If there *)
(* is no memory for the keys, the old buffer of values is gone or has the  *)
(* new size already.                                                       *)
Reallocs(b, n) ==
  LET done == [b EXCEPT !.capacity = n, !.keySlots = n,
                        !.valueSlots = Bytes(n) \div ValueSize]
  IN  IF n = 0 THEN {[map |-> Null, ok |-> TRUE]}
      ELSE {[map |-> b, ok |-> FALSE]}
           \cup (IF Sane(n) THEN {[map |-> done, ok |-> TRUE]} ELSE {})
           \cup (IF Sane(n) /\ KeysCanFail /\ b # Null
                 THEN {[map |-> [done EXCEPT !.keySlots = b.keySlots], ok |-> FALSE],
                       [map |-> [b EXCEPT !.keySlots = 0, !.valueSlots = 0], ok |-> FALSE]}
                 ELSE {})

(* Growth by one only when the map is more than full.                      *)
RoomOneLate(b) ==
  IF b = Null \/ Count(b) > b.capacity
  THEN Reallocs(b, IF b = Null THEN MinCapacity ELSE 2 * b.capacity)
  ELSE {[map |-> b, ok |-> TRUE]}

(* A full map doubles its capacity before an element is added.             *)
Room(b) ==
  IF Count(b) = b.capacity
  THEN Reallocs(b, IF b = Null THEN MinCapacity ELSE 2 * b.capacity)
  ELSE {[map |-> b, ok |-> TRUE]}

Inserted(b, idx, key, value) ==
  [b EXCEPT !.keys = InsertAt(@, idx + 1, key), !.values = InsertAt(@, idx + 1, value)]

Removed(b, idx) ==
  [b EXCEPT !.keys = RemoveAt(@, idx + 1), !.values = RemoveAt(@, idx + 1)]

(* kvs_emplace(), and the value its caller stores.                         *)
Emplace(key, value) ==
  \E room \in Room(bmap) :
    \/ /\ room.ok
       /\ bmap' = Inserted(room.map, LowerBound(bmap, key), key, value)
       /\ result' = "new" /\ asked' = {}
    \/ /\ ~ room.ok
       /\ bmap' = room.map
       /\ result' = "oom" /\ asked' = {}

(* emplace_new() and insert_new()                                          *)
InsertNew(key, value) ==
  \/ ~ Has(bmap, key) /\ Emplace(key, value)
  \/ Has(bmap, key) /\ UNCHANGED bmap /\ result' = "exists" /\ asked' = {}

(* emplace_or_get() and insert_update()                                    *)
InsertUpdate(key, value) ==
  \/ ~ Has(bmap, key) /\ Emplace(key, value)
  \/ /\ Has(bmap, key)
     /\ bmap' = [bmap EXCEPT !.values[LowerBound(bmap, key) + 1] = value]
     /\ result' = "exists" /\ asked' = {}

Find(key) ==
  /\ result' = IF Has(bmap, key) THEN ValueOf(bmap, key) ELSE "null"
  /\ asked' = {} /\ UNCHANGED bmap

Erase(key) ==
  /\ bmap' = IF Has(bmap, key) THEN Removed(bmap, LowerBound(bmap, key)) ELSE bmap
  /\ result' = IF Has(bmap, key) THEN "erased" ELSE "absent"
  /\ asked' = {}

Clear == /\ bmap' = [bmap EXCEPT !.keys = << >>, !.values = << >>]
         /\ result' = "none" /\ asked' = {}

(* Whether it could be made smaller is not reported.                       *)
Compact == /\ \E r \in Reallocs(bmap, Count(bmap)) : bmap' = r.map
           /\ result' = "none" /\ asked' = {}

(* Without --i.                                                            *)
RetainSkipping(erased, stop) ==
  LET after[n \in 0 .. Count(bmap)] ==
        IF n = 0 THEN [map |-> bmap, i |-> 0, asked |-> {}, aborted |-> FALSE]
        ELSE LET s == after[n - 1]
                 k == s.map.keys[s.i + 1]
             IN  IF s.aborted \/ s.i >= Count(s.map) THEN s
                 ELSE [map     |-> IF k \in erased \ stop THEN Removed(s.map, s.i) ELSE s.map,
                       i       |-> s.i + 1,
                       asked   |-> s.asked \cup {k},
                       aborted |-> k \in stop]
      end == after[Count(bmap)]
  IN  /\ bmap' = end.map
      /\ asked' = end.asked
      /\ result' = IF end.aborted THEN "error" ELSE "ok"

(* The callback wants the keys of erased removed and returns an error for  *)
(* those of stop.  The elements after a removed one move up, and the index *)
(* stays.                                                                  *)
Retain(erased, stop) ==
  LET after[n \in 0 .. Count(bmap)] ==
        IF n = 0 THEN [map |-> bmap, i |-> 0, asked |-> {}, aborted |-> FALSE]
        ELSE LET s == after[n - 1]
                 k == s.map.keys[s.i + 1]
             IN  IF s.aborted \/ s.i = Count(s.map) THEN s
                 ELSE [map     |-> IF k \in erased \ stop THEN Removed(s.map, s.i) ELSE s.map,
                       i       |-> IF k \in erased THEN s.i ELSE s.i + 1,
                       asked   |-> s.asked \cup {k},
                       aborted |-> k \in stop]
      end == after[Count(bmap)]
  IN  /\ bmap' = end.map
      /\ asked' = end.asked
      /\ result' = IF end.aborted THEN "error" ELSE "ok"

Init == bmap = Null /\ result = "none" /\ asked = {}

Next == \/ \E k \in Key : Find(k) \/ Erase(k)
        \/ \E k \in Key, v \in Value : InsertNew(k, v) \/ InsertUpdate(k, v)
        \/ Clear
        \/ Compact
        \/ \E erased \in SUBSET Key : \/ Retain(erased, {})
                                      \/ \E k \in Key : Retain(erased, {k})

Spec == Init /\ [][Next]_vars

-----------------------------------------------------------------------------

TypeOK == /\ bmap.keys \in Seq(Key) /\ bmap.values \in Seq(Value)
          /\ Count(bmap) = Len(bmap.values)
          /\ bmap.capacity \in Nat

(* The keys are in order, and the search finds the place of any key, there *)
(* or not, at every number of elements.                                    *)
SearchIsExact ==
  \A k \in Key :
    LET idx == LowerBound(bmap, k)
    IN  \A i \in 1 .. Count(bmap) : bmap.keys[i] < k <=> i <= idx

(* The map never believes its buffers to be longer than they are, although *)
(* their size in bytes is cut to 16 bits: with doubled capacities, a size  *)
(* that does not fit is always negative, and refused.  It also holds the   *)
(* elements it counts.  With KeysCanFail it does not hold: if memory runs  *)
(* out between the two calls of mem_realloc(), the map keeps a pointer     *)
(* that was freed, or a capacity its keys do not have.                     *)
WithinBuffers == /\ Count(bmap) <= bmap.capacity
                 /\ bmap.capacity <= bmap.keySlots
                 /\ bmap.capacity <= bmap.valueSlots

(* Whatever the order of calls, growth, compaction and allocations that    *)
(* fail, the buffers hold a map from keys to values; erase and find return *)
(* what bmap.h says, insertions the status that it describes at            *)
(* emplace_new() and emplace_or_get() (not the 0 and -1 of bmap.h:86-87    *)
(* and :105); retain asks about each element once, also while it removes   *)
(* some.                                                                   *)
Abs == INSTANCE SortedDictionary
         WITH map <- [k \in {bmap.keys[i] : i \in 1 .. Count(bmap)} |->
                        bmap.values[CHOOSE i \in 1 .. Count(bmap) : bmap.keys[i] = k]]

ImplementsSortedDictionary == Abs!Spec

=============================================================================
