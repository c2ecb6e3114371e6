------------------------------- MODULE HashMap -------------------------------
(***************************************************************************)
(* The hash map of src/include/clither/hm.h, in which the server keeps its *)
(* players (by address) and the malicious ones: open addressing with       *)
(* quadratic probing, tombstones, and growth by moving to a table twice as *)
(* large.  It is shown to implement a Dictionary.                          *)
(*                                                                         *)
(* Moving takes a step for each slot of the old table, and iterating one   *)
(* for each entry.  A search that never comes to an end leaves the caller  *)
(* hanging: call is "hung".                                                *)
(***************************************************************************)
EXTENDS Integers, FiniteSets

CONSTANTS Key, Value,
          Hashes,           \* what the hash function may return
          UpdateCanFail,    \* whether memory can run out in an insert_update()
          MinCapacity,      \* MIN_CAPACITY, a power of two (16)
          RehashAtPercent   \* REHASH_AT_PERCENT (70)

(* No odd number but 1 divides it.                                         *)
PowerOfTwo(n) == n > 0 /\ \A d, q \in 1 .. n : d * q = n /\ d % 2 = 1 => d = 1

(* A table that has not to grow has room for one more and an unused slot.  *)
ASSUME HashMapAssumption == /\ Hashes \subseteq Nat
                            /\ UpdateCanFail \in BOOLEAN
                            /\ MinCapacity \in Nat /\ PowerOfTwo(MinCapacity)
                            /\ RehashAtPercent \in 1 .. 100
                            /\ RehashAtPercent * MinCapacity <= 100 * (MinCapacity - 1)

VARIABLES
  hash,    \* hash_func, the same for ever
  hm,      \* the map; capacity 0 when the pointer is NULL
  moving,  \* while it grows: the new map, and the slot to be moved next
  call,    \* the insertion under way while the map grows, or the iteration
  result   \* what the call that ended last returned

vars == <<hash, hm, moving, call, result>>

Unused == [hash |-> 0]   \* HM_SLOT_UNUSED
Rip    == [hash |-> 1]   \* HM_SLOT_RIP: a tombstone

(* A slot in use keeps the hash with its key and value.                    *)
Entries == [hash : Nat \ {0, 1}, key : Key, value : Value]

Entry(k, h, v) == [hash |-> h, key |-> k, value |-> v]

Null == [capacity |-> 0, count |-> 0, slots |-> [s \in {} |-> Unused]]

NewMap(n) == [capacity |-> n, count |-> 0, slots |-> [s \in 0 .. n - 1 |-> Unused]]

InUse(m) == {s \in 0 .. m.capacity - 1 : m.slots[s] \notin {Unused, Rip}}

NotMoving == [to |-> Null, at |-> 0]

Idle == [op |-> "none"]

-----------------------------------------------------------------------------

(* The reserved values not avoided.                                        *)
HashOfAny(k) == hash[k]

(* Two hashes are reserved.                                                *)
HashOf(k) == IF hash[k] \in {0, 1} THEN 2 ELSE hash[k]

(* Steps of 1, 3, 5 ...                                                    *)
ProbeSquare(m, h, i) == (h + i * i) % m.capacity

(* The i-th slot that is looked at for hash h: each step is one longer.    *)
Probe(m, h, i) == (h + (i * (i + 1)) \div 2) % m.capacity

(* Probing comes back to its first slot after twice the capacity.          *)
Probes(m) == 0 .. 2 * m.capacity - 1

Matches(slot, k) == slot.hash = HashOf(k) /\ slot.key = k

(* The search ends at a tombstone.                                         *)
StopsAtRip(m, k, i) ==
  LET slot == m.slots[Probe(m, HashOf(k), i)]
  IN  slot \in {Unused, Rip} \/ Matches(slot, k)

(* An unused slot, or the key itself; the hash is compared first.          *)
Stops(m, k, i) ==
  LET slot == m.slots[Probe(m, HashOf(k), i)]
  IN  slot = Unused \/ Matches(slot, k)

Ends(m, k) == \E i \in Probes(m) : Stops(m, k, i)

Length(m, k) == CHOOSE i \in Probes(m) : /\ Stops(m, k, i)
                                         /\ \A j \in 0 .. i - 1 : ~ Stops(m, k, j)

LastSlot(m, k) == Probe(m, HashOf(k), Length(m, k))

Found(m, k) == m.slots[LastSlot(m, k)] \notin {Unused, Rip}

(* Where an absent key goes: to the tombstone passed last, if any.         *)
Passed(m, k) == {i \in 0 .. Length(m, k) - 1 : m.slots[Probe(m, HashOf(k), i)] = Rip}

FreeSlot(m, k) ==
  IF Passed(m, k) = {} THEN LastSlot(m, k)
  ELSE Probe(m, HashOf(k), CHOOSE i \in Passed(m, k) : \A j \in Passed(m, k) : j <= i)

Store(m, k, v) == [m EXCEPT !.slots[FreeSlot(m, k)] = Entry(k, HashOf(k), v),
                            !.count = @ + 1]

Update(m, k, v) == [m EXCEPT !.slots[LastSlot(m, k)].value = v]

-----------------------------------------------------------------------------

Init == /\ hash \in [Key -> Hashes]
        /\ hm = Null
        /\ moving = NotMoving
        /\ call = Idle
        /\ result = "none"

Hang == call' = [op |-> "hung"] /\ moving' = NotMoving /\ UNCHANGED <<hash, hm, result>>

(* The end of an insertion: insert_new(), and insert_update() by           *)
(* emplace_or_get().                                                       *)
Place(m, op, k, v) ==
  IF ~ Ends(m, k) THEN Hang
  ELSE /\ hm' = IF ~ Found(m, k) THEN Store(m, k, v)
                ELSE IF op = "update" THEN Update(m, k, v) ELSE m
       /\ result' = IF op = "new" /\ Found(m, k) THEN "failed" ELSE "ok"
       /\ moving' = NotMoving
       /\ call' = Idle
       /\ UNCHANGED hash

MustGrow == hm.count * 100 >= RehashAtPercent * hm.capacity

Insert(op, k, v) ==
  /\ call = Idle
  /\ ~ MustGrow
  /\ Place(hm, op, k, v)

(* An insertion first has the map grow.                                    *)
StartGrow(op, k, v) ==
  /\ call = Idle
  /\ MustGrow
  /\ moving' = [to |-> NewMap(IF hm.capacity = 0 THEN MinCapacity ELSE 2 * hm.capacity),
                at |-> 0]
  /\ call' = [op |-> op, key |-> k, value |-> v]
  /\ UNCHANGED <<hash, hm, result>>

(* There is no memory for a larger table.  insert_update() returns 0 then  *)
(* too, as if it had stored the value.                                     *)
GrowFails(op) ==
  /\ call = Idle
  /\ MustGrow
  /\ op = "update" => UpdateCanFail
  /\ result' = IF op = "update" THEN "ok" ELSE "failed"
  /\ UNCHANGED <<hash, hm, moving, call>>

Growing == call.op \in {"new", "update"}

(* Tombstones are left behind.                                             *)
Move ==
  /\ Growing
  /\ moving.at < hm.capacity
  /\ LET slot == hm.slots[moving.at]
     IN  IF slot \in {Unused, Rip}
         THEN /\ moving' = [moving EXCEPT !.at = @ + 1]
              /\ UNCHANGED <<hash, hm, call, result>>
         ELSE IF Ends(moving.to, slot.key)
         THEN /\ moving' = [to |-> Store(moving.to, slot.key, slot.value),
                            at |-> moving.at + 1]
              /\ UNCHANGED <<hash, hm, call, result>>
         ELSE Hang

EndGrow ==
  /\ Growing
  /\ moving.at = hm.capacity
  /\ Place(moving.to, call.op, call.key, call.value)

(* find()                                                                  *)
Find(k) ==
  /\ call = Idle
  /\ IF hm.capacity = 0
     THEN result' = "null" /\ UNCHANGED <<hash, hm, moving, call>>
     ELSE IF ~ Ends(hm, k) THEN Hang
     ELSE /\ result' = IF Found(hm, k) THEN hm.slots[LastSlot(hm, k)].value ELSE "null"
          /\ UNCHANGED <<hash, hm, moving, call>>

(* The slot made unused.                                                   *)
EraseUnused(k) ==
  /\ call = Idle
  /\ hm.capacity > 0
  /\ IF ~ Ends(hm, k) THEN Hang
     ELSE /\ IF Found(hm, k)
             THEN /\ hm' = [hm EXCEPT !.slots[LastSlot(hm, k)] = Unused, !.count = @ - 1]
                  /\ result' = hm.slots[LastSlot(hm, k)].value
             ELSE UNCHANGED hm /\ result' = "null"
          /\ UNCHANGED <<hash, moving, call>>

(* erase(); its callers know that there is a map.                          *)
Erase(k) ==
  /\ call = Idle
  /\ hm.capacity > 0
  /\ IF ~ Ends(hm, k) THEN Hang
     ELSE /\ IF Found(hm, k)
             THEN /\ hm' = [hm EXCEPT !.slots[LastSlot(hm, k)] = Rip, !.count = @ - 1]
                  /\ result' = hm.slots[LastSlot(hm, k)].value
             ELSE UNCHANGED hm /\ result' = "null"
          /\ UNCHANGED <<hash, moving, call>>

(* The entries an iteration comes to, from slot s on, and the first slot   *)
(* of them (hm_next_valid_slot()).                                         *)
From(s) == {t \in InUse(hm) : t >= s}

NextValidSlot(s) == CHOOSE t \in From(s) : \A u \in From(s) : t <= u

Each(s) == [op |-> "each", slot |-> s]

(* hm_for_each()                                                           *)
StartForEach == /\ call = Idle
                /\ call' = Each(0)
                /\ UNCHANGED <<hash, hm, moving, result>>

(* The body is given the key of the entry, and may erase that entry, as    *)
(* the server's loops do; it searches for the key it was given.            *)
Visit(erases) ==
  /\ call.op = "each"
  /\ From(call.slot) # {}
  /\ LET s == NextValidSlot(call.slot)
         k == hm.slots[s].key
     IN  IF erases /\ ~ Ends(hm, k) THEN Hang
         ELSE /\ result' = k
              /\ hm' = IF erases /\ Found(hm, k)
                       THEN [hm EXCEPT !.slots[LastSlot(hm, k)] = Rip, !.count = @ - 1]
                       ELSE hm
              /\ call' = Each(s + 1)
              /\ UNCHANGED <<hash, moving>>

EndForEach == /\ call.op = "each"
              /\ From(call.slot) = {}
              /\ call' = Idle
              /\ UNCHANGED <<hash, hm, moving, result>>

Next ==
  \/ Move \/ EndGrow
  \/ StartForEach \/ EndForEach
  \/ \E erases \in BOOLEAN : Visit(erases)
  \/ \E k \in Key : Find(k) \/ Erase(k)
  \/ \E op \in {"new", "update"} :
       GrowFails(op) \/ \E k \in Key, v \in Value : Insert(op, k, v) \/ StartGrow(op, k, v)

Spec == Init /\ [][Next]_vars

-----------------------------------------------------------------------------

IsMap(m) == /\ m.capacity \in Nat /\ m.count \in Nat
            /\ m.slots \in [0 .. m.capacity - 1 -> Entries \cup {Unused, Rip}]

(* Slots, counters and calls are of their types; no entry has a reserved   *)
(* hash.                                                                   *)
TypeOK == /\ hash \in [Key -> Hashes]
          /\ IsMap(hm)
          /\ IsMap(moving.to) /\ moving.at \in 0 .. hm.capacity
          /\ call.op \in {"none", "new", "update", "each", "hung"}
          /\ result \in Value \cup Key \cup {"none", "ok", "failed", "null"}

(* Whatever was erased and inserted since an entry was stored, a search    *)
(* for its key comes to it: tombstones keep its path open, and no second   *)
(* entry of the key lies before it.                                        *)
EntriesAreFound ==
  \A m \in {hm, moving.to} : \A s \in InUse(m) :
    Ends(m, m.slots[s].key) /\ LastSlot(m, m.slots[s].key) = s

(* As long as a slot is unused every search ends: probing leaves no slot   *)
(* out, in a table of any capacity a map grows to.                         *)
ProbingIsComplete ==
  \A m \in {hm, moving.to} :
    (\E s \in DOMAIN m.slots : m.slots[s] = Unused) => \A k \in Key : Ends(m, k)

(* The table implements a map from keys to values, in what it holds and in *)
(* what each call returns, for any hash function; an iteration comes to    *)
(* each key once, whichever keys are erased while it is under way.  It     *)
(* does not when memory runs out in an insert_update(), which hm.h:98 says *)
(* returns -1 then.                                                        *)
EntryOf(k) == CHOOSE s \in InUse(hm) : hm.slots[s].key = k

Contents == [k \in {hm.slots[s].key : s \in InUse(hm)} |-> hm.slots[EntryOf(k)].value]

Left == IF call.op = "each" THEN {hm.slots[s].key : s \in From(call.slot)} ELSE {}

D == INSTANCE Dictionary WITH map <- Contents, left <- Left

ImplementsDictionary == D!Spec

(* hm.h:124-125: "If the key does not exist, NULL is returned": its  *)
(* search comes to an end.  Checked by a run that finds it is not so: when *)
(* every slot has been used once, there is nothing to stop at.             *)
SearchesEnd == call.op # "hung"

=============================================================================
