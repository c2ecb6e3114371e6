------------------------------ MODULE RingBuffer ------------------------------
(***************************************************************************)
(* The ring buffer of src/include/clither/rb.h, which holds the commands   *)
(* of a queue and the trails, handles and boxes of a snake.  It is full    *)
(* with one slot unused, and grows by doubling: of a content that runs     *)
(* around the end of the old slots, the part at the beginning moves behind *)
(* it.                                                                     *)
(*                                                                         *)
(* Capacities are powers of two, so "& (capacity - 1)" is % capacity.      *)
(*                                                                         *)
(* Some names begin with Ring, because SortedMap has the ones without it.  *)
(***************************************************************************)
EXTENDS Integers, Sequences

CONSTANTS Elem,
          Garbage,   \* what memory holds before it is written
          MinSlots,  \* MIN_CAPACITY (16)
          MaxSlots   \* the largest the type of the indexes can express

ASSUME RingAssumption == /\ MinSlots \in Nat \ {0, 1}
                         /\ MaxSlots \in Nat /\ MinSlots <= MaxSlots
                         /\ Garbage \notin Elem

VARIABLES rb,       \* capacity 0 when the pointer is NULL
          returned  \* what the last call returned

ringVars == <<rb, returned>>

RingNull == [read |-> 0, write |-> 0, capacity |-> 0, data |-> [i \in {} |-> Garbage]]

rb_count(r) == IF r.capacity = 0 THEN 0 ELSE (r.write - r.read) % r.capacity

rb_is_full(r) == IF r.capacity = 0 THEN TRUE ELSE (r.write + 1) % r.capacity = r.read

rb_is_empty(r) == r.capacity = 0 \/ r.read = r.write

(* rb_peek()                                                               *)
Peek(r, idx) == r.data[(r.read + idx) % r.capacity]

(* What rb_for_each() goes through.                                        *)
Contents(r) == [i \in 1 .. rb_count(r) |-> Peek(r, i - 1)]

-----------------------------------------------------------------------------

RingInit == rb = RingNull /\ returned = "none"

(* write moves on, and the element is stored.                              *)
Stored(r, e) ==
  [read     |-> r.read,
   write    |-> (r.write + 1) % r.capacity,
   capacity |-> r.capacity,
   data     |-> [r.data EXCEPT ![r.write] = e]]

(* rb_put(), rb_emplace(): fails when the buffer is full.                  *)
Put(e) ==
  /\ rb.capacity > 0
  /\ IF rb_is_full(rb) THEN returned' = "failed" /\ UNCHANGED rb
     ELSE returned' = "ok" /\ rb' = Stored(rb, e)

(* Resized, but nothing is moved.                                          *)
GrownInPlace(r, n) ==
  [r EXCEPT !.capacity = n,
            !.data = [i \in 0 .. n - 1 |-> IF i < r.capacity THEN r.data[i] ELSE Garbage]]

(* rb_resize(), to n slots.                                                *)
Grown(r, n) ==
  LET wrapped == r.read > r.write
  IN  [read     |-> r.read,
       write    |-> IF wrapped THEN r.write + r.capacity ELSE r.write,
       capacity |-> n,
       data     |-> [i \in 0 .. n - 1 |->
                       IF i < r.capacity THEN r.data[i]
                       ELSE IF wrapped /\ i < r.capacity + r.write
                       THEN r.data[i - r.capacity] ELSE Garbage]]

Larger == IF rb.capacity = 0 THEN MinSlots ELSE 2 * rb.capacity

(* rb_put_realloc(), rb_emplace_realloc().                                 *)
PutRealloc(e) ==
  /\ rb_is_full(rb) => Larger <= MaxSlots
  /\ rb' = Stored(IF rb_is_full(rb) THEN Grown(rb, Larger) ELSE rb, e)
  /\ returned' = "ok"

(* There is no memory, or the capacity overflows: nothing can be allocated *)
(* for a negative one.                                                     *)
PutReallocFails ==
  /\ rb_is_full(rb)
  /\ returned' = "failed"
  /\ UNCHANGED rb

Take ==
  /\ ~ rb_is_empty(rb)
  /\ returned' = rb.data[rb.read]
  /\ rb' = [rb EXCEPT !.read = (@ + 1) % rb.capacity]

(* The index not masked.                                                   *)
TakeWUnmasked ==
  /\ ~ rb_is_empty(rb)
  /\ returned' = rb.data[(rb.write - 1) % rb.capacity]
  /\ rb' = [rb EXCEPT !.write = @ - 1]

TakeW ==
  LET last == (rb.write - 1) % rb.capacity
  IN  /\ ~ rb_is_empty(rb)
      /\ returned' = rb.data[last]
      /\ rb' = [rb EXCEPT !.write = last]

RingClear == /\ rb.capacity > 0
             /\ rb' = [rb EXCEPT !.read = rb.write]
             /\ returned' = "none"

RingNext == \/ \E e \in Elem : Put(e) \/ PutRealloc(e)
            \/ PutReallocFails \/ Take \/ TakeW \/ RingClear

RingSpec == RingInit /\ [][RingNext]_ringVars

-----------------------------------------------------------------------------

(* The indexes are within the buffer.                                      *)
Slots(r) == 0 .. r.capacity - 1

RingTypeOK ==
  /\ rb.capacity \in 0 .. MaxSlots
  /\ rb.capacity = 0 => rb = RingNull
  /\ rb.capacity > 0 => rb.read \in Slots(rb) /\ rb.write \in Slots(rb)
  /\ rb = [read |-> rb.read, write |-> rb.write, capacity |-> rb.capacity, data |-> rb.data]
  /\ rb.data \in [Slots(rb) -> Elem \cup {Garbage}]

(* The buffer implements a double ended queue, wherever its content lies   *)
(* when it grows, and never hands out memory that was not written.         *)
D == INSTANCE Deque WITH items <- Contents(rb), result <- returned

ImplementsDeque == D!Spec

=============================================================================
