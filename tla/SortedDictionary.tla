--------------------------- MODULE SortedDictionary ---------------------------
(***************************************************************************)
(* The map of src/include/clither/bmap.h: from keys to values, with what   *)
(* each call returns, and bmap_retain() asking about each element once.    *)
(*                                                                         *)
(* Insertions return the status that the comments of emplace_new() and     *)
(* emplace_or_get() describe: new, exists or out of memory.  insert_new()  *)
(* and insert_update() return it too.  Their own comments (bmap.h:86-87    *)
(* and :105) speak of 0 and -1 instead; they are not followed here.        *)
(***************************************************************************)
EXTENDS Integers

CONSTANTS Key, Value

VARIABLES map,     \* the value of each key
          result,  \* what the last call returned
          asked    \* the keys its callback was called for

vars == <<map, result, asked>>

Returns(r) == result' = r /\ asked' = {}

With(k, v) == map' = [j \in DOMAIN map \cup {k} |-> IF j = k THEN v ELSE map[j]]

Without(S) == map' = [j \in DOMAIN map \ S |-> map[j]]

Init == map = [k \in {} |-> k] /\ result = "none" /\ asked = {}

InsertNew(k, v) == IF k \in DOMAIN map THEN UNCHANGED map /\ Returns("exists")
                   ELSE With(k, v) /\ Returns("new")

InsertUpdate(k, v) == /\ With(k, v)
                      /\ Returns(IF k \in DOMAIN map THEN "exists" ELSE "new")

InsertFails == Key \ DOMAIN map # {} /\ UNCHANGED map /\ Returns("oom")

Find(k) == UNCHANGED map /\ Returns(IF k \in DOMAIN map THEN map[k] ELSE "null")

Erase(k) == Without({k}) /\ Returns(IF k \in DOMAIN map THEN "erased" ELSE "absent")

Clear == Without(DOMAIN map) /\ Returns("none")

Compact == UNCHANGED map /\ Returns("none")

(* In the order of the keys, until the callback returns an error for one.  *)
Retain(erased) ==
  /\ asked' = DOMAIN map
  /\ result' = "ok"
  /\ Without(erased)

RetainAborted(erased, stop) ==
  /\ stop \in DOMAIN map
  /\ asked' = {k \in DOMAIN map : k <= stop}
  /\ result' = "error"
  /\ Without({k \in erased : k < stop})

Next == \/ InsertFails \/ Clear \/ Compact
        \/ \E k \in Key : \/ Find(k) \/ Erase(k)
                          \/ \E v \in Value : InsertNew(k, v) \/ InsertUpdate(k, v)
        \/ \E S \in SUBSET Key : \/ Retain(S)
                                 \/ \E k \in Key : RetainAborted(S, k)

Spec == Init /\ [][Next]_vars

=============================================================================
