------------------------------ MODULE Dictionary ------------------------------
(***************************************************************************)
(* What src/include/clither/hm.h promises of a hash map: a map from keys   *)
(* to values, and what each call returns.                                  *)
(***************************************************************************)

CONSTANTS Key, Value

VARIABLES map,     \* the value of each key
          left,    \* keys an iteration has still to come to
          result   \* what the call that ended last returned, or the key visited

vars == <<map, left, result>>

Returns(r) == result' = r

With(k, v) == map' = [j \in DOMAIN map \cup {k} |-> IF j = k THEN v ELSE map[j]]

Init == map = [k \in {} |-> k] /\ left = {} /\ result = "none"

(* emplace_new() and the value written by its caller.                      *)
InsertNew(k, v) == IF k \in DOMAIN map THEN UNCHANGED map /\ Returns("failed")
                   ELSE With(k, v) /\ Returns("ok")

(* insert_update()                                                         *)
InsertUpdate(k, v) == With(k, v) /\ Returns("ok")

(* There was no memory: the caller is told so.                             *)
InsertFails == UNCHANGED map /\ Returns("failed")

Find(k) == /\ UNCHANGED map
           /\ Returns(IF k \in DOMAIN map THEN map[k] ELSE "null")

Erase(k) == /\ map' = [j \in DOMAIN map \ {k} |-> map[j]]
            /\ Returns(IF k \in DOMAIN map THEN map[k] ELSE "null")

Call == \/ InsertFails
        \/ \E k \in Key : \/ Find(k) \/ Erase(k)
                          \/ \E v \in Value : InsertNew(k, v) \/ InsertUpdate(k, v)

(* hm_for_each()                                                           *)
StartForEach == left' = DOMAIN map /\ UNCHANGED <<map, result>>

(* Keys are visited once, in any order; the one visited may be erased.     *)
Visit(k) == /\ left' = left \ {k}
            /\ Returns(k)
            /\ \/ UNCHANGED map
               \/ map' = [j \in DOMAIN map \ {k} |-> map[j]]

Next == \/ left = {} /\ StartForEach
        \/ left = {} /\ Call /\ UNCHANGED left
        \/ \E k \in left : Visit(k)

Spec == Init /\ [][Next]_vars

=============================================================================
