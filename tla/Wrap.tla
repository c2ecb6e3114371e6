-------------------------------- MODULE Wrap --------------------------------
(***************************************************************************)
(* Frame numbers travel between client and server as uint16_t and run      *)
(* around.  This module translates the comparisons of                      *)
(* src/include/clither/wrap.h, for a counter of any even range: H is half  *)
(* of the range (0x8000 for uint16_t, 0x80 for uint8_t).                   *)
(***************************************************************************)
EXTENDS Integers

CONSTANT H            \* half of the range of the counter

ASSUME HAssumption == H \in Nat \ {0}

M == 2 * H            \* the counter counts modulo M

Frames == 0 .. M - 1  \* the values a wrapped frame number can have

(* Without the conversion to uint16_t.                                     *)
PlusUnwrapped(a, n) == a + n

(* a + n stored back into the counter, for a \in Frames and n \in 0..M. *)
Plus(a, n) == IF a + n < M THEN a + n ELSE a + n - M

(* a - b taken modulo M: how often b must be incremented to reach a. *)
Ahead(a, b) == IF a >= b THEN a - b ELSE a - b + M

-----------------------------------------------------------------------------

gt_wrap(a, b) == /\ ~ (a - b > H - 1)
                 /\ a - b < -(H - 1) \/ a > b

ge_wrap(a, b) == /\ ~ (a - b > H - 1)
                 /\ a - b < -(H - 1) \/ a >= b

lt_wrap(a, b) == ~ ge_wrap(a, b)

le_wrap(a, b) == ~ gt_wrap(a, b)

(* The difference reinterpreted as a signed counter, in -H .. H-1. *)
sub_wrap(a, b) == LET d == Ahead(a, b) IN IF d < H THEN d ELSE d - M

=============================================================================
