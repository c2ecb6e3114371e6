------------------------------ MODULE MCHashMap ------------------------------
(***************************************************************************)
(* HashMap for TLC.  Nothing but their hashes tells keys apart, and hash   *)
(* is any function of them: keys may be exchanged, and so may values.      *)
(***************************************************************************)
EXTENDS HashMap, TLC

Symmetry == Permutations(Key) \cup Permutations(Value)

=============================================================================
