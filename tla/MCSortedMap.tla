------------------------------ MODULE MCSortedMap ------------------------------
(* The map stores values and compares none: they are symmetric.            *)
EXTENDS SortedMap, TLC

Symmetry == Permutations(Value)

=============================================================================
