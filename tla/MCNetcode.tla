------------------------------- MODULE MCNetcode -------------------------------
(***************************************************************************)
(* A turn of eight angles and four speeds, of which a command may change   *)
(* by one.  The player starts next to angle 0 and steers across it, or     *)
(* back; accelerates with an action, or slows down.                        *)
(***************************************************************************)
EXTENDS Netcode

MCCmd == Commands
MCDefaultCmd == [angle |-> 7, speed |-> 1, action |-> <<0, 0>>]
MCWishes == {[angle |-> 2, speed |-> 3, action |-> <<0, 1>>],
             [angle |-> 5, speed |-> 0, action |-> <<1, 0>>]}

=============================================================================
