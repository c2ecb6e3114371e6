------------------------------- MODULE MCSnake -------------------------------
(***************************************************************************)
(* A head on a line of Places places.  It faces either way; a frame turns  *)
(* it around or not and moves it unless it is at the end of the line.  So  *)
(* heads differ in more than their position, and paths cross themselves.   *)
(***************************************************************************)
EXTENDS Snake

CONSTANT Places

MCHeads == (1 .. Places) \X {-1, 1}
MCSpawn == <<1, 1>>
MCCmd == {1, -1}
MCDefaultCmd == 1
MCPlace == [h \in MCHeads |-> h[1]]

Moved(p, d) == IF p + d \in 1 .. Places THEN p + d ELSE p
MCStep == [h \in MCHeads |-> [c \in MCCmd |-> <<Moved(h[1], h[2] * c), h[2] * c>>]]

=============================================================================
