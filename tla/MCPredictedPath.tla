--------------------------- MODULE MCPredictedPath ---------------------------
(***************************************************************************)
(* A snake that moves one or two places around a ring: heads return to     *)
(* where they were, by the same or by other commands.                      *)
(***************************************************************************)
EXTENDS PredictedPath

CONSTANTS Places     \* places on the ring

MCHeads == 0 .. Places - 1
MCStep == [h \in MCHeads |-> [c \in Cmd |-> (h + c) % Places]]

=============================================================================
