------------------------------- MODULE RunNames -------------------------------
(* The runs of one service. *)
CONSTANTS Run

=============================================================================
