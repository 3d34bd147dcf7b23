--------------------------- MODULE MCPreviewService ---------------------------
(* Versions of one environment and two resolutions of the panel, for TLC. *)
EXTENDS PreviewService

CONSTANTS c, p, none
MCContentOf == [v \in Versions |-> c]
=============================================================================
