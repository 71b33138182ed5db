--------------------------- MODULE MCGrafanaMint ---------------------------
(***************************************************************************)
(* Model checking of GrafanaMint, and the plausible bugs of the script that *)
(* its properties are there to exclude.                                    *)
(***************************************************************************)
EXTENDS GrafanaMint

=============================================================================
