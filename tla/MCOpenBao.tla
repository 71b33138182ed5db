----------------------------- MODULE MCOpenBao -----------------------------
(***************************************************************************)
(* Model-checking instance of OpenBao: the three pods of the chart.        *)
(***************************************************************************)
EXTENDS OpenBao

MCPodList == <<"openbao-0", "openbao-1", "openbao-2">>
=============================================================================
