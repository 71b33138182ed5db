--------------------------- MODULE MCGiteaSetup ---------------------------
(***************************************************************************)
(* Model-checking instance of GiteaSetup.                                  *)
(***************************************************************************)
EXTENDS GiteaSetup

\* One part that the filter knows for what it is and one that it knows for one of
\* its two targets only.
TwoParts == {"giteaSetup", "userSetup"}
=============================================================================
