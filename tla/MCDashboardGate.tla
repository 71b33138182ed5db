-------------------------- MODULE MCDashboardGate --------------------------
(***************************************************************************)
(* Model-checking instance of DashboardGate: two dashboards and three pull *)
(* requests, which may change the rows above one another.                  *)
(***************************************************************************)
EXTENDS DashboardRender

TwoDashboards == <<"schwab-feed", "schwab-rollouts">>
Counts == [d \in {"schwab-feed", "schwab-rollouts"} |->
             IF d = "schwab-feed" THEN 3 ELSE 1]
PullRequests == Permutations(PRs)

\* What the theorem GateTypeCorrect takes for granted, here of the rendered files.
ASSUME RenderedAlike == OneShape
=============================================================================
