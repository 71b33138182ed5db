----------------------------- MODULE MCDashboard -----------------------------
(***************************************************************************)
(* The three generated dashboards, in their committed row order and in     *)
(* every order one edit away from it: a row moved, or a row removed.       *)
(***************************************************************************)
EXTENDS DashboardRows, DashboardCompose, SequencesExt

MCRows ==
    [Summary            |-> Summary,
     Risk               |-> Risk,
     StrategyQuality    |-> StrategyQuality,
     StrategyComparison |-> StrategyComparison,
     Account            |-> Account,
     PositionsTrades    |-> PositionsTrades,
     Activity           |-> Activity,
     Orders             |-> Orders,
     WorkingOrders      |-> WorkingOrders,
     SimulatorHealth    |-> SimulatorHealth,
     Reconciliation     |-> Reconciliation,
     ExecutionQuality   |-> ExecutionQuality,
     FillRealism        |-> FillRealism,
     Hygiene            |-> Hygiene,
     FeedHealth         |-> FeedHealth,
     MarketData         |-> MarketData]

\* orderedRows of papertrading/build.go.
PaperOrder ==
    <<"Summary", "Risk", "StrategyQuality", "StrategyComparison", "Account",
      "PositionsTrades", "Activity", "Orders", "WorkingOrders",
      "SimulatorHealth", "Reconciliation", "ExecutionQuality", "FillRealism",
      "Hygiene">>

\* orderedRows of schwabfeed/build.go.
FeedOrder == <<"FeedHealth", "MarketData">>

\* The order with row i removed, or moved to position j.
EditsOf(order) ==
    LET n == Len(order)
        Without(i) == RemoveAt(order, i)
    IN  {order} \cup {Without(i) : i \in 1..n}
        \cup {InsertAt(Without(i), j, order[i]) : i \in 1..n, j \in 1..n}

Dashboard(heading, height, orders) ==
    [heading |-> heading, headingHeight |-> height, orders |-> orders]

MCDashboards ==
    "paper-trading"   :> Dashboard(Banner, 3, EditsOf(PaperOrder)) @@
    "schwab-feed"     :> Dashboard({}, 0, EditsOf(FeedOrder)) @@
    "schwab-rollouts" :> Dashboard(RolloutPanels, 26, {<<>>})

\* What the row functions owe the theorem RowsStack, here of the real rows.  What
\* they owe RowsFill and IdsStayUnique, the run's HeightsExact and UniqueIds show:
\* each row is placed in some order, and its panels alone can reach its height.
ASSUME RowsFit == AllFit
=============================================================================
