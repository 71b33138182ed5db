---------------------------- MODULE DashboardRows ----------------------------
(***************************************************************************)
(* The row functions of the generated dashboards, one operator each:       *)
(*   scripts/dashboards/internal/papertrading/rows/*.go                    *)
(*   scripts/dashboards/internal/schwabfeed/rows/*.go                      *)
(* and the panels placed without a row:                                    *)
(*   internal/common/banner/banner.go, internal/schwabrollouts/panels.go   *)
(*                                                                         *)
(* A row is its header's id, the height it returns and its panels, each    *)
(* with its id and its layout.Pos relative to yBase.                       *)
(***************************************************************************)
EXTENDS Naturals

P(id, x, y, w, h) == [id |-> id, x |-> x, y |-> y, w |-> w, h |-> h]

\* layout.Row: a header across the grid, one unit high, above the row's panels.
Row(rowID, height, ps) ==
    [height |-> height, panels |-> ps \cup {P(rowID, 0, 0, 24, 1)}]

-----------------------------------------------------------------------------
\* Paper trading.

Summary ==
    Row(200, 5,
        {P(201, 0, 1, 6, 4), P(202, 6, 1, 6, 4),
         P(203, 12, 1, 6, 4), P(204, 18, 1, 6, 4)})

\* Slip: the lowest panels are made a line shorter, and the height is not.
RiskShortened ==
    Row(300, 26,
        {P(301, 0, 1, 12, 9), P(302, 12, 1, 6, 4),
         P(303, 18, 1, 6, 5), P(304, 12, 5, 6, 5),
         P(305, 0, 10, 12, 8), P(306, 12, 10, 12, 8),
         P(307, 0, 18, 12, 7), P(308, 12, 18, 12, 7)})

Risk ==
    Row(300, 26,
        {P(301, 0, 1, 12, 9), P(302, 12, 1, 6, 4),
         P(303, 18, 1, 6, 5), P(304, 12, 5, 6, 5),
         P(305, 0, 10, 12, 8), P(306, 12, 10, 12, 8),
         P(307, 0, 18, 12, 8), P(308, 12, 18, 12, 8)})

StrategyQuality ==
    Row(400, 13,
        {P(401, 0, 1, 12, 8), P(402, 12, 1, 12, 8),
         P(403, 0, 9, 12, 4), P(404, 12, 9, 12, 4)})

StrategyComparison ==
    Row(500, 13,
        {P(501, 0, 1, 12, 8), P(502, 12, 1, 12, 8),
         P(503, 0, 9, 12, 4), P(504, 12, 9, 12, 4)})

Account ==
    Row(600, 42,
        {P(601, 0, 1, 16, 9), P(602, 16, 1, 8, 4),
         P(603, 16, 5, 8, 5), P(607, 0, 10, 24, 8),
         P(604, 0, 18, 24, 8), P(605, 0, 26, 24, 8),
         P(606, 0, 34, 24, 8)})

PositionsTrades ==
    Row(700, 8,
        {P(701, 0, 1, 12, 7), P(702, 12, 1, 12, 7)})

Activity ==
    Row(800, 11,
        {P(801, 0, 1, 6, 4), P(802, 6, 1, 6, 4),
         P(803, 12, 1, 6, 4), P(804, 18, 1, 6, 4),
         P(805, 0, 5, 24, 6)})

Orders ==
    Row(850, 9,
        {P(851, 0, 1, 8, 8), P(852, 8, 1, 8, 8),
         P(853, 16, 1, 8, 8)})

WorkingOrders ==
    Row(870, 9,
        {P(871, 0, 1, 8, 8), P(872, 8, 1, 8, 8),
         P(873, 16, 1, 8, 8)})

SimulatorHealth ==
    Row(900, 17,
        {P(901, 0, 1, 8, 8), P(902, 8, 1, 8, 8),
         P(903, 16, 1, 8, 8), P(904, 0, 9, 8, 8)})

Reconciliation ==
    Row(920, 9,
        {P(921, 0, 1, 8, 8), P(922, 8, 1, 8, 8),
         P(923, 16, 1, 8, 8)})

\* Slip: the ids of the block that Reconciliation took.
ExecutionQuality920 ==
    Row(920, 9,
        {P(921, 0, 1, 8, 8), P(922, 8, 1, 8, 8),
         P(923, 16, 1, 8, 8)})

ExecutionQuality ==
    Row(1000, 9,
        {P(1001, 0, 1, 8, 8), P(1002, 8, 1, 8, 8),
         P(1003, 16, 1, 8, 8)})

FillRealism ==
    Row(1100, 17,
        {P(1101, 0, 1, 12, 8), P(1102, 12, 1, 12, 8),
         P(1103, 0, 9, 24, 8)})

Hygiene ==
    Row(1200, 8,
        {P(1201, 0, 1, 8, 7), P(1202, 8, 1, 16, 7)})

-----------------------------------------------------------------------------
\* Schwab market feed.

FeedHealth ==
    Row(100, 11,
        {P(101, 0, 1, 6, 4), P(102, 6, 1, 3, 4),
         P(103, 9, 1, 5, 4), P(104, 14, 1, 5, 4),
         P(105, 19, 1, 5, 4), P(106, 0, 5, 12, 6),
         P(107, 12, 5, 12, 6)})

MarketData ==
    Row(200, 27,
        {P(201, 0, 1, 6, 4), P(202, 6, 1, 18, 10),
         P(203, 0, 11, 24, 8), P(204, 0, 19, 12, 8),
         P(205, 12, 19, 12, 8)})

-----------------------------------------------------------------------------
\* Without a row.

\* The safety banner above the paper-trading rows.
Banner == {P(1, 0, 0, 24, 3)}

\* The panels of the Argo Rollouts dashboard.
RolloutPanels ==
    {P(1, 0, 0, 24, 4), P(2, 0, 4, 24, 6),
     P(3, 0, 10, 12, 8), P(4, 12, 10, 12, 8),
     P(5, 0, 18, 12, 8), P(6, 12, 18, 12, 8)}
=============================================================================
