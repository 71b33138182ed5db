-------------------------- MODULE DashboardCompose --------------------------
(***************************************************************************)
(* How the dashboard generators of scripts/dashboards stack rows on        *)
(* Grafana's grid:                                                         *)
(*   internal/papertrading/build.go, internal/schwabfeed/build.go,         *)
(*   internal/schwabrollouts/build.go, internal/common/layout/layout.go    *)
(*                                                                         *)
(* compose() calls the row functions of orderedRows one after the other.   *)
(* Each is told its absolute y-base, places its panels and returns the     *)
(* height that compose() adds to the y-base; nothing checks that the       *)
(* panels keep within that height, or that the ids of two rows differ, and *)
(* a dashboard is edited by reordering orderedRows.                        *)
(*                                                                         *)
(* A panel is its id and its rectangle; the panels of a row carry their    *)
(* offset from the row's y-base, and include the row's header.  The        *)
(* queries, titles, units and colours of a panel are left out, and so is   *)
(* whether the row is collapsed: the properties are about the rows         *)
(* expanded.                                                               *)
(***************************************************************************)
EXTENDS Naturals, Sequences

CONSTANTS
    Rows,       \* the row functions: [name -> [height, panels]]
    Dashboards  \* [uid -> [heading, headingHeight, orders]]: the panels above
                \* the rows, the first row's y-base, the orders of the rows

Panel == [id : Nat, x : Nat, y : Nat, w : Nat, h : Nat]

ASSUME ComposeAssumption ==
    /\ \A r \in DOMAIN Rows :
         Rows[r].height \in Nat /\ Rows[r].panels \subseteq Panel
    /\ \A d \in DOMAIN Dashboards :
         /\ Dashboards[d].heading \subseteq Panel
         /\ Dashboards[d].headingHeight \in Nat
         /\ Dashboards[d].orders \subseteq Seq(DOMAIN Rows)

VARIABLES
    dashboard,   \* uid of the dashboard being composed
    orderedRows, \* the rows still to be called, in order
    panels,      \* the panels placed so far: <<row, panel>>
    yBase        \* y of the next row

vars == <<dashboard, orderedRows, panels, yBase>>

GridWidth == 24

\* Every placed panel is a panel with natural coordinates, and the y-base is one.
TypeOK ==
    /\ dashboard \in DOMAIN Dashboards
    /\ orderedRows \in Seq(DOMAIN Rows)
    /\ \A p \in panels : p[2] \in Panel
    /\ yBase \in Nat

Init ==
    /\ dashboard \in DOMAIN Dashboards
    /\ orderedRows \in Dashboards[dashboard].orders
    /\ panels = {<<"heading", p>> : p \in Dashboards[dashboard].heading}
    /\ yBase = Dashboards[dashboard].headingHeight

\* A row function's panel, placed under the y-base it was told.
At(p, y) == [p EXCEPT !.y = p.y + y]

Placed(r, y) == {<<r, At(p, y)>> : p \in Rows[r].panels}

\* Slip: the row is called with the y-base, and its height is not added to it.
BuildOnTop ==
    /\ orderedRows # <<>>
    /\ panels' = panels \cup Placed(Head(orderedRows), yBase)
    /\ orderedRows' = Tail(orderedRows)
    /\ UNCHANGED <<yBase, dashboard>>

\* yBase += build(db, yBase)
Build ==
    /\ orderedRows # <<>>
    /\ panels' = panels \cup Placed(Head(orderedRows), yBase)
    /\ yBase' = yBase + Rows[Head(orderedRows)].height
    /\ orderedRows' = Tail(orderedRows)
    /\ UNCHANGED dashboard

Next == Build

Spec == Init /\ [][Next]_vars

-----------------------------------------------------------------------------
\* Properties.

Overlap(p, q) ==
    /\ p.x < q.x + q.w /\ q.x < p.x + p.w
    /\ p.y < q.y + q.h /\ q.y < p.y + p.h

\* In whatever order the rows are listed, no two panels cover the same cell of
\* the grid: Grafana would push one of them away from where Go put it.
NoOverlap ==
    \A p, q \in panels : Overlap(p[2], q[2]) => p = q

\* Every panel and every row header has an id of its own, which Grafana's panel
\* links and the panels' own settings go by: the id blocks written in the
\* headers of the row files are disjoint.
UniqueIds ==
    \A p, q \in panels : p[2].id = q[2].id => p = q

\* The height a row returns is the height its panels take: the dashboard is
\* filled down to the next row's y-base and no further, and the panels keep
\* within the grid's 24 columns.
HeightsExact ==
    /\ \A p \in panels : p[2].x + p[2].w <= GridWidth
    /\ \A p \in panels : p[2].y + p[2].h <= yBase
    /\ yBase > 0 => \E p \in panels : p[2].y + p[2].h = yBase

\* What a row function has to keep for its row to be stacked anywhere: its
\* panels are within its height, and none covers another.
Fits(height, ps) ==
    /\ \A p \in ps : p.y + p.h <= height
    /\ \A p, q \in ps : Overlap(p, q) => p = q

AllFit ==
    /\ \A r \in DOMAIN Rows : Fits(Rows[r].height, Rows[r].panels)
    /\ \A d \in DOMAIN Dashboards :
         Fits(Dashboards[d].headingHeight, Dashboards[d].heading)

\* What it has to keep for the heights to be exact: its panels fill its height,
\* and keep within the grid.
Fills(height, ps) ==
    /\ \A p \in ps : p.x + p.w <= GridWidth /\ p.y + p.h <= height
    /\ height > 0 => \E p \in ps : p.y + p.h = height

AllFill ==
    /\ \A r \in DOMAIN Rows : Fills(Rows[r].height, Rows[r].panels)
    /\ \A d \in DOMAIN Dashboards :
         Fills(Dashboards[d].headingHeight, Dashboards[d].heading)

\* What the rows of one dashboard owe each other for the ids: an id of its own
\* for every panel of the heading and of every place in the order of the rows.
OwnIds(ps) == \A p, q \in ps : p.id = q.id => p = q
IdsDiffer(ps, qs) == \A p \in ps, q \in qs : p.id # q.id

RowsApart(order) ==
    /\ \A i \in 1..Len(order) : OwnIds(Rows[order[i]].panels)
    /\ \A i, j \in 1..Len(order) :
         i # j => IdsDiffer(Rows[order[i]].panels, Rows[order[j]].panels)

AllIdsApart ==
    \A d \in DOMAIN Dashboards :
      /\ OwnIds(Dashboards[d].heading)
      /\ \A order \in Dashboards[d].orders :
           /\ RowsApart(order)
           /\ \A i \in 1..Len(order) :
                IdsDiffer(Dashboards[d].heading, Rows[order[i]].panels)
=============================================================================
