-------------------------- MODULE DashboardProofs --------------------------
(***************************************************************************)
(* Rows can be stacked in any order: a row function answers only for its   *)
(* own panels, and for ids that no other row has.  For every set of rows,  *)
(* every dashboard and every order:                                        *)
(*   - if each row's panels fit in the height it returns, and the          *)
(*     heading's in the first y-base, no two panels overlap;               *)
(*   - if they fill that height, the dashboard is filled to the y-base;    *)
(*   - if the ids of the rows listed differ, no id is used twice.          *)
(*                                                                         *)
(* The inductive invariants: everything placed is above the y-base, which  *)
(* keeps the next row clear of it; and the rows still to come keep their   *)
(* ids apart from those placed.                                            *)
(***************************************************************************)
EXTENDS DashboardCompose, TLAPS

AboveBase == \A p \in panels : p[2].y + p[2].h <= yBase

\* The types of the constants, as the steps below use them.
LEMMA ConstantTypes ==
    /\ \A r \in DOMAIN Rows :
         Rows[r].height \in Nat /\ Rows[r].panels \subseteq Panel
    /\ \A d \in DOMAIN Dashboards :
         /\ Dashboards[d].heading \subseteq Panel
         /\ Dashboards[d].headingHeight \in Nat
         /\ Dashboards[d].orders \subseteq Seq(DOMAIN Rows)
BY ComposeAssumption

\* The first of the remaining rows is a row, and so are the others.
LEMMA RowsLeft ==
    ASSUME orderedRows \in Seq(DOMAIN Rows), orderedRows # <<>>
    PROVE  /\ Head(orderedRows) \in DOMAIN Rows
           /\ Tail(orderedRows) \in Seq(DOMAIN Rows)
OBVIOUS

\* Moving a row's panels down keeps them panels, starting at or below the y-base.
LEMMA PlacedPanels ==
    ASSUME NEW r \in DOMAIN Rows, NEW b \in Nat, NEW n \in Placed(r, b)
    PROVE  \E p \in Rows[r].panels :
             /\ n = <<r, At(p, b)>>
             /\ p \in Panel
             /\ n[2] \in Panel
             /\ n[2].id = p.id /\ n[2].x = p.x /\ n[2].w = p.w /\ n[2].h = p.h
             /\ n[2].y = p.y + b
<1>1. PICK p \in Rows[r].panels : n = <<r, At(p, b)>>
  BY DEF Placed
<1>2. p \in Panel
  BY ConstantTypes
<1>3. n[2] = [p EXCEPT !.y = p.y + b]
  BY <1>1 DEF At
<1>4. QED
  BY <1>1, <1>2, <1>3 DEF Panel

LEMMA TypeInit == Init => TypeOK
BY ConstantTypes DEF Init, TypeOK

LEMMA TypeStep == TypeOK /\ [Next]_vars => TypeOK'
<1> SUFFICES ASSUME TypeOK, [Next]_vars PROVE TypeOK'
  OBVIOUS
<1>1. CASE Build
  <2> DEFINE r == Head(orderedRows)
  <2>1. r \in DOMAIN Rows /\ orderedRows' \in Seq(DOMAIN Rows)
    BY <1>1, RowsLeft DEF Build, TypeOK
  <2>2. \A p \in panels' : p[2] \in Panel
    BY <1>1, <2>1, PlacedPanels DEF Build, TypeOK
  <2>3. yBase' \in Nat
    BY <1>1, <2>1, ConstantTypes DEF Build, TypeOK
  <2>4. QED
    BY <1>1, <2>1, <2>2, <2>3 DEF Build, TypeOK
<1>2. CASE UNCHANGED vars
  BY <1>2 DEF vars, TypeOK
<1>3. QED
  BY <1>1, <1>2 DEF Next

\* Every panel compose() places is a panel, and the y-base is a natural number.
THEOREM TypeCorrect == Spec => []TypeOK
BY TypeInit, TypeStep, PTL DEF Spec

LEMMA StackInit == AllFit /\ Init => AboveBase /\ NoOverlap
<1> SUFFICES ASSUME AllFit, Init PROVE AboveBase /\ NoOverlap
  OBVIOUS
<1>1. Fits(yBase, Dashboards[dashboard].heading)
  BY DEF Init, AllFit
<1>2. AboveBase
  BY <1>1 DEF Init, Fits, AboveBase
<1>3. NoOverlap
  BY <1>1 DEF Init, Fits, NoOverlap
<1>4. QED
  BY <1>2, <1>3

\* A panel above the y-base and a panel of the row placed there do not overlap.
LEMMA Apart ==
    ASSUME NEW p \in Panel, NEW q \in Panel, NEW b \in Nat,
           p.y + p.h <= b, q.y >= b
    PROVE  ~Overlap(p, q) /\ ~Overlap(q, p)
BY DEF Panel, Overlap

\* Two panels overlap where they are placed only if they overlap in their row.
LEMMA Shifted ==
    ASSUME NEW a \in Panel, NEW c \in Panel, NEW p \in Panel, NEW q \in Panel,
           NEW b \in Nat,
           p.x = a.x /\ p.w = a.w /\ p.h = a.h /\ p.y = a.y + b,
           q.x = c.x /\ q.w = c.w /\ q.h = c.h /\ q.y = c.y + b,
           Overlap(p, q)
    PROVE  Overlap(a, c)
BY DEF Panel, Overlap

\* One more row keeps everything above the y-base and overlaps nothing.
LEMMA StackStep ==
    TypeOK /\ AllFit /\ AboveBase /\ NoOverlap /\ [Next]_vars
        => AboveBase' /\ NoOverlap'
<1> SUFFICES ASSUME TypeOK, AllFit, AboveBase, NoOverlap, [Next]_vars
             PROVE  AboveBase' /\ NoOverlap'
  OBVIOUS
<1>1. CASE Build
  <2> DEFINE r == Head(orderedRows)
             height == Rows[r].height
  <2>1. r \in DOMAIN Rows /\ yBase \in Nat /\ height \in Nat
    BY <1>1, RowsLeft, ConstantTypes DEF Build, TypeOK
  <2>2. panels' = panels \cup Placed(r, yBase) /\ yBase' = yBase + height
    BY <1>1 DEF Build
  <2>3. Fits(height, Rows[r].panels)
    BY <2>1 DEF AllFit
  <2>4. \A p \in panels : p[2] \in Panel /\ p[2].y + p[2].h <= yBase
    BY DEF TypeOK, AboveBase
  <2>5. ASSUME NEW n \in Placed(r, yBase)
        PROVE  /\ n[2] \in Panel
               /\ n[2].y >= yBase
               /\ n[2].y + n[2].h <= yBase + height
    <3>1. PICK p \in Rows[r].panels :
            /\ p \in Panel
            /\ n[2] \in Panel
            /\ n[2].h = p.h /\ n[2].y = p.y + yBase
      BY <2>1, PlacedPanels
    <3>2. p.y + p.h <= height
      BY <2>3 DEF Fits
    <3>3. p.y \in Nat /\ p.h \in Nat
      BY <3>1 DEF Panel
    <3>4. QED
      BY <2>1, <3>1, <3>2, <3>3
  <2>6. AboveBase'
    <3> SUFFICES ASSUME NEW p \in panels'
                 PROVE  p[2].y + p[2].h <= yBase + height
      BY <2>2 DEF AboveBase
    <3>1. CASE p \in panels
      <4>1. p[2] \in Panel /\ p[2].y + p[2].h <= yBase
        BY <3>1, <2>4
      <4>2. p[2].y + p[2].h \in Nat
        BY <4>1 DEF Panel
      <4>3. QED
        BY <4>1, <4>2, <2>1
    <3>2. CASE p \in Placed(r, yBase)
      BY <3>2, <2>5
    <3>3. QED
      BY <2>2, <3>1, <3>2
  <2>7. ASSUME NEW p \in panels', NEW q \in panels', Overlap(p[2], q[2])
        PROVE  p = q
    <3>1. CASE p \in panels /\ q \in panels
      BY <3>1, <2>7 DEF NoOverlap
    <3>2. CASE p \in panels /\ q \in Placed(r, yBase)
      BY <3>2, <2>1, <2>4, <2>5, <2>7, Apart
    <3>3. CASE p \in Placed(r, yBase) /\ q \in panels
      BY <3>3, <2>1, <2>4, <2>5, <2>7, Apart
    <3>4. CASE p \in Placed(r, yBase) /\ q \in Placed(r, yBase)
      <4>1. PICK a \in Rows[r].panels :
              /\ p = <<r, At(a, yBase)>> /\ a \in Panel /\ p[2] \in Panel
              /\ p[2].x = a.x /\ p[2].w = a.w /\ p[2].h = a.h
              /\ p[2].y = a.y + yBase
        BY <3>4, <2>1, PlacedPanels
      <4>2. PICK c \in Rows[r].panels :
              /\ q = <<r, At(c, yBase)>> /\ c \in Panel /\ q[2] \in Panel
              /\ q[2].x = c.x /\ q[2].w = c.w /\ q[2].h = c.h
              /\ q[2].y = c.y + yBase
        BY <3>4, <2>1, PlacedPanels
      <4>3. Overlap(a, c)
        BY <4>1, <4>2, <2>1, <2>7, Shifted
      <4>4. a = c
        BY <4>3, <2>3 DEF Fits
      <4>5. QED
        BY <4>1, <4>2, <4>4
    <3>5. QED
      BY <2>2, <3>1, <3>2, <3>3, <3>4
  <2>8. QED
    BY <2>6, <2>7 DEF NoOverlap
<1>2. CASE UNCHANGED vars
  BY <1>2 DEF vars, AboveBase, NoOverlap
<1>3. QED
  BY <1>1, <1>2 DEF Next

\* In whatever order rows that fit are stacked, no two panels cover a cell.
THEOREM RowsStack == ASSUME AllFit PROVE Spec => []NoOverlap
<1>1. AllFit
  OBVIOUS
<1>2. Init => TypeOK /\ AboveBase /\ NoOverlap
  BY <1>1, TypeInit, StackInit
<1>3. (TypeOK /\ AboveBase /\ NoOverlap) /\ [Next]_vars
        => (TypeOK /\ AboveBase /\ NoOverlap)'
  BY <1>1, TypeStep, StackStep
<1>4. QED
  BY <1>2, <1>3, PTL DEF Spec

-----------------------------------------------------------------------------
\* The heights.

\* One more row that fills its height keeps the dashboard filled.
LEMMA FillStep ==
    TypeOK /\ AllFill /\ HeightsExact /\ [Next]_vars => HeightsExact'
<1> SUFFICES ASSUME TypeOK, AllFill, HeightsExact, [Next]_vars
             PROVE  HeightsExact'
  OBVIOUS
<1>1. CASE Build
  <2> DEFINE r == Head(orderedRows)
             height == Rows[r].height
  <2>1. /\ r \in DOMAIN Rows /\ yBase \in Nat /\ height \in Nat
        /\ Rows[r].panels \subseteq Panel
    BY <1>1, RowsLeft, ConstantTypes DEF Build, TypeOK
  <2>2. panels' = panels \cup Placed(r, yBase) /\ yBase' = yBase + height
    BY <1>1 DEF Build
  <2>3. Fills(height, Rows[r].panels)
    BY <2>1 DEF AllFill
  <2> HIDE DEF r, height
  <2>4. ASSUME NEW p \in panels
        PROVE  p[2].x + p[2].w <= GridWidth /\ p[2].y + p[2].h <= yBase + height
    <3>1. p[2].x + p[2].w <= GridWidth /\ p[2].y + p[2].h <= yBase
      BY DEF HeightsExact
    <3>2. p[2].y + p[2].h \in Nat
      BY DEF TypeOK, Panel
    <3>3. QED
      BY <2>1, <3>1, <3>2
  <2>5. ASSUME NEW n \in Placed(r, yBase)
        PROVE  n[2].x + n[2].w <= GridWidth /\ n[2].y + n[2].h <= yBase + height
    <3>1. PICK p \in Rows[r].panels :
            /\ p \in Panel
            /\ n[2].x = p.x /\ n[2].w = p.w /\ n[2].h = p.h /\ n[2].y = p.y + yBase
      BY <2>1, PlacedPanels
    <3>2. p.x + p.w <= GridWidth /\ p.y + p.h <= height /\ p.y \in Nat /\ p.h \in Nat
      BY <2>3, <3>1 DEF Fills, Panel
    <3>3. QED
      BY <2>1, <3>1, <3>2
  <2>6. ASSUME yBase + height > 0
        PROVE  \E p \in panels' : p[2].y + p[2].h = yBase + height
    <3>1. CASE height > 0
      <4>1. PICK p \in Rows[r].panels : p.y + p.h = height
        BY <2>3, <3>1 DEF Fills
      <4> DEFINE n == <<r, At(p, yBase)>>
      <4>2. n \in Placed(r, yBase) /\ p \in Panel
        BY <2>1 DEF Placed
      <4>3. n[2].y = p.y + yBase /\ n[2].h = p.h
        BY <4>2 DEF At, Panel
      <4>4. n[2].y + n[2].h = yBase + height
        BY <2>1, <4>1, <4>2, <4>3 DEF Panel
      <4> HIDE DEF n
      <4>5. QED
        BY <2>2, <4>2, <4>4
    <3>2. CASE height = 0
      BY <2>1, <2>2, <2>6, <3>2 DEF HeightsExact
    <3>3. QED
      BY <2>1, <3>1, <3>2
  <2>7. QED
    BY <2>2, <2>4, <2>5, <2>6 DEF HeightsExact
<1>2. CASE UNCHANGED vars
  BY <1>2 DEF vars, HeightsExact
<1>3. QED
  BY <1>1, <1>2 DEF Next

\* In whatever order rows that fill their heights are stacked, the dashboard is
\* filled down to the next y-base and no further, within the grid's columns.
THEOREM RowsFill == ASSUME AllFill PROVE Spec => []HeightsExact
<1>1. AllFill
  OBVIOUS
<1>2. Init => TypeOK /\ HeightsExact
  <2> SUFFICES ASSUME Init PROVE HeightsExact
    BY TypeInit
  <2>1. Fills(yBase, Dashboards[dashboard].heading)
    BY <1>1 DEF Init, AllFill
  <2>2. \A p \in Dashboards[dashboard].heading :
          <<"heading", p>> \in panels /\ <<"heading", p>>[2] = p
    BY DEF Init
  <2>3. yBase > 0 => \E p \in panels : p[2].y + p[2].h = yBase
    <3> SUFFICES ASSUME yBase > 0 PROVE \E p \in panels : p[2].y + p[2].h = yBase
      OBVIOUS
    <3>1. PICK p \in Dashboards[dashboard].heading : p.y + p.h = yBase
      BY <2>1 DEF Fills
    <3>2. QED
      BY <2>2, <3>1
  <2>4. QED
    BY <2>1, <2>3 DEF Init, Fills, HeightsExact
<1>3. (TypeOK /\ HeightsExact) /\ [Next]_vars => (TypeOK /\ HeightsExact)'
  BY <1>1, TypeStep, FillStep
<1>4. QED
  BY <1>2, <1>3, PTL DEF Spec

-----------------------------------------------------------------------------
\* The ids.

\* The inductive invariant: the rows still to come keep their ids apart from
\* each other and from the panels placed.
IdsInv ==
    /\ UniqueIds
    /\ RowsApart(orderedRows)
    /\ \A i \in 1..Len(orderedRows) : \A p \in panels :
         \A q \in Rows[orderedRows[i]].panels : p[2].id # q.id

LEMMA IdsInit == AllIdsApart /\ Init => IdsInv
<1> SUFFICES ASSUME AllIdsApart, Init PROVE IdsInv
  OBVIOUS
<1> DEFINE heading == Dashboards[dashboard].heading
<1>1. /\ OwnIds(heading) /\ RowsApart(orderedRows)
      /\ \A i \in 1..Len(orderedRows) :
           IdsDiffer(heading, Rows[orderedRows[i]].panels)
  BY DEF Init, AllIdsApart
<1>2. \A p \in panels : p[2] \in heading /\ p = <<"heading", p[2]>>
  BY DEF Init
<1> HIDE DEF heading
<1>3. UniqueIds
  BY <1>1, <1>2 DEF OwnIds, UniqueIds
<1>4. QED
  BY <1>1, <1>2, <1>3 DEF IdsDiffer, IdsInv

\* Placing a row of the order gives its ids away and leaves the others' apart.
LEMMA IdsStep == TypeOK /\ IdsInv /\ [Next]_vars => IdsInv'
<1> SUFFICES ASSUME TypeOK, IdsInv, [Next]_vars PROVE IdsInv'
  OBVIOUS
<1>1. CASE Build
  <2> DEFINE r == Head(orderedRows)
  <2>1. /\ r \in DOMAIN Rows /\ yBase \in Nat
        /\ panels' = panels \cup Placed(r, yBase)
        /\ orderedRows' = Tail(orderedRows)
        /\ orderedRows \in Seq(DOMAIN Rows) /\ orderedRows # <<>>
    BY <1>1, RowsLeft DEF Build, TypeOK
  <2>2. /\ 1 \in 1..Len(orderedRows) /\ orderedRows[1] = r
        /\ \A i \in 1..Len(orderedRows') :
             /\ i + 1 \in 1..Len(orderedRows) /\ i + 1 # 1
             /\ orderedRows'[i] = orderedRows[i + 1]
    BY <2>1
  <2>3. /\ OwnIds(Rows[r].panels)
        /\ \A p \in panels : \A q \in Rows[r].panels : p[2].id # q.id
        /\ \A i \in 1..Len(orderedRows') :
             /\ IdsDiffer(Rows[r].panels, Rows[orderedRows'[i]].panels)
             /\ \A p \in panels : \A q \in Rows[orderedRows'[i]].panels : p[2].id # q.id
    BY <2>2 DEF IdsInv, RowsApart
  <2>4. RowsApart(orderedRows')
    <3>1. \A i, j \in 1..Len(orderedRows') : i # j => i + 1 # j + 1
      OBVIOUS
    <3>2. QED
      BY <2>2, <3>1 DEF IdsInv, RowsApart
  <2>5. \A n \in Placed(r, yBase) : \E q \in Rows[r].panels :
          n = <<r, At(q, yBase)>> /\ n[2].id = q.id
    BY <2>1, PlacedPanels
  <2> HIDE DEF r
  <2>6. UniqueIds'
    <3> SUFFICES ASSUME NEW p \in panels', NEW q \in panels', p[2].id = q[2].id
                 PROVE  p = q
      BY DEF UniqueIds
    <3>1. CASE p \in panels /\ q \in panels
      BY <3>1 DEF IdsInv, UniqueIds
    <3>2. CASE p \in Placed(r, yBase) /\ q \in Placed(r, yBase)
      BY <2>3, <2>5, <3>2 DEF OwnIds
    <3>3. CASE p \in panels /\ q \in Placed(r, yBase)
      BY <2>3, <2>5, <3>3
    <3>4. CASE p \in Placed(r, yBase) /\ q \in panels
      BY <2>3, <2>5, <3>4
    <3>5. QED
      BY <2>1, <3>1, <3>2, <3>3, <3>4
  <2>7. \A i \in 1..Len(orderedRows') : \A p \in panels' :
          \A q \in Rows[orderedRows'[i]].panels : p[2].id # q.id
    BY <2>1, <2>3, <2>5 DEF IdsDiffer
  <2>8. QED
    BY <2>4, <2>6, <2>7 DEF IdsInv
<1>2. CASE UNCHANGED vars
  BY <1>2 DEF vars, IdsInv, UniqueIds
<1>3. QED
  BY <1>1, <1>2 DEF Next

\* In whatever order rows with id blocks of their own are listed, every panel of
\* the dashboard has an id of its own.
THEOREM IdsStayUnique == ASSUME AllIdsApart PROVE Spec => []UniqueIds
<1>1. AllIdsApart
  OBVIOUS
<1>2. Init => TypeOK /\ IdsInv
  BY <1>1, TypeInit, IdsInit
<1>3. (TypeOK /\ IdsInv) /\ [Next]_vars => (TypeOK /\ IdsInv)'
  BY TypeStep, IdsStep
<1>4. IdsInv => UniqueIds
  BY DEF IdsInv
<1>5. QED
  BY <1>2, <1>3, <1>4, PTL DEF Spec
=============================================================================
