------------------------ MODULE DashboardGateProofs ------------------------
(***************************************************************************)
(* Proofs about DashboardGate for every set of pull requests, every        *)
(* dashboard and every renderer.                                           *)
(*                                                                         *)
(* Why the dashboards on main stay in step: what a check has passed is     *)
(* kept until the pull request is merged; and while no merged pull request *)
(* has changed a dashboard, every commit of main has the same one, so that *)
(* it does not matter on which of them the first change was checked.       *)
(*                                                                         *)
(* Why a source has one rendering: whatever order a map is walked in, the  *)
(* sort puts its keys and the tags in one (ShuffledAlike), and what is put *)
(* together from parts with one output each has one (EncodeOnce).          *)
(***************************************************************************)
EXTENDS DashboardRender, SequenceTheorems, FunctionTheorems, FiniteSetTheorems, TLAPS

Fields == {"step", "src", "json", "base", "todo", "edits", "check", "on"}

Shape ==
    /\ DOMAIN pr = PRs
    /\ \A p \in PRs : DOMAIN pr[p] = Fields
    /\ \E S : mains \in Seq(S)
    /\ Len(mains) > 0

\* What a check has seen stays what the pull request is.
CheckInv(p) ==
    /\ pr[p].base \in 1..Len(mains) /\ pr[p].on \in 1..Len(mains)
    /\ pr[p].check # "none" => pr[p].step \in {"pushed", "merged"}
    /\ pr[p].check = "running" => pr[p].step = "pushed"
    /\ pr[p].check = "passed" =>
         \A d \in Dashboards :
           Checked(p).json[d] \in Render(d, Checked(p).src[d])

\* A dashboard that no merged pull request has changed.
UntouchedInv ==
    \A d \in Dashboards : Touched(d) = {} =>
      \A i \in 1..Len(mains) : /\ mains[i].src[d] = Main.src[d]
                               /\ mains[i].json[d] = Main.json[d]

GateInv ==
    /\ Shape
    /\ \A p \in PRs : CheckInv(p)
    /\ UntouchedInv
    /\ MainInStep

\* Only the pull request p changes, and it is not merged before or after.
Works(p) ==
    /\ UNCHANGED <<mains, fresh>>
    /\ DOMAIN pr' = PRs /\ DOMAIN pr'[p] = Fields
    /\ \A q \in PRs \ {p} : pr'[q] = pr[q]
    /\ pr[p].step # "merged" /\ pr'[p].step # "merged"

\* A step of the author of p.
Author(p) ==
    \/ Branch(p) \/ EditRow(p) \/ EditJson(p)
    \/ StartBuild(p) \/ BuildNext(p) \/ BuildFails(p)
    \/ Push(p) \/ Resume(p) \/ MergeMain(p)

LEMMA SetOne ==
    ASSUME Shape, NEW p \in PRs, NEW new, DOMAIN new = Fields, Set(p, new)
    PROVE  /\ DOMAIN pr' = PRs
           /\ pr'[p] = new
           /\ \A q \in PRs \ {p} : pr'[q] = pr[q]
BY DEF Shape, Set

\* What the author does: the check is gone, or runs on what has been pushed.
LEMMA AuthorWorks ==
    ASSUME Shape, NEW p \in PRs, CheckInv(p), Author(p)
    PROVE  /\ Works(p)
           /\ pr'[p].base \in 1..Len(mains) /\ pr'[p].on \in 1..Len(mains)
           /\ pr'[p].check \in {"none", "running"}
           /\ pr'[p].check = "running" => pr'[p].step = "pushed"
<1> DEFINE Done(new) ==
       /\ DOMAIN new = Fields
       /\ new.step # "merged"
       /\ new.base \in 1..Len(mains) /\ new.on \in 1..Len(mains)
       /\ new.check \in {"none", "running"}
       /\ new.check = "running" => new.step = "pushed"
<1>1. Len(mains) \in 1..Len(mains)
  BY DEF Shape
<1>2. DOMAIN pr[p] = Fields
  BY DEF Shape
<1>3. pr[p].step # "merged" /\ UNCHANGED <<mains, fresh>>
  BY DEF Author, Branch, EditRow, EditJson, StartBuild, BuildNext, BuildFails,
         Push, Resume, MergeMain
<1>4. pr[p].step # "pushed" => pr[p].check = "none"
  BY <1>3 DEF CheckInv
<1>5. \E new : Set(p, new) /\ Done(new)
  <2>1. CASE Branch(p)
    <3>1. Done([pr[p] EXCEPT !.step = "work", !.base = Len(mains),
                             !.src = Main.src, !.json = Main.json])
      BY <1>1, <1>2, <1>4, <2>1 DEF Branch, CheckInv, Fields
    <3> QED BY <2>1, <3>1 DEF Branch
  <2>2. CASE EditRow(p)
    <3>1. PICK d \in Dashboards : \E i \in 1..RowCount[d] : \E h \in Heights :
            Set(p, [pr[p] EXCEPT !.src[d][i] = h, !.edits = @ + 1])
      BY <2>2 DEF EditRow
    <3>2. PICK i \in 1..RowCount[d] : \E h \in Heights :
            Set(p, [pr[p] EXCEPT !.src[d][i] = h, !.edits = @ + 1])
      BY <3>1
    <3>3. PICK h \in Heights :
            Set(p, [pr[p] EXCEPT !.src[d][i] = h, !.edits = @ + 1])
      BY <3>2
    <3>4. Done([pr[p] EXCEPT !.src[d][i] = h, !.edits = @ + 1])
      BY <1>2, <1>4, <2>2 DEF EditRow, CheckInv, Fields
    <3> QED BY <3>3, <3>4
  <2>3. CASE EditJson(p)
    <3>1. PICK d \in Dashboards : \E f \in FilesOf(d) :
            Set(p, [pr[p] EXCEPT !.json[d] = f, !.edits = @ + 1])
      BY <2>3 DEF EditJson
    <3>2. PICK f \in FilesOf(d) :
            Set(p, [pr[p] EXCEPT !.json[d] = f, !.edits = @ + 1])
      BY <3>1
    <3>3. Done([pr[p] EXCEPT !.json[d] = f, !.edits = @ + 1])
      BY <1>2, <1>4, <2>3 DEF EditJson, CheckInv, Fields
    <3> QED BY <3>2, <3>3
  <2>4. CASE StartBuild(p)
    <3>1. Done([pr[p] EXCEPT !.step = "build", !.todo = 1])
      BY <1>2, <1>4, <2>4 DEF StartBuild, CheckInv, Fields
    <3> QED BY <2>4, <3>1 DEF StartBuild
  <2>5. CASE BuildNext(p)
    <3> DEFINE d == RENDERS[pr[p].todo]
               done == pr[p].todo = Len(RENDERS)
               New(f) == [pr[p] EXCEPT !.json[d] = f,
                                 !.step = IF done THEN "work" ELSE "build",
                                 !.todo = IF done THEN 0 ELSE @ + 1]
    <3>1. PICK f \in Render(d, pr[p].src[d]) \ {Error} : Set(p, New(f))
      BY <2>5 DEF BuildNext
    <3>2. DOMAIN New(f) = Fields
      BY <1>2 DEF Fields
    <3>3. /\ New(f).step # "merged" /\ New(f).base = pr[p].base
          /\ New(f).on = pr[p].on /\ New(f).check = pr[p].check
      BY <1>2 DEF Fields
    <3>4. pr[p].check = "none"
      BY <1>4, <2>5 DEF BuildNext
    <3>5. pr[p].base \in 1..Len(mains) /\ pr[p].on \in 1..Len(mains)
      BY DEF CheckInv
    <3>6. Done(New(f))
      <4> HIDE DEF New
      <4> QED BY <3>2, <3>3, <3>4, <3>5
    <3> HIDE DEF New, Done
    <3> QED BY <3>1, <3>6
  <2>6. CASE BuildFails(p)
    <3>1. Done([pr[p] EXCEPT !.step = "work", !.todo = 0])
      BY <1>2, <1>4, <2>6 DEF BuildFails, CheckInv, Fields
    <3> QED BY <2>6, <3>1 DEF BuildFails
  <2>7. CASE Push(p)
    <3> DEFINE mergeable == Mergeable(mains[pr[p].base], Main, Tree(p))
    <3>1. Done([pr[p] EXCEPT !.step = "pushed", !.on = Len(mains),
                   !.check = IF mergeable THEN "running" ELSE "none"])
      <4> HIDE DEF mergeable
      <4> QED BY <1>1, <1>2, <2>7 DEF Push, CheckInv, Fields
    <3> QED BY <2>7, <3>1 DEF Push
  <2>8. CASE Resume(p)
    <3>1. Done([pr[p] EXCEPT !.step = "work", !.check = "none"])
      BY <1>2, <2>8 DEF Resume, CheckInv, Fields
    <3> QED BY <2>8, <3>1 DEF Resume
  <2>9. CASE MergeMain(p)
    <3> DEFINE base == mains[pr[p].base]
               Kept(b, m, o) == IF Conflicts(b, m, o) = {} THEN MergeFile(b, m, o)
                                ELSE o
               src == [d \in Dashboards |->
                         Kept(base.src[d], Main.src[d], pr[p].src[d])]
               json == [d \in Dashboards |->
                         Kept(base.json[d], Main.json[d], pr[p].json[d])]
    <3>1. Set(p, [pr[p] EXCEPT !.base = Len(mains), !.src = src, !.json = json])
      BY <2>9 DEF MergeMain
    <3>2. Done([pr[p] EXCEPT !.base = Len(mains), !.src = src, !.json = json])
      <4> HIDE DEF src, json
      <4> QED BY <1>1, <1>2, <1>4, <2>9 DEF MergeMain, CheckInv, Fields
    <3> QED BY <3>1, <3>2
  <2> QED
    BY <2>1, <2>2, <2>3, <2>4, <2>5, <2>6, <2>7, <2>8, <2>9 DEF Author
<1>6. PICK new : Set(p, new) /\ Done(new)
  BY <1>5
<1>7. QED
  BY <1>3, <1>6, SetOne DEF Works

-----------------------------------------------------------------------------
\* The merged pull requests that have changed a dashboard stay the same when no
\* pull request is merged.
LEMMA WorksTouches ==
    ASSUME Shape, NEW p \in PRs, Works(p), NEW d \in Dashboards
    PROVE  Touched(d)' = Touched(d)
BY DEF Works, Touched

\* What is on main, and what a check has seen, stay the same for the others.
LEMMA WorksKeeps ==
    ASSUME Shape, NEW p \in PRs, Works(p), \A q \in PRs : CheckInv(q), UntouchedInv,
           MainInStep
    PROVE  /\ Shape'
           /\ \A q \in PRs \ {p} : CheckInv(q)'
           /\ UntouchedInv'
           /\ MainInStep'
<1>1. Shape'
  BY DEF Works, Shape
<1>2. ASSUME NEW q \in PRs \ {p} PROVE CheckInv(q)'
  BY <1>2 DEF Works, CheckInv, Checked, Tree
<1>3. UntouchedInv'
  BY WorksTouches DEF UntouchedInv, Works, Main
<1>4. MainInStep'
  BY WorksTouches DEF MainInStep, Works, Main
<1> QED BY <1>1, <1>2, <1>3, <1>4

\* A check that passes has seen every rendered file in step with its source.
LEMMA CheckSees ==
    ASSUME NEW p \in PRs, CheckPasses(p), NEW d \in Dashboards
    PROVE  Checked(p).json[d] \in Render(d, Checked(p).src[d])
<1>1. PICK a, b, c \in Render(d, Checked(p).src[d]) : InStep(d, Checked(p), a, b, c)
  BY DEF CheckPasses
<1> QED BY <1>1 DEF InStep, Guarded

LEMMA StepCheck ==
    ASSUME GateInv, NEW p \in PRs, CheckPasses(p) \/ CheckFails(p)
    PROVE  GateInv'
<1> DEFINE New(c) == [pr[p] EXCEPT !.check = c]
<1>1. pr[p].step = "pushed" /\ UNCHANGED <<mains, fresh>>
  BY DEF GateInv, CheckInv, CheckPasses, CheckFails
<1>2. PICK c \in {"passed", "failed"} :
         Set(p, New(c)) /\ (c = "passed" => CheckPasses(p))
  BY DEF CheckPasses, CheckFails
<1>3. DOMAIN New(c) = Fields
  BY DEF GateInv, Shape
<1>4. /\ New(c).check = c /\ New(c).step = pr[p].step
      /\ New(c).src = pr[p].src /\ New(c).json = pr[p].json
      /\ New(c).base = pr[p].base /\ New(c).on = pr[p].on
  BY DEF GateInv, Shape, Fields
<1> HIDE DEF New
<1>5. pr'[p] = New(c) /\ Works(p)
  BY <1>1, <1>2, <1>3, <1>4, SetOne DEF Works, GateInv
<1>6. Checked(p)' = Checked(p)
  BY <1>1, <1>4, <1>5 DEF Checked, Tree
<1>7. CheckInv(p)'
  <2>1. c = "passed" => \A d \in Dashboards :
          Checked(p)'.json[d] \in Render(d, Checked(p)'.src[d])
    BY <1>2, <1>6, CheckSees
  <2> QED BY <1>1, <1>4, <1>5, <2>1 DEF CheckInv, GateInv
<1> QED BY <1>5, <1>7, WorksKeeps DEF GateInv

LEMMA StepAuthor ==
    ASSUME GateInv, NEW p \in PRs, Author(p)
    PROVE  GateInv'
<1>1. CheckInv(p)'
  <2>1. Len(mains)' = Len(mains)
    BY AuthorWorks DEF GateInv, Works
  <2> QED BY <2>1, AuthorWorks DEF GateInv, CheckInv
<1> QED BY <1>1, AuthorWorks, WorksKeeps DEF GateInv

-----------------------------------------------------------------------------
\* The pull request has changed the dashboard.
ChangedBy(p, d) == \/ pr[p].src[d] # mains[pr[p].base].src[d]
                   \/ pr[p].json[d] # mains[pr[p].base].json[d]

\* What the pull request p is merged into main as.
Merged(p) == MergeTrees(mains[pr[p].base], Main, Tree(p))

\* A merge appends one commit to main; the pull request stays what it was.
LEMMA MergeEffect ==
    ASSUME GateInv, NEW p \in PRs, Merge(p)
    PROVE  /\ Shape'
           /\ Len(mains') = Len(mains) + 1
           /\ \A i \in 1..Len(mains) : mains'[i] = mains[i]
           /\ Main' = Merged(p)
           /\ \A q \in PRs : /\ pr'[q].src = pr[q].src /\ pr'[q].json = pr[q].json
                             /\ pr'[q].base = pr[q].base /\ pr'[q].on = pr[q].on
                             /\ pr'[q].check = pr[q].check
                             /\ pr'[q].todo = pr[q].todo
                             /\ pr'[q].edits = pr[q].edits
                             /\ q # p => pr'[q].step = pr[q].step
           /\ pr'[p].step = "merged"
<1> DEFINE commit == Merged(p)
           new == [pr[p] EXCEPT !.step = "merged"]
<1>1. mains' = Append(mains, commit) /\ Set(p, new)
  BY DEF Merge, Merged
<1>2. PICK S : mains \in Seq(S)
  BY DEF GateInv, Shape
<1> HIDE DEF commit
<1>3. mains \in Seq(S \cup {commit}) /\ commit \in S \cup {commit}
  BY <1>2
<1>4. /\ mains' \in Seq(S \cup {commit})
      /\ Len(mains') = Len(mains) + 1
      /\ mains'[Len(mains) + 1] = commit
      /\ \A i \in 1..Len(mains) : mains'[i] = mains[i]
  BY <1>1, <1>3, AppendProperties
<1>5. /\ DOMAIN new = Fields
      /\ new.src = pr[p].src /\ new.json = pr[p].json
      /\ new.base = pr[p].base /\ new.on = pr[p].on
      /\ new.check = pr[p].check /\ new.todo = pr[p].todo
      /\ new.edits = pr[p].edits /\ new.step = "merged"
  BY DEF GateInv, Shape, Fields
<1> HIDE DEF new
<1>6. /\ DOMAIN pr' = PRs /\ pr'[p] = new
      /\ \A q \in PRs \ {p} : pr'[q] = pr[q]
  BY <1>1, <1>5, SetOne DEF GateInv
<1>7. Shape'
  <2>1. Len(mains') > 0
    BY <1>4, <1>2, LenProperties
  <2> QED BY <1>4, <1>5, <1>6, <2>1 DEF GateInv, Shape
<1>8. Main' = commit
  BY <1>4 DEF Main
<1> QED BY <1>4, <1>5, <1>6, <1>7, <1>8 DEF commit

\* After a merge the pull request may be one more that has changed a dashboard.
LEMMA MergeTouches ==
    ASSUME GateInv, NEW p \in PRs, Merge(p), NEW d \in Dashboards
    PROVE  /\ p \notin Touched(d)
           /\ ChangedBy(p, d) => Touched(d)' = Touched(d) \cup {p}
           /\ ~ChangedBy(p, d) => Touched(d)' = Touched(d)
<1>1. \A q \in PRs : ChangedBy(q, d)' <=> ChangedBy(q, d)
  <2> TAKE q \in PRs
  <2>1. pr[q].base \in 1..Len(mains)
    BY DEF GateInv, CheckInv
  <2> QED BY <2>1, MergeEffect DEF ChangedBy
<1>2. /\ Touched(d) = {q \in PRs : pr[q].step = "merged" /\ ChangedBy(q, d)}
      /\ Touched(d)' = {q \in PRs : pr'[q].step = "merged" /\ ChangedBy(q, d)'}
  BY DEF Touched, ChangedBy
<1>3. pr[p].step = "pushed"
  BY DEF Merge
<1> QED BY <1>1, <1>2, <1>3, MergeEffect

\* A dashboard that the pull request has not changed stays what main has.
LEMMA UnchangedStays ==
    ASSUME NEW p \in PRs, NEW d \in Dashboards, ~ChangedBy(p, d)
    PROVE  Merged(p).src[d] = Main.src[d] /\ Merged(p).json[d] = Main.json[d]
BY DEF ChangedBy, Merged, MergeTrees, MergeFile, Tree

\* One that main has not changed since is what the pull request has made it.
LEMMA FirstChangeWins ==
    ASSUME NEW p \in PRs, NEW d \in Dashboards, NEW main,
           mains[pr[p].base].src[d] = main.src[d],
           mains[pr[p].base].json[d] = main.json[d]
    PROVE  /\ MergeTrees(mains[pr[p].base], main, Tree(p)).src[d] = pr[p].src[d]
           /\ MergeTrees(mains[pr[p].base], main, Tree(p)).json[d] = pr[p].json[d]
BY DEF MergeTrees, MergeFile, Tree

LEMMA MergeUntouched ==
    ASSUME GateInv, NEW p \in PRs, Merge(p)
    PROVE  UntouchedInv'
<1> SUFFICES ASSUME NEW d \in Dashboards, Touched(d)' = {},
                    NEW i \in 1..(Len(mains) + 1)
             PROVE  /\ mains'[i].src[d] = (Main').src[d]
                    /\ mains'[i].json[d] = (Main').json[d]
  BY MergeEffect DEF UntouchedInv
<1>1. ~ChangedBy(p, d) /\ Touched(d) = {}
  BY MergeTouches
<1>2. CASE i \in 1..Len(mains)
  BY <1>1, <1>2, UnchangedStays, MergeEffect DEF GateInv, UntouchedInv
<1>3. CASE i = Len(mains) + 1
  BY <1>3, MergeEffect DEF Main
<1> QED BY <1>2, <1>3, MergeEffect DEF GateInv, Shape

LEMMA MergeInStep ==
    ASSUME GateInv, NEW p \in PRs, Merge(p)
    PROVE  MainInStep'
<1> SUFFICES ASSUME NEW d \in Dashboards,
                    fresh' \/ Cardinality(Touched(d)') <= 1
             PROVE  (Main').json[d] \in Render(d, (Main').src[d])
  BY DEF MainInStep
<1>1. Main' = Merged(p)
  BY MergeEffect
<1>2. Checked(p).json[d] \in Render(d, Checked(p).src[d])
  BY DEF GateInv, CheckInv, Merge
<1>3. CASE pr[p].on = Len(mains)
  BY <1>1, <1>2, <1>3 DEF Merged, Checked, Main
<1>4. CASE pr[p].on # Len(mains) /\ ChangedBy(p, d)
  <2>1. Touched(d) = {}
    <3>1. IsFiniteSet(Touched(d))
      BY GateAssumption, FS_Subset DEF Touched
    <3>2. Cardinality(Touched(d) \cup {p}) = Cardinality(Touched(d)) + 1
      BY <3>1, MergeTouches, FS_AddElement
    <3>3. Cardinality(Touched(d)) \in Nat
      BY <3>1, FS_CardinalityType
    <3>4. ~fresh'
      BY <1>4 DEF Merge
    <3>5. Cardinality(Touched(d) \cup {p}) <= 1
      BY <1>4, <3>4, MergeTouches
    <3>6. Cardinality(Touched(d)) = 0
      BY <3>2, <3>3, <3>5
    <3> QED BY <3>1, <3>6, FS_EmptySet
  <2>2. \A i \in 1..Len(mains) : /\ mains[i].src[d] = Main.src[d]
                                 /\ mains[i].json[d] = Main.json[d]
    BY <2>1 DEF GateInv, UntouchedInv
  <2>3. pr[p].base \in 1..Len(mains) /\ pr[p].on \in 1..Len(mains)
    BY DEF GateInv, CheckInv
  <2>4. Checked(p).src[d] = pr[p].src[d] /\ Checked(p).json[d] = pr[p].json[d]
    BY <2>2, <2>3, FirstChangeWins DEF Checked
  <2>5. Merged(p).src[d] = pr[p].src[d] /\ Merged(p).json[d] = pr[p].json[d]
    BY <2>2, <2>3, FirstChangeWins DEF Merged
  <2> QED BY <1>1, <1>2, <2>4, <2>5
<1>5. CASE pr[p].on # Len(mains) /\ ~ChangedBy(p, d)
  <2>1. Main.json[d] \in Render(d, Main.src[d])
    BY <1>5, MergeTouches DEF GateInv, MainInStep, Merge
  <2> QED BY <1>1, <1>5, <2>1, UnchangedStays
<1> QED BY <1>3, <1>4, <1>5

LEMMA StepMerge ==
    ASSUME GateInv, NEW p \in PRs, Merge(p)
    PROVE  GateInv'
<1>1. ASSUME NEW q \in PRs PROVE CheckInv(q)'
  <2>1. CheckInv(q) /\ Len(mains) \in Nat
    BY DEF GateInv, Shape
  <2>2. Checked(q)' = Checked(q)
    BY <2>1, MergeEffect DEF CheckInv, Checked, Tree
  <2>3. pr[p].step = "pushed" /\ pr[p].check = "passed"
    BY DEF Merge
  <2> QED BY <2>1, <2>2, <2>3, MergeEffect DEF CheckInv
<1> QED BY <1>1, MergeEffect, MergeUntouched, MergeInStep DEF GateInv

LEMMA InitGate == Init => GateInv
<1> SUFFICES ASSUME Init PROVE GateInv
  OBVIOUS
<1>1. PICK c : /\ \A d \in Dashboards : c.json[d] \in Render(d, c.src[d]) \ {Error}
               /\ mains = <<c>>
               /\ pr = [p \in PRs |->
                         [step |-> "none", src |-> c.src, json |-> c.json, base |-> 1,
                          todo |-> 0, edits |-> 0, check |-> "none", on |-> 1]]
  BY DEF Init
<1>2. Len(mains) = 1 /\ Main = c /\ mains \in Seq({c})
  BY <1>1 DEF Main
<1>3. Shape
  <2>1. DOMAIN pr = PRs
    BY <1>1
  <2>2. ASSUME NEW p \in PRs PROVE DOMAIN pr[p] = Fields
    BY <1>1 DEF Fields
  <2> QED BY <1>2, <2>1, <2>2 DEF Shape
<1>4. ASSUME NEW p \in PRs PROVE CheckInv(p)
  BY <1>1, <1>2 DEF CheckInv
<1>5. UntouchedInv
  BY <1>1, <1>2 DEF UntouchedInv, Main
<1>6. MainInStep
  BY <1>1, <1>2 DEF MainInStep
<1> QED BY <1>3, <1>4, <1>5, <1>6 DEF GateInv

LEMMA StepGate == GateInv /\ [Next]_vars => GateInv'
<1> SUFFICES ASSUME GateInv, [Next]_vars PROVE GateInv'
  OBVIOUS
<1>1. ASSUME NEW p \in PRs, Author(p) PROVE GateInv'
  BY <1>1, StepAuthor
<1>2. ASSUME NEW p \in PRs, CheckPasses(p) \/ CheckFails(p) PROVE GateInv'
  BY <1>2, StepCheck
<1>3. ASSUME NEW p \in PRs, Merge(p) PROVE GateInv'
  BY <1>3, StepMerge
<1>4. CASE UNCHANGED vars
  BY <1>4 DEF vars, GateInv, Shape, CheckInv, Checked, Tree, UntouchedInv, Touched,
              MainInStep, Main
<1> QED BY <1>1, <1>2, <1>3, <1>4 DEF Next, Author

THEOREM GateInvariant == Spec => []GateInv
  BY InitGate, StepGate, PTL DEF Spec

\* The dashboards on main are what their sources render to, after every merge that
\* was checked on the main it went into, and as long as one merged pull request has
\* changed the dashboard: for any pull requests, dashboards and renderer.
THEOREM MainStaysInStep == Spec => []MainInStep
<1>1. GateInv => MainInStep
  BY DEF GateInv
<1> QED BY <1>1, GateInvariant, PTL

-----------------------------------------------------------------------------
\* Types.

WholeCommit(c) ==
    Commit(c) /\ DOMAIN c.src = Dashboards /\ DOMAIN c.json = Dashboards

TreeOf(r) == [src |-> r.src, json |-> r.json]

\* A pull request, but for the commits it refers to.
PrOK(r) ==
    /\ r.step \in {"none", "work", "build", "pushed", "merged"}
    /\ r.check \in {"none", "running", "passed", "failed"}
    /\ r.todo \in 0..Len(RENDERS)
    /\ r.step = "build" => r.todo > 0
    /\ r.edits \in 0..MaxEdits
    /\ WholeCommit(TreeOf(r))

TypeInv ==
    /\ \A i \in 1..Len(mains) : WholeCommit(mains[i])
    /\ \A p \in PRs : PrOK(pr[p])
    /\ fresh \in BOOLEAN

\* git's merge of two sources is a source.
LEMMA MergeSources ==
    ASSUME NEW d \in Dashboards, NEW base \in Sources(d), NEW ours \in Sources(d),
           NEW theirs \in Sources(d)
    PROVE  MergeFile(base, ours, theirs) \in Sources(d)
BY DEF MergeFile, Sources

\* Files of a dashboard are alike.
LEMMA WholeAlike ==
    ASSUME OneShape, NEW d \in Dashboards, NEW f, Whole(d, f), NEW g, Whole(d, g)
    PROVE  Alike(f, g)
<1>1. PICK a \in FilesOf(d) : Alike(f, a)
  BY DEF Whole
<1>2. PICK b \in FilesOf(d) : Alike(g, b)
  BY DEF Whole
<1>3. Alike(a, b)
  BY DEF OneShape
<1> QED BY <1>1, <1>2, <1>3 DEF Alike

\* git's merge of two files of a dashboard is a whole file, if not a rendering.
LEMMA MergeWholes ==
    ASSUME OneShape, NEW d \in Dashboards, NEW base, Whole(d, base),
           NEW ours, Whole(d, ours), NEW theirs, Whole(d, theirs)
    PROVE  Whole(d, MergeFile(base, ours, theirs))
<1> DEFINE m == MergeFile(base, ours, theirs)
<1>1. Alike(base, ours) /\ Alike(base, theirs)
  BY WholeAlike
<1>2. Alike(m, base)
  BY <1>1 DEF Alike, MergeFile
<1>3. PICK a \in FilesOf(d) : Alike(base, a)
  BY DEF Whole
<1>4. Alike(m, a)
  <2> HIDE DEF m
  <2> QED BY <1>2, <1>3 DEF Alike
<1> QED BY <1>4 DEF Whole

LEMMA MergeCommits ==
    ASSUME OneShape, NEW base, WholeCommit(base), NEW ours, WholeCommit(ours),
           NEW theirs, WholeCommit(theirs)
    PROVE  WholeCommit(MergeTrees(base, ours, theirs))
<1> DEFINE c == MergeTrees(base, ours, theirs)
<1>1. /\ DOMAIN c = {"src", "json"}
      /\ DOMAIN c.src = Dashboards /\ DOMAIN c.json = Dashboards
  BY DEF MergeTrees
<1>2. ASSUME NEW d \in Dashboards
      PROVE  c.src[d] \in Sources(d) /\ Whole(d, c.json[d])
  <2>1. /\ c.src[d] = MergeFile(base.src[d], ours.src[d], theirs.src[d])
        /\ c.json[d] = MergeFile(base.json[d], ours.json[d], theirs.json[d])
    BY DEF MergeTrees
  <2> QED BY <2>1, MergeSources, MergeWholes DEF WholeCommit, Commit
<1>3. WholeCommit(c)
  <2> HIDE DEF c
  <2> QED BY <1>1, <1>2 DEF WholeCommit, Commit
<1> QED BY <1>3

\* What a dashboard is rendered to is one of its files, and so is a file itself.
LEMMA RenderedWhole ==
    ASSUME NEW d \in Dashboards, NEW src \in Sources(d),
           NEW f \in Render(d, src) \ {Error}
    PROVE  Whole(d, f)
<1>1. f \in Encoded(d, src)
  BY DEF Render
<1>2. f \in FilesOf(d)
  BY <1>1 DEF FilesOf
<1> QED BY <1>2 DEF Whole, Alike

LEMMA FileWhole == \A d \in Dashboards : \A f \in FilesOf(d) : Whole(d, f)
BY DEF Whole, Alike

\* One source or one file of a commit is replaced by another.
LEMMA ReplaceSource ==
    ASSUME NEW c, WholeCommit(c), NEW d \in Dashboards, NEW s \in Sources(d)
    PROVE  WholeCommit([src |-> [c.src EXCEPT ![d] = s], json |-> c.json])
BY DEF WholeCommit, Commit

LEMMA ReplaceFile ==
    ASSUME NEW c, WholeCommit(c), NEW d \in Dashboards, NEW f, Whole(d, f)
    PROVE  WholeCommit([src |-> c.src, json |-> [c.json EXCEPT ![d] = f]])
BY DEF WholeCommit, Commit

\* What the author does leaves a whole tree and a place in build.sh.
LEMMA AuthorType ==
    ASSUME OneShape, GateInv, TypeInv, NEW p \in PRs, Author(p)
    PROVE  PrOK(pr'[p])
<1>1. DOMAIN pr[p] = Fields /\ PrOK(pr[p]) /\ WholeCommit(Main)
  BY DEF GateInv, Shape, TypeInv, Main
<1>2. pr'[p].check \in {"none", "running"}
  BY AuthorWorks DEF GateInv
<1>3. WholeCommit(TreeOf(pr[p])) /\ TreeOf(pr[p]) = Tree(p)
  BY <1>1 DEF PrOK, TreeOf, Tree
<1>4. MaxEdits \in Nat /\ Len(RENDERS) \in Nat \ {0}
  BY GateAssumption
<1>5. CASE Branch(p)
  <2> DEFINE new == [pr[p] EXCEPT !.step = "work", !.base = Len(mains),
                                  !.src = Main.src, !.json = Main.json]
  <2>1. pr'[p] = new
    <3>1. Set(p, new) /\ DOMAIN new = Fields
      BY <1>1, <1>5 DEF Branch
    <3> HIDE DEF new
    <3> QED BY <3>1, SetOne DEF GateInv
  <2>2. /\ new.step = "work" /\ new.todo = pr[p].todo /\ new.edits = pr[p].edits
        /\ TreeOf(new) = [src |-> Main.src, json |-> Main.json]
    BY <1>1 DEF Fields, TreeOf
  <2>3. WholeCommit([src |-> Main.src, json |-> Main.json])
    BY <1>1 DEF WholeCommit, Commit
  <2> HIDE DEF new
  <2> QED BY <1>1, <1>2, <2>1, <2>2, <2>3 DEF PrOK
<1>6. CASE EditRow(p)
  <2>1. PICK d \in Dashboards : \E i \in 1..RowCount[d] : \E h \in Heights :
          Set(p, [pr[p] EXCEPT !.src[d][i] = h, !.edits = @ + 1])
    BY <1>6 DEF EditRow
  <2>2. PICK i \in 1..RowCount[d] : \E h \in Heights :
          Set(p, [pr[p] EXCEPT !.src[d][i] = h, !.edits = @ + 1])
    BY <2>1
  <2>3. PICK h \in Heights :
          Set(p, [pr[p] EXCEPT !.src[d][i] = h, !.edits = @ + 1])
    BY <2>2
  <2> DEFINE new == [pr[p] EXCEPT !.src[d][i] = h, !.edits = @ + 1]
             row == [pr[p].src[d] EXCEPT ![i] = h]
  <2>4. pr'[p] = new
    <3>1. Set(p, new) /\ DOMAIN new = Fields
      BY <1>1, <2>3
    <3> HIDE DEF new
    <3> QED BY <3>1, SetOne DEF GateInv
  <2>5. row \in Sources(d)
    BY <1>3 DEF Sources, WholeCommit, Commit, TreeOf
  <2>6. /\ new.step = pr[p].step /\ new.todo = pr[p].todo
        /\ new.edits = pr[p].edits + 1
        /\ TreeOf(new) = [src |-> [TreeOf(pr[p]).src EXCEPT ![d] = row],
                          json |-> TreeOf(pr[p]).json]
    BY <1>1 DEF Fields, TreeOf
  <2> HIDE DEF row
  <2>7. WholeCommit([src |-> [TreeOf(pr[p]).src EXCEPT ![d] = row],
                     json |-> TreeOf(pr[p]).json])
    BY <1>3, <2>5, ReplaceSource
  <2>8. new.edits \in 0..MaxEdits
    BY <1>1, <1>4, <1>6, <2>6 DEF EditRow, PrOK
  <2> HIDE DEF new
  <2> QED BY <1>1, <1>2, <2>4, <2>6, <2>7, <2>8 DEF PrOK
<1>7. CASE EditJson(p)
  <2>1. PICK d \in Dashboards : \E f \in FilesOf(d) :
          Set(p, [pr[p] EXCEPT !.json[d] = f, !.edits = @ + 1])
    BY <1>7 DEF EditJson
  <2>2. PICK f \in FilesOf(d) :
          Set(p, [pr[p] EXCEPT !.json[d] = f, !.edits = @ + 1])
    BY <2>1
  <2> DEFINE new == [pr[p] EXCEPT !.json[d] = f, !.edits = @ + 1]
  <2>3. pr'[p] = new
    <3>1. Set(p, new) /\ DOMAIN new = Fields
      BY <1>1, <2>2
    <3> HIDE DEF new
    <3> QED BY <3>1, SetOne DEF GateInv
  <2>4. /\ new.step = pr[p].step /\ new.todo = pr[p].todo
        /\ new.edits = pr[p].edits + 1
        /\ TreeOf(new) = [src |-> TreeOf(pr[p]).src,
                          json |-> [TreeOf(pr[p]).json EXCEPT ![d] = f]]
    BY <1>1 DEF Fields, TreeOf
  <2>5. WholeCommit([src |-> TreeOf(pr[p]).src,
                     json |-> [TreeOf(pr[p]).json EXCEPT ![d] = f]])
    BY <1>3, FileWhole, ReplaceFile
  <2>6. new.edits \in 0..MaxEdits
    BY <1>1, <1>4, <1>7, <2>4 DEF EditJson, PrOK
  <2> HIDE DEF new
  <2> QED BY <1>1, <1>2, <2>3, <2>4, <2>5, <2>6 DEF PrOK
<1>8. CASE BuildNext(p)
  <2> DEFINE d == RENDERS[pr[p].todo]
             done == pr[p].todo = Len(RENDERS)
             New(f) == [pr[p] EXCEPT !.json[d] = f,
                                 !.step = IF done THEN "work" ELSE "build",
                                 !.todo = IF done THEN 0 ELSE @ + 1]
  <2>1. PICK f \in Render(d, pr[p].src[d]) \ {Error} : Set(p, New(f))
    BY <1>8 DEF BuildNext
  <2> DEFINE new == New(f)
  <2>2. pr'[p] = new
    <3>1. Set(p, new) /\ DOMAIN new = Fields
      BY <1>1, <2>1
    <3> HIDE DEF new
    <3> QED BY <3>1, SetOne DEF GateInv
  <2>3. pr[p].todo \in 1..Len(RENDERS)
    BY <1>1, <1>4, <1>8 DEF BuildNext, PrOK
  <2>4. d \in Dashboards
    BY <2>3, GateAssumption DEF Dashboards
  <2>5. Whole(d, f)
    <3>1. pr[p].src[d] \in Sources(d)
      BY <1>3, <2>4 DEF WholeCommit, Commit, TreeOf
    <3> QED BY <2>4, <3>1, RenderedWhole
  <2>6. /\ new.step = (IF done THEN "work" ELSE "build")
        /\ new.todo = (IF done THEN 0 ELSE pr[p].todo + 1)
        /\ new.edits = pr[p].edits
        /\ TreeOf(new) = [src |-> TreeOf(pr[p]).src,
                          json |-> [TreeOf(pr[p]).json EXCEPT ![d] = f]]
    BY <1>1 DEF Fields, TreeOf
  <2>7. /\ new.step \in {"work", "build"}
        /\ new.todo \in 0..Len(RENDERS)
        /\ new.step = "build" => new.todo > 0
    <3> HIDE DEF new
    <3> QED BY <1>4, <2>3, <2>6
  <2>8. WholeCommit([src |-> TreeOf(pr[p]).src,
                     json |-> [TreeOf(pr[p]).json EXCEPT ![d] = f]])
    <3> HIDE DEF d
    <3> QED BY <1>3, <2>4, <2>5, ReplaceFile
  <2> HIDE DEF new
  <2> QED BY <1>1, <1>2, <2>2, <2>6, <2>7, <2>8 DEF PrOK
<1>9. CASE StartBuild(p)
  <2> DEFINE new == [pr[p] EXCEPT !.step = "build", !.todo = 1]
  <2>1. pr'[p] = new
    <3>1. Set(p, new) /\ DOMAIN new = Fields
      BY <1>1, <1>9 DEF StartBuild
    <3> HIDE DEF new
    <3> QED BY <3>1, SetOne DEF GateInv
  <2>2. /\ new.step = "build" /\ new.todo = 1 /\ new.edits = pr[p].edits
        /\ TreeOf(new) = TreeOf(pr[p])
    BY <1>1 DEF Fields, TreeOf
  <2> HIDE DEF new
  <2> QED BY <1>1, <1>2, <1>4, <2>1, <2>2 DEF PrOK
<1>10. CASE BuildFails(p)
  <2> DEFINE new == [pr[p] EXCEPT !.step = "work", !.todo = 0]
  <2>1. pr'[p] = new
    <3>1. Set(p, new) /\ DOMAIN new = Fields
      BY <1>1, <1>10 DEF BuildFails
    <3> HIDE DEF new
    <3> QED BY <3>1, SetOne DEF GateInv
  <2>2. /\ new.step = "work" /\ new.todo = 0 /\ new.edits = pr[p].edits
        /\ TreeOf(new) = TreeOf(pr[p])
    BY <1>1 DEF Fields, TreeOf
  <2> HIDE DEF new
  <2> QED BY <1>1, <1>2, <1>4, <2>1, <2>2 DEF PrOK
<1>11. CASE Push(p)
  <2> DEFINE mergeable == Mergeable(mains[pr[p].base], Main, Tree(p))
             new == [pr[p] EXCEPT !.step = "pushed", !.on = Len(mains),
                !.check = IF mergeable THEN "running" ELSE "none"]
  <2>1. pr'[p] = new
    <3>1. Set(p, new) /\ DOMAIN new = Fields
      BY <1>1, <1>11 DEF Push
    <3> HIDE DEF new
    <3> QED BY <3>1, SetOne DEF GateInv
  <2>2. /\ new.step = "pushed" /\ new.todo = pr[p].todo /\ new.edits = pr[p].edits
        /\ TreeOf(new) = TreeOf(pr[p])
    BY <1>1 DEF Fields, TreeOf
  <2> HIDE DEF new
  <2> QED BY <1>1, <1>2, <1>4, <2>1, <2>2 DEF PrOK
<1>12. CASE Resume(p)
  <2> DEFINE new == [pr[p] EXCEPT !.step = "work", !.check = "none"]
  <2>1. pr'[p] = new
    <3>1. Set(p, new) /\ DOMAIN new = Fields
      BY <1>1, <1>12 DEF Resume
    <3> HIDE DEF new
    <3> QED BY <3>1, SetOne DEF GateInv
  <2>2. /\ new.step = "work" /\ new.todo = pr[p].todo /\ new.edits = pr[p].edits
        /\ TreeOf(new) = TreeOf(pr[p])
    BY <1>1 DEF Fields, TreeOf
  <2> HIDE DEF new
  <2> QED BY <1>1, <1>2, <1>4, <2>1, <2>2 DEF PrOK
<1>13. CASE MergeMain(p)
  <2> DEFINE base == mains[pr[p].base]
             Kept(b, m, o) == IF Conflicts(b, m, o) = {} THEN MergeFile(b, m, o)
                              ELSE o
             src == [d \in Dashboards |->
                       Kept(base.src[d], Main.src[d], pr[p].src[d])]
             json == [d \in Dashboards |->
                       Kept(base.json[d], Main.json[d], pr[p].json[d])]
             new == [pr[p] EXCEPT !.base = Len(mains), !.src = src, !.json = json]
  <2>1. pr'[p] = new
    <3>1. Set(p, new)
      BY <1>13 DEF MergeMain
    <3>2. DOMAIN new = Fields
      BY <1>1
    <3> HIDE DEF new
    <3> QED BY <3>1, <3>2, SetOne DEF GateInv
  <2>2. WholeCommit(base)
    BY DEF GateInv, CheckInv, TypeInv
  <2>3. ASSUME NEW d \in Dashboards
        PROVE  src[d] \in Sources(d) /\ Whole(d, json[d])
    <3>1. /\ base.src[d] \in Sources(d) /\ Whole(d, base.json[d])
          /\ Main.src[d] \in Sources(d) /\ Whole(d, Main.json[d])
          /\ pr[p].src[d] \in Sources(d) /\ Whole(d, pr[p].json[d])
      BY <1>1, <1>3, <2>2 DEF WholeCommit, Commit, TreeOf
    <3>2. /\ src[d] = Kept(base.src[d], Main.src[d], pr[p].src[d])
          /\ json[d] = Kept(base.json[d], Main.json[d], pr[p].json[d])
      OBVIOUS
    <3> HIDE DEF base, src, json
    <3> QED BY <3>1, <3>2, MergeSources, MergeWholes
  <2>4. DOMAIN src = Dashboards /\ DOMAIN json = Dashboards
    OBVIOUS
  <2> HIDE DEF src, json
  <2>5. /\ new.step = pr[p].step /\ new.todo = pr[p].todo
        /\ new.edits = pr[p].edits
        /\ TreeOf(new) = [src |-> src, json |-> json]
    BY <1>1 DEF Fields, TreeOf
  <2>6. WholeCommit([src |-> src, json |-> json])
    BY <2>3, <2>4 DEF WholeCommit, Commit
  <2> HIDE DEF new
  <2> QED BY <1>1, <1>2, <2>1, <2>5, <2>6 DEF PrOK
<1> QED
  BY <1>5, <1>6, <1>7, <1>8, <1>9, <1>10, <1>11, <1>12, <1>13 DEF Author

LEMMA TypeStep ==
    ASSUME OneShape, GateInv, TypeInv, [Next]_vars
    PROVE  TypeInv'
<1>1. ASSUME NEW p \in PRs, Author(p) PROVE TypeInv'
  <2>1. Works(p) /\ PrOK(pr'[p])
    BY <1>1, AuthorWorks, AuthorType DEF GateInv
  <2> QED BY <2>1 DEF TypeInv, Works
<1>2. ASSUME NEW p \in PRs, NEW c \in {"passed", "failed"},
             Set(p, [pr[p] EXCEPT !.check = c]), UNCHANGED <<mains, fresh>>
      PROVE  TypeInv'
  <2> DEFINE new == [pr[p] EXCEPT !.check = c]
  <2>1. DOMAIN new = Fields
    BY DEF GateInv, Shape
  <2>2. PrOK(new)
    BY DEF GateInv, Shape, Fields, TypeInv, PrOK, TreeOf
  <2>3. Set(p, new)
    BY <1>2
  <2> HIDE DEF new
  <2>4. pr'[p] = new /\ \A q \in PRs \ {p} : pr'[q] = pr[q]
    BY <2>1, <2>3, SetOne DEF GateInv
  <2> QED BY <1>2, <2>2, <2>4 DEF TypeInv
<1>3. ASSUME NEW p \in PRs, Merge(p) PROVE TypeInv'
  <2>1. WholeCommit(Merged(p))
    <3>1. WholeCommit(mains[pr[p].base]) /\ WholeCommit(Main)
      BY DEF GateInv, Shape, CheckInv, TypeInv, Main
    <3>2. WholeCommit(Tree(p))
      BY DEF TypeInv, PrOK, TreeOf, Tree
    <3> QED BY <3>1, <3>2, MergeCommits DEF Merged
  <2>2. ASSUME NEW i \in 1..Len(mains') PROVE WholeCommit(mains'[i])
    <3>1. Len(mains) \in Nat
      BY DEF GateInv, Shape
    <3>2. CASE i \in 1..Len(mains)
      BY <1>3, <3>2, MergeEffect DEF TypeInv
    <3>3. CASE i = Len(mains')
      BY <1>3, <2>1, <3>3, MergeEffect DEF Main
    <3> QED BY <1>3, <3>1, <3>2, <3>3, MergeEffect
  <2>3. ASSUME NEW q \in PRs PROVE PrOK(pr'[q])
    BY <1>3, MergeEffect DEF TypeInv, PrOK, TreeOf
  <2>4. fresh' \in BOOLEAN
    BY <1>3 DEF Merge
  <2> QED BY <2>2, <2>3, <2>4 DEF TypeInv
<1>4. CASE UNCHANGED vars
  BY <1>4 DEF vars, TypeInv
<1> QED BY <1>1, <1>2, <1>3, <1>4 DEF Next, Author, CheckPasses, CheckFails

LEMMA InitTypes == Init => TypeInv
<1> SUFFICES ASSUME Init PROVE TypeInv
  OBVIOUS
<1> DEFINE first == [d \in Dashboards |-> [i \in 1..RowCount[d] |-> FirstHeight]]
<1>1. PICK c \in [src : {first},
                 json : [Dashboards -> UNION {FilesOf(d) : d \in Dashboards}]] :
         /\ \A d \in Dashboards : c.json[d] \in Render(d, c.src[d]) \ {Error}
         /\ mains = <<c>>
         /\ pr = [p \in PRs |->
                   [step |-> "none", src |-> c.src, json |-> c.json, base |-> 1,
                    todo |-> 0, edits |-> 0, check |-> "none", on |-> 1]]
  BY DEF Init
<1>2. /\ DOMAIN c = {"src", "json"} /\ c.src = first
      /\ DOMAIN c.json = Dashboards
  BY <1>1
<1>3. ASSUME NEW d \in Dashboards
      PROVE  c.src[d] \in Sources(d) /\ Whole(d, c.json[d])
  <2>1. c.src[d] \in Sources(d)
    BY <1>2, GateAssumption DEF Sources
  <2> QED BY <1>1, <2>1, RenderedWhole
<1>4. WholeCommit(c) /\ WholeCommit([src |-> c.src, json |-> c.json])
  <2> HIDE DEF first
  <2>1. DOMAIN c.src = Dashboards
    BY <1>2 DEF first
  <2> QED BY <1>2, <1>3, <2>1 DEF WholeCommit, Commit
<1>5. ASSUME NEW p \in PRs PROVE PrOK(pr[p])
  <2>1. MaxEdits \in Nat /\ Len(RENDERS) \in Nat
    BY GateAssumption
  <2>2. /\ pr[p].step = "none" /\ pr[p].check = "none" /\ pr[p].todo = 0
        /\ pr[p].edits = 0 /\ pr[p].src = c.src /\ pr[p].json = c.json
    BY <1>1
  <2> QED BY <1>4, <2>1, <2>2 DEF PrOK, TreeOf
<1>6. \A i \in 1..Len(mains) : WholeCommit(mains[i])
  BY <1>1, <1>4
<1> QED BY <1>5, <1>6 DEF TypeInv, Init

\* Every reachable state has its type, git's merges and renders that stop halfway
\* included: a rendered file may differ from a rendering only in its values.
THEOREM GateTypeCorrect == ASSUME OneShape PROVE Spec => []TypeOK
<1>1. GateInv /\ TypeInv => TypeOK
  <2> SUFFICES ASSUME GateInv, TypeInv PROVE TypeOK
    OBVIOUS
  <2>1. DOMAIN mains = 1..Len(mains)
    BY DEF GateInv, Shape
  <2>2. \A i \in DOMAIN mains : Commit(mains[i])
    BY <2>1 DEF TypeInv, WholeCommit
  <2>3. ASSUME NEW p \in PRs
        PROVE  /\ pr[p].base \in DOMAIN mains /\ pr[p].on \in DOMAIN mains
               /\ Commit(Tree(p))
    BY <2>1 DEF GateInv, CheckInv, TypeInv, PrOK, WholeCommit, TreeOf, Tree
  <2> QED BY <2>2, <2>3 DEF TypeOK, TypeInv, PrOK
<1>2. Init => TypeInv
  BY InitTypes
<1>3. GateInv /\ TypeInv /\ [Next]_vars => TypeInv'
  BY TypeStep
<1> QED BY <1>1, <1>2, <1>3, GateInvariant, PTL DEF Spec

-----------------------------------------------------------------------------
\* The sources on main and of the pull requests.

SourcesOK(s) == DOMAIN s = Dashboards /\ \A d \in Dashboards : s[d] \in Sources(d)

SourcesInv ==
    /\ \A i \in 1..Len(mains) : SourcesOK(mains[i].src)
    /\ \A p \in PRs : SourcesOK(pr[p].src)

\* Edits and merges of sources leave sources, whatever they are rendered to.
LEMMA AuthorSources ==
    ASSUME GateInv, SourcesInv, NEW p \in PRs, Author(p)
    PROVE  SourcesOK(pr'[p].src)
<1>1. DOMAIN pr[p] = Fields /\ SourcesOK(pr[p].src) /\ SourcesOK(Main.src)
  BY DEF GateInv, Shape, SourcesInv, Main
<1>2. ASSUME NEW new, Set(p, new), DOMAIN new = Fields, SourcesOK(new.src)
      PROVE  SourcesOK(pr'[p].src)
  BY <1>2, SetOne DEF GateInv
<1>3. CASE Branch(p)
  <2> DEFINE new == [pr[p] EXCEPT !.step = "work", !.base = Len(mains),
                                  !.src = Main.src, !.json = Main.json]
  <2>1. Set(p, new) /\ DOMAIN new = Fields /\ new.src = Main.src
    BY <1>1, <1>3 DEF Branch, Fields
  <2> HIDE DEF new
  <2> QED BY <1>1, <1>2, <2>1
<1>4. CASE EditRow(p)
  <2>1. PICK d \in Dashboards : \E i \in 1..RowCount[d] : \E h \in Heights :
          Set(p, [pr[p] EXCEPT !.src[d][i] = h, !.edits = @ + 1])
    BY <1>4 DEF EditRow
  <2>2. PICK i \in 1..RowCount[d] : \E h \in Heights :
          Set(p, [pr[p] EXCEPT !.src[d][i] = h, !.edits = @ + 1])
    BY <2>1
  <2>3. PICK h \in Heights :
          Set(p, [pr[p] EXCEPT !.src[d][i] = h, !.edits = @ + 1])
    BY <2>2
  <2> DEFINE new == [pr[p] EXCEPT !.src[d][i] = h, !.edits = @ + 1]
             row == [pr[p].src[d] EXCEPT ![i] = h]
  <2>4. row \in Sources(d)
    BY <1>1 DEF SourcesOK, Sources
  <2>5. DOMAIN new = Fields /\ new.src = [pr[p].src EXCEPT ![d] = row]
    BY <1>1 DEF Fields
  <2> HIDE DEF row
  <2>6. SourcesOK([pr[p].src EXCEPT ![d] = row])
    BY <1>1, <2>4 DEF SourcesOK
  <2>7. Set(p, new)
    BY <2>3
  <2> HIDE DEF new
  <2> QED BY <1>2, <2>5, <2>6, <2>7
<1>5. CASE MergeMain(p)
  <2> DEFINE base == mains[pr[p].base]
             Kept(b, m, o) == IF Conflicts(b, m, o) = {} THEN MergeFile(b, m, o)
                              ELSE o
             src == [d \in Dashboards |->
                       Kept(base.src[d], Main.src[d], pr[p].src[d])]
             json == [d \in Dashboards |->
                       Kept(base.json[d], Main.json[d], pr[p].json[d])]
             new == [pr[p] EXCEPT !.base = Len(mains), !.src = src, !.json = json]
  <2>1. Set(p, new)
    BY <1>5 DEF MergeMain
  <2>2. SourcesOK(base.src)
    BY DEF GateInv, CheckInv, SourcesInv
  <2>3. ASSUME NEW d \in Dashboards PROVE src[d] \in Sources(d)
    <3>1. /\ base.src[d] \in Sources(d) /\ Main.src[d] \in Sources(d)
          /\ pr[p].src[d] \in Sources(d)
      BY <1>1, <2>2 DEF SourcesOK
    <3>2. src[d] = Kept(base.src[d], Main.src[d], pr[p].src[d])
      OBVIOUS
    <3> HIDE DEF base, src
    <3> QED BY <3>1, <3>2, MergeSources
  <2>4. DOMAIN src = Dashboards
    OBVIOUS
  <2> HIDE DEF src, json
  <2>5. SourcesOK(src)
    BY <2>3, <2>4 DEF SourcesOK
  <2>6. DOMAIN new = Fields /\ new.src = src
    BY <1>1 DEF Fields
  <2> HIDE DEF new
  <2> QED BY <1>2, <2>1, <2>5, <2>6
<1>6. CASE EditJson(p)
  <2>1. PICK d \in Dashboards : \E f \in FilesOf(d) :
          Set(p, [pr[p] EXCEPT !.json[d] = f, !.edits = @ + 1])
    BY <1>6 DEF EditJson
  <2>2. PICK f \in FilesOf(d) :
          Set(p, [pr[p] EXCEPT !.json[d] = f, !.edits = @ + 1])
    BY <2>1
  <2> DEFINE new == [pr[p] EXCEPT !.json[d] = f, !.edits = @ + 1]
  <2>3. Set(p, new) /\ DOMAIN new = Fields /\ new.src = pr[p].src
    BY <1>1, <2>2 DEF Fields
  <2> HIDE DEF new
  <2> QED BY <1>1, <1>2, <2>3
<1>7. CASE BuildNext(p)
  <2> DEFINE d == RENDERS[pr[p].todo]
             done == pr[p].todo = Len(RENDERS)
             New(f) == [pr[p] EXCEPT !.json[d] = f,
                                 !.step = IF done THEN "work" ELSE "build",
                                 !.todo = IF done THEN 0 ELSE @ + 1]
  <2>1. PICK f \in Render(d, pr[p].src[d]) \ {Error} : Set(p, New(f))
    BY <1>7 DEF BuildNext
  <2>2. DOMAIN New(f) = Fields /\ New(f).src = pr[p].src
    BY <1>1 DEF Fields
  <2> HIDE DEF New
  <2> QED BY <1>1, <1>2, <2>1, <2>2
<1>8. CASE StartBuild(p) \/ BuildFails(p) \/ Resume(p)
  <2> DEFINE New(step, todo) == [pr[p] EXCEPT !.step = step, !.todo = todo]
             back == [pr[p] EXCEPT !.step = "work", !.check = "none"]
  <2>1. Set(p, New("build", 1)) \/ Set(p, New("work", 0)) \/ Set(p, back)
    BY <1>8 DEF StartBuild, BuildFails, Resume
  <2>2. \A step, todo : /\ DOMAIN New(step, todo) = Fields
                        /\ New(step, todo).src = pr[p].src
    BY <1>1 DEF Fields
  <2>3. DOMAIN back = Fields /\ back.src = pr[p].src
    BY <1>1 DEF Fields
  <2> HIDE DEF New, back
  <2> QED BY <1>1, <1>2, <2>1, <2>2, <2>3
<1>9. CASE Push(p)
  <2> DEFINE mergeable == Mergeable(mains[pr[p].base], Main, Tree(p))
             new == [pr[p] EXCEPT !.step = "pushed", !.on = Len(mains),
                !.check = IF mergeable THEN "running" ELSE "none"]
  <2>1. Set(p, new) /\ DOMAIN new = Fields /\ new.src = pr[p].src
    BY <1>1, <1>9 DEF Push, Fields
  <2> HIDE DEF new
  <2> QED BY <1>1, <1>2, <2>1
<1> QED
  BY <1>3, <1>4, <1>5, <1>6, <1>7, <1>8, <1>9 DEF Author

LEMMA MergedSources ==
    ASSUME GateInv, SourcesInv, NEW p \in PRs
    PROVE  SourcesOK(Merged(p).src)
<1> DEFINE base == mains[pr[p].base].src
           src == Merged(p).src
<1>1. SourcesOK(base) /\ SourcesOK(Main.src) /\ SourcesOK(pr[p].src)
  BY DEF GateInv, Shape, CheckInv, SourcesInv, Main
<1>2. src = [d \in Dashboards |-> MergeFile(base[d], Main.src[d], pr[p].src[d])]
  BY DEF Merged, MergeTrees, Tree
<1>3. \A d \in Dashboards : MergeFile(base[d], Main.src[d], pr[p].src[d]) \in Sources(d)
  <2> HIDE DEF base
  <2> QED BY <1>1, MergeSources DEF SourcesOK
<1> HIDE DEF base, src
<1>4. SourcesOK(src)
  BY <1>2, <1>3 DEF SourcesOK
<1> QED BY <1>4 DEF src

LEMMA StepSources ==
    ASSUME GateInv, SourcesInv, [Next]_vars
    PROVE  SourcesInv'
<1>1. ASSUME NEW p \in PRs, Author(p) PROVE SourcesInv'
  <2>1. Works(p) /\ SourcesOK(pr'[p].src)
    BY <1>1, AuthorWorks, AuthorSources DEF GateInv
  <2> QED BY <2>1 DEF SourcesInv, Works
<1>2. ASSUME NEW p \in PRs, NEW c \in {"passed", "failed"},
             Set(p, [pr[p] EXCEPT !.check = c]), UNCHANGED <<mains, fresh>>
      PROVE  SourcesInv'
  <2> DEFINE new == [pr[p] EXCEPT !.check = c]
  <2>1. DOMAIN new = Fields /\ new.src = pr[p].src
    BY DEF GateInv, Shape, Fields
  <2>2. Set(p, new)
    BY <1>2
  <2> HIDE DEF new
  <2>3. pr'[p] = new /\ \A q \in PRs \ {p} : pr'[q] = pr[q]
    BY <2>1, <2>2, SetOne DEF GateInv
  <2> QED BY <1>2, <2>1, <2>3 DEF SourcesInv
<1>3. ASSUME NEW p \in PRs, Merge(p) PROVE SourcesInv'
  <2>1. Len(mains) \in Nat
    BY DEF GateInv, Shape
  <2>2. ASSUME NEW i \in 1..Len(mains') PROVE SourcesOK(mains'[i].src)
    <3>1. CASE i \in 1..Len(mains)
      BY <1>3, <3>1, MergeEffect DEF SourcesInv
    <3>2. CASE i = Len(mains')
      BY <1>3, <3>2, MergedSources, MergeEffect DEF Main
    <3> QED BY <1>3, <2>1, <3>1, <3>2, MergeEffect
  <2>3. ASSUME NEW q \in PRs PROVE SourcesOK(pr'[q].src)
    BY <1>3, MergeEffect DEF SourcesInv
  <2> QED BY <2>2, <2>3 DEF SourcesInv
<1>4. CASE UNCHANGED vars
  BY <1>4 DEF vars, SourcesInv
<1> QED BY <1>1, <1>2, <1>3, <1>4 DEF Next, Author, CheckPasses, CheckFails

LEMMA InitSources == Init => SourcesInv
<1> SUFFICES ASSUME Init PROVE SourcesInv
  OBVIOUS
<1> DEFINE first == [d \in Dashboards |-> [i \in 1..RowCount[d] |-> FirstHeight]]
<1>1. SourcesOK(first)
  BY GateAssumption DEF SourcesOK, Sources
<1> HIDE DEF first
<1>2. PICK c : /\ c.src = first
               /\ mains = <<c>>
               /\ pr = [p \in PRs |->
                         [step |-> "none", src |-> c.src, json |-> c.json, base |-> 1,
                          todo |-> 0, edits |-> 0, check |-> "none", on |-> 1]]
  BY DEF Init, first
<1> QED BY <1>1, <1>2 DEF SourcesInv

-----------------------------------------------------------------------------
\* The encoder of the generators has one output for a source.

\* The rows a function's values can be put in do not depend on the order in
\* which they are given.
LEMMA ShuffledAlike ==
    ASSUME NEW f, IsFiniteSet(DOMAIN f), NEW E, NEW p \in Bijection(E, DOMAIN f)
    PROVE  Arrangements([e \in E |-> f[p[e]]]) = Arrangements(f)
<1> DEFINE g == [e \in E |-> f[p[e]]]
           D == DOMAIN f
           n == Cardinality(D)
           back == Inverse(p, E, D)
<1>1. /\ back \in Bijection(D, E)
      /\ \A e \in E : back[p[e]] = e
  BY Fun_BijInverse
<1>2. \A d \in D : p[back[d]] = d
  BY <1>1 DEF Bijection, Surjection
<1>3. Cardinality(E) = n
  BY <1>1, FS_Bijection DEF ExistsBijection
<1>4. DOMAIN g = E
  OBVIOUS
<1>5. Arrangements(g) = {[i \in 1..n |-> g[q[i]]] : q \in Bijection(1..n, E)}
  BY <1>3, <1>4 DEF Arrangements
<1>6. Arrangements(f) = {[i \in 1..n |-> f[q[i]]] : q \in Bijection(1..n, D)}
  BY DEF Arrangements
<1>7. ASSUME NEW q \in Bijection(1..n, E)
      PROVE  [i \in 1..n |-> g[q[i]]] \in Arrangements(f)
  <2> DEFINE r == [i \in 1..n |-> p[q[i]]]
  <2>1. r \in Bijection(1..n, D)
    BY Fun_BijTransitive
  <2>2. \A i \in 1..n : q[i] \in E
    BY DEF Bijection, Injection
  <2>3. [i \in 1..n |-> g[q[i]]] = [i \in 1..n |-> f[r[i]]]
    BY <2>2
  <2> HIDE DEF r, g, n
  <2> QED BY <1>6, <2>1, <2>3
<1>8. ASSUME NEW q \in Bijection(1..n, D)
      PROVE  [i \in 1..n |-> f[q[i]]] \in Arrangements(g)
  <2> DEFINE r == [i \in 1..n |-> back[q[i]]]
  <2>1. r \in Bijection(1..n, E)
    BY <1>1, Fun_BijTransitive
  <2>2. \A i \in 1..n : q[i] \in D
    BY DEF Bijection, Injection
  <2>3. \A i \in 1..n : r[i] \in E
    BY <2>1 DEF Bijection, Injection
  <2>4. \A i \in 1..n : g[r[i]] = f[q[i]]
    BY <1>2, <2>2, <2>3
  <2>5. [i \in 1..n |-> f[q[i]]] = [i \in 1..n |-> g[r[i]]]
    BY <2>4
  <2> HIDE DEF r, g, n
  <2> QED BY <1>5, <2>1, <2>5
<1>9. Arrangements(g) \subseteq Arrangements(f)
  BY <1>5, <1>7
<1>10. Arrangements(f) \subseteq Arrangements(g)
  BY <1>6, <1>8
<1> QED BY <1>9, <1>10

\* Whatever order Go walks a map in, its keys are written in one order.
LEMMA KeysOnce ==
    ASSUME NEW object, IsFiniteSet(DOMAIN object)
    PROVE  Keys(object) = {SortStrings(Alphabet, [k \in DOMAIN object |-> k])}
<1> DEFINE D == DOMAIN object
           n == Cardinality(D)
           id == [k \in D |-> k]
<1>1. Arrangements(id) = {[i \in 1..n |-> id[q[i]]] : q \in Bijection(1..n, D)}
  BY DEF Arrangements
<1>2. Bijection(1..n, D) # {}
  BY FS_CardinalityType DEF ExistsBijection
<1>3. Arrangements(id) # {}
  BY <1>1, <1>2
<1>4. ASSUME NEW found \in Arrangements(id)
      PROVE  SortStrings(Alphabet, found) = SortStrings(Alphabet, id)
  <2>1. PICK q \in Bijection(1..n, D) : found = [i \in 1..n |-> id[q[i]]]
    BY <1>1
  <2>2. DOMAIN id = D
    OBVIOUS
  <2>3. Arrangements(found) = Arrangements(id)
    <3> HIDE DEF id, n
    <3> QED BY <2>1, <2>2, ShuffledAlike
  <2> QED BY <2>3 DEF SortStrings
<1>5. Keys(object) = {SortStrings(Alphabet, found) : found \in Arrangements(id)}
  BY DEF Keys
<1>6. Keys(object) = {SortStrings(Alphabet, id)}
  <2> HIDE DEF id
  <2> QED BY <1>3, <1>4, <1>5
<1> QED BY <1>6

\* What is put together from parts that have one output each has one.
LEMMA CatOnce ==
    ASSUME NEW outputs, \A i \in DOMAIN outputs : \E o : outputs[i] = {o}
    PROVE  \E o : Cat(outputs) = {o}
<1> DEFINE D == DOMAIN outputs
           c == [i \in D |-> CHOOSE o : outputs[i] = {o}]
           one == {a \in [D -> UNION Range(outputs)] : \A i \in D : a[i] \in outputs[i]}
<1>1. \A i \in D : outputs[i] = {c[i]}
  OBVIOUS
<1>2. \A i \in D : c[i] \in UNION Range(outputs)
  BY <1>1 DEF Range
<1>3. c \in one
  BY <1>1, <1>2
<1>4. ASSUME NEW a \in one PROVE a = c
  <2>1. \A i \in D : a[i] = c[i]
    BY <1>1
  <2>2. a \in [D -> UNION Range(outputs)]
    OBVIOUS
  <2>3. a = [i \in D |-> a[i]] /\ c = [i \in D |-> c[i]]
    BY <2>2
  <2> QED BY <2>1, <2>3
<1>5. one = {c}
  BY <1>3, <1>4
<1>6. Cat(outputs) = {FlattenSeq(a) : a \in one}
  BY DEF Cat
<1> HIDE DEF one, c
<1>7. Cat(outputs) = {FlattenSeq(c)}
  BY <1>5, <1>6
<1> QED BY <1>7

\* The sort finds an arrangement that is sorted.
Sorts(alphabet, strings) ==
    SortStrings(alphabet, strings) \in Arrangements(strings)

SortsKeys(keys) == Sorts(Alphabet, [k \in keys |-> k])

LEMMA PairSorts ==
    ASSUME NEW alphabet, NEW f, NEW x, NEW y, x # y, DOMAIN f = {x, y},
           ~Before(alphabet, f[y], f[x])
    PROVE  /\ Sorts(alphabet, f)
           /\ IsFiniteSet({x, y}) /\ Cardinality({x, y}) = 2
<1> DEFINE q == [i \in 1..2 |-> IF i = 1 THEN x ELSE y]
           s == [i \in 1..2 |-> f[q[i]]]
<1>1. IsFiniteSet({x}) /\ Cardinality({x}) = 1
  BY FS_Singleton
<1>2. IsFiniteSet({x, y}) /\ Cardinality({x, y}) = 2
  <2>1. {x, y} = {x} \cup {y} /\ y \notin {x}
    OBVIOUS
  <2>2. Cardinality({x} \cup {y}) = Cardinality({x}) + 1 /\ IsFiniteSet({x} \cup {y})
    BY <1>1, <2>1, FS_AddElement
  <2> QED BY <1>1, <2>1, <2>2
<1>3. q \in Bijection(1..2, {x, y})
  BY DEF Bijection, Injection, Surjection, IsInjective
<1>4. s \in Arrangements(f)
  BY <1>2, <1>3 DEF Arrangements
<1>5. \A i, j \in DOMAIN s : i < j => s[j] = f[y] /\ s[i] = f[x]
  OBVIOUS
<1>6. \A i, j \in DOMAIN s : i < j => ~Before(alphabet, s[j], s[i])
  <2> HIDE DEF s
  <2> QED BY <1>5
<1>7. Sorts(alphabet, f)
  <2> HIDE DEF s
  <2> QED BY <1>4, <1>6 DEF Sorts, SortStrings
<1> QED BY <1>2, <1>7

\* So does what stands between two lines.
Bracketed(a, mid, b) == Cat(<<{a}>> \o mid \o <<{b}>>)

\* One output, and a row of encoders that have one output each.
Single(outputs) == \E o : outputs = {o}
SingleEach(mid) ==
    \E n \in Nat : \E S : mid \in [1..n -> S] /\ \A i \in 1..n : Single(mid[i])

LEMMA BracketOnce ==
    ASSUME NEW a, NEW mid, NEW b, SingleEach(mid)
    PROVE  Single(Bracketed(a, mid, b))
<1>10. PICK n \in Nat : \E S : mid \in [1..n -> S] /\ \A i \in 1..n : Single(mid[i])
  BY DEF SingleEach
<1>11. PICK S : mid \in [1..n -> S] /\ \A i \in 1..n : Single(mid[i])
  BY <1>10
<1>12. \A i \in 1..n : \E o : mid[i] = {o}
  BY <1>11 DEF Single
<1> DEFINE T == {CHOOSE o : mid[i] = {o} : i \in 1..n} \cup {a, b}
           Ones == {{o} : o \in T}
           all == <<{a}>> \o mid \o <<{b}>>
<1>1. \A i \in 1..n : mid[i] \in Ones
  <2> TAKE i \in 1..n
  <2>1. mid[i] = {CHOOSE o : mid[i] = {o}}
    BY <1>12
  <2> QED BY <2>1
<1>2. {a} \in Ones /\ {b} \in Ones
  OBVIOUS
<1>3. \A s \in Ones : \E o : s = {o}
  OBVIOUS
<1> HIDE DEF Ones
<1>4. mid \in Seq(Ones) /\ <<{a}>> \in Seq(Ones) /\ <<{b}>> \in Seq(Ones)
  <2>1. mid \in [1..n -> Ones]
    BY <1>1, <1>11
  <2> QED BY <1>2, <2>1
<1>5. all \in Seq(Ones)
  BY <1>4, ConcatProperties
<1> HIDE DEF all
<1>6. \A i \in DOMAIN all : all[i] \in Ones
  BY <1>5, LenProperties, ElementOfSeq
<1>7. \E o : Cat(all) = {o}
  BY <1>3, <1>6, CatOnce
<1> QED BY <1>7 DEF all, Bracketed, Single

Json(v) ==
    /\ v.kind \in {"prim", "array", "object"}
    /\ v.kind = "array" => \E n \in Nat : DOMAIN v.of = 1..n
    /\ v.kind = "object" => IsFiniteSet(DOMAIN v.of) /\ SortsKeys(DOMAIN v.of)

PartsOnce(v, parts) ==
    \A k \in Members(v) : \A last \in BOOLEAN : Single(parts[k][last])

\* A value whose parts have one output each has one, for JSON of any depth: the
\* items of an array keep their order, the keys of an object get one.
LEMMA EncodeOnce ==
    ASSUME NEW key, NEW v, NEW comma, NEW parts,
           Json(v), PartsOnce(v, parts)
    PROVE  Single(EncodeFrom(key, v, comma, parts))
<1> USE DEF Json, PartsOnce
<1>1. CASE v.kind = "prim" \/ Members(v) = {}
  BY <1>1 DEF EncodeFrom, Single
<1>2. CASE v.kind # "prim" /\ Members(v) # {}
  <2>0. Members(v) = DOMAIN v.of
    BY <1>2 DEF Members
  <2>1. \E order : Orders(v) = {order} /\ \E n \in Nat : order \in [1..n -> Members(v)]
    <3>1. CASE v.kind = "array"
      <4>1. PICK n \in Nat : DOMAIN v.of = 1..n
        BY <3>1
      <4>2. Orders(v) = {[i \in DOMAIN v.of |-> i]}
        BY <3>1 DEF Orders
      <4>3. [i \in DOMAIN v.of |-> i] \in [1..n -> Members(v)]
        BY <2>0, <4>1
      <4> QED BY <4>2, <4>3
    <3>2. CASE v.kind = "object"
      <4> DEFINE id == [k \in DOMAIN v.of |-> k]
                 n == Cardinality(DOMAIN v.of)
      <4>1. Orders(v) = {SortStrings(Alphabet, id)}
        BY <3>2, KeysOnce DEF Orders
      <4>2. n \in Nat
        BY <3>2, FS_CardinalityType
      <4>3. \A s \in Arrangements(id) : s \in [1..n -> DOMAIN v.of]
        BY DEF Arrangements, Bijection, Injection
      <4>4. SortStrings(Alphabet, id) \in [1..n -> Members(v)]
        BY <3>2, <4>3, <2>0 DEF SortsKeys, Sorts
      <4> HIDE DEF id, n
      <4> QED BY <4>1, <4>2, <4>4
    <3> QED BY <1>2, <3>1, <3>2
  <2>2. PICK order : Orders(v) = {order} /\ \E n \in Nat : order \in [1..n -> Members(v)]
    BY <2>1
  <2>3. PICK n \in Nat : order \in [1..n -> Members(v)]
    BY <2>2
  <2> DEFINE a == Line(key, Open[v.kind], FALSE)
             b == Line("", Close[v.kind], comma)
             Middle(r) == [i \in DOMAIN r |-> parts[r[i]][i < Len(r)]]
             All(r) == Bracketed(a, Middle(r), b)
             mid == Middle(order)
  <2> DEFINE S == {mid[i] : i \in 1..n}
  <2>4. mid \in [1..n -> S]
    BY <2>3
  <2>5. ASSUME NEW i \in 1..n PROVE Single(mid[i])
    <3>1. order[i] \in Members(v) /\ DOMAIN order = 1..n
      BY <2>3
    <3> DEFINE last == i < Len(order)
    <3>2. last \in BOOLEAN
      BY <2>3
    <3>3. mid[i] = parts[order[i]][last]
      BY <3>1
    <3> HIDE DEF last, mid
    <3> QED BY <3>1, <3>2, <3>3
  <2>6. EncodeFrom(key, v, comma, parts) = UNION {All(r) : r \in Orders(v)}
    BY <1>2 DEF EncodeFrom, Bracketed
  <2> HIDE DEF mid, Middle, a, b
  <2>7. SingleEach(mid)
    BY <2>4, <2>5 DEF SingleEach
  <2> HIDE DEF S
  <2>8. Single(Bracketed(a, mid, b))
    BY <2>7, BracketOnce
  <2>9. Single(All(order))
    BY <2>8 DEF mid
  <2> HIDE DEF All
  <2>10. EncodeFrom(key, v, comma, parts) = All(order)
    BY <2>2, <2>6
  <2> QED BY <2>9, <2>10
<1> QED BY <1>1, <1>2

-----------------------------------------------------------------------------
LEMMA PrimOnce ==
    ASSUME NEW key, NEW x, NEW comma, NEW parts
    PROVE  Single(EncodeFrom(key, Prim(x), comma, parts))
BY DEF EncodeFrom, Prim, Single

\* An object of two keys, x the first of them.
LEMMA PairOnce ==
    ASSUME NEW key, NEW v, NEW comma, NEW parts, NEW x, NEW y,
           x # y, ~Before(Alphabet, y, x),
           v.kind = "object", DOMAIN v.of = {x, y},
           \A last \in BOOLEAN : Single(parts[x][last]) /\ Single(parts[y][last])
    PROVE  Single(EncodeFrom(key, v, comma, parts))
<1>1. Members(v) = {x, y}
  BY DEF Members
<1>2. IsFiniteSet({x, y}) /\ SortsKeys({x, y})
  <2> DEFINE id == [k \in {x, y} |-> k]
  <2>1. DOMAIN id = {x, y} /\ id[x] = x /\ id[y] = y
    OBVIOUS
  <2> HIDE DEF id
  <2>2. Sorts(Alphabet, id) /\ IsFiniteSet({x, y})
    BY <2>1, PairSorts
  <2> QED BY <2>2 DEF id, SortsKeys
<1>3. PartsOnce(v, parts)
  BY <1>1 DEF PartsOnce
<1>4. Json(v)
  BY <1>2 DEF Json
<1> QED BY <1>3, <1>4, EncodeOnce

\* An array.
LEMMA ArrayOnce ==
    ASSUME NEW key, NEW s, NEW comma, NEW parts, NEW n \in Nat, DOMAIN s = 1..n,
           \A i \in 1..n : \A last \in BOOLEAN : Single(parts[i][last])
    PROVE  Single(EncodeFrom(key, Array(s), comma, parts))
<1> DEFINE v == Array(s)
<1>1. v.kind = "array" /\ v.of = s /\ Members(v) = 1..n
  BY DEF Array, Members
<1>2. PartsOnce(v, parts)
  BY <1>1 DEF PartsOnce
<1>3. Json(v)
  BY <1>1 DEF Json
<1> QED BY <1>2, <1>3, EncodeOnce

\* The parts of a dashboard: a grid position, a panel, its panels, its tags.
Grid(h, y) == Object([h |-> Prim(h), y |-> Prim(y)])
Panel(i, h, y) == Object([id |-> Prim(i), gridPos |-> Grid(h, y)])

LEMMA GridOnce ==
    ASSUME NEW key, NEW comma, NEW h, NEW y
    PROVE  Single(EncodeFlat(key, Grid(h, y), comma))
<1> DEFINE v == Grid(h, y)
           parts == Parts(v, EncodeLeaf)
<1>1. /\ v.kind = "object" /\ DOMAIN v.of = {"h", "y"} /\ Members(v) = {"h", "y"}
      /\ v.of["h"] = Prim(h) /\ v.of["y"] = Prim(y)
  BY DEF Grid, Object, Members
<1>2. ~Before(Alphabet, "y", "h")
  BY DEF Before, Alphabet
<1>3. ASSUME NEW last \in BOOLEAN
      PROVE  Single(parts["h"][last]) /\ Single(parts["y"][last])
  <2>1. /\ parts["h"][last] = EncodeFrom(Name(v, "h"), Prim(h), last, <<>>)
        /\ parts["y"][last] = EncodeFrom(Name(v, "y"), Prim(y), last, <<>>)
    BY <1>1 DEF Parts, EncodeLeaf
  <2> HIDE DEF parts, v
  <2> QED BY <2>1, PrimOnce
<1>4. EncodeFlat(key, v, comma) = EncodeFrom(key, v, comma, parts)
  BY DEF EncodeFlat
<1> HIDE DEF parts
<1>5. Single(EncodeFrom(key, v, comma, parts))
  <2> HIDE DEF v
  <2> QED BY <1>1, <1>2, <1>3, PairOnce
<1> QED BY <1>4, <1>5

LEMMA PanelOnce ==
    ASSUME NEW key, NEW comma, NEW i, NEW h, NEW y
    PROVE  Single(EncodePanel(key, Panel(i, h, y), comma))
<1> DEFINE v == Panel(i, h, y)
           parts == Parts(v, EncodeFlat)
<1>1. /\ v.kind = "object" /\ DOMAIN v.of = {"gridPos", "id"}
      /\ Members(v) = {"gridPos", "id"}
      /\ v.of["gridPos"] = Grid(h, y) /\ v.of["id"] = Prim(i)
  BY DEF Panel, Object, Members
<1>2. ~Before(Alphabet, "id", "gridPos")
  BY DEF Before, Alphabet
<1>3. ASSUME NEW last \in BOOLEAN
      PROVE  Single(parts["gridPos"][last]) /\ Single(parts["id"][last])
  <2>1. /\ parts["gridPos"][last] = EncodeFlat(Name(v, "gridPos"), Grid(h, y), last)
        /\ parts["id"][last] = EncodeFlat(Name(v, "id"), Prim(i), last)
    BY <1>1 DEF Parts
  <2> HIDE DEF parts, v
  <2>2. Single(EncodeFlat(Name(v, "id"), Prim(i), last))
    BY PrimOnce DEF EncodeFlat
  <2> QED BY <2>1, <2>2, GridOnce
<1>4. EncodePanel(key, v, comma) = EncodeFrom(key, v, comma, parts)
  BY DEF EncodePanel
<1> HIDE DEF parts
<1>5. Single(EncodeFrom(key, v, comma, parts))
  <2> HIDE DEF v
  <2> QED BY <1>1, <1>2, <1>3, PairOnce
<1> QED BY <1>4, <1>5

\* An array of panels or of primitive values.
LEMMA ItemsOnce ==
    ASSUME NEW key, NEW s, NEW comma, NEW n \in Nat, DOMAIN s = 1..n,
           \A i \in 1..n : \/ \E x : s[i] = Prim(x)
                           \/ \E x, h, y : s[i] = Panel(x, h, y)
    PROVE  Single(EncodePanels(key, Array(s), comma))
<1> DEFINE v == Array(s)
           parts == Parts(v, EncodePanel)
<1>1. v.of = s /\ Members(v) = 1..n
  BY DEF Array, Members
<1>2. ASSUME NEW i \in 1..n, NEW last \in BOOLEAN PROVE Single(parts[i][last])
  <2>1. parts[i][last] = EncodePanel(Name(v, i), s[i], last)
    BY <1>1 DEF Parts
  <2> HIDE DEF parts, v
  <2>2. ASSUME NEW x, s[i] = Prim(x) PROVE Single(EncodePanel(Name(v, i), s[i], last))
    BY <2>2, PrimOnce DEF EncodePanel
  <2>3. ASSUME NEW x, NEW h, NEW y, s[i] = Panel(x, h, y)
        PROVE  Single(EncodePanel(Name(v, i), s[i], last))
    BY <2>3, PanelOnce
  <2>4. Single(EncodePanel(Name(v, i), s[i], last))
    BY <2>2, <2>3
  <2> QED BY <2>1, <2>4
<1>3. EncodePanels(key, Array(s), comma) = EncodeFrom(key, Array(s), comma, parts)
  BY DEF EncodePanels
<1> HIDE DEF parts
<1>4. Single(EncodeFrom(key, Array(s), comma, parts))
  BY <1>2, ArrayOnce
<1> QED BY <1>3, <1>4

\* A row of panels and a row of tags.
PanelRow(ps) ==
    \E n \in Nat : DOMAIN ps = 1..n /\ \A i \in 1..n : \E x, h, y : ps[i] = Panel(x, h, y)
PrimRow(ts) ==
    \E n \in Nat : DOMAIN ts = 1..n /\ \A i \in 1..n : \E x : ts[i] = Prim(x)

\* A dashboard with its panels and its tags.
LEMMA RootOnce ==
    ASSUME NEW kept, DOMAIN kept = {"panels", "tags"},
           NEW ps, PanelRow(ps), kept["panels"] = Array(ps),
           NEW ts, PrimRow(ts), kept["tags"] = Array(ts)
    PROVE  Single(Encode("", Object(kept), FALSE))
<1> DEFINE v == Object(kept)
           parts == Parts(v, EncodePanels)
<1>1. /\ v.kind = "object" /\ v.of = kept /\ DOMAIN v.of = {"panels", "tags"}
      /\ Members(v) = {"panels", "tags"}
  BY DEF Object, Members
<1>2. ~Before(Alphabet, "tags", "panels")
  BY DEF Before, Alphabet
<1>3. ASSUME NEW last \in BOOLEAN
      PROVE  Single(parts["panels"][last]) /\ Single(parts["tags"][last])
  <2>1. /\ parts["panels"][last] = EncodePanels(Name(v, "panels"), Array(ps), last)
        /\ parts["tags"][last] = EncodePanels(Name(v, "tags"), Array(ts), last)
    BY <1>1 DEF Parts
  <2> HIDE DEF parts, v
  <2>2. Single(EncodePanels(Name(v, "panels"), Array(ps), last))
    BY ItemsOnce DEF PanelRow
  <2>3. Single(EncodePanels(Name(v, "tags"), Array(ts), last))
    BY ItemsOnce DEF PrimRow
  <2> QED BY <2>1, <2>2, <2>3
<1>4. Encode("", v, FALSE) = EncodeFrom("", v, FALSE, parts)
  BY DEF Encode
<1> HIDE DEF parts
<1>5. Single(EncodeFrom("", v, FALSE, parts))
  <2> HIDE DEF v
  <2> QED BY <1>1, <1>2, <1>3, PairOnce
<1> QED BY <1>4, <1>5

-----------------------------------------------------------------------------
\* The tags of the dashboards come out alike, in whichever order they go in.
Tags(a, b) == Array(<<Prim(a), Prim(b)>>)

LEMMA TagsAlike ==
    /\ \E ts : SortTags(Tags("chalupa", "trading")) = Array(ts) /\ PrimRow(ts)
    /\ SortTags(Tags("trading", "chalupa")) = SortTags(Tags("chalupa", "trading"))
<1> DEFINE f == [i \in {1, 2} |-> IF i = 1 THEN "chalupa" ELSE "trading"]
           p == [i \in {1, 2} |-> IF i = 1 THEN 2 ELSE 1]
           g == [i \in {1, 2} |-> f[p[i]]]
           sorted == SortStrings(TagAlphabet, f)
           ts == [i \in DOMAIN sorted |-> Prim(sorted[i])]
<1>1. "chalupa" \in ToSet(TagAlphabet) /\ "trading" \in ToSet(TagAlphabet)
  <2>1. /\ 1 \in DOMAIN TagAlphabet /\ TagAlphabet[1] = "chalupa"
        /\ 3 \in DOMAIN TagAlphabet /\ TagAlphabet[3] = "trading"
    BY DEF TagAlphabet
  <2> QED BY <2>1 DEF ToSet
<1>2. Sorts(TagAlphabet, f) /\ IsFiniteSet({1, 2}) /\ Cardinality({1, 2}) = 2
  <2>1. ~Before(TagAlphabet, "trading", "chalupa")
    BY DEF Before, TagAlphabet
  <2>2. DOMAIN f = {1, 2} /\ f[1] = "chalupa" /\ f[2] = "trading" /\ 1 # 2
    OBVIOUS
  <2> HIDE DEF f
  <2> QED BY <2>1, <2>2, PairSorts
<1>3. p \in Bijection({1, 2}, {1, 2})
  BY DEF Bijection, Injection, Surjection, IsInjective
<1>4. Arrangements(g) = Arrangements(f)
  <2>1. DOMAIN f = {1, 2}
    OBVIOUS
  <2> HIDE DEF f, p
  <2> QED BY <1>2, <1>3, <2>1, ShuffledAlike
<1>5. SortStrings(TagAlphabet, g) = sorted
  <2> HIDE DEF f, g
  <2> QED BY <1>4 DEF SortStrings
<1>6. SortTags(Tags("chalupa", "trading")) = Array(ts)
  <2> DEFINE tags == Tags("chalupa", "trading")
             strs == {i \in DOMAIN tags.of : tags.of[i].of \in ToSet(TagAlphabet)}
             h == [i \in strs |-> tags.of[i].of]
  <2>1. DOMAIN tags.of = {1, 2} /\ tags.of[1].of = "chalupa" /\ tags.of[2].of = "trading"
    BY DEF Tags, Array, Prim
  <2>2. strs = {1, 2}
    BY <1>1, <2>1
  <2>3. h = f
    BY <2>1, <2>2
  <2> QED BY <2>3 DEF SortTags
<1>7. SortTags(Tags("trading", "chalupa")) = Array(ts)
  <2> DEFINE tags == Tags("trading", "chalupa")
             strs == {i \in DOMAIN tags.of : tags.of[i].of \in ToSet(TagAlphabet)}
             h == [i \in strs |-> tags.of[i].of]
  <2>1. DOMAIN tags.of = {1, 2} /\ tags.of[1].of = "trading" /\ tags.of[2].of = "chalupa"
    BY DEF Tags, Array, Prim
  <2>2. strs = {1, 2}
    BY <1>1, <2>1
  <2>3. h = g
    BY <2>1, <2>2
  <2> QED BY <1>5, <2>3 DEF SortTags
<1>8. DOMAIN sorted = 1..2
  <2>1. DOMAIN f = {1, 2}
    OBVIOUS
  <2> HIDE DEF f
  <2> QED BY <1>2, <2>1 DEF Sorts, Arrangements
<1>9. PrimRow(ts)
  <2> HIDE DEF sorted
  <2> QED BY <1>8 DEF PrimRow
<1> HIDE DEF ts
<1> QED BY <1>6, <1>7, <1>9

\* Whatever the SDK fills in and in whichever order the tags come, the canonical
\* output is the same.
LEMMA NormalizeOnce ==
    ASSUME NEW src, NEW n \in Nat, DOMAIN src = 1..n
    PROVE  \E f : \A raw \in Raws(src) : Normalize(raw.of) = {f}
<1> DEFINE ps == [i \in DOMAIN src |->
                    Object([id |-> Prim(i),
                            gridPos |-> Object([h |-> Prim(src[i]),
                                                y |-> Prim(YBase(src, i))])])]
           tags == SortTags(Tags("chalupa", "trading"))
           kept == [k \in {"panels", "tags"} |-> IF k = "tags" THEN tags ELSE Array(ps)]
<1>1. Single(Encode("", Object(kept), FALSE))
  <2>1. /\ DOMAIN kept = {"panels", "tags"}
        /\ kept["panels"] = Array(ps) /\ kept["tags"] = tags
    OBVIOUS
  <2>2. PanelRow(ps)
    <3>1. ASSUME NEW i \in 1..n PROVE \E x, h, y : ps[i] = Panel(x, h, y)
      BY DEF Panel, Grid
    <3>2. DOMAIN ps = 1..n
      OBVIOUS
    <3> HIDE DEF ps
    <3> QED BY <3>1, <3>2 DEF PanelRow
  <2>3. PICK ts : tags = Array(ts) /\ PrimRow(ts)
    BY TagsAlike
  <2> HIDE DEF kept, ps, tags
  <2> QED BY <2>1, <2>2, <2>3, RootOnce
<1>2. ASSUME NEW raw \in Raws(src)
      PROVE  Normalize(raw.of) = Encode("", Object(kept), FALSE)
  <2> DEFINE Root(v, t) == [version |-> Prim(v), id |-> Prim(v),
                            tags |-> Array(<<Prim(t[1]), Prim(t[2])>>),
                            panels |-> Array(ps)]
  <2>1. PICK v \in 0..1, t \in {<<"chalupa", "trading">>, <<"trading", "chalupa">>} :
          raw = Object(Root(v, t))
    BY DEF Raws
  <2> DEFINE root == Root(v, t)
             stripped == [k \in DOMAIN root \ volatileRootKeys |->
                            IF k = "tags" THEN SortTags(root[k]) ELSE root[k]]
  <2>2. raw.of = root
    BY <2>1 DEF Object
  <2>3. DOMAIN root \ volatileRootKeys = {"panels", "tags"}
    BY DEF volatileRootKeys
  <2>4. root["panels"] = Array(ps)
    OBVIOUS
  <2>5. SortTags(root["tags"]) = tags
    <3>1. root["tags"] = Tags(t[1], t[2])
      BY DEF Tags
    <3>2. t = <<"chalupa", "trading">> \/ t = <<"trading", "chalupa">>
      OBVIOUS
    <3>3. \/ root["tags"] = Tags("chalupa", "trading")
          \/ root["tags"] = Tags("trading", "chalupa")
      <4> HIDE DEF root
      <4> QED BY <3>1, <3>2
    <3> HIDE DEF root
    <3> QED BY <3>3, TagsAlike
  <2>6. stripped = kept
    <3> HIDE DEF root, ps, tags
    <3> QED BY <2>3, <2>4, <2>5
  <2>7. Normalize(root) = Encode("", Object(stripped), FALSE)
    BY DEF Normalize
  <2> HIDE DEF root, stripped, kept
  <2> QED BY <2>2, <2>6, <2>7
<1> HIDE DEF kept
<1>3. PICK f : Encode("", Object(kept), FALSE) = {f}
  BY <1>1 DEF Single
<1> QED BY <1>2, <1>3

\* So a source is encoded in one way.
LEMMA EncodedOnce ==
    ASSUME NEW d \in Dashboards, NEW src \in Sources(d)
    PROVE  \E f : EncodedAs(d, src) = {f}
<1>1. RowCount[d] \in Nat /\ DOMAIN src = 1..RowCount[d]
  BY GateAssumption DEF Sources
<1>2. PICK f : \A raw \in Raws(src) : Normalize(raw.of) = {f}
  BY <1>1, NormalizeOnce
<1>3. \E raw : raw \in Raws(src)
  <2> DEFINE ps == [i \in DOMAIN src |->
                      Object([id |-> Prim(i),
                              gridPos |-> Object([h |-> Prim(src[i]),
                                                  y |-> Prim(YBase(src, i))])])]
             Raw(v, t) == Object([version |-> Prim(v), id |-> Prim(v),
                                  tags |-> Array(<<Prim(t[1]), Prim(t[2])>>),
                                  panels |-> Array(ps)])
             Orderings == {<<"chalupa", "trading">>, <<"trading", "chalupa">>}
  <2>1. Raws(src) = {Raw(v, t) : v \in 0..1, t \in Orderings}
    BY DEF Raws
  <2>2. 0 \in 0..1 /\ <<"chalupa", "trading">> \in Orderings
    OBVIOUS
  <2> HIDE DEF Raw, Orderings
  <2> QED BY <2>1, <2>2
<1> DEFINE outputs == UNION {Normalize(raw.of) : raw \in Raws(src)}
<1>4. outputs = {f}
  BY <1>2, <1>3
<1>5. EncodedAs(d, src) = outputs
  <2>1. ASSUME NEW e \in EncodedAs(d, src) PROVE e \in outputs
    <3>1. PICK x \in Encodings : x[1] = d /\ x[2] = src /\ e = x[3]
      BY DEF EncodedAs
    <3>2. PICK c \in Dashboards : \E s \in Sources(c) :
            \E g \in UNION {Normalize(raw.of) : raw \in Raws(s)} : x = <<c, s, g>>
      BY <3>1 DEF Encodings
    <3>3. PICK s \in Sources(c) :
            \E g \in UNION {Normalize(raw.of) : raw \in Raws(s)} : x = <<c, s, g>>
      BY <3>2
    <3>4. PICK g \in UNION {Normalize(raw.of) : raw \in Raws(s)} : x = <<c, s, g>>
      BY <3>3
    <3> QED BY <3>1, <3>4
  <2>2. ASSUME NEW g \in outputs PROVE g \in EncodedAs(d, src)
    <3>1. <<d, src, g>> \in Encodings
      BY DEF Encodings
    <3> QED BY <3>1 DEF EncodedAs
  <2> QED BY <2>1, <2>2
<1> QED BY <1>4, <1>5

-----------------------------------------------------------------------------
\* The renderer is the encoder of the generators.
Generated ==
    \A d \in Dashboards : \A src \in Sources(d) : Encoded(d, src) = EncodedAs(d, src)

\* Whatever order Go walks a map in, whatever the SDK fills in at the root and in
\* whichever order the tags come, the two builds of a render agree: every source a
\* pull request can have is rendered to one file, for any number of rows and any
\* heights.
THEOREM EveryRenderAgrees == ASSUME Generated PROVE Spec => []OneRendering
<1>1. SourcesInv => OneRendering
  <2> SUFFICES ASSUME SourcesInv, NEW p \in PRs, NEW d \in Dashboards
               PROVE  \E f \in FilesOf(d) : Render(d, pr[p].src[d]) = {f}
    BY DEF OneRendering
  <2> DEFINE src == pr[p].src[d]
  <2>1. src \in Sources(d)
    BY DEF SourcesInv, SourcesOK
  <2> HIDE DEF src
  <2>2. PICK f : Encoded(d, src) = {f}
    BY <2>1, EncodedOnce DEF Generated
  <2>3. Render(d, src) = {f}
    BY <2>2 DEF Render
  <2>4. f \in FilesOf(d)
    BY <2>1, <2>2 DEF FilesOf
  <2> QED BY <2>3, <2>4 DEF src
<1>2. Init => SourcesInv
  BY InitSources
<1>3. GateInv /\ SourcesInv /\ [Next]_vars => SourcesInv'
  BY StepSources
<1> QED BY <1>1, <1>2, <1>3, GateInvariant, PTL DEF Spec
=============================================================================
