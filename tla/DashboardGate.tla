--------------------------- MODULE DashboardGate ---------------------------
(***************************************************************************)
(* The committed dashboards: scripts/dashboards/build.sh renders them, and *)
(* .github/workflows/validate-dashboards.yml checks that a pull request    *)
(* keeps them in step with their Go sources.                               *)
(*                                                                         *)
(* The check runs on the merge of the pull request's head with main as it  *)
(* was when the head was pushed.  A change of main does not run it again.  *)
(* Two pull requests meet in main by git's merge, line by line, of the     *)
(* sources and of the rendered files.                                      *)
(*                                                                         *)
(* The source of a dashboard is abstracted to the heights of its rows,     *)
(* each in a file of its own; the rendered file has the y and the height   *)
(* of every row.  What a source is rendered to is a constant here, and     *)
(* computed in DashboardRender.                                            *)
(***************************************************************************)
EXTENDS Naturals, Sequences, FiniteSets

CONSTANTS
    PRs,            \* pull requests
    RENDERS,        \* the dashboards, in the order of build.sh
    RowCount,       \* [dashboard -> number of rows]
    Heights,        \* heights of a row
    FirstHeight,
    Encoded(_, _),  \* the outputs encode() may give for a dashboard's source
    MaxEdits        \* bound: edits of a pull request

Dashboards == {RENDERS[i] : i \in DOMAIN RENDERS}

ASSUME GateAssumption ==
    /\ IsFiniteSet(PRs)
    /\ RENDERS \in Seq(Dashboards) \ {<<>>}
    /\ RowCount \in [Dashboards -> Nat \ {0}]
    /\ Heights \subseteq Nat /\ FirstHeight \in Heights
    /\ MaxEdits \in Nat

Sources(d) == [1..RowCount[d] -> Heights]

-----------------------------------------------------------------------------
\* Rendering.

Error == <<>>

\* Render() builds twice and fails when the builds differ.
Render(d, src) ==
    {IF first = second THEN first ELSE Error :
       first, second \in Encoded(d, src)}

\* The files that look like a rendering of a dashboard.
FilesOf(d) == UNION {Encoded(d, src) : src \in Sources(d)}

-----------------------------------------------------------------------------
\* git's merge of two changes of one base, piece by piece: rows of a source,
\* lines of a file.  The same change on both sides is no conflict.
Conflicts(base, ours, theirs) ==
    IF base \in {ours, theirs} THEN {}
    ELSE {i \in DOMAIN base : /\ theirs[i] # base[i]
                              /\ ours[i] \notin {base[i], theirs[i]}}

MergeFile(base, ours, theirs) ==
    IF ours = base THEN theirs ELSE IF theirs = base THEN ours
    ELSE [i \in DOMAIN base |->
            IF ours[i] = base[i] THEN theirs[i] ELSE ours[i]]

Mergeable(base, ours, theirs) ==
    \A d \in Dashboards :
      /\ Conflicts(base.src[d], ours.src[d], theirs.src[d]) = {}
      /\ Conflicts(base.json[d], ours.json[d], theirs.json[d]) = {}

MergeTrees(base, ours, theirs) ==
    [src |-> [d \in Dashboards |->
       MergeFile(base.src[d], ours.src[d], theirs.src[d])],
     json |-> [d \in Dashboards |->
       MergeFile(base.json[d], ours.json[d], theirs.json[d])]]

-----------------------------------------------------------------------------
VARIABLES
    mains,  \* the commits of main: [src, json]
    pr,     \* the pull requests
    fresh   \* was the last merge checked on the main it went into?

vars == <<mains, pr, fresh>>

Main == mains[Len(mains)]

Tree(p) == [src |-> pr[p].src, json |-> pr[p].json]

\* Files that differ only in the values of their lines.
Alike(f, g) ==
    /\ DOMAIN f = DOMAIN g
    /\ \A i \in DOMAIN f : f[i][1] = g[i][1] /\ f[i][3] = g[i][3]

\* A whole file of a dashboard.
Whole(d, f) == \E g \in FilesOf(d) : Alike(f, g)

Commit(c) == /\ DOMAIN c = {"src", "json"}
             /\ \A d \in Dashboards :
                  c.src[d] \in Sources(d) /\ Whole(d, c.json[d])

TypeOK ==
    /\ \A i \in DOMAIN mains : Commit(mains[i])
    /\ \A p \in PRs :
         /\ pr[p].step \in {"none", "work", "build", "pushed", "merged"}
         /\ pr[p].check \in {"none", "running", "passed", "failed"}
         /\ pr[p].base \in DOMAIN mains /\ pr[p].on \in DOMAIN mains
         /\ pr[p].todo \in 0..Len(RENDERS)
         /\ pr[p].edits \in 0..MaxEdits
         /\ Commit(Tree(p))
    /\ fresh \in BOOLEAN

Init ==
    /\ \E c \in [src : {[d \in Dashboards |->
                           [i \in 1..RowCount[d] |-> FirstHeight]]},
                 json : [Dashboards -> UNION {FilesOf(d) : d \in Dashboards}]] :
         /\ \A d \in Dashboards : c.json[d] \in Render(d, c.src[d]) \ {Error}
         /\ mains = <<c>>
         /\ pr = [p \in PRs |->
                   [step |-> "none", src |-> c.src, json |-> c.json, base |-> 1,
                    todo |-> 0, edits |-> 0, check |-> "none", on |-> 1]]
    /\ fresh = TRUE

Set(p, new) == pr' = [pr EXCEPT ![p] = new]

-----------------------------------------------------------------------------
\* The author of a pull request.

Branch(p) ==
    /\ pr[p].step = "none"
    /\ Set(p, [pr[p] EXCEPT !.step = "work", !.base = Len(mains),
                            !.src = Main.src, !.json = Main.json])
    /\ UNCHANGED <<mains, fresh>>

EditRow(p) ==
    /\ pr[p].step = "work"
    /\ pr[p].edits < MaxEdits
    /\ \E d \in Dashboards : \E i \in 1..RowCount[d] : \E h \in Heights :
         /\ h # pr[p].src[d][i]
         /\ Set(p, [pr[p] EXCEPT !.src[d][i] = h, !.edits = @ + 1])
    /\ UNCHANGED <<mains, fresh>>

\* The rendered file is edited, or replaced by an export from Grafana.
EditJson(p) ==
    /\ pr[p].step = "work"
    /\ pr[p].edits < MaxEdits
    /\ \E d \in Dashboards : \E f \in FilesOf(d) \ {pr[p].json[d]} :
         Set(p, [pr[p] EXCEPT !.json[d] = f, !.edits = @ + 1])
    /\ UNCHANGED <<mains, fresh>>

\* build.sh renders one dashboard after the other.
StartBuild(p) ==
    /\ pr[p].step = "work"
    /\ Set(p, [pr[p] EXCEPT !.step = "build", !.todo = 1])
    /\ UNCHANGED <<mains, fresh>>

BuildNext(p) ==
    /\ pr[p].step = "build"
    /\ LET d == RENDERS[pr[p].todo]
           done == pr[p].todo = Len(RENDERS)
       IN \E f \in Render(d, pr[p].src[d]) \ {Error} :
            Set(p, [pr[p] EXCEPT !.json[d] = f,
                                 !.step = IF done THEN "work" ELSE "build",
                                 !.todo = IF done THEN 0 ELSE @ + 1])
    /\ UNCHANGED <<mains, fresh>>

\* Slip: the renderer writes straight into the committed file.
BuildFailsHalfway(p) ==
    /\ pr[p].step = "build"
    /\ Set(p, [pr[p] EXCEPT !.step = "work", !.todo = 0,
                            !.json[RENDERS[pr[p].todo]] = <<>>])
    /\ UNCHANGED <<mains, fresh>>

\* go run fails: set -e ends the script, with the earlier dashboards rendered
\* and this one's committed file as it was.
BuildFails(p) ==
    /\ pr[p].step = "build"
    /\ Set(p, [pr[p] EXCEPT !.step = "work", !.todo = 0])
    /\ UNCHANGED <<mains, fresh>>

\* A push cancels the check of the last one (cancel-in-progress) and starts a
\* new one on the merge with main, if there is no conflict.
Push(p) ==
    /\ pr[p].step = "work"
    /\ Set(p, [pr[p] EXCEPT !.step = "pushed", !.on = Len(mains),
                 !.check = IF Mergeable(mains[pr[p].base], Main, Tree(p))
                           THEN "running" ELSE "none"])
    /\ UNCHANGED <<mains, fresh>>

Resume(p) ==
    /\ pr[p].step = "pushed"
    /\ Set(p, [pr[p] EXCEPT !.step = "work", !.check = "none"])
    /\ UNCHANGED <<mains, fresh>>

\* The author merges main into the branch; in a file with a conflict the
\* branch's side is kept.
MergeMain(p) ==
    /\ pr[p].step = "work"
    /\ pr[p].base < Len(mains)
    /\ LET base == mains[pr[p].base]
           Kept(b, m, o) == IF Conflicts(b, m, o) = {} THEN MergeFile(b, m, o)
                            ELSE o
       IN Set(p, [pr[p] EXCEPT !.base = Len(mains),
            !.src = [d \in Dashboards |->
                       Kept(base.src[d], Main.src[d], pr[p].src[d])],
            !.json = [d \in Dashboards |->
                       Kept(base.json[d], Main.json[d], pr[p].json[d])]])
    /\ UNCHANGED <<mains, fresh>>

-----------------------------------------------------------------------------
\* The check and the merge.

\* Slip: a dashboard is in build.sh and not in the list of the drift step.
GuardedFirst == {RENDERS[1]}

\* The drift step's list of files.
Guarded == Dashboards

Checked(p) == MergeTrees(mains[pr[p].base], mains[pr[p].on], Tree(p))

\* Two renders are alike, and the one of build.sh is the committed file.
InStep(d, tree, a, b, built) ==
    /\ a = b
    /\ Error \notin {a, b, built}
    /\ d \in Guarded => built = tree.json[d]

CheckPasses(p) ==
    /\ pr[p].check = "running"
    /\ \A d \in Dashboards : LET outputs == Render(d, Checked(p).src[d]) IN
         \E a, b, c \in outputs : InStep(d, Checked(p), a, b, c)
    /\ Set(p, [pr[p] EXCEPT !.check = "passed"])
    /\ UNCHANGED <<mains, fresh>>

CheckFails(p) ==
    /\ pr[p].check = "running"
    /\ \E d \in Dashboards : LET outputs == Render(d, Checked(p).src[d]) IN
         \E a, b, c \in outputs : ~InStep(d, Checked(p), a, b, c)
    /\ Set(p, [pr[p] EXCEPT !.check = "failed"])
    /\ UNCHANGED <<mains, fresh>>

\* A pull request whose check has passed is merged, if it has no conflict.
Merge(p) ==
    /\ pr[p].check = "passed"
    /\ pr[p].step = "pushed"
    /\ Mergeable(mains[pr[p].base], Main, Tree(p))
    /\ mains' = Append(mains, MergeTrees(mains[pr[p].base], Main, Tree(p)))
    /\ fresh' = (pr[p].on = Len(mains))
    /\ Set(p, [pr[p] EXCEPT !.step = "merged"])

Next == \E p \in PRs :
    \/ Branch(p) \/ EditRow(p) \/ EditJson(p)
    \/ StartBuild(p) \/ BuildNext(p) \/ BuildFails(p)
    \/ Push(p) \/ Resume(p) \/ MergeMain(p)
    \/ CheckPasses(p) \/ CheckFails(p) \/ Merge(p)

Spec == Init /\ [][Next]_vars

-----------------------------------------------------------------------------
\* Properties.

\* Whatever order Go walks a map in, whatever the SDK fills in at the root and
\* in whatever order the tags come, a source is rendered to one file.
OneRendering ==
    \A p \in PRs : \A d \in Dashboards :
      \E f \in FilesOf(d) : Render(d, pr[p].src[d]) = {f}

\* The merged pull requests that have changed a dashboard.
Touched(d) ==
    {p \in PRs : /\ pr[p].step = "merged"
                 /\ \/ pr[p].src[d] # mains[pr[p].base].src[d]
                    \/ pr[p].json[d] # mains[pr[p].base].json[d]}

\* The dashboards on main are what their sources render to, after every merge
\* that was checked on the main it went into, and, checked or not on that main,
\* as long as one pull request has changed the dashboard.  Two that change the
\* same dashboard and are checked side by side may both be right and merge
\* without a conflict into a file that no source renders to.
MainInStep ==
    \A d \in Dashboards :
      fresh \/ Cardinality(Touched(d)) <= 1 =>
        Main.json[d] \in Render(d, Main.src[d])

\* A dashboard's rows, and so its lines, stay; the values are what pull requests
\* change.
OneShape == \A d \in Dashboards : \A f, g \in FilesOf(d) : Alike(f, g)
=============================================================================
