---------------------------- MODULE DeployProofs ----------------------------
(***************************************************************************)
(* Proofs about DeployInfra, and about GiteaSetup, the role that runs in   *)
(* its jobs, for every set of parts and every bound.                       *)
(***************************************************************************)
EXTENDS GiteaSetup, SequenceTheorems, FiniteSetTheorems, TLAPS

\* At most the given field of a run changes, and none of its commit and input.
Changes(old, new, field) ==
  /\ new.version = old.version /\ new.input = old.input
  /\ new.plan = old.plan /\ new.beside = old.beside
  /\ Detected(new) = Detected(old)
  /\ field # "detected" => new.detected = old.detected
  /\ field # "site" => new.site = old.site
  /\ field # "docker" => new.docker = old.docker

\* What the path filter and the inputs may name are targets.
LEMMA PlansAreTargets ==
  /\ \A p \in Parts : Filter[p] \subseteq Targets
  /\ \A input \in DOMAIN Inputs : Inputs[input] \subseteq Targets
  /\ "push" \notin DOMAIN Inputs
<1>1. \A p \in Parts : Filter[p] \subseteq Targets
  BY PartsAssumption DEF UsedBy, Filter, Targets
<1>2. \A input \in DOMAIN Inputs : Inputs[input] \subseteq Targets
  BY DEF Inputs, Targets
<1>3. "push" \notin DOMAIN Inputs
  BY DEF Inputs
<1> QED BY <1>1, <1>2, <1>3

\* A step that changes one run leaves every other run alone.
LEMMA OneRun ==
  ASSUME TypeOK, NEW i \in DOMAIN runs, NEW new \in Runs,
         runs' = [runs EXCEPT ![i] = new]
  PROVE  /\ runs' \in Seq(Runs) /\ Len(runs') = Len(runs)
         /\ DOMAIN runs' = DOMAIN runs
         /\ runs'[i] = new
         /\ \A k \in DOMAIN runs : k # i => runs'[k] = runs[k]
<1>1. runs \in Seq(Runs) /\ DOMAIN runs = 1..Len(runs)
  BY LenProperties DEF TypeOK
<1>2. /\ [runs EXCEPT ![i] = new] \in Seq(Runs)
      /\ Len([runs EXCEPT ![i] = new]) = Len(runs)
      /\ \A j \in 1..Len(runs) :
           [runs EXCEPT ![i] = new][j] = IF j = i THEN new ELSE runs[j]
  BY <1>1, ExceptSeq
<1> QED BY <1>1, <1>2

\* A run is a record of the right fields.
LEMMA RunType == ASSUME TypeOK, NEW i \in DOMAIN runs PROVE runs[i] \in Runs
  BY LenProperties, ElementOfSeq DEF TypeOK

\* It stays one when a job changes its state.
LEMMA RunTypes ==
  ASSUME TypeOK, NEW i \in DOMAIN runs
  PROVE  /\ \A d \in {"no", "yes", "failed"}, p \in SUBSET Targets :
              [runs[i] EXCEPT !.detected = d, !.plan = p] \in Runs
         /\ \A d \in {"no", "yes", "failed"} :
              [runs[i] EXCEPT !.detected = d] \in Runs
         /\ \A s \in JobStates : [runs[i] EXCEPT !.site = s] \in Runs
         /\ \A s \in JobStates : [runs[i] EXCEPT !.docker = s] \in Runs
         /\ [runs[i] EXCEPT !.beside = "another"] \in Runs
<1>1. runs[i] \in Runs
  BY RunType
<1> QED BY <1>1 DEF Runs

\* A job that ends in another state changes nothing else of its run.
LEMMA RunFields ==
  ASSUME NEW run \in Runs, NEW s
  PROVE  /\ Changes(run, [run EXCEPT !.detected = s], "detected")
         /\ Changes(run, [run EXCEPT !.site = s], "site")
         /\ Changes(run, [run EXCEPT !.docker = s], "docker")
         /\ [run EXCEPT !.detected = s].detected = s
         /\ [run EXCEPT !.site = s].site = s
         /\ [run EXCEPT !.docker = s].docker = s
<1>1. Changes(run, [run EXCEPT !.detected = s], "detected")
  BY DEF Runs, Changes, Detected
<1>2. Changes(run, [run EXCEPT !.site = s], "site")
  BY DEF Runs, Changes, Detected
<1>3. Changes(run, [run EXCEPT !.docker = s], "docker")
  BY DEF Runs, Changes, Detected
<1>4. /\ [run EXCEPT !.detected = s].detected = s
      /\ [run EXCEPT !.site = s].site = s
      /\ [run EXCEPT !.docker = s].docker = s
  BY DEF Runs
<1> QED BY <1>1, <1>2, <1>3, <1>4

\* What the steps do to the run they belong to.
LEMMA JobEffects ==
  ASSUME TypeOK, NEW i \in DOMAIN runs
  PROVE  /\ Detect(i) => runs' = [runs EXCEPT ![i] =
              [runs[i] EXCEPT !.detected = "yes", !.plan = Detected(runs[i])]]
         /\ DetectFails(i) => runs' = [runs EXCEPT ![i] =
              [runs[i] EXCEPT !.detected = "failed"]]
         /\ StartSite(i) => \E s \in {"running", "skipped"} :
              /\ s = "skipped" <=> "site" \notin runs[i].plan
              /\ runs' = [runs EXCEPT ![i] = [runs[i] EXCEPT !.site = s]]
         /\ StartDocker(i) => \E s \in {"running", "skipped"} :
              /\ s = "running" <=> /\ "docker" \in runs[i].plan
                                  /\ runs[i].site \in {"ok", "skipped"}
              /\ runs' = [runs EXCEPT ![i] = [runs[i] EXCEPT !.docker = s]]
         /\ JobSucceeds(i, "site") => runs' = [runs EXCEPT ![i] =
              [runs[i] EXCEPT !.site = "ok"]]
         /\ JobSucceeds(i, "docker") => runs' = [runs EXCEPT ![i] =
              [runs[i] EXCEPT !.docker = "ok"]]
         /\ JobFails(i, "site") => runs' = [runs EXCEPT ![i] =
              [runs[i] EXCEPT !.site = "failed"]]
         /\ JobFails(i, "docker") => runs' = [runs EXCEPT ![i] =
              [runs[i] EXCEPT !.docker = "failed"]]
  BY DEF Detect, DetectFails, StartSite, StartDocker, JobSucceeds, JobFails, Set

\* A run that starts is added at the end, and marks the runs that are not over.
LEMMA StartRunEffect ==
  ASSUME TypeOK, NEW version \in Nat, NEW from \in DOMAIN Inputs \cup {"push"},
         StartRun(version, from)
  PROVE  /\ runs' \in Seq(Runs) /\ Len(runs') = Len(runs) + 1
         /\ DOMAIN runs' = DOMAIN runs \cup {Len(runs')}
         /\ Len(runs') \notin DOMAIN runs
         /\ \A k \in DOMAIN runs :
              runs'[k] = IF Over(runs[k]) THEN runs[k]
                         ELSE [runs[k] EXCEPT !.beside = "another"]
         /\ runs'[Len(runs')].version = version
         /\ runs'[Len(runs')].input = from
         /\ runs'[Len(runs')].detected = "no"
         /\ runs'[Len(runs')].beside = IF Quiet THEN "nobody" ELSE "another"
         /\ runs'[Len(runs')].site = "waiting"
         /\ runs'[Len(runs')].docker = "waiting"
<1> DEFINE new == [version |-> version, input |-> from, plan |-> {},
                   detected |-> "no",
                   beside |-> IF Quiet THEN "nobody" ELSE "another",
                   site |-> "waiting", docker |-> "waiting"]
           marked(run) == IF Over(run) THEN run
                          ELSE [run EXCEPT !.beside = "another"]
           old == [k \in DOMAIN runs |-> marked(runs[k])]
<1>1. runs \in Seq(Runs) /\ Len(runs) \in Nat /\ DOMAIN runs = 1..Len(runs)
  BY LenProperties DEF TypeOK
<1>2. new \in Runs
  BY DEF Runs, JobStates
<1>3. ASSUME NEW k \in DOMAIN runs PROVE marked(runs[k]) \in Runs
  BY RunType, RunTypes
<1>4. old \in Seq(Runs) /\ Len(old) = Len(runs) /\ DOMAIN old = DOMAIN runs
  <2> HIDE DEF marked
  <2>1. old \in [1..Len(runs) -> Runs]
    BY <1>1, <1>3
  <2> QED BY <1>1, <2>1
<1>5. runs' = Append(old, new)
  BY DEF StartRun
<1> HIDE DEF new, old
<1>6. /\ runs' \in Seq(Runs) /\ Len(runs') = Len(runs) + 1
      /\ \A k \in 1..Len(runs) : runs'[k] = old[k]
      /\ runs'[Len(runs) + 1] = new
  BY <1>2, <1>4, <1>5, AppendProperties
<1>7. DOMAIN runs' = 1..(Len(runs) + 1)
  BY <1>6, LenProperties
<1> QED BY <1>1, <1>6, <1>7 DEF new, old

\* A push extends main.
LEMMA PushEffect ==
  ASSUME TypeOK, Push
  PROVE  /\ main' \in Seq(Parts)
         /\ Len(main') \in Nat /\ Len(main') > Len(main)
         /\ Len(main') <= MaxCommits
         /\ \A i \in DOMAIN main : main'[i] = main[i]
<1>1. PICK n \in 1..MaxPushCommits : \E c \in [1..n -> Parts] : main' = main \o c
  BY DEF Push
<1>2. PICK commits \in [1..n -> Parts] : main' = main \o commits
  BY <1>1
<1>3. n \in Nat /\ n > 0
  BY <1>1, DeployAssumption
<1>4. commits \in Seq(Parts) /\ Len(commits) = n
  BY <1>2, <1>3, SeqDef
<1>5. main \in Seq(Parts) /\ Len(main) \in Nat /\ DOMAIN main = 1..Len(main)
  BY LenProperties DEF TypeOK
<1>6. /\ main \o commits \in Seq(Parts)
      /\ Len(main \o commits) = Len(main) + Len(commits)
      /\ \A i \in 1..Len(main) + Len(commits) : (main \o commits)[i] =
           IF i <= Len(main) THEN main[i] ELSE commits[i - Len(main)]
  BY <1>4, <1>5, ConcatProperties
<1>7. /\ main' \in Seq(Parts) /\ Len(main') = Len(main) + n
      /\ \A i \in 1..Len(main) : main'[i] = main[i]
  BY <1>2, <1>3, <1>4, <1>5, <1>6
<1> QED BY <1>3, <1>5, <1>7 DEF Push

\* The initial state has its type.
LEMMA TypeInit == Init => TypeOK
<1>1. <<>> \in Seq(Parts) /\ <<>> \in Seq(Runs) /\ Len(<<>>) = 0
  BY EmptySeq
<1> QED BY <1>1 DEF Init, TypeOK

\* What detect-changes finds out is a plan.
LEMMA DetectedType ==
  ASSUME TypeOK, JobsInOrder, NEW i \in DOMAIN runs
  PROVE  [runs[i] EXCEPT !.detected = "yes", !.plan = Detected(runs[i])] \in Runs
<1>1. runs[i].input \in DOMAIN Inputs \cup {"push"} /\ runs[i].version \in Nat
  BY RunType DEF Runs
<1>2. runs[i].input = "push" => main[runs[i].version] \in Parts
  BY <1>1, LenProperties, ElementOfSeq DEF JobsInOrder, InOrder, TypeOK
<1>3. Detected(runs[i]) \subseteq Targets
  BY <1>1, <1>2, PlansAreTargets DEF Detected
<1> QED BY <1>3, RunTypes

\* Every step keeps the types.
LEMMA TypeStep == TypeOK /\ JobsInOrder /\ [Next]_vars => TypeOK'
<1> SUFFICES ASSUME TypeOK, JobsInOrder, [Next]_vars PROVE TypeOK'
  OBVIOUS
<1>0. Len(main) \in Nat /\ DOMAIN main = 1..Len(main)
  BY LenProperties DEF TypeOK
<1>1. CASE Push
  <2>1. /\ main' \in Seq(Parts) /\ Len(main') \in Nat
        /\ Len(main') > Len(main)
    BY <1>1, PushEffect
  <2>2. runs' \in Seq(Runs) /\ deployed' = deployed
    BY <1>1, <2>1, StartRunEffect DEF Push, StartRun
  <2> QED BY <1>0, <2>1, <2>2 DEF TypeOK
<1>2. CASE Dispatch
  <2>1. PICK input \in DOMAIN Inputs : StartRun(Len(main), input)
    BY <1>2 DEF Dispatch
  <2>2. runs' \in Seq(Runs) /\ UNCHANGED <<deployed, main>>
    BY <1>0, <1>2, <2>1, StartRunEffect DEF Dispatch, StartRun
  <2> QED BY <2>2 DEF TypeOK
<1>3. ASSUME NEW i \in DOMAIN runs, Detect(i)
      PROVE  TypeOK'
  <2> DEFINE new == [runs[i] EXCEPT !.detected = "yes",
                                    !.plan = Detected(runs[i])]
  <2>1. new \in Runs
    BY DetectedType
  <2>2. runs' = [runs EXCEPT ![i] = new] /\ UNCHANGED <<main, deployed>>
    BY <1>3 DEF Detect
  <2> HIDE DEF new
  <2> QED BY <2>1, <2>2, OneRun DEF TypeOK
<1>4. ASSUME NEW i \in DOMAIN runs, DetectFails(i)
      PROVE  TypeOK'
  <2>1. [runs[i] EXCEPT !.detected = "failed"] \in Runs
    BY RunTypes
  <2> QED BY <1>4, <2>1, JobEffects, OneRun DEF TypeOK, DetectFails
<1>5. ASSUME NEW i \in DOMAIN runs, StartSite(i)
      PROVE  TypeOK'
  <2>1. PICK s \in JobStates :
          runs' = [runs EXCEPT ![i] = [runs[i] EXCEPT !.site = s]]
    BY <1>5, JobEffects DEF JobStates
  <2>2. [runs[i] EXCEPT !.site = s] \in Runs
    BY RunTypes
  <2> QED BY <1>5, <2>1, <2>2, OneRun DEF TypeOK, StartSite
<1>6. ASSUME NEW i \in DOMAIN runs, StartDocker(i)
      PROVE  TypeOK'
  <2>1. PICK s \in JobStates :
          runs' = [runs EXCEPT ![i] = [runs[i] EXCEPT !.docker = s]]
    BY <1>6, JobEffects DEF JobStates
  <2>2. [runs[i] EXCEPT !.docker = s] \in Runs
    BY RunTypes
  <2> QED BY <1>6, <2>1, <2>2, OneRun DEF TypeOK, StartDocker
<1>7. ASSUME NEW i \in DOMAIN runs, NEW t \in Targets,
             JobSucceeds(i, t) \/ JobFails(i, t)
      PROVE  TypeOK'
  <2>1. \E s \in JobStates :
          \/ runs' = [runs EXCEPT ![i] = [runs[i] EXCEPT !.site = s]]
          \/ runs' = [runs EXCEPT ![i] = [runs[i] EXCEPT !.docker = s]]
    BY <1>7, JobEffects DEF JobStates, Targets
  <2>2. \E new \in Runs : runs' = [runs EXCEPT ![i] = new]
    BY <2>1, RunTypes
  <2>3. runs' \in Seq(Runs)
    BY <2>2, OneRun
  <2>4. runs[i].version \in 0..Len(main)
    <3>1. runs[i].version \in Nat
      BY RunType DEF Runs
    <3>2. runs[i].version <= Len(main)
      BY DEF JobsInOrder, InOrder
    <3> QED BY <1>0, <3>1, <3>2
  <2>5. deployed' \in [Targets -> 0..Len(main)] /\ main' = main
    BY <1>7, <2>4 DEF JobSucceeds, JobFails, TypeOK
  <2> QED BY <2>3, <2>5 DEF TypeOK
<1>8. CASE UNCHANGED vars
  BY <1>8 DEF vars, TypeOK
<1> QED BY <1>1, <1>2, <1>3, <1>4, <1>5, <1>6, <1>7, <1>8 DEF Next

-----------------------------------------------------------------------------
\* A new commit on main and a mark by a run that starts change nothing in what a
\* run has done.
LEMMA InOrderKept ==
  ASSUME TypeOK, JobsInOrder, NEW k \in DOMAIN runs,
         Len(main') \in Nat, Len(main') >= Len(main),
         \A j \in DOMAIN main : main'[j] = main[j],
         NEW run, run \in {runs[k], [runs[k] EXCEPT !.beside = "another"]}
  PROVE  InOrder(run)'
<1>1. InOrder(runs[k]) /\ runs[k] \in Runs
  BY RunType DEF JobsInOrder
<1>2. Len(main) \in Nat /\ DOMAIN main = 1..Len(main)
  BY LenProperties DEF TypeOK
<1>3. runs[k].version \in Nat
  BY <1>1 DEF Runs
<1>4. /\ run.version = runs[k].version /\ run.input = runs[k].input
      /\ run.detected = runs[k].detected /\ run.plan = runs[k].plan
      /\ run.site = runs[k].site /\ run.docker = runs[k].docker
  BY <1>1 DEF Runs
<1>5. InOrder(runs[k]) => Detected(run)' = Detected(runs[k])
  BY <1>2, <1>3, <1>4 DEF InOrder, Detected
<1> QED BY <1>1, <1>2, <1>3, <1>4, <1>5 DEF InOrder

\* Every step keeps JobsInOrder.
LEMMA StepJobs == TypeOK /\ JobsInOrder /\ [Next]_vars => JobsInOrder'
<1> SUFFICES ASSUME TypeOK, JobsInOrder, [Next]_vars PROVE JobsInOrder'
  OBVIOUS
<1>0. Len(main) \in Nat /\ DOMAIN main = 1..Len(main)
  BY LenProperties DEF TypeOK
<1>1. ASSUME NEW version \in Nat, NEW from \in DOMAIN Inputs \cup {"push"},
             StartRun(version, from), Len(main') \in Nat,
             Len(main') >= Len(main), version = Len(main'),
             from = "push" => version > 0,
             \A j \in DOMAIN main : main'[j] = main[j]
      PROVE  JobsInOrder'
  <2> SUFFICES ASSUME NEW k \in (DOMAIN runs)' PROVE InOrder(runs[k])'
    BY DEF JobsInOrder
  <2>1. CASE k \in DOMAIN runs
    <3>1. runs'[k] \in {runs[k], [runs[k] EXCEPT !.beside = "another"]}
      BY <1>1, <2>1, StartRunEffect
    <3> QED BY <1>1, <2>1, <3>1, InOrderKept
  <2>2. CASE k = Len(runs')
    BY <1>1, <2>2, StartRunEffect DEF InOrder
  <2> QED BY <1>1, <2>1, <2>2, StartRunEffect
<1>2. CASE Push
  BY <1>1, <1>2, PushEffect, <1>0 DEF Push
<1>3. CASE Dispatch
  <2>1. PICK input \in DOMAIN Inputs : StartRun(Len(main), input)
    BY <1>3 DEF Dispatch
  <2>2. main' = main /\ input # "push"
    BY <1>3, <2>1, PlansAreTargets DEF Dispatch
  <2> DEFINE version == Len(main)
  <2>3. /\ version \in Nat /\ input \in DOMAIN Inputs \cup {"push"}
        /\ StartRun(version, input) /\ version = Len(main')
        /\ Len(main') \in Nat /\ Len(main') >= Len(main)
        /\ \A j \in DOMAIN main : main'[j] = main[j]
    BY <1>0, <2>1, <2>2
  <2> HIDE DEF version
  <2> QED BY <1>1, <2>2, <2>3
<1>4. ASSUME NEW i \in DOMAIN runs, NEW new \in Runs,
             runs' = [runs EXCEPT ![i] = new], main' = main,
             InOrder(runs[i]) => InOrder(new)
      PROVE  JobsInOrder'
  <2> SUFFICES ASSUME NEW k \in (DOMAIN runs)' PROVE InOrder(runs[k])'
    BY DEF JobsInOrder
  <2>1. InOrder(runs'[k])
    BY <1>4, OneRun DEF JobsInOrder
  <2> QED BY <1>4, <2>1 DEF InOrder, Detected
<1>5. ASSUME NEW i \in DOMAIN runs, Detect(i)
      PROVE  JobsInOrder'
  <2> DEFINE new == [runs[i] EXCEPT !.detected = "yes",
                                    !.plan = Detected(runs[i])]
  <2>1. new \in Runs
    BY DetectedType
  <2>2. runs' = [runs EXCEPT ![i] = new] /\ main' = main
    BY <1>5 DEF Detect
  <2>3. /\ new.version = runs[i].version /\ new.input = runs[i].input
        /\ new.plan = Detected(runs[i]) /\ new.detected = "yes"
        /\ new.site = runs[i].site /\ new.docker = runs[i].docker
    BY RunType DEF Runs
  <2>4. Detected(new) = Detected(runs[i])
    BY <2>3 DEF Detected
  <2>5. runs[i].detected = "no" /\ runs[i].docker \in JobStates
    BY <1>5, RunType DEF Detect, Runs
  <2> HIDE DEF new
  <2>6. InOrder(runs[i]) => InOrder(new)
    BY <2>3, <2>4, <2>5 DEF InOrder
  <2> QED BY <1>4, <2>1, <2>2, <2>6
<1>6. ASSUME NEW i \in DOMAIN runs, DetectFails(i)
      PROVE  JobsInOrder'
  <2> DEFINE new == [runs[i] EXCEPT !.detected = "failed"]
  <2>1. new \in Runs /\ runs' = [runs EXCEPT ![i] = new] /\ main' = main
    BY <1>6, RunTypes, JobEffects DEF DetectFails
  <2>2. Changes(runs[i], new, "detected") /\ new.detected = "failed"
    BY RunType, RunFields
  <2> HIDE DEF new
  <2>3. InOrder(runs[i]) => InOrder(new)
    BY <1>6, <2>2 DEF DetectFails, InOrder, Changes
  <2> QED BY <1>4, <2>1, <2>3
<1>7. ASSUME NEW i \in DOMAIN runs, StartSite(i)
      PROVE  JobsInOrder'
  <2>1. PICK s \in {"running", "skipped"} :
          /\ s = "skipped" <=> "site" \notin runs[i].plan
          /\ runs' = [runs EXCEPT ![i] = [runs[i] EXCEPT !.site = s]]
    BY <1>7, JobEffects
  <2> DEFINE new == [runs[i] EXCEPT !.site = s]
  <2>2. new \in Runs /\ main' = main
    BY <1>7, RunTypes DEF JobStates, StartSite
  <2>3. Changes(runs[i], new, "site") /\ new.site = s
    BY RunType, RunFields
  <2>4. runs' = [runs EXCEPT ![i] = new]
    BY <2>1
  <2> HIDE DEF new
  <2>5. InOrder(runs[i]) => InOrder(new)
    BY <1>7, <2>1, <2>3 DEF StartSite, InOrder, Changes
  <2> QED BY <1>4, <2>2, <2>4, <2>5
<1>8. ASSUME NEW i \in DOMAIN runs, StartDocker(i)
      PROVE  JobsInOrder'
  <2>1. PICK s \in {"running", "skipped"} :
          /\ s = "running" <=> /\ "docker" \in runs[i].plan
                              /\ runs[i].site \in {"ok", "skipped"}
          /\ runs' = [runs EXCEPT ![i] = [runs[i] EXCEPT !.docker = s]]
    BY <1>8, JobEffects
  <2> DEFINE new == [runs[i] EXCEPT !.docker = s]
  <2>2. new \in Runs /\ main' = main
    BY <1>8, RunTypes DEF JobStates, StartDocker
  <2>3. Changes(runs[i], new, "docker") /\ new.docker = s
    BY RunType, RunFields
  <2>4. runs' = [runs EXCEPT ![i] = new]
    BY <2>1
  <2> HIDE DEF new
  <2>5. InOrder(runs[i]) => InOrder(new)
    BY <1>8, <2>1, <2>3 DEF StartDocker, InOrder, Changes
  <2> QED BY <1>4, <2>2, <2>4, <2>5
<1>9. ASSUME NEW i \in DOMAIN runs,
             JobSucceeds(i, "site") \/ JobFails(i, "site")
      PROVE  JobsInOrder'
  <2>1. PICK s \in {"ok", "failed"} :
          runs' = [runs EXCEPT ![i] = [runs[i] EXCEPT !.site = s]]
    BY <1>9, JobEffects
  <2> DEFINE new == [runs[i] EXCEPT !.site = s]
  <2>2. new \in Runs /\ main' = main /\ runs[i].site = "running"
    BY <1>9, RunTypes DEF JobStates, JobSucceeds, JobFails
  <2>3. Changes(runs[i], new, "site") /\ new.site = s
    BY RunType, RunFields
  <2>4. runs' = [runs EXCEPT ![i] = new]
    BY <2>1
  <2> HIDE DEF new
  <2>5. InOrder(runs[i]) => InOrder(new)
    BY <2>1, <2>2, <2>3 DEF InOrder, Changes
  <2> QED BY <1>4, <2>2, <2>4, <2>5
<1>10. ASSUME NEW i \in DOMAIN runs,
             JobSucceeds(i, "docker") \/ JobFails(i, "docker")
      PROVE  JobsInOrder'
  <2>1. PICK s \in {"ok", "failed"} :
          runs' = [runs EXCEPT ![i] = [runs[i] EXCEPT !.docker = s]]
    BY <1>10, JobEffects
  <2> DEFINE new == [runs[i] EXCEPT !.docker = s]
  <2>2. new \in Runs /\ main' = main /\ runs[i].docker = "running"
    BY <1>10, RunTypes DEF JobStates, JobSucceeds, JobFails
  <2>3. Changes(runs[i], new, "docker") /\ new.docker = s
    BY RunType, RunFields
  <2>4. runs' = [runs EXCEPT ![i] = new]
    BY <2>1
  <2> HIDE DEF new
  <2>5. InOrder(runs[i]) => InOrder(new)
    BY <2>1, <2>2, <2>3 DEF InOrder, Changes
  <2> QED BY <1>4, <2>2, <2>4, <2>5
<1>11. CASE UNCHANGED vars
  BY <1>11 DEF vars, JobsInOrder, InOrder, Detected
<1> QED BY <1>2, <1>3, <1>5, <1>6, <1>7, <1>8, <1>9, <1>10, <1>11
        DEF Next, Targets

\* A step of the jobs of run i.
Jobs(i) == \/ Detect(i) \/ DetectFails(i) \/ StartSite(i) \/ StartDocker(i)
           \/ \E t \in Targets : JobSucceeds(i, t) \/ JobFails(i, t)

\* What a run goes by does not change, a run that is over stays so, and a target
\* is deployed by the run whose job ends well.
LEMMA JobStep ==
  ASSUME TypeOK, JobsInOrder, NEW i \in DOMAIN runs, Jobs(i)
  PROVE  /\ main' = main /\ Len(runs') = Len(runs)
         /\ DOMAIN runs' = DOMAIN runs
         /\ \A k \in DOMAIN runs : k # i => runs'[k] = runs[k]
         /\ runs'[i].version = runs[i].version
         /\ runs'[i].input = runs[i].input
         /\ runs'[i].beside = runs[i].beside
         /\ Over(runs[i]) => Over(runs'[i])
         /\ \A t \in Targets :
              \/ deployed'[t] = deployed[t] /\ (runs'[i][t] = "ok" => runs[i][t] = "ok")
              \/ /\ deployed'[t] = runs[i].version
                 /\ runs[i][t] = "running" /\ ~Over(runs[i])
<1> DEFINE P(new) ==
      /\ new \in Runs /\ runs' = [runs EXCEPT ![i] = new] /\ main' = main
      /\ new.version = runs[i].version /\ new.input = runs[i].input
      /\ new.beside = runs[i].beside
      /\ Over(runs[i]) => Over(new)
      /\ \A t \in Targets :
           \/ deployed'[t] = deployed[t] /\ (new[t] = "ok" => runs[i][t] = "ok")
           \/ /\ deployed'[t] = runs[i].version
              /\ runs[i][t] = "running" /\ ~Over(runs[i])
<1> SUFFICES \E new : P(new)
  <2>1. PICK new : P(new)
    OBVIOUS
  <2> QED BY <2>1, OneRun
<1>0. runs[i] \in Runs
  BY RunType
<1>1. CASE Detect(i)
  <2> DEFINE new == [runs[i] EXCEPT !.detected = "yes",
                                    !.plan = Detected(runs[i])]
  <2>1. new \in Runs /\ runs' = [runs EXCEPT ![i] = new]
        /\ UNCHANGED <<main, deployed>>
    BY <1>1, DetectedType DEF Detect
  <2>2. /\ new.version = runs[i].version /\ new.input = runs[i].input
        /\ new.beside = runs[i].beside
        /\ new.site = runs[i].site /\ new.docker = runs[i].docker
    BY <1>0 DEF Runs
  <2> HIDE DEF new
  <2> QED BY <2>1, <2>2 DEF Over, Targets
<1>2. CASE DetectFails(i)
  <2> DEFINE new == [runs[i] EXCEPT !.detected = "failed"]
  <2>1. new \in Runs /\ runs' = [runs EXCEPT ![i] = new]
        /\ UNCHANGED <<main, deployed>>
    BY <1>2, RunTypes, JobEffects DEF DetectFails
  <2>2. Changes(runs[i], new, "detected")
    BY <1>0, RunFields
  <2> HIDE DEF new
  <2> QED BY <2>1, <2>2 DEF Over, Targets, Changes
<1>3. CASE StartSite(i)
  <2>1. PICK s \in {"running", "skipped"} :
          runs' = [runs EXCEPT ![i] = [runs[i] EXCEPT !.site = s]]
    BY <1>3, JobEffects
  <2> DEFINE new == [runs[i] EXCEPT !.site = s]
  <2>2. new \in Runs /\ runs' = [runs EXCEPT ![i] = new]
        /\ UNCHANGED <<main, deployed>>
    BY <1>3, <2>1, RunTypes DEF JobStates, StartSite
  <2>3. Changes(runs[i], new, "site") /\ new.site = s
    BY <1>0, RunFields
  <2> HIDE DEF new
  <2> QED BY <2>2, <2>3 DEF Over, Targets, Changes
<1>4. CASE StartDocker(i)
  <2>1. PICK s \in {"running", "skipped"} :
          runs' = [runs EXCEPT ![i] = [runs[i] EXCEPT !.docker = s]]
    BY <1>4, JobEffects
  <2> DEFINE new == [runs[i] EXCEPT !.docker = s]
  <2>2. new \in Runs /\ runs' = [runs EXCEPT ![i] = new]
        /\ UNCHANGED <<main, deployed>> /\ runs[i].docker = "waiting"
    BY <1>4, <2>1, RunTypes DEF JobStates, StartDocker
  <2>3. Changes(runs[i], new, "docker") /\ new.docker = s
    BY <1>0, RunFields
  <2> HIDE DEF new
  <2>4. ~Over(runs[i])
    BY <2>2 DEF Over
  <2>5. new["site"] = runs[i]["site"] /\ new["docker"] # "ok"
    BY <2>1, <2>3 DEF Changes
  <2>6. \A t \in Targets : new[t] = "ok" => runs[i][t] = "ok"
    BY <2>5 DEF Targets
  <2> QED BY <2>2, <2>3, <2>4, <2>6 DEF Changes
<1>5. CASE JobSucceeds(i, "site") \/ JobFails(i, "site")
  <2>1. PICK s \in {"ok", "failed"} :
          /\ runs' = [runs EXCEPT ![i] = [runs[i] EXCEPT !.site = s]]
          /\ s = "ok" => deployed' = [deployed EXCEPT !["site"] = runs[i].version]
          /\ s = "failed" => deployed' = deployed
    BY <1>5, JobEffects DEF JobSucceeds, JobFails
  <2> DEFINE new == [runs[i] EXCEPT !.site = s]
  <2>2. new \in Runs /\ runs' = [runs EXCEPT ![i] = new]
        /\ main' = main /\ runs[i].site = "running" /\ runs[i].docker = "waiting"
    BY <1>5, <2>1, RunTypes
    DEF JobStates, JobSucceeds, JobFails, JobsInOrder, InOrder
  <2>3. Changes(runs[i], new, "site") /\ new.site = s
    BY <1>0, RunFields
  <2> HIDE DEF new
  <2>4. ~Over(runs[i])
    BY <2>2 DEF Over
  <2>5. /\ new["docker"] = runs[i]["docker"] /\ new["site"] = s
        /\ runs[i]["site"] = "running"
    BY <2>2, <2>3 DEF Changes
  <2>6. /\ deployed'["docker"] = deployed["docker"]
        /\ deployed'["site"] = IF s = "ok" THEN runs[i].version
                             ELSE deployed["site"]
    BY <2>1 DEF TypeOK, Targets
  <2>7. \A t \in Targets :
          \/ deployed'[t] = deployed[t] /\ (new[t] = "ok" => runs[i][t] = "ok")
          \/ deployed'[t] = runs[i].version /\ runs[i][t] = "running"
    BY <2>1, <2>5, <2>6 DEF Targets
  <2> QED BY <2>2, <2>3, <2>4, <2>7 DEF Changes
<1>6. CASE JobSucceeds(i, "docker") \/ JobFails(i, "docker")
  <2>1. PICK s \in {"ok", "failed"} :
          /\ runs' = [runs EXCEPT ![i] = [runs[i] EXCEPT !.docker = s]]
          /\ s = "ok" => deployed' = [deployed EXCEPT !["docker"] = runs[i].version]
          /\ s = "failed" => deployed' = deployed
    BY <1>6, JobEffects DEF JobSucceeds, JobFails
  <2> DEFINE new == [runs[i] EXCEPT !.docker = s]
  <2>2. new \in Runs /\ runs' = [runs EXCEPT ![i] = new]
        /\ main' = main /\ runs[i].docker = "running"
    BY <1>6, <2>1, RunTypes DEF JobStates, JobSucceeds, JobFails
  <2>3. Changes(runs[i], new, "docker") /\ new.docker = s
    BY <1>0, RunFields
  <2> HIDE DEF new
  <2>4. ~Over(runs[i])
    BY <2>2 DEF Over
  <2>5. /\ new["site"] = runs[i]["site"] /\ new["docker"] = s
        /\ runs[i]["docker"] = "running"
    BY <2>2, <2>3 DEF Changes
  <2>6. /\ deployed'["site"] = deployed["site"]
        /\ deployed'["docker"] = IF s = "ok" THEN runs[i].version
                             ELSE deployed["docker"]
    BY <2>1 DEF TypeOK, Targets
  <2>7. \A t \in Targets :
          \/ deployed'[t] = deployed[t] /\ (new[t] = "ok" => runs[i][t] = "ok")
          \/ deployed'[t] = runs[i].version /\ runs[i][t] = "running"
    BY <2>1, <2>5, <2>6 DEF Targets
  <2> QED BY <2>2, <2>3, <2>4, <2>7 DEF Changes
<1> QED BY <1>1, <1>2, <1>3, <1>4, <1>5, <1>6 DEF Jobs, Targets

\* The step in which a run starts.
Starts == \E version \in Nat, from \in DOMAIN Inputs \cup {"push"} :
            /\ StartRun(version, from) /\ version = Len(main')
            /\ version >= Len(main)
            /\ \A j \in DOMAIN main : main'[j] = main[j]

\* A step starts a run, belongs to the jobs of one, or changes nothing.
LEMMA Steps ==
  ASSUME TypeOK, [Next]_vars
  PROVE  Starts \/ (\E i \in DOMAIN runs : Jobs(i)) \/ UNCHANGED vars
<1>0. Len(main) \in Nat
  BY LenProperties DEF TypeOK
<1>1. CASE Push
  <2>1. StartRun(Len(main'), "push")
    BY <1>1 DEF Push
  <2> DEFINE version == Len(main')
  <2>2. /\ version \in Nat /\ version >= Len(main)
        /\ \A j \in DOMAIN main : main'[j] = main[j]
    BY <1>0, <1>1, PushEffect
  <2> QED BY <2>1, <2>2 DEF Starts
<1>2. CASE Dispatch
  <2>1. PICK input \in DOMAIN Inputs : StartRun(Len(main), input) /\ main' = main
    BY <1>2 DEF Dispatch
  <2> QED BY <1>0, <2>1 DEF Starts
<1> QED BY <1>1, <1>2 DEF Next, Jobs

\* A mark changes nothing that the order of the runs rests on.
LEMMA MarkFields ==
  ASSUME NEW run \in Runs, NEW marked,
         marked = IF Over(run) THEN run ELSE [run EXCEPT !.beside = "another"]
  PROVE  /\ marked.version = run.version /\ marked.input = run.input
         /\ marked.beside = "nobody" => run.beside = "nobody" /\ Over(run)
         /\ Over(run) => Over(marked)
         /\ marked.site = run.site /\ marked.docker = run.docker
<1>1. CASE Over(run)
  BY <1>1
<1>2. CASE ~Over(run)
  BY <1>2 DEF Runs
<1> QED BY <1>1, <1>2

\* Every step keeps RunsInOrder.
LEMMA StepRuns ==
  TypeOK /\ JobsInOrder /\ RunsInOrder /\ [Next]_vars => RunsInOrder'
<1> SUFFICES ASSUME TypeOK, JobsInOrder, RunsInOrder, [Next]_vars
             PROVE  RunsInOrder'
  OBVIOUS
<1>0. /\ \A k \in DOMAIN runs : runs[k].version \in Nat
      /\ DOMAIN runs = 1..Len(runs) /\ Len(runs) \in Nat
      /\ Len(main) \in Nat
  BY RunType, LenProperties DEF TypeOK, Runs
<1>1. CASE Starts
  <2>1. PICK version \in Nat, from \in DOMAIN Inputs \cup {"push"} :
          StartRun(version, from) /\ version >= Len(main)
    BY <1>1 DEF Starts
  <2>2. /\ DOMAIN runs' = DOMAIN runs \cup {Len(runs')}
        /\ Len(runs') = Len(runs) + 1
        /\ \A k \in DOMAIN runs :
             runs'[k] = IF Over(runs[k]) THEN runs[k]
                        ELSE [runs[k] EXCEPT !.beside = "another"]
        /\ runs'[Len(runs')].version = version
        /\ runs'[Len(runs')].beside = IF Quiet THEN "nobody" ELSE "another"
    BY <2>1, StartRunEffect
  <2>3. \A k \in DOMAIN runs :
          /\ runs'[k].version = runs[k].version
          /\ runs'[k].beside = "nobody" => runs[k].beside = "nobody" /\ Over(runs[k])
          /\ Over(runs[k]) => Over(runs'[k])
    BY <2>2, RunType, MarkFields
  <2>4. \A k \in DOMAIN runs : runs[k].version <= version
    BY <1>0, <2>1 DEF JobsInOrder, InOrder
  <2> SUFFICES ASSUME NEW i \in DOMAIN runs', NEW k \in DOMAIN runs', i < k
               PROVE  /\ runs'[i].version <= runs'[k].version
                      /\ "nobody" \in {runs'[i].beside, runs'[k].beside}
                           => Over(runs'[i])
    BY DEF RunsInOrder, Over
  <2>5. i \in DOMAIN runs
    BY <1>0, <2>2
  <2>6. CASE k \in DOMAIN runs
    BY <2>3, <2>5, <2>6 DEF RunsInOrder
  <2>7. CASE k = Len(runs')
    BY <2>2, <2>3, <2>4, <2>5, <2>7 DEF Quiet
  <2> QED BY <2>2, <2>6, <2>7
<1>2. ASSUME NEW j \in DOMAIN runs, Jobs(j)
      PROVE  RunsInOrder'
  <2>1. /\ DOMAIN runs' = DOMAIN runs
        /\ \A k \in DOMAIN runs : /\ runs'[k].version = runs[k].version
                                  /\ runs'[k].beside = runs[k].beside
                                  /\ Over(runs[k]) => Over(runs'[k])
    BY <1>2, JobStep
  <2> QED BY <2>1 DEF RunsInOrder, Over
<1>3. CASE UNCHANGED vars
  BY <1>3 DEF vars, RunsInOrder, Over
<1> QED BY <1>1, <1>2, <1>3, Steps

\* Every step keeps NothingOlder: the runs that could deploy something older are
\* over.
LEMMA StepDeployed ==
  TypeOK /\ JobsInOrder /\ RunsInOrder /\ NothingOlder /\ [Next]_vars
    => NothingOlder'
<1> SUFFICES ASSUME TypeOK, JobsInOrder, RunsInOrder, NothingOlder, [Next]_vars
             PROVE  NothingOlder'
  OBVIOUS
<1>0. /\ \A k \in DOMAIN runs : runs[k].version \in Nat
      /\ DOMAIN runs = 1..Len(runs) /\ Len(runs) \in Nat
  BY RunType, LenProperties DEF TypeOK, Runs
<1> SUFFICES ASSUME NEW i \in DOMAIN runs', NEW t \in Targets,
                    runs'[i].beside = "nobody", runs'[i][t] = "ok"
             PROVE  deployed'[t] >= runs'[i].version
  BY DEF NothingOlder
<1>1. CASE Starts
  <2>1. PICK version \in Nat, from \in DOMAIN Inputs \cup {"push"} :
          StartRun(version, from)
    BY <1>1 DEF Starts
  <2>2. /\ DOMAIN runs' = DOMAIN runs \cup {Len(runs')}
        /\ \A k \in DOMAIN runs :
             runs'[k] = IF Over(runs[k]) THEN runs[k]
                        ELSE [runs[k] EXCEPT !.beside = "another"]
        /\ runs'[Len(runs')].site = "waiting"
        /\ runs'[Len(runs')].docker = "waiting"
    BY <2>1, StartRunEffect
  <2>3. runs'[Len(runs')][t] = "waiting"
    BY <2>2 DEF Targets
  <2>4. i \in DOMAIN runs
    BY <2>2, <2>3
  <2>5. runs'[i] = runs[i]
    BY <2>2, <2>4, RunType, MarkFields
  <2>6. deployed' = deployed
    BY <2>1 DEF StartRun
  <2> QED BY <2>4, <2>5, <2>6 DEF NothingOlder
<1>2. ASSUME NEW j \in DOMAIN runs, Jobs(j)
      PROVE  deployed'[t] >= runs'[i].version
  <2>1. /\ i \in DOMAIN runs
        /\ runs'[i].version = runs[i].version /\ runs'[i].beside = runs[i].beside
    BY <1>2, JobStep
  <2>2. CASE /\ deployed'[t] = deployed[t]
             /\ runs'[j][t] = "ok" => runs[j][t] = "ok"
    <3>1. runs[i][t] = "ok"
      BY <1>2, <2>1, <2>2, JobStep
    <3> QED BY <2>1, <2>2, <3>1 DEF NothingOlder
  <2>3. CASE deployed'[t] = runs[j].version /\ ~Over(runs[j])
    <3>1. ~(j < i)
      BY <2>1, <2>3 DEF RunsInOrder
    <3>2. runs[i].version <= runs[j].version
      BY <1>0, <2>1, <3>1 DEF RunsInOrder
    <3> QED BY <1>0, <2>1, <2>3, <3>2
  <2> QED BY <1>2, <2>2, <2>3, JobStep
<1>3. CASE UNCHANGED vars
  BY <1>3 DEF vars, NothingOlder
<1> QED BY <1>1, <1>2, <1>3, Steps

\* Every step keeps LastIsMain.
LEMMA StepLast ==
  TypeOK /\ JobsInOrder /\ LastIsMain /\ [Next]_vars => LastIsMain'
<1> SUFFICES ASSUME TypeOK, JobsInOrder, LastIsMain, [Next]_vars
             PROVE  LastIsMain'
  OBVIOUS
<1>0. /\ runs \in Seq(Runs) /\ DOMAIN runs = 1..Len(runs) /\ Len(runs) \in Nat
      /\ runs # <<>> => Len(runs) > 0
  BY LenProperties, EmptySeq DEF TypeOK
<1>1. CASE Starts
  <2>1. PICK version \in Nat, from \in DOMAIN Inputs \cup {"push"} :
          StartRun(version, from) /\ version = Len(main')
    BY <1>1 DEF Starts
  <2>2. runs'[Len(runs')].version = version
    BY <2>1, StartRunEffect
  <2> QED BY <2>1, <2>2 DEF LastIsMain
<1>2. ASSUME NEW j \in DOMAIN runs, Jobs(j)
      PROVE  LastIsMain'
  <2>1. /\ Len(runs') = Len(runs) /\ main' = main
        /\ \A k \in DOMAIN runs : runs'[k].version = runs[k].version
    BY <1>2, JobStep
  <2>2. runs # <<>> /\ Len(runs) \in DOMAIN runs
    BY <1>0
  <2> QED BY <2>1, <2>2 DEF LastIsMain
<1>3. CASE UNCHANGED vars
  BY <1>3 DEF vars, LastIsMain
<1> QED BY <1>1, <1>2, <1>3, Steps

-----------------------------------------------------------------------------
\* The sets of pushed and of started runs are finite.
LEMMA RunsAreFinite ==
  ASSUME TypeOK
  PROVE  /\ IsFiniteSet(DOMAIN runs) /\ Cardinality(DOMAIN runs) = Len(runs)
         /\ IsFiniteSet(Pushed) /\ IsFiniteSet(Dispatched)
         /\ Cardinality(Pushed) \in Nat /\ Cardinality(Dispatched) \in Nat
         /\ Cardinality(Pushed) + Cardinality(Dispatched) = Len(runs)
<1>1. Len(runs) \in Nat /\ DOMAIN runs = 1..Len(runs)
  BY LenProperties DEF TypeOK
<1>2. IsFiniteSet(DOMAIN runs) /\ Cardinality(DOMAIN runs) = Len(runs)
  <2>1. /\ IsFiniteSet(1..Len(runs))
        /\ Cardinality(1..Len(runs)) = IF 1 > Len(runs) THEN 0 ELSE Len(runs) - 1 + 1
    BY <1>1, FS_Interval
  <2> QED BY <1>1, <2>1
<1>3. Pushed \in SUBSET DOMAIN runs /\ Dispatched \in SUBSET DOMAIN runs
  BY DEF Pushed, Dispatched
<1>4. IsFiniteSet(Pushed) /\ IsFiniteSet(Dispatched)
  BY <1>2, <1>3, FS_Subset
<1>5. Cardinality(Pushed) \in Nat /\ Cardinality(Dispatched) \in Nat
  BY <1>4, FS_CardinalityType
<1>6. Pushed \cup Dispatched = DOMAIN runs /\ Pushed \cap Dispatched = {}
  BY DEF Pushed, Dispatched
<1>7. Cardinality(Pushed \cup Dispatched) =
        Cardinality(Pushed) + Cardinality(Dispatched) - 0
  BY <1>4, <1>6, FS_Union, FS_EmptySet
<1> QED BY <1>2, <1>4, <1>5, <1>6, <1>7

\* Every step keeps Bounded.
LEMMA StepBounded ==
  TypeOK /\ JobsInOrder /\ Bounded /\ [Next]_vars => Bounded'
<1> SUFFICES ASSUME TypeOK, JobsInOrder, Bounded, [Next]_vars PROVE Bounded'
  OBVIOUS
<1>0. Len(main) \in Nat
  BY LenProperties DEF TypeOK
<1>1. ASSUME NEW version \in Nat, NEW from \in DOMAIN Inputs \cup {"push"},
             StartRun(version, from)
      PROVE  /\ from = "push" => /\ Pushed' = Pushed \cup {Len(runs')}
                                /\ Dispatched' = Dispatched
             /\ from # "push" => /\ Pushed' = Pushed
                                /\ Dispatched' = Dispatched \cup {Len(runs')}
             /\ Len(runs') \notin Pushed \cup Dispatched
  <2>1. /\ DOMAIN runs' = DOMAIN runs \cup {Len(runs')}
        /\ Len(runs') \notin DOMAIN runs
        /\ \A k \in DOMAIN runs :
             runs'[k] = IF Over(runs[k]) THEN runs[k]
                        ELSE [runs[k] EXCEPT !.beside = "another"]
        /\ runs'[Len(runs')].input = from
    BY <1>1, StartRunEffect
  <2>2. \A k \in DOMAIN runs : runs'[k].input = runs[k].input
    BY <2>1, RunType, MarkFields
  <2> QED BY <2>1, <2>2 DEF Pushed, Dispatched
<1>2. CASE Push
  <2>1. /\ Len(main') \in Nat /\ Len(main') > Len(main)
        /\ Len(main') <= MaxCommits
    BY <1>2, PushEffect
  <2>2. Pushed' = Pushed \cup {Len(runs')} /\ Dispatched' = Dispatched
    BY <1>1, <1>2, <2>1 DEF Push
  <2>3. Cardinality(Pushed') <= Cardinality(Pushed) + 1
    <3>1. Cardinality(Pushed \cup {Len(runs')}) =
            IF Len(runs') \in Pushed THEN Cardinality(Pushed) ELSE Cardinality(Pushed) + 1
      BY RunsAreFinite, FS_AddElement
    <3>2. Cardinality(Pushed) \in Nat
      BY RunsAreFinite
    <3> QED BY <2>2, <3>1, <3>2
  <2>4. Cardinality(Pushed') \in Nat
    BY <2>2, RunsAreFinite, FS_AddElement, FS_CardinalityType
  <2> QED BY <1>0, <2>1, <2>2, <2>3, <2>4, RunsAreFinite DEF Bounded
<1>3. CASE Dispatch
  <2>1. PICK input \in DOMAIN Inputs : StartRun(Len(main), input)
    BY <1>3 DEF Dispatch
  <2>2. main' = main /\ input # "push" /\ Cardinality(Dispatched) < MaxDispatches
    BY <1>3, <2>1, PlansAreTargets DEF Dispatch
  <2>3. Pushed' = Pushed /\ Dispatched' = Dispatched \cup {Len(runs')}
    BY <1>0, <1>1, <2>1, <2>2
  <2>4. Cardinality(Dispatched') <= Cardinality(Dispatched) + 1
    <3>1. Cardinality(Dispatched \cup {Len(runs')}) =
            IF Len(runs') \in Dispatched THEN Cardinality(Dispatched) ELSE Cardinality(Dispatched) + 1
      BY RunsAreFinite, FS_AddElement
    <3>2. Cardinality(Dispatched) \in Nat
      BY RunsAreFinite
    <3> QED BY <2>3, <3>1, <3>2
  <2>5. Cardinality(Dispatched') \in Nat
    BY <2>3, RunsAreFinite, FS_AddElement, FS_CardinalityType
  <2> QED BY <2>2, <2>3, <2>4, <2>5, RunsAreFinite, DeployAssumption DEF Bounded
<1>4. ASSUME NEW j \in DOMAIN runs, Jobs(j)
      PROVE  Bounded'
  <2>1. /\ DOMAIN runs' = DOMAIN runs /\ main' = main
        /\ \A k \in DOMAIN runs : runs'[k].input = runs[k].input
    BY <1>4, JobStep
  <2>2. Pushed' = Pushed /\ Dispatched' = Dispatched
    BY <2>1 DEF Pushed, Dispatched
  <2> QED BY <2>1, <2>2 DEF Bounded
<1>5. CASE UNCHANGED vars
  BY <1>5 DEF vars, Bounded, Pushed, Dispatched
<1> QED BY <1>2, <1>3, <1>4, <1>5 DEF Next, Jobs

\* There are at most as many runs as commits and manual runs together.
LEMMA RunsBounded ==
  ASSUME TypeOK, Bounded
  PROVE  Len(runs) \in Nat /\ Len(runs) <= MaxCommits + MaxDispatches
<1>1. Len(main) \in Nat /\ Len(runs) \in Nat
  BY LenProperties DEF TypeOK
<1> QED BY <1>1, RunsAreFinite, DeployAssumption DEF Bounded

-----------------------------------------------------------------------------
\* A run that is over and has not failed has deployed all it found out it had to.
LEMMA PlannedIsDone ==
  ASSUME TypeOK, JobsInOrder, NEW r \in DOMAIN runs,
         Over(runs[r]), ~Failed(runs[r]), NEW t \in Targets,
         t \in Detected(runs[r])
  PROVE  runs[r][t] = "ok"
<1>1. InOrder(runs[r])
  BY DEF JobsInOrder
<1>2. /\ runs[r].detected \in {"no", "yes", "failed"}
      /\ runs[r].site \in JobStates /\ runs[r].docker \in JobStates
  BY RunType DEF Runs
<1>3. /\ runs[r].detected # "failed" /\ runs[r].site # "failed"
      /\ runs[r].docker \in {"ok", "skipped"}
  BY DEF Over, Failed
<1>4. runs[r].site \in {"ok", "skipped"} /\ runs[r].detected = "yes"
  BY <1>1, <1>2, <1>3 DEF InOrder, JobStates
<1>5. t \in runs[r].plan
  BY <1>1, <1>4 DEF InOrder
<1>6. CASE t = "site"
  BY <1>1, <1>4, <1>5, <1>6 DEF InOrder
<1>7. CASE t = "docker"
  BY <1>1, <1>3, <1>4, <1>5, <1>7 DEF InOrder
<1> QED BY <1>6, <1>7 DEF Targets

\* What it has deployed with nobody beside it is still at least as new.
LEMMA PlannedIsDeployed ==
  ASSUME TypeOK, DeployInv, NEW r \in DOMAIN runs,
         Over(runs[r]), ~Failed(runs[r]), runs[r].beside # "another",
         NEW t \in Targets, t \in Detected(runs[r])
  PROVE  deployed[t] >= runs[r].version
<1>1. runs[r][t] = "ok"
  BY PlannedIsDone DEF DeployInv
<1>2. runs[r].beside = "nobody"
  BY RunType DEF Runs
<1> QED BY <1>1, <1>2 DEF DeployInv, NothingOlder

\* The invariant gives the property.
LEMMA LostChangesFollow == TypeOK /\ DeployInv => LostChangeExplained
<1> SUFFICES ASSUME TypeOK, DeployInv,
                    NEW i \in DOMAIN main,
                    NEW t \in UsedBy[main[i]] \cap Filter[main[i]],
                    NEW r \in DOMAIN runs,
                    runs[r].input = "push", runs[r].version = i,
                    Over(runs[r]), ~Failed(runs[r]), runs[r].beside # "another"
             PROVE  deployed[t] >= i
  BY DEF LostChangeExplained
<1>1. Detected(runs[r]) = Filter[main[i]]
  BY DEF Detected
<1>2. main[i] \in Parts
  BY LenProperties, ElementOfSeq DEF TypeOK
<1>3. t \in Targets
  BY <1>2, PlansAreTargets
<1> QED BY <1>1, <1>3, PlannedIsDeployed

\* So does it with the manual runs.
LEMMA DispatchFollows == TypeOK /\ DeployInv => DispatchRepairs
<1> DEFINE last == runs[Len(runs)]
<1> SUFFICES ASSUME TypeOK, DeployInv, Quiet, runs # <<>>,
                    last.input = "all", ~Failed(last), last.beside # "another",
                    NEW t \in Targets
             PROVE  Current(t)
  BY DEF DispatchRepairs
<1>1. Len(runs) \in DOMAIN runs
  BY LenProperties, EmptySeq DEF TypeOK
<1>2. Detected(last) = Targets
  BY DEF Detected, Inputs
<1>3. deployed[t] >= last.version
  BY <1>1, <1>2, PlannedIsDeployed DEF Quiet
<1>4. last.version = Len(main)
  BY DEF DeployInv, LastIsMain
<1>5. DOMAIN main = 1..Len(main) /\ Len(main) \in Nat /\ deployed[t] \in Nat
  BY LenProperties DEF TypeOK
<1> QED BY <1>3, <1>4, <1>5 DEF Current

\* The initial state satisfies the invariant.
LEMMA InitDeploy == Init => DeployInv
<1> SUFFICES ASSUME Init PROVE DeployInv
  OBVIOUS
<1>1. DOMAIN runs = {} /\ Len(main) = 0
  BY EmptySeq DEF Init
<1>2. Pushed = {} /\ Dispatched = {}
  BY <1>1 DEF Pushed, Dispatched
<1>3. Bounded
  BY <1>1, <1>2, FS_EmptySet, DeployAssumption DEF Bounded
<1> QED
  BY <1>1, <1>3
  DEF Init, DeployInv, JobsInOrder, RunsInOrder, NothingOlder, LastIsMain

\* Every step keeps it.
LEMMA StepDeploy == TypeOK /\ DeployInv /\ [Next]_vars => TypeOK' /\ DeployInv'
  BY TypeStep, StepJobs, StepRuns, StepDeployed, StepLast, StepBounded DEF DeployInv

\* Every reachable state of the workflow has its type and satisfies the invariant.
THEOREM DeployInvariant == Spec => [](TypeOK /\ DeployInv)
  BY TypeInit, InitDeploy, StepDeploy, PTL DEF Spec

\* Every reachable state of the workflow has its type.
THEOREM DeployTypeCorrect == Spec => []TypeOK
  BY DeployInvariant, PTL

\* A change that a push brought to main last, and that the filter knows, is
\* deployed for good by the push's run, unless that run fails, is not over, or had
\* another beside it: for any number of commits, pushes and manual runs.
THEOREM LostChangesExplained == Spec => []LostChangeExplained
  BY DeployInvariant, LostChangesFollow, PTL

\* A manual run of "all" repairs whatever earlier runs have left undone.
THEOREM DispatchAllRepairs == Spec => []DispatchRepairs
  BY DeployInvariant, DispatchFollows, PTL
-----------------------------------------------------------------------------
\* The Gitea role inside the jobs.

\* The variables of the whole system.
allVars == <<vars, giteaVars>>

\* Every step of the jobs with their roles is a step of the workflow, or changes
\* nothing in it.
LEMMA StepImplements == [GiteaNext]_allVars => [Next]_vars
<1> SUFFICES ASSUME [GiteaNext]_allVars PROVE [Next]_vars
  OBVIOUS
<1>1. CASE Workflow
  <2>1. ASSUME NEW i \in DOMAIN runs,
               JobSucceeds(i, "site") \/ JobFails(i, "site")
        PROVE  Next
    BY <2>1 DEF Next, Targets
  <2> QED BY <1>1, <2>1 DEF Workflow, Next
<1>2. CASE EntryGoes
  BY <1>2 DEF EntryGoes
<1>3. ASSUME NEW i \in DOMAIN runs, Role(i)
      PROVE  UNCHANGED vars
  BY <1>3 DEF Role, CheckDb, SeedDb, FetchDb, DeployPostgres, DeployGitea,
              CheckToken, DeleteToken, GenerateToken, StoreToken
<1>4. ASSUME NEW i \in DOMAIN runs, DockerSucceeds(i) \/ DockerFails(i)
      PROVE  Next
  BY <1>4 DEF DockerSucceeds, DockerFails, Next, Targets
<1>5. CASE UNCHANGED allVars
  BY <1>5 DEF allVars
<1> QED BY <1>1, <1>2, <1>3, <1>4, <1>5 DEF GiteaNext

\* The jobs with the tasks of the role in them implement the deployment workflow,
\* whose properties hold of them too.
THEOREM GiteaImplementsDeploy == GiteaSpec => Spec
<1>1. GiteaInit => Init
  BY DEF GiteaInit
<1> QED BY <1>1, StepImplements, PTL DEF GiteaSpec, Spec, allVars

-----------------------------------------------------------------------------
\* One element more makes a set larger by one at most.
LEMMA AddBound ==
  ASSUME NEW S, NEW x, NEW n \in Int, IsFiniteSet(S), Cardinality(S) <= n
  PROVE  IsFiniteSet(S \cup {x}) /\ Cardinality(S \cup {x}) <= n + 1
<1>1. Cardinality(S) \in Nat
  BY FS_CardinalityType
<1>2. /\ IsFiniteSet(S \cup {x})
      /\ Cardinality(S \cup {x}) = IF x \in S THEN Cardinality(S)
                                    ELSE Cardinality(S) + 1
  BY FS_AddElement
<1> QED BY <1>1, <1>2

\* There is a number that nobody holds, because the job that draws it holds none.
LEMMA FreshExists ==
  ASSUME GiteaTypeOK, NEW i \in RunIds, task[i].holds = None,
         NEW a, NEW b, NEW c
  PROVE  \E n \in Secrets \ {None} : n \notin {a, b, c} \cup Held
<1> DEFINE others == RunIds \ {i}
           f == [k \in others |-> task[k].holds]
           T == {f[k] : k \in others}
           M == MaxCommits + MaxDispatches
<1>1. M \in Nat
  BY DeployAssumption
<1>2. IsFiniteSet(RunIds) /\ Cardinality(RunIds) = M
  <2>1. /\ IsFiniteSet(1..M)
        /\ Cardinality(1..M) = IF 1 > M THEN 0 ELSE M - 1 + 1
    BY <1>1, FS_Interval
  <2> QED BY <1>1, <2>1 DEF RunIds
<1>3. IsFiniteSet(others) /\ Cardinality(others) = M - 1
  BY <1>2, FS_RemoveElement
<1>4. f \in Surjection(others, T)
  BY DEF Surjection
<1>5. IsFiniteSet(T) /\ Cardinality(T) <= M - 1
  <2> HIDE DEF f, T, others
  <2> QED BY <1>3, <1>4, FS_Surjection
<1>6. Held \subseteq T \cup {None}
  BY DEF Held
<1> DEFINE used == ((T \cup {a}) \cup {b}) \cup {c}
<1> HIDE DEF T, others, f
<1>7. IsFiniteSet(used) /\ Cardinality(used) <= M + 2
  <2>1. M - 1 \in Int /\ M \in Int /\ M + 1 \in Int /\ (M - 1) + 1 = M
        /\ (M + 1) + 1 = M + 2
    BY <1>1
  <2> HIDE DEF M
  <2>2. IsFiniteSet(T \cup {a}) /\ Cardinality(T \cup {a}) <= (M - 1) + 1
    BY <1>5, <2>1, AddBound
  <2>3. /\ IsFiniteSet((T \cup {a}) \cup {b})
        /\ Cardinality((T \cup {a}) \cup {b}) <= M + 1
    BY <2>1, <2>2, AddBound
  <2>4. /\ IsFiniteSet(((T \cup {a}) \cup {b}) \cup {c})
        /\ Cardinality(((T \cup {a}) \cup {b}) \cup {c}) <= (M + 1) + 1
    BY <2>1, <2>3, AddBound
  <2> QED BY <2>1, <2>4
<1>8. Secrets \ {None} = 1..(M + 3)
  BY <1>1 DEF Secrets, None
<1>9. Cardinality(1..(M + 3)) = M + 3
  <2>1. Cardinality(1..(M + 3)) = IF 1 > M + 3 THEN 0 ELSE (M + 3) - 1 + 1
    BY <1>1, FS_Interval
  <2> QED BY <1>1, <2>1
<1> SUFFICES ASSUME Secrets \ {None} \subseteq used PROVE FALSE
  BY <1>6
<1>10. Cardinality(Secrets \ {None}) <= Cardinality(used)
  BY <1>7, FS_Subset
<1>11. Cardinality(used) \in Nat
  BY <1>7, FS_CardinalityType
<1> HIDE DEF used
<1>12. M + 3 <= Cardinality(used)
  BY <1>8, <1>9, <1>10
<1> QED BY <1>1, <1>7, <1>11, <1>12

\* What is drawn is a number.
LEMMA DrawnType ==
  ASSUME GiteaTypeOK, NEW i \in RunIds, task[i].holds = None,
         NEW a, NEW b, NEW c
  PROVE  Drawn({a, b, c} \cup Held) \in Secrets \ {None}
  BY FreshExists DEF Drawn

-----------------------------------------------------------------------------
\* The steps of the workflow leave a Docker job alone, or start it.
LEMMA WorkflowDocker ==
  ASSUME TypeOK, JobsInOrder, NEW i \in DOMAIN runs,
         \/ Detect(i) \/ DetectFails(i) \/ StartSite(i) \/ StartDocker(i)
         \/ JobSucceeds(i, "site") \/ JobFails(i, "site")
  PROVE  \/ runs'[i].docker = runs[i].docker
         \/ runs[i].docker = "waiting" /\ runs'[i].docker \in {"running", "skipped"}
<1>0. runs[i] \in Runs
  BY RunType
<1>1. CASE Detect(i)
  <2>1. runs' = [runs EXCEPT ![i] = [runs[i] EXCEPT
                   !.detected = "yes", !.plan = Detected(runs[i])]]
    BY <1>1, JobEffects
  <2> QED BY <1>0, <2>1 DEF Runs
<1>2. CASE DetectFails(i)
  <2>1. runs' = [runs EXCEPT ![i] = [runs[i] EXCEPT !.detected = "failed"]]
    BY <1>2, JobEffects
  <2> QED BY <1>0, <2>1 DEF Runs
<1>3. CASE StartSite(i)
  <2>1. PICK s \in {"running", "skipped"} :
          runs' = [runs EXCEPT ![i] = [runs[i] EXCEPT !.site = s]]
    BY <1>3, JobEffects
  <2> QED BY <1>0, <2>1 DEF Runs
<1>4. CASE StartDocker(i)
  <2>1. PICK s \in {"running", "skipped"} :
          runs' = [runs EXCEPT ![i] = [runs[i] EXCEPT !.docker = s]]
    BY <1>4, JobEffects
  <2> QED BY <1>0, <1>4, <2>1 DEF Runs, StartDocker
<1>5. CASE JobSucceeds(i, "site") \/ JobFails(i, "site")
  <2>1. PICK s \in {"ok", "failed"} :
          runs' = [runs EXCEPT ![i] = [runs[i] EXCEPT !.site = s]]
    BY <1>5, JobEffects
  <2> QED BY <1>0, <2>1 DEF Runs
<1> QED BY <1>1, <1>2, <1>3, <1>4, <1>5

\* What a step of the workflow does to the runs that matter to the role.
LEMMA WorkflowEffect ==
  ASSUME TypeOK, JobsInOrder, Workflow
  PROVE  \/ /\ Len(runs') = Len(runs) + 1
            /\ DOMAIN runs' = DOMAIN runs \cup {Len(runs')}
            /\ runs'[Len(runs')].docker = "waiting"
            /\ \A k \in DOMAIN runs : runs'[k].docker = runs[k].docker
         \/ /\ Len(runs') = Len(runs) /\ DOMAIN runs' = DOMAIN runs
            /\ \A k \in DOMAIN runs :
                 /\ runs'[k].beside = runs[k].beside
                 /\ \/ runs'[k].docker = runs[k].docker
                    \/ /\ runs[k].docker = "waiting"
                       /\ runs'[k].docker \in {"running", "skipped"}
<1>1. CASE Push \/ Dispatch
  <2>1. PICK version \in Nat, from \in DOMAIN Inputs \cup {"push"} :
          StartRun(version, from)
    <3>1. Len(main) \in Nat
      BY LenProperties DEF TypeOK
    <3>2. CASE Push
      BY <3>2, PushEffect DEF Push
    <3>3. CASE Dispatch
      BY <3>1, <3>3 DEF Dispatch
    <3> QED BY <1>1, <3>2, <3>3
  <2>2. /\ Len(runs') = Len(runs) + 1
        /\ DOMAIN runs' = DOMAIN runs \cup {Len(runs')}
        /\ runs'[Len(runs')].docker = "waiting"
        /\ \A k \in DOMAIN runs :
             runs'[k] = IF Over(runs[k]) THEN runs[k]
                        ELSE [runs[k] EXCEPT !.beside = "another"]
    BY <2>1, StartRunEffect
  <2> QED BY <2>2, RunType, MarkFields
<1>2. ASSUME NEW i \in DOMAIN runs,
             \/ Detect(i) \/ DetectFails(i) \/ StartSite(i) \/ StartDocker(i)
             \/ JobSucceeds(i, "site") \/ JobFails(i, "site")
      PROVE  /\ Len(runs') = Len(runs) /\ DOMAIN runs' = DOMAIN runs
             /\ \A k \in DOMAIN runs :
                  /\ runs'[k].beside = runs[k].beside
                  /\ \/ runs'[k].docker = runs[k].docker
                     \/ /\ runs[k].docker = "waiting"
                        /\ runs'[k].docker \in {"running", "skipped"}
  <2>1. Jobs(i)
    BY <1>2 DEF Jobs, Targets
  <2> QED BY <1>2, <2>1, JobStep, WorkflowDocker
<1> QED BY <1>1, <1>2 DEF Workflow

\* The end of a Docker job ends no other.
LEMMA DockerEnds ==
  ASSUME TypeOK, JobsInOrder, NEW i \in DOMAIN runs, NEW s \in {"ok", "failed"},
         \/ JobSucceeds(i, "docker") /\ s = "ok"
         \/ JobFails(i, "docker") /\ s = "failed"
  PROVE  /\ Len(runs') = Len(runs) /\ DOMAIN runs' = DOMAIN runs
         /\ runs'[i].docker = s /\ runs'[i].beside = runs[i].beside
         /\ \A k \in DOMAIN runs : k # i => runs'[k] = runs[k]
<1>1. Jobs(i)
  BY DEF Jobs, Targets
<1>2. runs'[i].docker = s
  <2>1. runs' = [runs EXCEPT ![i] = [runs[i] EXCEPT !.docker = s]]
    BY JobEffects
  <2> QED BY <2>1, RunType DEF Runs
<1> QED BY <1>1, <1>2, JobStep

\* The role is at work in a job that runs, and has a number of its own.
LEMMA RoleIsRunning ==
  ASSUME TypeOK, DeployInv, GiteaTypeOK, NEW i \in DOMAIN runs
  PROVE  /\ i \in RunIds
         /\ task[i].pc \in Pcs /\ task[i].holds \in Secrets
         /\ task[i].holds # None => task[i].pc \in {"postgres", "gitea", "store"}
         /\ Role(i) => runs[i].docker = "running" /\ UNCHANGED vars
<1>1. DOMAIN runs = 1..Len(runs)
  BY LenProperties DEF TypeOK
<1>2. i \in RunIds
  BY <1>1, RunsBounded, DeployAssumption DEF DeployInv, RunIds
<1>3. Role(i) => runs[i].docker = "running" /\ UNCHANGED vars
  BY DEF Role, At, CheckDb, SeedDb, FetchDb, DeployPostgres, DeployGitea,
         CheckToken, DeleteToken, GenerateToken, StoreToken
<1> QED BY <1>2, <1>3 DEF GiteaTypeOK

\* The initial state has its type.
LEMMA GiteaTypeInit == GiteaInit => GiteaTypeOK
<1>1. None \in Secrets /\ 0 \in 0..MaxLosses
  BY DeployAssumption, LossesAssumption DEF None, Secrets
<1>2. First \in [pc : Pcs, holds : Secrets] /\ First.holds = None
  BY <1>1 DEF First, Pcs
<1> QED BY <1>1, <1>2 DEF GiteaInit, GiteaTypeOK

\* Every step keeps the types, and a job that does not run holds nothing.
LEMMA GiteaTypeStep ==
  TypeOK /\ DeployInv /\ GiteaTypeOK /\ [GiteaNext]_allVars => GiteaTypeOK'
<1> SUFFICES ASSUME TypeOK, DeployInv, GiteaTypeOK, [GiteaNext]_allVars
             PROVE  GiteaTypeOK'
  OBVIOUS
<1> USE LossesAssumption
<1>0. JobsInOrder /\ None \in Secrets
  BY DeployAssumption DEF DeployInv, None, Secrets
<1>1. CASE Workflow
  <2>1. ASSUME NEW k \in DOMAIN runs, runs[k].docker = "running"
        PROVE  k \in DOMAIN runs' /\ runs'[k].docker = "running"
    BY <1>0, <1>1, <2>1, WorkflowEffect
  <2>2. UNCHANGED giteaVars
    BY <1>1 DEF Workflow
  <2>3. ASSUME NEW i \in RunIds, task'[i] # First
        PROVE  i \in DOMAIN runs' /\ runs'[i].docker = "running"
    <3>1. i \in DOMAIN runs /\ runs[i].docker = "running"
      BY <2>2, <2>3 DEF GiteaTypeOK, giteaVars
    <3> QED BY <2>1, <3>1
  <2> QED BY <2>2, <2>3 DEF GiteaTypeOK, giteaVars
<1>2. CASE EntryGoes
  BY <1>0, <1>2 DEF EntryGoes, GiteaTypeOK, vars
<1>3. ASSUME NEW i \in DOMAIN runs, Role(i)
      PROVE  GiteaTypeOK'
  <2>0. /\ i \in RunIds /\ task[i].holds \in Secrets
        /\ task[i].holds # None => task[i].pc \in {"postgres", "gitea", "store"}
        /\ runs[i].docker = "running" /\ runs' = runs
    BY <1>3, RoleIsRunning DEF vars
  <2>1. ASSUME NEW pc \in Pcs, NEW holds \in Secrets, Goto(i, pc, holds),
               holds # None => pc \in {"postgres", "gitea", "store"},
               {db', token', postgres', gitea', accepted'} \subseteq Secrets,
               losses' = losses, crossed' \in BOOLEAN
        PROVE  GiteaTypeOK'
    BY <2>0, <2>1 DEF GiteaTypeOK, Goto
  <2>2. CASE CheckDb(i)
    BY <1>0, <2>1, <2>2 DEF CheckDb, GiteaTypeOK, Pcs
  <2>3. CASE SeedDb(i)
    <3>1. Drawn({db, postgres, gitea} \cup Held) \in Secrets
      BY <2>0, <2>3, DrawnType DEF SeedDb, At
    <3> QED BY <1>0, <2>1, <2>3, <3>1 DEF SeedDb, GiteaTypeOK, Pcs
  <2>4. CASE FetchDb(i)
    BY <2>1, <2>4 DEF FetchDb, GiteaTypeOK, Pcs
  <2>5. CASE DeployPostgres(i)
    BY <2>0, <2>1, <2>5 DEF DeployPostgres, GiteaTypeOK, Pcs
  <2>6. CASE DeployGitea(i)
    BY <1>0, <2>0, <2>1, <2>6 DEF DeployGitea, GiteaTypeOK, Pcs
  <2>7. CASE CheckToken(i)
    BY <1>0, <2>1, <2>7 DEF CheckToken, GiteaTypeOK, Pcs, Window
  <2>8. CASE DeleteToken(i)
    BY <1>0, <2>1, <2>8 DEF DeleteToken, GiteaTypeOK, Pcs, Window
  <2>9. CASE GenerateToken(i)
    <3>1. {token, accepted} \cup Held = {token, accepted, accepted} \cup Held
      OBVIOUS
    <3>2. accepted' \in Secrets
      BY <2>0, <2>9, <3>1, DrawnType DEF GenerateToken, At
    <3> QED BY <2>1, <2>9, <3>2 DEF GenerateToken, GiteaTypeOK, Pcs, Window
  <2>10. CASE StoreToken(i)
    BY <1>0, <2>0, <2>1, <2>10 DEF StoreToken, GiteaTypeOK, Pcs
  <2> QED BY <1>3, <2>2, <2>3, <2>4, <2>5, <2>6, <2>7, <2>8, <2>9, <2>10 DEF Role
<1>4. ASSUME NEW i \in DOMAIN runs, DockerSucceeds(i) \/ DockerFails(i)
      PROVE  GiteaTypeOK'
  <2>1. /\ DOMAIN runs' = DOMAIN runs
        /\ \A k \in DOMAIN runs : k # i => runs'[k] = runs[k]
    BY <1>0, <1>4, DockerEnds DEF DockerSucceeds, DockerFails
  <2>2. EndTask(i)
    BY <1>4 DEF DockerSucceeds, DockerFails
  <2>3. i \in RunIds
    BY RoleIsRunning
  <2> QED BY <1>0, <2>1, <2>2, <2>3 DEF EndTask, GiteaTypeOK, First, Pcs
<1>5. CASE UNCHANGED allVars
  BY <1>5 DEF allVars, vars, giteaVars, GiteaTypeOK
<1> QED BY <1>1, <1>2, <1>3, <1>4, <1>5 DEF GiteaNext

-----------------------------------------------------------------------------
\* Every step keeps TokenInv: a job enters the window only when OpenBao has no
\* token, and the one that finds another in it is recorded.
LEMMA StepToken ==
  TypeOK /\ DeployInv /\ GiteaTypeOK /\ TokenInv /\ [GiteaNext]_allVars
    => TokenInv'
<1> SUFFICES ASSUME TypeOK, DeployInv, GiteaTypeOK, TokenInv,
                    [GiteaNext]_allVars
             PROVE  TokenInv'
  OBVIOUS
<1>0. task \in [RunIds -> [pc : Pcs, holds : Secrets]] /\ crossed \in BOOLEAN
  BY DEF GiteaTypeOK
<1> USE DEF TokenInv, InWindow, Window
<1>1. CASE Workflow
  BY <1>1 DEF Workflow, giteaVars
<1>2. CASE EntryGoes
  BY <1>2 DEF EntryGoes
<1>3. ASSUME NEW i \in DOMAIN runs, Role(i)
      PROVE  TokenInv'
  <2>0. i \in RunIds
    BY RoleIsRunning
  <2>1. CASE CheckDb(i)
    BY <1>0, <2>0, <2>1 DEF CheckDb, At, Goto
  <2>2. CASE SeedDb(i)
    BY <1>0, <2>0, <2>2 DEF SeedDb, At, Goto
  <2>3. CASE FetchDb(i)
    BY <1>0, <2>0, <2>3 DEF FetchDb, At, Goto
  <2>4. CASE DeployPostgres(i)
    BY <1>0, <2>0, <2>4 DEF DeployPostgres, At, Goto
  <2>5. CASE DeployGitea(i)
    BY <1>0, <2>0, <2>5 DEF DeployGitea, At, Goto
  <2>6. CASE CheckToken(i)
    BY <1>0, <2>0, <2>6 DEF CheckToken, At, Goto
  <2>7. CASE DeleteToken(i)
    BY <1>0, <2>0, <2>7 DEF DeleteToken, At, Goto
  <2>8. CASE GenerateToken(i)
    BY <1>0, <2>0, <2>8 DEF GenerateToken, At, Goto
  <2>9. CASE StoreToken(i)
    BY <1>0, <2>0, <2>9 DEF StoreToken, At, Goto
  <2> QED BY <1>3, <2>1, <2>2, <2>3, <2>4, <2>5, <2>6, <2>7, <2>8, <2>9 DEF Role
<1>4. ASSUME NEW i \in DOMAIN runs, DockerSucceeds(i) \/ DockerFails(i)
      PROVE  TokenInv'
  <2>1. EndTask(i) /\ i \in RunIds
    BY <1>4, RoleIsRunning DEF DockerSucceeds, DockerFails
  <2> QED BY <1>0, <2>1 DEF EndTask, First
<1>5. CASE UNCHANGED allVars
  BY <1>5 DEF allVars, giteaVars
<1> QED BY <1>1, <1>2, <1>3, <1>4, <1>5 DEF GiteaNext

\* A run with nobody beside it, and the last, is the only one that does anything.
LEMMA LastIsAlone ==
  ASSUME TypeOK, DeployInv, NEW i \in DOMAIN runs, runs[i].docker = "running",
         runs[Len(runs)].beside = "nobody"
  PROVE  i = Len(runs)
<1>1. DOMAIN runs = 1..Len(runs) /\ Len(runs) \in Nat
  BY LenProperties DEF TypeOK
<1>2. ~Over(runs[i])
  BY DEF Over
<1>3. ~(i < Len(runs))
  BY <1>1, <1>2 DEF DeployInv, RunsInOrder
<1> QED BY <1>1, <1>3

\* Every step keeps LastRunInv.
LEMMA StepLastRun ==
  TypeOK /\ DeployInv /\ GiteaTypeOK /\ TokenInv /\ LastRunInv
    /\ [GiteaNext]_allVars => LastRunInv'
<1> SUFFICES ASSUME TypeOK, DeployInv, GiteaTypeOK, TokenInv, LastRunInv,
                    [GiteaNext]_allVars
             PROVE  LastRunInv'
  OBVIOUS
<1>0. /\ task \in [RunIds -> [pc : Pcs, holds : Secrets]]
      /\ losses \in Nat /\ crossed \in BOOLEAN
  BY LossesAssumption DEF GiteaTypeOK
<1>a. /\ DOMAIN runs = 1..Len(runs) /\ Len(runs) \in Nat
      /\ runs # <<>> => Len(runs) \in DOMAIN runs
  BY LenProperties, EmptySeq DEF TypeOK
<1>1. CASE Workflow
  <2>1. UNCHANGED giteaVars
    BY <1>1 DEF Workflow
  <2>2. CASE runs'[Len(runs')].docker = "waiting"
    BY <2>2 DEF LastRunInv, At
  <2>3. CASE runs'[Len(runs')].docker = "skipped"
    BY <2>3 DEF LastRunInv, At
  <2>4. CASE /\ Len(runs') = Len(runs) /\ DOMAIN runs' = DOMAIN runs
             /\ \A k \in DOMAIN runs :
                  /\ runs'[k].beside = runs[k].beside
                  /\ \/ runs'[k].docker = runs[k].docker
                     \/ /\ runs[k].docker = "waiting"
                        /\ runs'[k].docker \in {"running", "skipped"}
    <3> DEFINE i == Len(runs)
    <3>1. SUFFICES ASSUME runs' # <<>>, runs'[i].beside = "nobody"
                   PROVE  LastRunInv'
      BY <2>4 DEF LastRunInv
    <3>2. runs # <<>> /\ i \in DOMAIN runs
      BY <1>a, <2>4, <3>1
    <3>3. runs[i].beside = "nobody"
      BY <2>4, <3>1, <3>2
    <3>4. CASE runs'[i].docker = runs[i].docker
      BY <2>1, <2>4, <3>2, <3>3, <3>4
      DEF LastRunInv, At, giteaVars, DbKept, TokenKept, Answers
    <3>5. CASE runs[i].docker = "waiting" /\ runs'[i].docker = "running"
      <4>a. i \in RunIds
        BY <3>2, RoleIsRunning
      <4>b. task[i] = First
        BY <3>5, <4>a DEF GiteaTypeOK
      <4>c. First.pc = "check db"
        BY DEF First
      <4>1. task[i].pc = "check db"
        BY <4>b, <4>c
      <4>2. task'[i].pc = "check db"
        BY <2>1, <4>1 DEF giteaVars
      <4> QED BY <2>4, <3>5, <4>2 DEF LastRunInv, At, Window
    <3> QED BY <2>3, <2>4, <3>2, <3>4, <3>5
  <2> QED BY <1>1, <2>2, <2>4, WorkflowEffect DEF DeployInv
<1>2. CASE EntryGoes
  <2>1. /\ losses' > 0 /\ token' = None /\ db' \in {db, None}
        /\ UNCHANGED <<runs, postgres, gitea, accepted, task, crossed>>
    BY <1>0, <1>2 DEF EntryGoes, vars
  <2>2. \A p : p # None /\ (db = p \/ (db = None /\ losses > 0))
                => p # None /\ (db' = p \/ (db' = None /\ losses' > 0))
    BY <2>1
  <2>3. TokenKept'
    BY <2>1 DEF TokenKept
  <2> QED BY <2>1, <2>2, <2>3 DEF LastRunInv, At, DbKept, Answers
<1>3. ASSUME NEW i \in DOMAIN runs, Role(i)
      PROVE  LastRunInv'
  <2>0. /\ i \in RunIds /\ runs' = runs /\ runs[i].docker = "running"
        /\ task[i].holds # None => task[i].pc \in {"postgres", "gitea", "store"}
    BY <1>3, RoleIsRunning DEF vars
  <2> SUFFICES ASSUME runs # <<>>, runs[Len(runs)].beside = "nobody"
               PROVE  LastRunInv'
    BY <2>0 DEF LastRunInv
  <2>a. i = Len(runs)
    BY <2>0, LastIsAlone
  <2> USE DEF LastRunInv, At, DbKept, TokenKept, Answers, Window, Goto
  <2>1. CASE CheckDb(i)
    BY <1>0, <2>0, <2>a, <2>1 DEF CheckDb
  <2>2. CASE SeedDb(i)
    BY <1>0, <2>0, <2>a, <2>2 DEF SeedDb
  <2>3. CASE FetchDb(i)
    BY <1>0, <2>0, <2>a, <2>3 DEF FetchDb
  <2>4. CASE DeployPostgres(i)
    BY <1>0, <2>0, <2>a, <2>4 DEF DeployPostgres
  <2>5. CASE DeployGitea(i)
    BY <1>0, <2>0, <2>a, <2>5 DEF DeployGitea
  <2>6. CASE CheckToken(i)
    BY <1>0, <2>0, <2>a, <2>6 DEF CheckToken, TokenInv
  <2>7. CASE DeleteToken(i)
    BY <1>0, <2>0, <2>a, <2>7 DEF DeleteToken
  <2>8. CASE GenerateToken(i)
    <3>1. {token, accepted} \cup Held = {token, accepted, accepted} \cup Held
      OBVIOUS
    <3>2. accepted' # None
      BY <2>0, <2>8, <3>1, DrawnType DEF GenerateToken
    <3> QED BY <1>0, <2>0, <2>a, <2>8, <3>2 DEF GenerateToken
  <2>9. CASE StoreToken(i)
    BY <1>0, <2>0, <2>a, <2>9 DEF StoreToken, TokenInv, InWindow
  <2> QED BY <1>3, <2>1, <2>2, <2>3, <2>4, <2>5, <2>6, <2>7, <2>8, <2>9 DEF Role
<1>4. ASSUME NEW i \in DOMAIN runs, DockerSucceeds(i) \/ DockerFails(i)
      PROVE  LastRunInv'
  <2>1. PICK s \in {"ok", "failed"} :
          \/ JobSucceeds(i, "docker") /\ s = "ok" /\ task[i].pc = "done"
          \/ JobFails(i, "docker") /\ s = "failed"
    BY <1>4 DEF DockerSucceeds, DockerFails, At
  <2>2. /\ Len(runs') = Len(runs) /\ DOMAIN runs' = DOMAIN runs
        /\ runs'[i].docker = s /\ runs'[i].beside = runs[i].beside
        /\ \A k \in DOMAIN runs : k # i => runs'[k] = runs[k]
    BY <2>1, DockerEnds DEF DeployInv
  <2>3. runs[i].docker = "running"
    BY <2>1 DEF JobSucceeds, JobFails
  <2> SUFFICES ASSUME runs' # <<>>, runs'[Len(runs)].beside = "nobody"
               PROVE  LastRunInv'
    BY <2>2 DEF LastRunInv
  <2>4. runs # <<>> /\ Len(runs) \in DOMAIN runs
    BY <1>a, <2>2
  <2>5. runs[Len(runs)].beside = "nobody"
    BY <2>2, <2>4
  <2>6. i = Len(runs)
    BY <2>3, <2>5, LastIsAlone
  <2>7. UNCHANGED <<db, token, postgres, gitea, accepted, losses, crossed>>
    BY <1>4 DEF DockerSucceeds, DockerFails, EndTask
  <2> QED BY <2>1, <2>2, <2>3, <2>4, <2>5, <2>6, <2>7
          DEF LastRunInv, At, DbKept, TokenKept, Answers
<1>5. CASE UNCHANGED allVars
  BY <1>5 DEF allVars, vars, giteaVars, LastRunInv, At, DbKept, TokenKept, Answers
<1> QED BY <1>1, <1>2, <1>3, <1>4, <1>5 DEF GiteaNext

-----------------------------------------------------------------------------
\* The initial state satisfies both invariants.
LEMMA GiteaInvInit == GiteaInit => TokenInv /\ LastRunInv
<1> SUFFICES ASSUME GiteaInit PROVE TokenInv /\ LastRunInv
  OBVIOUS
<1>1. First.pc = "check db"
  BY DEF First
<1>2. InWindow = {}
  BY <1>1 DEF GiteaInit, InWindow, Window
<1> QED BY <1>2 DEF GiteaInit, Init, TokenInv, LastRunInv

\* Every reachable state of the jobs with their roles has its type.
THEOREM GiteaTypeCorrect == GiteaSpec => []GiteaTypeOK
  BY GiteaTypeInit, GiteaTypeStep, GiteaImplementsDeploy, DeployInvariant, PTL
  DEF GiteaSpec, allVars

\* The token in OpenBao is the one Gitea accepts, whichever jobs fail between two
\* calls and whichever entries go, unless two jobs were replacing the token at the
\* same time: for any number of runs.
THEOREM StoredTokenIsAccepted == GiteaSpec => []StoredTokenAccepted
<1>1. TokenInv => StoredTokenAccepted
  BY DEF TokenInv, StoredTokenAccepted
<1> QED BY <1>1, GiteaInvInit, StepToken, GiteaTypeCorrect,
           GiteaImplementsDeploy, DeployInvariant, PTL DEF GiteaSpec, allVars

\* A job that succeeds, with no run beside it, leaves Gitea at work and the copies
\* of password and token in agreement, whatever the jobs before it have left.
THEOREM SuccessfulJobSettles == GiteaSpec => []SuccessSettles
<1>1. LastRunInv => SuccessSettles
  BY DEF LastRunInv, SuccessSettles
<1> QED BY <1>1, GiteaInvInit, StepToken, StepLastRun, GiteaTypeCorrect,
           GiteaImplementsDeploy, DeployInvariant, PTL DEF GiteaSpec, allVars
=============================================================================
