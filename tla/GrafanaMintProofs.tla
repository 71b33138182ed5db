------------------------- MODULE GrafanaMintProofs -------------------------
(***************************************************************************)
(* Proofs about GrafanaMint for every set of rotation Jobs, every          *)
(* backoffLimit and every bound, with every modelled failure allowed.      *)
(***************************************************************************)
EXTENDS GrafanaMint, FiniteSetTheorems, TLAPS

USE DEF NoToken

\* The constants have their types.
LEMMA BackoffNat == BackoffLimit \in Nat /\ MaxSyncs \in Nat /\ MaxKvDeletes \in Nat
  BY MintAssumption

\* The initial state has its type.
LEMMA TypeInit == Init => TypeOK
  BY BackoffNat DEF Init, TypeOK, Pcs, WindowPc

\* Every step keeps the types.
LEMMA TypeStep == TypeOK /\ [Next]_vars => TypeOK'
<1> SUFFICES ASSUME TypeOK, [Next]_vars PROVE TypeOK'
  OBVIOUS
<1> USE BackoffNat
<1> USE DEF TypeOK, Pcs, WindowPc, InWindow, Goto, Forget
<1>1. CASE Sync
  BY <1>1 DEF Sync, Jobs
<1>2. CASE DeleteKv
  BY <1>2 DEF DeleteKv
<1>3. ASSUME NEW j \in Jobs, Rotate(j) PROVE TypeOK'
  BY <1>3 DEF Rotate
<1>4. ASSUME NEW j \in Jobs, Fail(j) PROVE TypeOK'
  BY <1>4 DEF Fail, Exit1
<1>5. ASSUME NEW j \in Jobs, Script(j) PROVE TypeOK'
  <2>1. CASE Login(j) BY <2>1 DEF Login
  <2>2. CASE CheckExisting(j) BY <2>2 DEF CheckExisting
  <2>3. CASE FindAccount(j) BY <2>3 DEF FindAccount
  <2>4. CASE CreateAccount(j) BY <2>4 DEF CreateAccount, Exit1
  <2>5. CASE ListTokens(j) BY <2>5 DEF ListTokens, InWindow
  <2>6. CASE DeleteToken(j)
    <3>1. /\ UNCHANGED <<kv, issued, unlisted>>
          /\ \/ \E t \in ids[j] :
                   /\ live' = live \ {t}
                   /\ ids' = [ids EXCEPT ![j] = @ \ {t}]
                   /\ UNCHANGED <<pc, retries, broken, account, tok, disturbed,
                                  syncs, kvDeletes>>
             \/ Exit1(j) /\ UNCHANGED live
      BY <2>6 DEF DeleteToken
    <3>2. CASE Exit1(j) /\ UNCHANGED live
      BY <3>1, <3>2 DEF Exit1
    <3>3. ASSUME NEW t \in ids[j],
                 live' = live \ {t},
                 ids' = [ids EXCEPT ![j] = @ \ {t}],
                 UNCHANGED <<pc, retries, broken, account, tok, disturbed,
                             syncs, kvDeletes>>
          PROVE  TypeOK'
      BY <3>1, <3>3
    <3> QED BY <3>1, <3>2, <3>3
  <2>7. CASE DeletedAll(j) BY <2>7 DEF DeletedAll
  <2>8. CASE MintToken(j) BY <2>8 DEF MintToken, Exit1
  <2>9. CASE StoreToken(j) BY <2>9 DEF StoreToken, Exit1
  <2> QED BY <1>5, <2>1, <2>2, <2>3, <2>4, <2>5, <2>6, <2>7, <2>8, <2>9
          DEF Script
<1>6. CASE UNCHANGED vars
  BY <1>6 DEF vars
<1> QED BY <1>1, <1>2, <1>3, <1>4, <1>5, <1>6 DEF Next

\* Every reachable state of the mint Jobs has its type.
THEOREM TypeCorrect == Spec => []TypeOK
  BY TypeInit, TypeStep, PTL DEF Spec


-----------------------------------------------------------------------------
\* Every step keeps the invariant that explains a dead stored token.  What each
\* action can disturb: entering the window disturbs those who are in it, leaving
\* it without a store breaks the agreement, and only a deletion takes a token
\* away from a Job that is about to store it.
LEMMA StepIInv == TypeOK /\ IInv /\ [Next]_vars => IInv'
<1> SUFFICES ASSUME TypeOK, IInv, [Next]_vars PROVE IInv'
  OBVIOUS
<1>t. TypeOK'
  BY TypeStep
<1> USE <1>t DEF TypeOK, IInv, AloneInWindow, MintedTokenLive,
        DeadTokenExplained, Settled, InWindow, WindowPc, Goto, Forget
<1>1. CASE Sync
  BY <1>1 DEF Sync, Jobs
<1>2. CASE DeleteKv
  BY <1>2 DEF DeleteKv
<1>3. ASSUME NEW j \in Jobs, Rotate(j) PROVE IInv'
  BY <1>3 DEF Rotate
<1>4. ASSUME NEW j \in Jobs, Fail(j) PROVE IInv'
  BY <1>4 DEF Fail, Exit1
<1>5. ASSUME NEW j \in Jobs, Script(j) PROVE IInv'
  <2>1. CASE Login(j) BY <2>1 DEF Login
  <2>2. CASE CheckExisting(j) BY <2>2 DEF CheckExisting
  <2>3. CASE FindAccount(j) BY <2>3 DEF FindAccount
  <2>4. CASE CreateAccount(j) BY <2>4 DEF CreateAccount, Exit1
  <2>5. CASE ListTokens(j) BY <2>5 DEF ListTokens
  <2>6. CASE DeleteToken(j) BY <2>6 DEF DeleteToken, Exit1
  <2>7. CASE DeletedAll(j) BY <2>7 DEF DeletedAll
  <2>8. CASE MintToken(j) BY <2>8 DEF MintToken, Exit1
  <2>9. CASE StoreToken(j) BY <2>9 DEF StoreToken, Exit1
  <2> QED BY <1>5, <2>1, <2>2, <2>3, <2>4, <2>5, <2>6, <2>7, <2>8, <2>9
          DEF Script
<1>6. CASE UNCHANGED vars
  BY <1>6 DEF vars
<1> QED BY <1>1, <1>2, <1>3, <1>4, <1>5, <1>6 DEF Next

\* A stored token that Grafana does not accept is always the work of a Job that
\* was interrupted in its window or shared it.
THEOREM DeadTokensExplained == Spec => []DeadTokenExplained
<1>1. Init => IInv
  BY TypeInit DEF Init, IInv, AloneInWindow, MintedTokenLive,
     DeadTokenExplained, Settled, InWindow, WindowPc
<1>2. TypeOK /\ IInv /\ [Next]_vars => IInv'
  BY StepIInv
<1>3. IInv => DeadTokenExplained
  BY DEF IInv
<1> QED BY <1>1, <1>2, <1>3, TypeCorrect, PTL DEF Spec

-----------------------------------------------------------------------------
\* A step keeps what an undisturbed Job that has its listing knows about the
\* tokens Grafana accepts.
LEMMA StepRevoke == TypeOK /\ IInv /\ RevokeInv /\ [Next]_vars => RevokeInv'
<1> SUFFICES ASSUME TypeOK, IInv, RevokeInv, [Next]_vars PROVE RevokeInv'
  OBVIOUS
<1>t. TypeOK'
  BY TypeStep
<1> USE <1>t DEF TypeOK, IInv, AloneInWindow, RevokeInv, DeletesTheRest,
        OneLiveToken, Settled, InWindow, WindowPc, Goto, Forget
<1>1. CASE Sync
  BY <1>1 DEF Sync, Jobs
<1>2. CASE DeleteKv
  BY <1>2 DEF DeleteKv
<1>3. ASSUME NEW j \in Jobs, Rotate(j) PROVE RevokeInv'
  BY <1>3 DEF Rotate
<1>4. ASSUME NEW j \in Jobs, Fail(j) PROVE RevokeInv'
  BY <1>4 DEF Fail, Exit1
<1>5. ASSUME NEW j \in Jobs, Script(j) PROVE RevokeInv'
  <2>1. CASE Login(j) BY <2>1 DEF Login
  <2>2. CASE CheckExisting(j) BY <2>2 DEF CheckExisting
  <2>3. CASE FindAccount(j) BY <2>3 DEF FindAccount
  <2>4. CASE CreateAccount(j) BY <2>4 DEF CreateAccount, Exit1
  <2>5. CASE ListTokens(j) BY <2>5 DEF ListTokens
  <2>6. CASE DeleteToken(j) BY <2>6 DEF DeleteToken, Exit1
  <2>7. CASE DeletedAll(j) BY <2>7 DEF DeletedAll
  <2>8. CASE MintToken(j)
    <3>1. CASE Exit1(j)
      BY <2>8, <3>1 DEF MintToken, Exit1
    <3>2. CASE ~Exit1(j)
      <4>1. /\ live' = live \cup {issued + 1}
            /\ tok' = [tok EXCEPT ![j] = issued + 1]
            /\ pc' = [pc EXCEPT ![j] = "store"]
            /\ UNCHANGED <<ids, broken, disturbed, unlisted>>
        BY <2>8, <3>2 DEF MintToken
      <4>2. j \in InWindow /\ InWindow' = InWindow
        BY <2>8, <4>1 DEF MintToken
      <4>3. ASSUME NEW k \in Jobs \ disturbed, k # j PROVE k \notin InWindow
        BY <4>2, <4>3
      <4>4. j \notin disturbed \cup unlisted => live = {} /\ live' = {tok'[j]}
        BY <2>8, <4>1 DEF MintToken
      <4> QED BY <4>1, <4>2, <4>3, <4>4
    <3> QED BY <3>1, <3>2
  <2>9. CASE StoreToken(j) BY <2>9 DEF StoreToken, Exit1
  <2> QED BY <1>5, <2>1, <2>2, <2>3, <2>4, <2>5, <2>6, <2>7, <2>8, <2>9
          DEF Script
<1>6. CASE UNCHANGED vars
  BY <1>6 DEF vars
<1> QED BY <1>1, <1>2, <1>3, <1>4, <1>5, <1>6 DEF Next

\* A rotation that was alone, got its listing and got to the end has revoked
\* every older token.
THEOREM RotationRevokes == Spec => []OneLiveToken
<1>1. Init => IInv /\ RevokeInv
  BY TypeInit DEF Init, IInv, AloneInWindow, MintedTokenLive, RevokeInv,
     DeletesTheRest, OneLiveToken, DeadTokenExplained, Settled, InWindow, WindowPc
<1>2. TypeOK /\ IInv /\ RevokeInv /\ [Next]_vars => IInv' /\ RevokeInv'
  BY StepIInv, StepRevoke
<1>3. RevokeInv => OneLiveToken
  BY DEF RevokeInv
<1> QED BY <1>1, <1>2, <1>3, TypeCorrect, PTL DEF Spec

-----------------------------------------------------------------------------
\* Grafana numbers the tokens it issues, and a Job lists only such tokens.
Listings ==
    /\ live \subseteq 1..issued
    /\ \A j \in Jobs : ids[j] \subseteq 1..issued

LEMMA StepListings == TypeOK /\ Listings /\ [Next]_vars => Listings'
<1> SUFFICES ASSUME TypeOK, Listings, [Next]_vars PROVE Listings'
  OBVIOUS
<1> USE DEF TypeOK, Listings, Goto, Forget
<1>1. CASE Sync
  BY <1>1 DEF Sync, Jobs
<1>2. CASE DeleteKv
  BY <1>2 DEF DeleteKv
<1>3. ASSUME NEW j \in Jobs, Rotate(j) PROVE Listings'
  BY <1>3 DEF Rotate
<1>4. ASSUME NEW j \in Jobs, Fail(j) PROVE Listings'
  BY <1>4 DEF Fail, Exit1
<1>5. ASSUME NEW j \in Jobs, Script(j) PROVE Listings'
  <2>1. CASE Login(j) \/ CheckExisting(j) \/ FindAccount(j) \/ DeletedAll(j)
    BY <2>1 DEF Login, CheckExisting, FindAccount, DeletedAll
  <2>2. CASE CreateAccount(j) BY <2>2 DEF CreateAccount, Exit1
  <2>3. CASE ListTokens(j) BY <2>3 DEF ListTokens
  <2>4. CASE DeleteToken(j) BY <2>4 DEF DeleteToken, Exit1
  <2>5. CASE MintToken(j)
    <3>1. issued' = issued + 1 /\ live' = live \cup {issued + 1}
      BY <2>5 DEF MintToken
    <3>2. 1..issued \subseteq 1..issued' /\ issued + 1 \in 1..issued'
      BY <3>1
    <3>3. \A k \in Jobs : ids'[k] \subseteq ids[k]
      BY <2>5 DEF MintToken, Exit1
    <3> QED BY <3>1, <3>2, <3>3
  <2>6. CASE StoreToken(j) BY <2>6 DEF StoreToken, Exit1
  <2> QED BY <1>5, <2>1, <2>2, <2>3, <2>4, <2>5, <2>6 DEF Script
<1>6. CASE UNCHANGED vars
  BY <1>6 DEF vars
<1> QED BY <1>1, <1>2, <1>3, <1>4, <1>5, <1>6 DEF Next

\* A listing can be counted down.
LEMMA ListingCounts ==
  ASSUME TypeOK, Listings, NEW j \in Jobs
  PROVE  \A t \in ids[j] :
           /\ Cardinality(ids[j]) \in Nat
           /\ Cardinality(ids[j] \ {t}) = Cardinality(ids[j]) - 1
<1>1. ids[j] \subseteq 1..issued /\ issued \in Int
  BY DEF TypeOK, Listings
<1>2. IsFiniteSet(ids[j])
  BY <1>1, FS_Interval, FS_Subset
<1> QED BY <1>2, FS_RemoveElement, FS_CardinalityType

\* The stages of the script, in their order.
LEMMA Stages ==
  /\ StagesLeft["login"] = 8 /\ StagesLeft["check"] = 7
  /\ StagesLeft["find"] = 6 /\ StagesLeft["create"] = 5
  /\ StagesLeft["list"] = 4 /\ StagesLeft["delete"] = 3
  /\ StagesLeft["mint"] = 2 /\ StagesLeft["store"] = 1
  /\ StagesLeft["done"] = 0 /\ StagesLeft["failed"] = 0
BY DEF StagesLeft, Pcs, WindowPc

\* An attempt that fails is one of BackoffLimit, or the last.
LEMMA ExitIsCloser ==
  ASSUME TypeOK, NEW j \in Jobs, pc[j] \notin {"idle", "done", "failed"}, Exit1(j)
  PROVE  Closer(j)
<1>1. CASE retries[j] < BackoffLimit /\ retries'[j] = retries[j] + 1
  BY <1>1, BackoffNat DEF TypeOK, Closer
<1>2. CASE pc'[j] = "failed" /\ retries'[j] = retries[j]
  <2>1. StagesLeft[pc[j]] \in {1, 2, 3, 4, 5, 6, 7, 8}
    BY DEF TypeOK, Pcs, WindowPc, StagesLeft
  <2> QED BY <1>2, <2>1, Stages DEF Closer
<1> QED BY <1>1, <1>2, BackoffNat DEF Exit1, Goto, TypeOK

\* So is every step of the script forward.
LEMMA StepIsCloser ==
  ASSUME TypeOK, Listings, NEW j \in Jobs, Fail(j) \/ Script(j)
  PROVE  Closer(j)
<1> USE DEF TypeOK, Goto
<1>1. CASE Fail(j)
  BY <1>1, ExitIsCloser DEF Fail
<1>2. CASE Login(j) \/ CheckExisting(j) \/ FindAccount(j) \/ DeletedAll(j)
  <2>1. /\ retries'[j] = retries[j]
        /\ \/ pc[j] = "login" /\ pc'[j] = "check"
           \/ pc[j] = "check" /\ pc'[j] \in {"find", "done"}
           \/ pc[j] = "find" /\ pc'[j] \in {"list", "create"}
           \/ pc[j] = "delete" /\ pc'[j] = "mint"
    BY <1>2 DEF Login, CheckExisting, FindAccount, DeletedAll
  <2> QED BY <2>1, Stages DEF Closer
<1>3. CASE CreateAccount(j)
  <2>1. pc[j] = "create"
    BY <1>3 DEF CreateAccount
  <2>2. Exit1(j) \/ (pc'[j] = "list" /\ retries'[j] = retries[j])
    BY <1>3 DEF CreateAccount
  <2> QED BY <2>1, <2>2, ExitIsCloser, Stages DEF Closer
<1>4. CASE ListTokens(j)
  <2>1. pc[j] = "list" /\ pc'[j] = "delete" /\ retries'[j] = retries[j]
    BY <1>4 DEF ListTokens
  <2> QED BY <2>1, Stages DEF Closer
<1>5. CASE DeleteToken(j)
  <2>1. pc[j] = "delete"
    BY <1>5 DEF DeleteToken
  <2>2. PICK t \in ids[j] :
          \/ Exit1(j)
          \/ /\ ids' = [ids EXCEPT ![j] = @ \ {t}]
             /\ UNCHANGED <<pc, retries>>
    BY <1>5 DEF DeleteToken
  <2>3. CASE Exit1(j)
    BY <2>1, <2>3, ExitIsCloser
  <2>4. CASE ~Exit1(j)
    <3>1. ids'[j] = ids[j] \ {t} /\ pc'[j] = pc[j] /\ retries'[j] = retries[j]
      BY <2>2, <2>4
    <3>2. Cardinality(ids'[j]) < Cardinality(ids[j])
      BY <3>1, ListingCounts
    <3> QED BY <3>1, <3>2 DEF Closer
  <2> QED BY <2>3, <2>4
<1>6. CASE MintToken(j)
  <2>1. pc[j] = "mint"
    BY <1>6 DEF MintToken
  <2>2. Exit1(j) \/ (pc'[j] = "store" /\ retries'[j] = retries[j])
    BY <1>6 DEF MintToken
  <2> QED BY <2>1, <2>2, ExitIsCloser, Stages DEF Closer
<1>7. CASE StoreToken(j)
  <2>1. pc[j] = "store"
    BY <1>7 DEF StoreToken
  <2>2. Exit1(j) \/ (pc'[j] = "done" /\ retries'[j] = retries[j])
    BY <1>7 DEF StoreToken
  <2> QED BY <2>1, <2>2, ExitIsCloser, Stages DEF Closer
<1> QED BY <1>1, <1>2, <1>3, <1>4, <1>5, <1>6, <1>7 DEF Script

\* Nobody but j moves j, a sync of the hook apart.
LEMMA OthersLeaveAlone ==
  ASSUME TypeOK, [Next]_vars, NEW j \in Jobs, pc[j] # "idle",
         ~(j = Hook /\ Sync), ~(Fail(j) \/ Script(j))
  PROVE  UNCHANGED <<pc[j], ids[j], retries[j]>>
<1> USE DEF TypeOK, Goto, Forget
<1>1. CASE Sync
  BY <1>1 DEF Sync, Jobs
<1>2. CASE DeleteKv
  BY <1>2 DEF DeleteKv
<1>3. ASSUME NEW k \in Jobs, Rotate(k)
      PROVE  UNCHANGED <<pc[j], ids[j], retries[j]>>
  BY <1>3 DEF Rotate
<1>4. ASSUME NEW k \in Jobs, k # j, Fail(k)
      PROVE  UNCHANGED <<pc[j], ids[j], retries[j]>>
  BY <1>4 DEF Fail, Exit1
<1>5. ASSUME NEW k \in Jobs, k # j, Script(k)
      PROVE  UNCHANGED <<pc[j], ids[j], retries[j]>>
  BY <1>5 DEF Script, Login, CheckExisting, FindAccount, CreateAccount,
     ListTokens, DeleteToken, DeletedAll, MintToken, StoreToken, Exit1
<1>6. CASE UNCHANGED vars
  BY <1>6 DEF vars
<1> QED BY <1>1, <1>2, <1>3, <1>4, <1>5, <1>6 DEF Next

\* However many Jobs rotate beside it and whatever they delete, every step of a
\* Job brings it closer to its end, for every backoffLimit.
THEOREM EveryJobIsBounded == Spec => JobAdvances
<1>1. Init => Listings
  BY DEF Init, Listings
<1>2. TypeOK /\ Listings /\ [Next]_vars =>
        [ \A j \in Jobs :
            \/ pc[j] = "idle"
            \/ j = Hook /\ Sync
            \/ IF Fail(j) \/ Script(j) THEN Closer(j)
               ELSE UNCHANGED <<pc[j], ids[j], retries[j]>> ]_vars
  BY StepIsCloser, OthersLeaveAlone
<1> QED BY <1>1, <1>2, StepListings, TypeCorrect, PTL DEF Spec, JobAdvances

=============================================================================
