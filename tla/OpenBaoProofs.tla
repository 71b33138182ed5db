--------------------------- MODULE OpenBaoProofs ---------------------------
(***************************************************************************)
(* Proofs about OpenBao, for any number of pods and any bounds:            *)
(*   - every reachable state is well typed;                                *)
(*   - OpenBao is initialized once while openbao-0 keeps its volume;       *)
(*   - the key of the last store is kept unless a run dies in its window;  *)
(*   - an undisturbed run of the role opens and configures every pod, and  *)
(*     an undisturbed run of the playbook unseals every pod.               *)
(* All five follow from one inductive invariant, BaoInv.                   *)
(***************************************************************************)
EXTENDS OpenBao, FiniteSetTheorems, SequenceTheorems, TLAPS

-----------------------------------------------------------------------------
\* Sequences of pods.

\* The list of pods and its tail, over which the loops of the role go.
LEMMA PodFacts ==
  /\ PodList \in Seq(Pods) /\ PodList # <<>>
  /\ First \in Pods /\ First = Head(PodList)
  /\ Tail(PodList) \in Seq(Pods) /\ Tail(PodList) # <<>>
  /\ \A p \in Pods : In(p, PodList)
<1>1. PodList \in Seq(Pods) /\ Len(PodList) > 1
  BY PodsAssumption
<1>2. PodList # <<>> /\ First \in Pods /\ First = Head(PodList)
  BY <1>1 DEF First, Pods
<1>3. Tail(PodList) \in Seq(Pods) /\ Tail(PodList) # <<>>
  <2>1. /\ Len(PodList) \in Nat
        /\ Tail(PodList) \in Seq(Pods) /\ Len(Tail(PodList)) = Len(PodList) - 1
    BY <1>1, <1>2
  <2>2. Len(Tail(PodList)) # 0
    BY <1>1, <2>1
  <2> QED BY <2>1, <2>2
<1>4. \A p \in Pods : In(p, PodList)
  BY DEF Pods, In
<1> QED BY <1>1, <1>2, <1>3, <1>4

\* The head of a list is in it, and what is in it is its head or in its tail.
LEMMA InTail ==
  ASSUME NEW s \in Seq(Pods), s # <<>>
  PROVE  /\ Head(s) \in Pods /\ Tail(s) \in Seq(Pods)
         /\ In(Head(s), s)
         /\ \A p : In(p, s) <=> p = Head(s) \/ In(p, Tail(s))
<1>1. Len(s) \in Nat \ {0} /\ Head(s) = s[1] /\ Head(s) \in Pods
  OBVIOUS
<1>2. Tail(s) \in Seq(Pods) /\ Len(Tail(s)) = Len(s) - 1
      /\ \A i \in 1..Len(s) - 1 : Tail(s)[i] = s[i + 1]
  OBVIOUS
<1>3. DOMAIN s = 1..Len(s) /\ DOMAIN Tail(s) = 1..Len(s) - 1
  BY <1>2
<1>4. ASSUME NEW p, In(p, s)
      PROVE  p = Head(s) \/ In(p, Tail(s))
  <2>1. PICK i \in 1..Len(s) : s[i] = p
    BY <1>3, <1>4 DEF In
  <2>2. CASE i = 1
    BY <2>1, <2>2, <1>1
  <2>3. CASE i # 1
    <3>1. i - 1 \in 1..Len(s) - 1 /\ Tail(s)[i - 1] = p
      BY <2>1, <2>3, <1>1, <1>2
    <3> QED BY <3>1, <1>3 DEF In
  <2> QED BY <2>2, <2>3
<1>5. ASSUME NEW p, In(p, Tail(s))
      PROVE  In(p, s)
  <2>1. PICK i \in 1..Len(s) - 1 : Tail(s)[i] = p
    BY <1>3, <1>5 DEF In
  <2>2. i + 1 \in 1..Len(s) /\ s[i + 1] = p
    BY <2>1, <1>1, <1>2
  <2> QED BY <2>2, <1>3 DEF In
<1>6. In(Head(s), s)
  BY <1>1, <1>3 DEF In
<1> QED BY <1>1, <1>2, <1>4, <1>5, <1>6

\* Nothing is in the empty list.
LEMMA InEmpty == \A p : ~In(p, <<>>)
  BY DEF In

\* Appending a pod puts it in and keeps the others.
LEMMA InAppend ==
  ASSUME NEW s \in Seq(Pods), NEW q \in Pods
  PROVE  /\ Append(s, q) \in Seq(Pods) /\ Append(s, q) # <<>>
         /\ \A p : In(p, Append(s, q)) <=> In(p, s) \/ p = q
<1>1. /\ Append(s, q) \in Seq(Pods) /\ Len(Append(s, q)) = Len(s) + 1
      /\ Append(s, q)[Len(s) + 1] = q
      /\ \A i \in 1..Len(s) : Append(s, q)[i] = s[i]
  OBVIOUS
<1>2. Len(s) \in Nat /\ DOMAIN s = 1..Len(s)
      /\ DOMAIN Append(s, q) = 1..Len(s) + 1
  BY <1>1
<1>3. ASSUME NEW p, In(p, Append(s, q))
      PROVE  In(p, s) \/ p = q
  <2>1. PICK i \in 1..Len(s) + 1 : Append(s, q)[i] = p
    BY <1>2, <1>3 DEF In
  <2> QED BY <2>1, <1>1, <1>2 DEF In
<1>4. ASSUME NEW p, In(p, s)
      PROVE  In(p, Append(s, q))
  <2>1. PICK i \in 1..Len(s) : s[i] = p
    BY <1>2, <1>4 DEF In
  <2>2. i \in 1..Len(s) + 1 /\ Append(s, q)[i] = p
    BY <2>1, <1>1, <1>2
  <2> QED BY <2>2, <1>2 DEF In
<1>5. In(q, Append(s, q))
  BY <1>1, <1>2, Len(s) + 1 \in 1..Len(s) + 1 DEF In
<1> QED BY <1>1, <1>2, <1>3, <1>4, <1>5

\* The first of two lists' pods is in one of them.
LEMMA HeadOfBoth ==
  ASSUME NEW s \in Seq(Pods), NEW t \in Seq(Pods), s \o t # <<>>
  PROVE  /\ Head(s \o t) \in Pods
         /\ In(Head(s \o t), s) \/ In(Head(s \o t), t)
<1>1. s \o t \in Seq(Pods) /\ Len(s \o t) = Len(s) + Len(t)
      /\ Len(s \o t) > 0 /\ Head(s \o t) = (s \o t)[1] /\ Head(s \o t) \in Pods
  OBVIOUS
<1>2. CASE Len(s) > 0
  BY <1>1, <1>2, (s \o t)[1] = s[1], 1 \in DOMAIN s DEF In
<1>3. CASE Len(s) = 0
  BY <1>1, <1>3, (s \o t)[1] = t[1], 1 \in DOMAIN t DEF In
<1> QED BY <1>1, <1>2, <1>3, Len(s) \in Nat

-----------------------------------------------------------------------------
\* Majorities.

\* There are finitely many pods.
LEMMA PodsFinite == IsFiniteSet(Pods)
<1>1. Len(PodList) \in Nat /\ DOMAIN PodList = 1..Len(PodList)
  BY PodFacts
<1>2. IsFiniteSet(1..Len(PodList))
  BY <1>1, FS_Interval
<1>3. PodList \in Surjection(1..Len(PodList), Pods)
  <2>1. PodList \in [1..Len(PodList) -> Pods]
    BY <1>1, PodFacts
  <2> QED BY <2>1, <1>1 DEF Surjection, Pods
<1> QED BY <1>2, <1>3, FS_Surjection

\* The sums behind the next lemma.
LEMMA MoreVotes ==
  ASSUME NEW m \in Nat, NEW v \in Nat, NEW w \in Nat, 2 * v > m, v <= w
  PROVE  2 * w > m /\ 2 * (w + 1) > m + 1 /\ v # 0
  OBVIOUS

\* A majority stays one when more pods vote, and when a voter becomes a member.
LEMMA MajorityStays ==
  ASSUME NEW M \in SUBSET Pods, NEW V, NEW W, V \subseteq W,
         2 * Cardinality(M \cap V) > Cardinality(M)
  PROVE  /\ 2 * Cardinality(M \cap W) > Cardinality(M)
         /\ \A p \in W : 2 * Cardinality((M \cup {p}) \cap W) > Cardinality(M \cup {p})
         /\ V # {}
<1>1. IsFiniteSet(M) /\ IsFiniteSet(M \cap V) /\ IsFiniteSet(M \cap W)
  BY PodsFinite, FS_Subset, M \cap V \subseteq M, M \cap W \subseteq M
<1>2. /\ Cardinality(M) \in Nat /\ Cardinality(M \cap V) \in Nat
      /\ Cardinality(M \cap W) \in Nat
  BY <1>1, FS_CardinalityType
<1>3. Cardinality(M \cap V) <= Cardinality(M \cap W)
  BY <1>1, FS_Subset, M \cap V \subseteq M \cap W
<1>4. ASSUME NEW p \in W, p \notin M
      PROVE  /\ Cardinality(M \cup {p}) = Cardinality(M) + 1
             /\ Cardinality((M \cup {p}) \cap W) = Cardinality(M \cap W) + 1
  <2>1. (M \cup {p}) \cap W = (M \cap W) \cup {p}
    OBVIOUS
  <2>2. p \notin M \cap W
    BY <1>4
  <2> QED BY <1>1, <1>4, <2>1, <2>2, FS_AddElement
<1> DEFINE m == Cardinality(M)
           v == Cardinality(M \cap V)
           w == Cardinality(M \cap W)
<1>5. 2 * w > m /\ 2 * (w + 1) > m + 1 /\ v # 0
  <2>1. 2 * v > m
    OBVIOUS
  <2> HIDE DEF m, v, w
  <2> QED BY <2>1, <1>2, <1>3, MoreVotes DEF m, v, w
<1>6. ASSUME NEW p \in W
      PROVE  2 * Cardinality((M \cup {p}) \cap W) > Cardinality(M \cup {p})
  <2>1. CASE p \in M
    <3>1. M \cup {p} = M
      BY <2>1
    <3>2. (M \cup {p}) \cap W = M \cap W
      BY <3>1
    <3> QED BY <3>1, <3>2, <1>5
  <2>2. CASE p \notin M
    <3>1. Cardinality(M \cup {p}) = m + 1 /\ Cardinality((M \cup {p}) \cap W) = w + 1
      BY <2>2, <1>4
    <3> QED BY <3>1, <1>5
  <2> QED BY <2>1, <2>2
<1>7. V # {}
  <2>1. SUFFICES ASSUME V = {} PROVE FALSE
    OBVIOUS
  <2>2. M \cap V = {}
    BY <2>1
  <2>3. v = 0
    BY <2>2, FS_EmptySet
  <2> QED BY <2>3, <1>5
<1> QED BY <1>5, <1>6, <1>7

\* The same, for the members N that are left or made.
LEMMA MajorityOf ==
  ASSUME NEW M \in SUBSET Pods, NEW V, NEW W, V \subseteq W,
         NEW N, N = M \/ \E p \in W : N = M \cup {p},
         2 * Cardinality(M \cap V) > Cardinality(M)
  PROVE  2 * Cardinality(N \cap W) > Cardinality(N)
<1>1. CASE N = M
  BY <1>1, MajorityStays
<1>2. ASSUME NEW p \in W, N = M \cup {p}
      PROVE  2 * Cardinality(N \cap W) > Cardinality(N)
  <2>1. 2 * Cardinality((M \cup {p}) \cap W) > Cardinality(M \cup {p})
    BY MajorityStays
  <2> QED BY <2>1, <1>2
<1> QED BY <1>1, <1>2

-----------------------------------------------------------------------------
\* Steps of the raft.

\* What no step undoes, except a pod that stops.
Grows ==
  /\ up \subseteq up' /\ unsealed \subseteq unsealed' /\ leader \subseteq leader'
  /\ \A p \in Pods : data[p] # NoStore => data'[p] = data[p]
  /\ \A p \in Pods : Initialized(p) => Initialized(p)'

\* What all steps below do for the raft.
Advances ==
  /\ RaftOK' /\ Led' /\ Grows
  /\ Restorable /\ unseal'.key = unseal.key => Restorable'

\* A store with a leader is held by an unsealed pod; if all volumes are of the
\* store to restore, it is the only one with a leader.
LEMMA LeaderIsHeld ==
  ASSUME RaftOK, Led, NEW c \in leader, stores \in 0..MaxStores
  PROVE  /\ \E p \in Holding(c) : p \in unsealed
         /\ Restorable => c = unseal.key
<1>1. c \in Stores /\ c # NoStore /\ members[c] \in SUBSET Pods
  BY BoundsAssumption DEF RaftOK, Stores, NoStore
<1>2. 2 * Cardinality(members[c] \cap (Holding(c) \cap unsealed)) > Cardinality(members[c])
  BY DEF Led, HasMajority
<1>3. Holding(c) \cap unsealed # {}
  BY <1>1, <1>2, MajorityStays
<1>4. PICK p \in Holding(c) : p \in unsealed
  BY <1>3
<1>5. p \in Pods /\ data[p] = c
  BY <1>4 DEF Holding
<1> QED BY <1>1, <1>4, <1>5 DEF Restorable

\* A pod asks to join.
LEMMA JoinStep ==
  ASSUME RaftOK, Led, stores \in 0..MaxStores, stores' = stores,
         NEW p \in Pods, NEW q \in Pods, CanJoin(p, q), Join(p, q)
  PROVE  Advances
<1> USE DEF CanJoin, Join
<1>1. data[q] \in leader /\ data[q] # NoStore
  BY DEF RaftOK
<1>2. RaftOK'
  BY <1>1 DEF RaftOK
<1>3. Led'
  BY DEF Led, HasMajority, Holding
<1>4. Grows
  BY <1>1 DEF Grows, Initialized, RaftOK
<1>5. ASSUME Restorable, unseal'.key = unseal.key
      PROVE  Restorable'
  <2>1. \A r \in Pods : join'[r] \in {NoStore} \cup leader'
    BY <1>1, <1>5 DEF Restorable, RaftOK
  <2> QED BY <2>1, <1>5 DEF Restorable, HasMajority, Holding
<1> QED BY <1>2, <1>3, <1>4, <1>5 DEF Advances

\* A sealed pod is unsealed.
LEMMA OpenStep ==
  ASSUME RaftOK, Led, stores \in 0..MaxStores, stores' = stores,
         NEW p \in Pods \ unsealed, NEW c \in 0..stores,
         CanUnseal(p, c), Unseal(p, c)
  PROVE  Advances /\ p \in unsealed'
<1>0. /\ p \in up
      /\ data[p] = c \/ (data[p] = NoStore /\ join[p] = c /\ c \in leader)
      /\ unsealed' = unsealed \cup {p}
      /\ data' = [data EXCEPT ![p] = c]
      /\ join' = [join EXCEPT ![p] = NoStore]
      /\ members' = [members EXCEPT ![c] = @ \cup {p}]
      /\ up' = up /\ leader' = leader
  BY DEF CanUnseal, Unseal
<1>1. c \in Stores /\ c # NoStore
  BY BoundsAssumption DEF CanUnseal, Stores, NoStore
<1>2. /\ data' \in [Pods -> 0..stores] /\ join' \in [Pods -> 0..stores]
      /\ members' \in [Stores -> SUBSET Pods]
      /\ data'[p] = c /\ join'[p] = NoStore
      /\ \A r \in Pods \ {p} : data'[r] = data[r] /\ join'[r] = join[r]
      /\ members'[c] = members[c] \cup {p}
      /\ \A d \in Stores \ {c} : members'[d] = members[d]
  BY <1>0, <1>1 DEF RaftOK, NoStore
<1>3. data[p] \in {NoStore, c}
  BY <1>0
<1>4. RaftOK'
  BY <1>0, <1>1, <1>2 DEF RaftOK
<1>5. ASSUME NEW d \in Stores
      PROVE  /\ Holding(d) \subseteq Holding(d)'
             /\ members[d] \in SUBSET Pods
             /\ members'[d] = members[d] \/ (d = c /\ members'[d] = members[d] \cup {p})
  <2>1. d # NoStore
    BY DEF Stores, NoStore
  <2> QED BY <2>1, <1>2, <1>3 DEF Holding, RaftOK
<1>6. p \in Holding(c)'
  BY <1>2 DEF Holding
<1>7. ASSUME NEW d \in leader
      PROVE  HasMajority(d, Holding(d) \cap unsealed)'
  <2>1. d \in Stores
    BY BoundsAssumption DEF RaftOK, Stores
  <2>2. 2 * Cardinality(members[d] \cap (Holding(d) \cap unsealed)) > Cardinality(members[d])
    BY DEF Led, HasMajority
  <2>3. Holding(d) \cap unsealed \subseteq Holding(d)' \cap unsealed'
    BY <2>1, <1>0, <1>5
  <2>4. d = c => p \in Holding(d)' \cap unsealed'
    BY <1>0, <1>6
  <2> DEFINE V == Holding(d) \cap unsealed
             W == Holding(d)' \cap unsealed'
             M == members[d]
             N == members'[d]
  <2>5. M \in SUBSET Pods /\ (N = M \/ \E r \in W : N = M \cup {r})
    BY <2>1, <2>4, <1>5
  <2>6. 2 * Cardinality(M \cap V) > Cardinality(M) /\ V \subseteq W
    BY <2>2, <2>3
  <2> HIDE DEF V, W, M, N
  <2>7. 2 * Cardinality(N \cap W) > Cardinality(N)
    BY <2>5, <2>6, MajorityOf
  <2> QED BY <2>7 DEF HasMajority, N, W
<1>8. Led'
  BY <1>0, <1>7 DEF Led
<1>9. Grows
  BY <1>0, <1>1, <1>2, <1>3 DEF Grows, Initialized, RaftOK
<1>10. ASSUME Restorable, unseal'.key = unseal.key
       PROVE  Restorable'
  <2>1. c = unseal.key
    BY <1>0, <1>1, <1>10, LeaderIsHeld DEF Restorable
  <2>2. \A r \in Pods : data'[r] \in {NoStore, c} /\ join'[r] \in {NoStore} \cup leader'
    BY <2>1, <1>0, <1>2, <1>10 DEF Restorable
  <2>3. 2 * Cardinality(members[c] \cap Holding(c)) > Cardinality(members[c])
    BY <2>1, <1>10 DEF Restorable, HasMajority
  <2> DEFINE V == Holding(c)
             W == Holding(c)'
             M == members[c]
             N == members'[c]
  <2>4. M \in SUBSET Pods /\ (N = M \/ \E r \in W : N = M \cup {r})
    BY <1>1, <1>5, <1>6
  <2>5. 2 * Cardinality(M \cap V) > Cardinality(M) /\ V \subseteq W
    BY <2>3, <1>1, <1>5
  <2> HIDE DEF V, W, M, N
  <2>6. 2 * Cardinality(N \cap W) > Cardinality(N)
    BY <2>4, <2>5, MajorityOf
  <2>7. 2 * Cardinality(members'[c] \cap Holding(c)') > Cardinality(members'[c])
    BY <2>6 DEF N, W
  <2> QED BY <2>1, <2>2, <2>7, <1>0, <1>10 DEF Restorable, HasMajority
<1> QED BY <1>0, <1>4, <1>8, <1>9, <1>10 DEF Advances

\* A leader is elected.
LEMMA ElectStep ==
  ASSUME RaftOK, Led, stores \in 0..MaxStores, stores' = stores, unseal' = unseal,
         NEW c, Elect(c)
  PROVE  Advances
<1> USE DEF Elect
<1>1. RaftOK'
  BY DEF RaftOK
<1>2. Led'
  BY DEF Led, HasMajority, Holding
<1>3. Grows
  BY DEF Grows, Initialized
<1>4. Restorable => Restorable'
  BY DEF Restorable, HasMajority, Holding
<1> QED BY <1>1, <1>2, <1>3, <1>4 DEF Advances

\* A pod starts.
LEMMA StartStep ==
  ASSUME RaftOK, Led, stores' = stores, unseal' = unseal,
         NEW p \in Pods, PodStarts(p)
  PROVE  Advances
<1> USE DEF PodStarts
<1>1. RaftOK'
  BY DEF RaftOK, keys
<1>2. Led'
  BY DEF Led, HasMajority, Holding
<1>3. Grows
  BY DEF Grows, Initialized
<1>4. ~Restorable
  BY DEF Restorable
<1> QED BY <1>1, <1>2, <1>3, <1>4 DEF Advances

\* The raft stays as it is.
LEMMA SameStep ==
  ASSUME RaftOK, Led, stores' = stores, UNCHANGED raft
  PROVE  Advances
<1> USE DEF raft
<1>1. RaftOK'
  BY DEF RaftOK
<1>2. Led'
  BY DEF Led, HasMajority, Holding
<1>3. Grows
  BY DEF Grows, Initialized
<1>4. Restorable /\ unseal'.key = unseal.key => Restorable'
  BY DEF Restorable, HasMajority, Holding
<1> QED BY <1>1, <1>2, <1>3, <1>4 DEF Advances

\* A pod stops: what it led is led by others or by nobody.
LEMMA StopStep ==
  ASSUME RaftOK, Led, NEW p \in Pods, PodStops(p)
  PROVE  RaftOK' /\ Led'
<1> USE DEF PodStops
<1>1. /\ join' = [join EXCEPT ![p] = NoStore]
      /\ data' = data \/ data' = [data EXCEPT ![p] = NoStore]
      /\ up' = up \ {p} /\ unsealed' = unsealed \ {p} /\ leader' \subseteq leader
      /\ members' = members /\ stores' = stores
  BY DEF keys
<1>2. RaftOK'
  <2>1. data' \in [Pods -> 0..stores'] /\ join' \in [Pods -> 0..stores']
    BY <1>1 DEF RaftOK, NoStore
  <2>2. \A q \in unsealed' : data'[q] # NoStore
    BY <1>1 DEF RaftOK
  <2>3. \A q \in Pods : join'[q] # NoStore => q \in up' /\ data'[q] = NoStore
    BY <1>1 DEF RaftOK
  <2> QED BY <1>1, <2>1, <2>2, <2>3 DEF RaftOK
<1>3. ASSUME NEW c \in leader'
      PROVE  HasMajority(c, Holding(c) \cap unsealed)'
  <2>1. HasMajority(c, Holding(c) \cap unsealed')
    OBVIOUS
  <2>2. Holding(c)' \cap unsealed' = Holding(c) \cap unsealed'
    <3>1. \A q \in Pods \ {p} : data'[q] = data[q]
      BY <1>1 DEF RaftOK
    <3> QED BY <3>1, <1>1 DEF Holding
  <2> QED BY <2>1, <2>2, <1>1 DEF HasMajority
<1> QED BY <1>2, <1>3 DEF Led

\* A store is initialised: it has one member and no leader yet.
LEMMA InitStep ==
  ASSUME RaftOK, Led, stores \in 0..MaxStores, RunInit
  PROVE  RaftOK' /\ Led' /\ Grows
<1> USE DEF RunInit, Initialize, Initialized
<1>1. First \in Pods
  BY PodFacts
<1>2. stores' \in Stores /\ stores' = stores + 1 /\ stores \in Nat
  BY BoundsAssumption DEF Stores
<1>3. /\ data' \in [Pods -> 0..stores'] /\ join' \in [Pods -> 0..stores']
      /\ members' \in [Stores -> SUBSET Pods]
      /\ data'[First] = stores' /\ data[First] = NoStore
      /\ \A q \in Pods \ {First} : data'[q] = data[q]
      /\ \A d \in Stores \ {stores'} : members'[d] = members[d]
  BY <1>1, <1>2 DEF RaftOK
<1>4. RaftOK'
  BY <1>1, <1>2, <1>3 DEF RaftOK, NoStore
<1>5. ASSUME NEW c \in leader'
      PROVE  HasMajority(c, Holding(c) \cap unsealed)'
  <2>1. c \in leader /\ c \in 1..stores
    BY DEF RaftOK
  <2>2. members'[c] = members[c]
    BY <2>1, <1>2, <1>3 DEF Stores
  <2>3. Holding(c)' = Holding(c)
    BY <2>1, <1>2, <1>3 DEF Holding, NoStore
  <2>4. HasMajority(c, Holding(c) \cap unsealed)
    BY <2>1 DEF Led
  <2> QED BY <2>2, <2>3, <2>4 DEF HasMajority
<1>6. Grows
  BY <1>1, <1>3 DEF Grows
<1> QED BY <1>4, <1>5, <1>6 DEF Led

\* Every step that is neither a stop nor an init advances the raft.
\* The unseal of a pod, which may be open already.
LEMMA UnsealStep ==
  ASSUME RaftOK, Led, stores \in 0..MaxStores, stores' = stores,
         NEW p \in Pods, NEW c \in 0..stores, CanUnseal(p, c), Unseal(p, c)
  PROVE  Advances /\ p \in unsealed'
<1>1. CASE p \in unsealed
  <2>1. UNCHANGED raft
    BY <1>1 DEF Unseal
  <2>2. unsealed' = unsealed
    BY <2>1 DEF raft
  <2> QED BY <1>1, <2>1, <2>2, SameStep
<1>2. CASE p \notin unsealed
  BY <1>2, OpenStep
<1> QED BY <1>1, <1>2

LEMMA RaftStep ==
  ASSUME TypeOK, Led, LoopsHavePods, [Next]_vars
  PROVE  /\ RaftOK' /\ Led'
         /\ (\E p \in Pods : PodStops(p)) \/ RunInit \/ Advances
<1>1. RaftOK /\ stores \in 0..MaxStores /\ setup \in SetupRuns /\ unseal \in UnsealRuns
  BY DEF TypeOK
<1>2. First \in Pods
  BY PodFacts
<1>3. setup.key \in 0..stores /\ unseal.key \in 0..stores /\ unseal.target \in Pods
      /\ setup.todo \in Seq(Pods) /\ unseal.todo \in Seq(Pods)
  BY <1>1 DEF SetupRuns, UnsealRuns
<1>4. setup.pc \in {"join", "followers"} => Head(setup.todo) \in Pods
  BY <1>3, InTail DEF LoopsHavePods
<1>5. unseal.todo # <<>> => Head(unseal.todo) \in Pods
  BY <1>3, InTail
<1>6. ASSUME stores' = stores, UNCHANGED raft
      PROVE  Advances
  BY <1>1, <1>6, SameStep DEF TypeOK
<1>0. Advances => RaftOK' /\ Led'
  BY DEF Advances
<1>7. ASSUME NEW p \in Pods, PodStops(p) \/ PodStarts(p) \/ RetryJoin(p)
      PROVE  RaftOK' /\ Led' /\ (PodStops(p) \/ Advances)
  <2>1. CASE PodStops(p)
    BY <1>1, <2>1, StopStep
  <2>2. CASE PodStarts(p)
    <3>1. stores' = stores /\ unseal' = unseal
      BY <2>2 DEF PodStarts, keys
    <3>2. Advances
      BY <1>1, <2>2, <3>1, StartStep
    <3> QED BY <3>2 DEF Advances
  <2>3. CASE RetryJoin(p)
    <3>1. stores' = stores
      BY <2>3 DEF RetryJoin, keys
    <3>2. Advances
      BY <1>1, <2>3, <3>1, JoinStep DEF RetryJoin
    <3> QED BY <3>2 DEF Advances
  <2> QED BY <1>7, <2>1, <2>2, <2>3
<1>8. ASSUME NEW c \in Stores, Elect(c)
      PROVE  Advances
  BY <1>1, <1>8, ElectStep DEF Elect, keys
<1>9. CASE RecordKeys
  BY <1>0, <1>6, <1>9 DEF RecordKeys
<1>10. CASE Setup /\ ~RunInit
  <2>1. CASE UnsealFirst
    BY <1>0, <1>1, <1>2, <1>3, <2>1, UnsealStep DEF UnsealFirst, keys
  <2>2. CASE JoinFollower
    BY <1>0, <1>1, <1>2, <1>4, <1>6, <2>2, JoinStep DEF JoinFollower, keys
  <2>3. CASE UnsealFollower
    BY <1>0, <1>1, <1>3, <1>4, <2>3, UnsealStep DEF UnsealFollower, keys
  <2>4. CASE UNCHANGED raft /\ stores' = stores
    BY <2>4, <1>0, <1>6
  <2> QED BY <1>10, <2>1, <2>2, <2>3, <2>4
          DEF Setup, StartSetup, SetupFails, AwaitPod, CheckInitialized,
              SaveKeys, ReadKeys, CheckSeal, Configure, keys
<1>11. CASE UnsealPlaybook
  <2>1. CASE UnsealPod
    BY <1>0, <1>1, <1>3, <1>5, <1>6, <2>1, UnsealStep DEF UnsealPod, Attempt, keys
  <2>2. CASE JoinPod
    BY <1>0, <1>1, <1>3, <1>5, <1>6, <2>2, JoinStep DEF JoinPod, Attempt, keys
  <2>3. CASE UNCHANGED raft /\ stores' = stores
    BY <2>3, <1>0, <1>6
  <2> QED BY <1>11, <2>1, <2>2, <2>3
          DEF UnsealPlaybook, StartUnseal, UnsealFails, ListPods, Classify,
              PickLeader, LoopEnds, keys
<1>12. CASE UNCHANGED vars
  BY <1>12, <1>0, <1>6 DEF vars, raft
<1>13. CASE RunInit
  BY <1>1, <1>13, InitStep
<1> QED BY <1>0, <1>7, <1>8, <1>9, <1>10, <1>11, <1>12, <1>13 DEF Next, Setup

-----------------------------------------------------------------------------
\* Types.

\* The next item of a loop of the role, or the next task.
LEMMA SetupNextRun ==
  ASSUME setup \in SetupRuns, setup.todo # <<>>,
         NEW go \in SetupPcs, NEW t \in Seq(Pods), SetupNext(go, t)
  PROVE  /\ setup' \in SetupRuns
         /\ setup'.out = setup.out /\ setup'.key = setup.key
         /\ setup'.calm = setup.calm
         /\ \/ /\ Tail(setup.todo) = <<>>
               /\ setup'.pc = go /\ setup'.todo = t
            \/ /\ Tail(setup.todo) # <<>>
               /\ setup'.pc = setup.pc /\ setup'.todo = Tail(setup.todo)
<1>1. setup.todo \in Seq(Pods) /\ Tail(setup.todo) \in Seq(Pods)
  BY InTail DEF SetupRuns
<1> QED BY <1>1 DEF SetupNext, SetupRuns

\* What the role knows stays well typed, and its loops have pods.
LEMMA SetupTypeStep ==
  ASSUME TypeOK, LoopsHavePods, [Next]_vars
  PROVE  setup' \in SetupRuns' /\ LoopsHavePods'
<1>1. /\ setup \in SetupRuns /\ stores \in Nat /\ stores' \in Nat
      /\ initFile \in 0..stores /\ vault \in 0..stores /\ setup.todo \in Seq(Pods)
      /\ PodList \in Seq(Pods) /\ PodList # <<>>
      /\ Tail(PodList) \in Seq(Pods) /\ Tail(PodList) # <<>>
      /\ <<>> \in Seq(Pods) /\ NoStore \in 0..stores
  <2>1. stores \in Nat
    BY BoundsAssumption DEF TypeOK
  <2>2. stores' = stores \/ stores' = stores + 1
    BY DEF Next, vars, PodStops, PodStarts, RetryJoin, Elect, RecordKeys, Setup,
           StartSetup, SetupFails, AwaitPod, CheckInitialized, RunInit, Initialize,
           SaveKeys, ReadKeys, UnsealFirst, JoinFollower, UnsealFollower,
           CheckSeal, Configure, UnsealPlaybook, StartUnseal, UnsealFails,
           ListPods, Classify, UnsealPod, PickLeader, JoinPod, LoopEnds, keys
  <2> QED BY <2>1, <2>2, PodFacts DEF TypeOK, SetupRuns, NoStore
<1>2. ASSUME setup' = setup, stores' = stores
      PROVE  setup' \in SetupRuns' /\ LoopsHavePods'
  BY <1>1, <1>2 DEF SetupRuns, LoopsHavePods
<1>3. ASSUME NEW go \in SetupPcs, NEW t \in Seq(Pods), SetupNext(go, t),
             setup.pc \in {"await", "join", "followers"}, stores' = stores,
             go \in {"await", "join", "followers"} => t # <<>>
      PROVE  setup' \in SetupRuns' /\ LoopsHavePods'
  <2>1. setup.todo # <<>>
    BY <1>3 DEF LoopsHavePods
  <2>2. /\ setup' \in SetupRuns
        /\ \/ setup'.pc = go /\ setup'.todo = t
           \/ setup'.pc = setup.pc /\ setup'.todo # <<>>
    BY <1>1, <1>3, <2>1, SetupNextRun
  <2>3. setup' \in SetupRuns'
    BY <1>3, <2>2 DEF SetupRuns
  <2> QED BY <1>3, <2>2, <2>3 DEF LoopsHavePods
<1>4. ASSUME NEW p \in Pods, PodStops(p) \/ PodStarts(p) \/ RetryJoin(p)
      PROVE  setup' \in SetupRuns' /\ LoopsHavePods'
  BY <1>1, <1>2, <1>4 DEF PodStops, PodStarts, RetryJoin, keys, SetupRuns, LoopsHavePods
<1>5. ASSUME NEW c \in Stores, Elect(c)
      PROVE  setup' \in SetupRuns' /\ LoopsHavePods'
  BY <1>2, <1>5 DEF Elect, keys
<1>6. CASE RecordKeys
  BY <1>2, <1>6 DEF RecordKeys
<1>7. CASE StartSetup
  BY <1>1, <1>7 DEF StartSetup, keys, SetupRuns, SetupPcs, LoopsHavePods
<1>8. CASE SetupFails
  BY <1>1, <1>8 DEF SetupFails, keys, SetupRuns, SetupPcs, LoopsHavePods
<1>9. CASE AwaitPod
  BY <1>1, <1>3, <1>9, "status" \in SetupPcs DEF AwaitPod, keys, SetupPcs
<1>10. CASE CheckInitialized
  BY <1>1, <1>10 DEF CheckInitialized, SetupGoes, keys, SetupRuns, SetupPcs, LoopsHavePods
<1>11. CASE RunInit
  <2>1. stores' = stores + 1 /\ setup' = [setup EXCEPT !.pc = "save", !.out = stores']
    BY <1>11 DEF RunInit, Initialize
  <2>2. stores' \in 0..stores' /\ setup.key \in 0..stores' /\ setup.token \in 0..stores'
    BY <1>1, <2>1 DEF SetupRuns
  <2>3. setup' \in SetupRuns' /\ setup'.pc = "save"
    BY <1>1, <2>1, <2>2 DEF SetupRuns, SetupPcs
  <2> QED BY <2>3 DEF LoopsHavePods
<1>12. CASE SaveKeys
  BY <1>1, <1>12 DEF SaveKeys, SetupRuns, SetupPcs, LoopsHavePods
<1>13. CASE ReadKeys
  BY <1>1, <1>13 DEF ReadKeys, keys, SetupRuns, SetupPcs, LoopsHavePods
<1>14. CASE UnsealFirst
  BY <1>1, <1>14 DEF UnsealFirst, keys, SetupRuns, SetupPcs, LoopsHavePods
<1>15. CASE JoinFollower
  BY <1>1, <1>3, <1>15, "followers" \in SetupPcs DEF JoinFollower, keys, SetupPcs
<1>16. CASE UnsealFollower
  BY <1>1, <1>3, <1>16, "check" \in SetupPcs DEF UnsealFollower, keys, SetupPcs
<1>17. CASE CheckSeal \/ Configure
  BY <1>1, <1>17 DEF CheckSeal, Configure, SetupGoes, keys, SetupRuns, SetupPcs, LoopsHavePods
<1>18. CASE UnsealPlaybook
  BY <1>2, <1>18 DEF UnsealPlaybook, StartUnseal, UnsealFails, ListPods, Classify,
     UnsealPod, PickLeader, JoinPod, LoopEnds, keys
<1>19. CASE UNCHANGED vars
  BY <1>2, <1>19 DEF vars
<1> QED BY <1>4, <1>5, <1>6, <1>7, <1>8, <1>9, <1>10, <1>11, <1>12, <1>13,
           <1>14, <1>15, <1>16, <1>17, <1>18, <1>19 DEF Next, Setup

\* One item of a loop of the playbook.
LEMMA AttemptRun ==
  ASSUME unseal \in UnsealRuns, unseal.todo # <<>>,
         \/ unseal' = [unseal EXCEPT !.todo = Tail(@), !.calm = "no"]
         \/ unseal' = [unseal EXCEPT !.todo = Tail(@)]
  PROVE  /\ unseal' \in UnsealRuns
         /\ unseal'.todo = Tail(unseal.todo)
         /\ unseal'.pc = unseal.pc /\ unseal'.key = unseal.key
         /\ unseal'.whole = unseal.whole /\ unseal'.target = unseal.target
         /\ unseal'.sealed = unseal.sealed /\ unseal'.open = unseal.open
         /\ unseal'.fresh = unseal.fresh
         /\ unseal'.calm = "yes" => unseal.calm = "yes"
  BY InTail DEF UnsealRuns

\* A pod is classified: it goes into at most one of the lists.
LEMMA ClassifyRun ==
  ASSUME unseal \in UnsealRuns, Classify
  PROVE  /\ unseal' \in UnsealRuns
         /\ unseal' = [unseal EXCEPT !.todo = Tail(@), !.sealed = unseal'.sealed,
                                     !.open = unseal'.open, !.fresh = unseal'.fresh]
         /\ LET p == Head(unseal.todo)
                asks == p \in unseal.listed \cap up
            IN /\ unseal'.sealed = IF asks /\ Status(p) = "sealed"
                                   THEN Append(unseal.sealed, p) ELSE unseal.sealed
               /\ unseal'.open = IF asks /\ Status(p) = "open"
                                 THEN Append(unseal.open, p) ELSE unseal.open
               /\ unseal'.fresh = IF asks /\ Status(p) = "fresh"
                                  THEN Append(unseal.fresh, p) ELSE unseal.fresh
<1> DEFINE p == Head(unseal.todo)
           u == [unseal EXCEPT !.todo = Tail(@)]
<1>1. unseal.todo \in Seq(Pods) /\ unseal.todo # <<>>
  BY DEF UnsealRuns, Classify
<1>2. p \in Pods /\ Tail(unseal.todo) \in Seq(Pods)
  BY <1>1, InTail
<1>3. Append(unseal.sealed, p) \in Seq(Pods) /\ Append(unseal.open, p) \in Seq(Pods)
      /\ Append(unseal.fresh, p) \in Seq(Pods)
  BY <1>2, InAppend DEF UnsealRuns
<1>4. unseal' = IF p \in unseal.listed \cap up
                THEN [u EXCEPT ![Status(p)] = Append(@, p)] ELSE u
  BY DEF Classify
<1>5. Status(p) \in {"open", "sealed", "fresh"}
  BY DEF Status
<1> DEFINE st == Status(p)
<1> HIDE DEF st
<1>6. st \in {"open", "sealed", "fresh"}
      /\ unseal' = IF p \in unseal.listed \cap up
                   THEN [u EXCEPT ![st] = Append(@, p)] ELSE u
  BY <1>4, <1>5 DEF st
<1> HIDE DEF p
<1>7. CASE p \notin unseal.listed \cap up
  BY <1>2, <1>6, <1>7 DEF UnsealRuns, p, st
<1>8. CASE p \in unseal.listed \cap up /\ st = "open"
  <2>1. unseal' = [unseal EXCEPT !.todo = Tail(@), !.open = Append(@, p)]
    BY <1>6, <1>8 DEF UnsealRuns
  <2> QED BY <1>2, <1>3, <1>8, <2>1 DEF UnsealRuns, p, st
<1>9. CASE p \in unseal.listed \cap up /\ st = "sealed"
  <2>1. unseal' = [unseal EXCEPT !.todo = Tail(@), !.sealed = Append(@, p)]
    BY <1>6, <1>9 DEF UnsealRuns
  <2> QED BY <1>2, <1>3, <1>9, <2>1 DEF UnsealRuns, p, st
<1>10. CASE p \in unseal.listed \cap up /\ st = "fresh"
  <2>1. unseal' = [unseal EXCEPT !.todo = Tail(@), !.fresh = Append(@, p)]
    BY <1>6, <1>10 DEF UnsealRuns
  <2> QED BY <1>2, <1>3, <1>10, <2>1 DEF UnsealRuns, p, st
<1> QED BY <1>6, <1>7, <1>8, <1>9, <1>10

\* What the playbook knows stays well typed.
LEMMA UnsealTypeStep ==
  ASSUME TypeOK, [Next]_vars
  PROVE  unseal' \in UnsealRuns'
<1>1. /\ unseal \in UnsealRuns /\ stores \in Nat
      /\ vault \in 0..stores /\ unseal.todo \in Seq(Pods)
      /\ unseal.fresh \in Seq(Pods) /\ unseal.sealed \in Seq(Pods)
      /\ unseal.open \in Seq(Pods) /\ up \in SUBSET Pods
      /\ PodList \in Seq(Pods) /\ First \in Pods /\ <<>> \in Seq(Pods)
  BY PodFacts, BoundsAssumption DEF TypeOK, RaftOK, UnsealRuns
<1>2. ASSUME unseal' \in UnsealRuns, stores' = stores
      PROVE  unseal' \in UnsealRuns'
  BY <1>2 DEF UnsealRuns
<1>3. ASSUME NEW p \in Pods, PodStops(p) \/ PodStarts(p) \/ RetryJoin(p)
      PROVE  unseal' \in UnsealRuns'
  BY <1>1, <1>3 DEF PodStops, PodStarts, RetryJoin, keys, UnsealRuns
<1>4. ASSUME NEW c \in Stores, Elect(c)
      PROVE  unseal' \in UnsealRuns'
  BY <1>1, <1>2, <1>4 DEF Elect, keys
<1>5. CASE RecordKeys
  BY <1>1, <1>2, <1>5 DEF RecordKeys
<1>6. CASE RunInit
  <2>1. stores' = stores + 1 /\ unseal' = [unseal EXCEPT !.calm = "no"]
    BY <1>6 DEF RunInit, Initialize
  <2>2. unseal.key \in 0..stores'
    BY <1>1, <2>1 DEF UnsealRuns
  <2> QED BY <1>1, <2>1, <2>2 DEF UnsealRuns
<1>7. CASE Setup /\ ~RunInit
  BY <1>1, <1>2, <1>7 DEF Setup, StartSetup, SetupFails, AwaitPod, CheckInitialized,
     SaveKeys, ReadKeys, UnsealFirst, JoinFollower, UnsealFollower, CheckSeal,
     Configure, keys
<1>8. CASE StartUnseal
  BY <1>1, <1>8 DEF StartUnseal, keys, UnsealRuns, UnsealPcs
<1>9. CASE UnsealFails
  BY <1>1, <1>9 DEF UnsealFails, keys, UnsealRuns, UnsealPcs
<1>10. CASE ListPods
  BY <1>1, <1>10 DEF ListPods, keys, UnsealRuns, UnsealPcs
<1>11. CASE Classify
  BY <1>1, <1>2, <1>11, ClassifyRun DEF Classify, keys
<1>12. CASE UnsealPod
  <2>1. unseal' \in UnsealRuns /\ stores' = stores
    BY <1>1, <1>12, InTail DEF UnsealPod, Attempt, keys, UnsealRuns
  <2> QED BY <2>1, <1>2
<1>13. CASE PickLeader
  <2>1. stores' = stores
    BY <1>13 DEF PickLeader, keys
  <2>2. unseal.sealed \o unseal.open # <<>> => Head(unseal.sealed \o unseal.open) \in Pods
    BY <1>1, HeadOfBoth
  <2> DEFINE found == unseal.sealed \o unseal.open
             target == IF found = <<>> THEN First ELSE Head(found)
             calm == IF unseal.fresh = <<>> \/ unseal.key \in leader
                     THEN unseal.calm ELSE "no"
  <2>3. unseal' = [unseal EXCEPT !.pc = "join", !.todo = unseal.fresh,
                                 !.target = target, !.calm = calm]
    BY <1>1, <1>13 DEF PickLeader, UnsealRuns
  <2>4. target \in Pods /\ calm \in {"yes", "no"}
    BY <1>1, <2>2 DEF UnsealRuns
  <2> HIDE DEF target, calm
  <2>5. unseal' \in UnsealRuns
    BY <1>1, <2>3, <2>4 DEF UnsealRuns, UnsealPcs
  <2> QED BY <2>1, <2>5, <1>2
<1>14. CASE JoinPod
  <2>1. unseal' \in UnsealRuns /\ stores' = stores
    BY <1>1, <1>14, InTail DEF JoinPod, Attempt, keys, UnsealRuns
  <2> QED BY <2>1, <1>2
<1>15. CASE LoopEnds
  BY <1>1, <1>15 DEF LoopEnds, keys, UnsealRuns, UnsealPcs
<1>16. CASE UNCHANGED vars
  BY <1>1, <1>2, <1>16 DEF vars
<1> QED BY <1>3, <1>4, <1>5, <1>6, <1>7, <1>8, <1>9, <1>10, <1>11, <1>12, <1>13,
           <1>14, <1>15, <1>16 DEF Next, UnsealPlaybook

\* Every step keeps the types.
LEMMA TypeStep ==
  ASSUME TypeOK, Led, LoopsHavePods, KeyInHand, [Next]_vars
  PROVE  TypeOK'
<1>1. RaftOK' /\ setup' \in SetupRuns' /\ unseal' \in UnsealRuns'
  BY RaftStep, SetupTypeStep, UnsealTypeStep
<1>2. /\ stores \in 0..MaxStores /\ MaxStores \in Nat
      /\ counts \in Counts /\ setup \in SetupRuns
  BY BoundsAssumption DEF TypeOK
<1>3. stores' = stores \/ (stores < MaxStores /\ stores' = stores + 1)
  BY DEF Next, vars, PodStops, PodStarts, RetryJoin, Elect, RecordKeys, Setup,
         StartSetup, SetupFails, AwaitPod, CheckInitialized, RunInit, Initialize,
         SaveKeys, ReadKeys, UnsealFirst, JoinFollower, UnsealFollower,
         CheckSeal, Configure, UnsealPlaybook, StartUnseal, UnsealFails,
         ListPods, Classify, UnsealPod, PickLeader, JoinPod, LoopEnds, keys
<1>4. stores' \in 0..MaxStores /\ 0..stores \subseteq 0..stores' /\ 1..stores \subseteq 1..stores'
  BY <1>2, <1>3
<1>5. counts' \in Counts
  <2>1. CASE counts' = counts
    BY <2>1, <1>2 DEF Counts
  <2>2. ASSUME NEW p \in Pods, PodStops(p)
        PROVE  counts' \in Counts
    <3>1. counts.stops + 1 \in 0..MaxStops
      BY <2>2, <1>2, BoundsAssumption DEF PodStops, Counts
    <3>2. counts.losses < MaxLosses => counts.losses + 1 \in 0..MaxLosses
      BY <1>2, BoundsAssumption DEF Counts
    <3>3. \/ counts' = [counts EXCEPT !.stops = @ + 1]
          \/ /\ counts.losses < MaxLosses
             /\ counts' = [counts EXCEPT !.stops = @ + 1, !.losses = @ + 1]
      BY <2>2 DEF PodStops
    <3> QED BY <3>1, <3>2, <3>3, <1>2 DEF Counts
  <2>3. CASE StartSetup \/ StartUnseal
    BY <2>3, <1>2, BoundsAssumption DEF StartSetup, StartUnseal, Counts
  <2> QED BY <2>1, <2>2, <2>3
      DEF Next, vars, PodStarts, RetryJoin, Elect, RecordKeys, Setup,
         SetupFails, AwaitPod, CheckInitialized, RunInit, Initialize,
         SaveKeys, ReadKeys, UnsealFirst, JoinFollower, UnsealFollower,
         CheckSeal, Configure, UnsealPlaybook, UnsealFails,
         ListPods, Classify, UnsealPod, PickLeader, JoinPod, LoopEnds
<1>6. initFile' \in 0..stores' /\ vault' \in 0..stores'
  <2>1. initFile \in 0..stores /\ vault \in 0..stores /\ setup.out \in 0..stores
    BY <1>2 DEF TypeOK, SetupRuns
  <2>2. initFile' \in {initFile, setup.out} /\ vault' \in {vault, initFile}
    BY DEF Next, vars, PodStops, PodStarts, RetryJoin, Elect, RecordKeys, Setup,
         StartSetup, SetupFails, AwaitPod, CheckInitialized, RunInit, Initialize,
         SaveKeys, ReadKeys, UnsealFirst, JoinFollower, UnsealFollower,
         CheckSeal, Configure, UnsealPlaybook, StartUnseal, UnsealFails,
         ListPods, Classify, UnsealPod, PickLeader, JoinPod, LoopEnds, keys
  <2> QED BY <2>1, <2>2, <1>4
<1>7. configured' \subseteq 1..stores'
  <2>1. configured \subseteq 1..stores /\ leader \subseteq 1..stores
    BY DEF TypeOK, RaftOK
  <2>2. configured' = configured \/ \E c \in leader : configured' = configured \cup {c}
    BY DEF Next, vars, PodStops, PodStarts, RetryJoin, Elect, RecordKeys, Setup,
         StartSetup, SetupFails, AwaitPod, CheckInitialized, RunInit, Initialize,
         SaveKeys, ReadKeys, UnsealFirst, JoinFollower, UnsealFollower,
         CheckSeal, Configure, UnsealPlaybook, StartUnseal, UnsealFails,
         ListPods, Classify, UnsealPod, PickLeader, JoinPod, LoopEnds, keys
  <2> QED BY <2>1, <2>2, <1>4
<1>8. lost' \subseteq Pods /\ unsaved' \subseteq 1..stores'
  <2>1. lost \subseteq Pods /\ unsaved \subseteq 1..stores
    BY DEF TypeOK
  <2>2. CASE SetupFails
    <3>1. setup.pc = "save" => setup.out \in 1..stores
      BY <1>2 DEF KeyInHand, NoStore
    <3> QED BY <2>1, <2>2, <3>1, <1>4 DEF SetupFails
  <2>3. ASSUME NEW p \in Pods, PodStops(p)
        PROVE  lost' \subseteq Pods /\ unsaved' = unsaved
    BY <2>1, <2>3 DEF PodStops, history
  <2>4. CASE UNCHANGED history
    BY <2>1, <2>4, <1>4 DEF history
  <2> QED BY <2>1, <2>2, <2>3, <2>4, <1>4
      DEF Next, vars, PodStarts, RetryJoin, Elect, RecordKeys, Setup,
         StartSetup, AwaitPod, CheckInitialized, RunInit, Initialize,
         SaveKeys, ReadKeys, UnsealFirst, JoinFollower, UnsealFollower,
         CheckSeal, Configure, UnsealPlaybook, StartUnseal, UnsealFails,
         ListPods, Classify, UnsealPod, PickLeader, JoinPod, LoopEnds, history
<1> QED BY <1>1, <1>4, <1>5, <1>6, <1>7, <1>8 DEF TypeOK

-----------------------------------------------------------------------------
\* The keys, and the one store.

\* No step loses the key of the last store without a trace.
LEMMA KeysStep ==
  ASSUME TypeOK, LoopsHavePods, KeyInHand, FileFollows, KeyKept, [Next]_vars
  PROVE  KeyInHand' /\ FileFollows' /\ KeyKept'
<1>1. /\ setup \in SetupRuns /\ stores \in Nat
      /\ vault \in 0..stores /\ initFile \in 0..stores
  BY BoundsAssumption DEF TypeOK
<1> DEFINE Goal == KeyInHand' /\ FileFollows' /\ KeyKept'
<1>2. ASSUME UNCHANGED <<stores, initFile, vault, unsaved>>,
             setup'.out = setup.out,
             setup'.pc = "save" <=> setup.pc = "save"
      PROVE  Goal
  BY <1>2 DEF KeyInHand, FileFollows, KeyKept
<1>3. ASSUME NEW go \in SetupPcs \ {"save"}, NEW t \in Seq(Pods), SetupNext(go, t),
             setup.pc \in {"await", "join", "followers"}
      PROVE  /\ setup'.out = setup.out
             /\ setup'.pc = "save" <=> setup.pc = "save"
  BY <1>1, <1>3, SetupNextRun DEF LoopsHavePods
<1>4. Tail(PodList) \in Seq(Pods) /\ <<>> \in Seq(Pods)
  BY PodFacts
<1>5. ASSUME NEW p \in Pods, PodStops(p) \/ PodStarts(p) \/ RetryJoin(p)
      PROVE  Goal
  BY <1>1, <1>2, <1>5 DEF PodStops, PodStarts, RetryJoin, keys, history, SetupRuns
<1>6. ASSUME NEW c \in Stores, Elect(c)
      PROVE  Goal
  BY <1>2, <1>6 DEF Elect, keys, history
<1>7. CASE RecordKeys
  BY <1>7 DEF RecordKeys, history, KeyInHand, FileFollows, KeyKept
<1>8. CASE StartSetup
  BY <1>2, <1>8 DEF StartSetup, Ended, keys, history, KeyInHand
<1>9. CASE SetupFails
  BY <1>1, <1>9 DEF SetupFails, keys, SetupRuns, KeyInHand, FileFollows, KeyKept
<1>10. CASE RunInit
  <2>1. /\ stores' = stores + 1 /\ setup' = [setup EXCEPT !.pc = "save", !.out = stores']
        /\ UNCHANGED <<initFile, vault>>
    BY <1>10 DEF RunInit, Initialize
  <2>2. setup'.pc = "save" /\ setup'.out = stores' /\ stores' # NoStore /\ vault' # stores'
    BY <1>1, <2>1 DEF SetupRuns, NoStore
  <2> QED BY <2>2 DEF KeyInHand, FileFollows, KeyKept
<1>11. CASE SaveKeys
  BY <1>1, <1>11 DEF SaveKeys, SetupRuns, KeyInHand, FileFollows, KeyKept, history
<1>12. CASE AwaitPod
  BY <1>2, <1>3, <1>4, <1>12 DEF AwaitPod, keys, history, SetupPcs
<1>13. CASE JoinFollower
  BY <1>2, <1>3, <1>4, <1>13 DEF JoinFollower, keys, history, SetupPcs
<1>14. CASE UnsealFollower
  BY <1>2, <1>3, <1>4, <1>14 DEF UnsealFollower, keys, history, SetupPcs
<1>15. CASE CheckInitialized \/ ReadKeys \/ UnsealFirst \/ CheckSeal \/ Configure
  BY <1>1, <1>2, <1>15 DEF CheckInitialized, ReadKeys, UnsealFirst, CheckSeal, Configure,
     SetupGoes, SetupRuns, keys, history
<1>16. CASE UnsealPlaybook
  BY <1>2, <1>16 DEF UnsealPlaybook, StartUnseal, UnsealFails, ListPods, Classify,
     UnsealPod, PickLeader, JoinPod, LoopEnds, keys, history
<1>17. CASE UNCHANGED vars
  BY <1>2, <1>17 DEF vars
<1> QED BY <1>5, <1>6, <1>7, <1>8, <1>9, <1>10, <1>11, <1>12, <1>13, <1>14, <1>15,
           <1>16, <1>17 DEF Next, Setup

\* openbao-0 with its volume is not initialised again, and is not given the
\* store of another pod.
LEMMA FirstStep ==
  ASSUME TypeOK, Led, LoopsHavePods, KeyInHand, FirstDecides, [Next]_vars
  PROVE  FirstDecides'
<1>1. First \in Pods /\ stores \in Nat /\ RaftOK
  BY PodFacts, BoundsAssumption DEF TypeOK
<1>2. SUFFICES ASSUME First \notin lost'
               PROVE  data'[First] = stores' /\ stores' <= 1
  BY DEF FirstDecides
<1>3. lost \subseteq lost'
  BY DEF Next, vars, PodStops, PodStarts, RetryJoin, Elect, RecordKeys, Setup,
         StartSetup, SetupFails, AwaitPod, CheckInitialized, RunInit, Initialize,
         SaveKeys, ReadKeys, UnsealFirst, JoinFollower, UnsealFollower,
         CheckSeal, Configure, UnsealPlaybook, StartUnseal, UnsealFails,
         ListPods, Classify, UnsealPod, PickLeader, JoinPod, LoopEnds, keys, history
<1>4. data[First] = stores /\ stores <= 1
  BY <1>2, <1>3 DEF FirstDecides
<1>5. ASSUME NEW p \in Pods, PodStops(p)
      PROVE  data'[First] = stores' /\ stores' = stores
  BY <1>1, <1>2, <1>4, <1>5 DEF PodStops, RaftOK, keys, history
<1>6. CASE RunInit
  <2>1. data[First] = NoStore /\ stores' = stores + 1 /\ data' = [data EXCEPT ![First] = stores']
    BY <1>6 DEF RunInit, Initialize, Initialized
  <2>2. data'[First] = stores'
    BY <1>1, <2>1 DEF RaftOK
  <2>3. stores = 0
    BY <1>4, <2>1 DEF NoStore
  <2> QED BY <2>1, <2>2, <2>3
<1>7. CASE Advances /\ ~RunInit
  <2>1. stores' = stores
    BY <1>7 DEF Next, vars, PodStops, PodStarts, RetryJoin, Elect, RecordKeys, Setup,
         StartSetup, SetupFails, AwaitPod, CheckInitialized,
         SaveKeys, ReadKeys, UnsealFirst, JoinFollower, UnsealFollower,
         CheckSeal, Configure, UnsealPlaybook, StartUnseal, UnsealFails,
         ListPods, Classify, UnsealPod, PickLeader, JoinPod, LoopEnds, keys
  <2>2. data[First] # NoStore => data'[First] = data[First]
    BY <1>1, <1>7 DEF Advances, Grows
  <2>3. data'[First] \in 0..stores
    BY <1>1, <1>7, <2>1 DEF Advances, RaftOK
  <2> QED BY <1>1, <1>4, <2>1, <2>2, <2>3 DEF NoStore
<1> QED BY <1>4, <1>5, <1>6, <1>7, RaftStep

-----------------------------------------------------------------------------
\* What the role achieves.

\* Each task adds to what the run has achieved, and nothing but a pod that stops
\* takes it away.
LEMMA OpeningStep ==
  ASSUME TypeOK, Led, LoopsHavePods, KeyInHand, Opening, [Next]_vars
  PROVE  Opening'
<1>1. /\ setup \in SetupRuns /\ stores \in 0..MaxStores /\ RaftOK
      /\ setup.key \in 0..stores /\ First \in Pods
      /\ Tail(PodList) \in Seq(Pods) /\ <<>> \in Seq(Pods)
      /\ setup.todo \in Seq(Pods)
  BY PodFacts DEF TypeOK, SetupRuns
<1>2. ASSUME NEW p \in Pods, PodStops(p)
      PROVE  Opening'
  BY <1>1, <1>2 DEF PodStops, Opening, SetupRuns
<1>3. SUFFICES ASSUME ~\E p \in Pods : PodStops(p)
               PROVE  Opening'
  BY <1>2
<1>4. Grows
  <2>1. RunInit => Grows
    BY <1>1, InitStep
  <2> QED BY <1>3, <2>1, RaftStep DEF Advances
<1>5. /\ \A p \in Pods : p \in unsealed => p \in unsealed' /\ data'[p] = data[p]
      /\ unsealed' \subseteq Pods
  <2>1. RaftOK'
    BY RaftStep
  <2> QED BY <1>1, <1>4, <2>1 DEF RaftOK, Grows
<1>6. ASSUME setup' = setup, configured' = configured
      PROVE  Opening'
  BY <1>1, <1>5, <1>6 DEF Opening
<1>7. ASSUME setup'.pc \in {"idle", "await", "status", "init", "save", "stat", "first", "failed"}
      PROVE  Opening'
  BY <1>7 DEF Opening
<1>8. CASE RecordKeys \/ UnsealPlaybook \/ UNCHANGED vars
           \/ (\E p \in Pods : PodStarts(p) \/ RetryJoin(p)) \/ \E c \in Stores : Elect(c)
  BY <1>6, <1>8 DEF RecordKeys, PodStarts, RetryJoin, Elect, UnsealPlaybook, StartUnseal,
     UnsealFails, ListPods, Classify, UnsealPod, PickLeader, JoinPod, LoopEnds, keys, vars
<1>9. CASE StartSetup \/ SetupFails \/ CheckInitialized \/ RunInit \/ SaveKeys
  <2>1. CASE RunInit
    <3>1. setup'.pc = "save"
      BY <1>1, <2>1 DEF RunInit, Initialize, SetupRuns
    <3> QED BY <3>1, <1>7
  <2>2. CASE StartSetup \/ SetupFails \/ SaveKeys
    <3>1. StartSetup => setup'.pc = "await"
      BY DEF StartSetup
    <3>2. SetupFails => setup'.pc = "failed"
      BY <1>1 DEF SetupFails, SetupRuns
    <3>3. SaveKeys => setup'.pc = "stat"
      BY <1>1 DEF SaveKeys, SetupRuns
    <3> QED BY <2>2, <3>1, <3>2, <3>3, <1>7
  <2>3. CASE CheckInitialized
    <3>1. setup'.pc \in {"init", "stat"}
      BY <1>1, <2>3 DEF CheckInitialized, SetupGoes, SetupRuns
    <3> QED BY <3>1, <1>7
  <2> QED BY <1>9, <2>1, <2>2, <2>3
<1>10. CASE AwaitPod
  <2>1. setup'.pc \in {"await", "status"}
    BY <1>1, <1>10, SetupNextRun DEF AwaitPod, LoopsHavePods, SetupPcs
  <2> QED BY <2>1, <1>7
<1>11. CASE ReadKeys
  <2>1. setup'.key = NoStore \/ setup'.pc = "first"
    BY <1>1, <1>11 DEF ReadKeys, SetupRuns
  <2> QED BY <2>1, <1>7 DEF Opening
<1>12. CASE UnsealFirst
  <2>1. setup'.pc = "join" /\ setup'.key = setup.key
    BY <1>1, <1>12 DEF UnsealFirst, SetupRuns
  <2>2. First \in unsealed'
    BY <1>1, <1>12, UnsealStep DEF UnsealFirst, keys, TypeOK
  <2> QED BY <2>1, <2>2 DEF Opening
<1>13. CASE JoinFollower
  <2>1. /\ setup'.key = setup.key /\ setup'.calm = setup.calm
        /\ \/ setup'.pc = "followers" /\ setup'.todo = Tail(PodList)
           \/ setup'.pc = "join"
    BY <1>1, <1>13, SetupNextRun DEF JoinFollower, LoopsHavePods, SetupPcs
  <2>2. \A p \in Pods : In(p, Tail(PodList)) \/ p = First
    BY PodFacts, InTail
  <2>3. setup.calm = "yes" /\ setup.key # NoStore => First \in unsealed'
    BY <1>1, <1>5, <1>13, <2>1 DEF Opening, JoinFollower
  <2> QED BY <2>1, <2>2, <2>3 DEF Opening
<1>14. CASE UnsealFollower
  <2>1. setup.pc = "followers" /\ setup.todo # <<>>
    BY <1>14 DEF UnsealFollower, LoopsHavePods
  <2>2. PICK q \in Pods : q = Head(setup.todo)
    BY <1>1, <2>1, InTail
  <2>3. /\ setup'.key = setup.key /\ setup'.calm = setup.calm
        /\ \/ /\ Tail(setup.todo) = <<>>
              /\ setup'.pc = "check"
           \/ /\ setup'.pc = "followers"
              /\ setup'.todo = Tail(setup.todo)
    BY <1>1, <1>14, <2>1, SetupNextRun DEF UnsealFollower, SetupPcs
  <2>4. CanUnseal(q, setup.key) /\ Unseal(q, setup.key) /\ stores' = stores
    BY <1>14, <2>2 DEF UnsealFollower, keys
  <2>5. \A p : In(p, setup.todo) <=> p = q \/ In(p, Tail(setup.todo))
    BY <1>1, <2>1, <2>2, InTail
  <2>6. q \in unsealed'
    BY <1>1, <2>1, <2>4, UnsealStep DEF TypeOK
  <2>7. ASSUME setup.calm = "yes", setup.key # NoStore
        PROVE  /\ First \in unsealed'
               /\ \A p \in Pods : In(p, Tail(setup.todo)) \/ p \in unsealed'
    BY <1>1, <1>5, <2>1, <2>5, <2>6, <2>7 DEF Opening
  <2>8. Tail(setup.todo) = <<>> => \A p \in Pods : ~In(p, Tail(setup.todo))
    BY InEmpty
  <2> QED BY <1>5, <2>3, <2>7, <2>8 DEF Opening
<1>15. CASE CheckSeal
  <2>1. setup'.key = setup.key /\ setup'.calm = setup.calm /\ setup.pc = "check"
        /\ setup'.pc = IF First \in unsealed THEN "configure" ELSE "done"
    BY <1>1, <1>15 DEF CheckSeal, SetupGoes, SetupRuns
  <2> QED BY <1>1, <1>5, <2>1 DEF Opening
<1>16. CASE Configure
  <2>1. /\ setup'.key = setup.key /\ setup'.calm = setup.calm
        /\ setup.pc = "configure" /\ setup'.pc = "done"
        /\ data[First] \in configured'
    BY <1>1, <1>16 DEF Configure, SetupGoes, SetupRuns
  <2> QED BY <1>1, <1>5, <2>1 DEF Opening
<1> QED BY <1>3, <1>8, <1>9, <1>10, <1>11, <1>12, <1>13, <1>14, <1>15, <1>16 DEF Next, Setup

-----------------------------------------------------------------------------
\* What the playbook achieves.

\* The first pod found is one of the pods found.
LEMMA FoundPod ==
  ASSUME NEW s \in Seq(Pods), NEW t \in Seq(Pods),
         \E p \in Pods : In(p, s) \/ In(p, t)
  PROVE  /\ s \o t # <<>>
         /\ Head(s \o t) \in Pods
         /\ In(Head(s \o t), s) \/ In(Head(s \o t), t)
<1>1. s # <<>> \/ t # <<>>
  BY InEmpty
<1>2. s \o t # <<>>
  BY <1>1
<1> QED BY <1>2, HeadOfBoth

\* What is in the lists stays true, whatever advances.
LEMMA ListsStay ==
  ASSUME Grows,
         \A p \in Pods : /\ In(p, unseal.sealed) => Initialized(p)
                         /\ In(p, unseal.open) => p \in unsealed
  PROVE  \A p \in Pods : /\ In(p, unseal.sealed) => Initialized(p)'
                         /\ In(p, unseal.open) => p \in unsealed'
  BY DEF Grows

\* A step of somebody else takes nothing away from the run.
LEMMA OthersKeepRestoring ==
  ASSUME Advances, unseal' = unseal, Restoring
  PROVE  Restoring'
<1> SUFFICES ASSUME unseal.calm = "yes", unseal.whole = "yes" PROVE Restoring'
  BY DEF Restoring
<1>1. Grows /\ Restorable'
  BY DEF Advances, Restoring
<1>2. /\ unsealed \subseteq unsealed' /\ leader \subseteq leader'
      /\ \A p \in Pods : Initialized(p) => Initialized(p)'
  BY <1>1 DEF Grows
<1>3. \A p \in Pods : Classified(p) => Classified(p)'
  BY DEF Classified
<1>4. unseal.pc = "classify" /\ unseal.key # NoStore =>
        \A p \in Holding(unseal.key) : p \in Holding(unseal.key)'
  BY <1>1 DEF Grows, Holding
<1>5. unseal.key # NoStore
  BY DEF Restoring, Restorable
<1> QED BY <1>1, <1>2, <1>3, <1>4, <1>5 DEF Restoring, Holding

\* A pod that has data or has asked to join can be unsealed with the key.
LEMMA InitializedOpens ==
  ASSUME RaftOK, Led, stores \in 0..MaxStores, Restorable,
         NEW p \in Pods, Initialized(p)
  PROVE  CanUnseal(p, unseal.key)
<1>1. data[p] = unseal.key \/ (data[p] = NoStore /\ join[p] \in leader)
  BY DEF Restorable, Initialized
<1>2. data[p] = NoStore /\ join[p] \in leader => join[p] = unseal.key
  BY LeaderIsHeld
<1> QED BY <1>1, <1>2 DEF CanUnseal, Restorable

\* The lists of a run that starts are empty.
LEMMA ListsStartStep ==
  ASSUME TypeOK, ListsStartEmpty, [Next]_vars
  PROVE  ListsStartEmpty'
<1>1. unseal \in UnsealRuns
  BY DEF TypeOK
<1>2. CASE UnsealPlaybook
  <2>1. CASE StartUnseal
    BY <2>1 DEF StartUnseal, ListsStartEmpty
  <2>2. CASE Classify
    <3>1. unseal'.pc = unseal.pc /\ unseal.pc = "classify"
      BY <1>1, <2>2, ClassifyRun DEF Classify, UnsealRuns
    <3> QED BY <3>1 DEF ListsStartEmpty
  <2>3. CASE UnsealPod \/ JoinPod
    BY <1>1, <2>3, AttemptRun DEF UnsealPod, JoinPod, Attempt, ListsStartEmpty
  <2>4. CASE UnsealFails \/ ListPods \/ PickLeader \/ LoopEnds
    BY <1>1, <2>4 DEF UnsealFails, ListPods, PickLeader, LoopEnds, UnsealRuns, ListsStartEmpty
  <2> QED BY <1>2, <2>1, <2>2, <2>3, <2>4 DEF UnsealPlaybook
<1>3. CASE unseal' = unseal
  BY <1>3 DEF ListsStartEmpty
<1>4. CASE unseal' = [unseal EXCEPT !.calm = "no"]
  BY <1>1, <1>4 DEF ListsStartEmpty, UnsealRuns
<1> QED BY <1>2, <1>3, <1>4
    DEF Next, vars, PodStops, PodStarts, RetryJoin, Elect, RecordKeys, Setup,
        StartSetup, SetupFails, AwaitPod, CheckInitialized, RunInit, Initialize,
        SaveKeys, ReadKeys, UnsealFirst, JoinFollower, UnsealFollower,
        CheckSeal, Configure

\* Each loop adds to what the run has achieved, and nothing but a disturbance
\* takes it away.
LEMMA RestoringStep ==
  ASSUME TypeOK, Led, LoopsHavePods, ListsStartEmpty, Restoring, [Next]_vars
  PROVE  Restoring'
<1>1. /\ RaftOK /\ stores \in 0..MaxStores /\ unseal \in UnsealRuns
      /\ unseal.todo \in Seq(Pods) /\ unseal.sealed \in Seq(Pods)
      /\ unseal.open \in Seq(Pods) /\ unseal.fresh \in Seq(Pods)
      /\ First \in Pods /\ unseal.target \in Pods
  BY PodFacts DEF TypeOK, UnsealRuns
<1>2. SUFFICES ASSUME unseal'.calm = "yes", unseal'.whole = "yes"
               PROVE  Restoring'
  BY DEF Restoring
<1>3. Advances
  <2>1. ASSUME NEW p \in Pods, PodStops(p)
        PROVE  unseal'.calm = "no"
    BY <1>1, <2>1 DEF PodStops, UnsealRuns
  <2>2. RunInit => unseal'.calm = "no"
    BY <1>1 DEF RunInit, Initialize, UnsealRuns
  <2> QED BY <1>2, <2>1, <2>2, RaftStep
<1>4. Grows
  BY <1>3 DEF Advances
<1>5. /\ unsealed \subseteq unsealed' /\ leader \subseteq leader'
      /\ \A p \in Pods : Initialized(p) => Initialized(p)'
  BY <1>4 DEF Grows
<1>6. CASE unseal' = unseal
  BY <1>3, <1>6, OthersKeepRestoring
<1>7. CASE StartUnseal
  BY <1>2, <1>7 DEF StartUnseal
<1>8. CASE UnsealFails
  <2>1. /\ unseal'.pc = "failed" /\ unseal'.calm = unseal.calm
        /\ unseal'.whole = unseal.whole /\ unseal'.key = unseal.key
        /\ unseal'.sealed = unseal.sealed /\ unseal'.open = unseal.open
    BY <1>1, <1>8 DEF UnsealFails, UnsealRuns
  <2>2. Restorable'
    BY <1>2, <1>3, <2>1 DEF Restoring, Advances
  <2>3. \A p \in Pods : /\ In(p, unseal'.sealed) => Initialized(p)'
                        /\ In(p, unseal'.open) => p \in unsealed'
    BY <1>2, <1>4, <2>1, ListsStay DEF Restoring
  <2> QED BY <2>1, <2>2, <2>3 DEF Restoring
<1>9. CASE ListPods
  <2>1. /\ unseal'.pc = "classify" /\ unseal'.listed = up /\ unseal'.todo = PodList
        /\ unseal'.key = unseal.key /\ unseal'.whole = IF Restorable THEN "yes" ELSE "no"
        /\ unseal'.sealed = <<>> /\ unseal'.open = <<>>
    BY <1>1, <1>9 DEF ListPods, UnsealRuns, ListsStartEmpty
  <2>2. Restorable /\ Restorable'
    BY <1>2, <1>3, <2>1 DEF Advances
  <2>3. \A p \in Pods : In(p, unseal'.todo) /\ ~In(p, unseal'.sealed) /\ ~In(p, unseal'.open)
    BY <2>1, PodFacts, InEmpty
  <2>4. \E p \in Pods : p \in Holding(unseal.key)'
    <3>1. 2 * Cardinality(members[unseal.key] \cap Holding(unseal.key)) > Cardinality(members[unseal.key])
      BY <2>2 DEF Restorable, HasMajority
    <3>2. members[unseal.key] \in SUBSET Pods
      <4>1. unseal.key \in Stores
        BY <1>1, <2>2, BoundsAssumption DEF Restorable, Stores, NoStore, UnsealRuns
      <4> QED BY <4>1, <1>1 DEF RaftOK
    <3>3. Holding(unseal.key) # {}
      BY <3>1, <3>2, MajorityStays
    <3> QED BY <3>3, <1>9, <2>1 DEF Holding, ListPods, raft
  <2> QED BY <2>1, <2>2, <2>3, <2>4 DEF Restoring, Restorable
<1>10. CASE Classify
  <2>1. /\ unseal'.pc = "classify" /\ unseal.pc = "classify" /\ unseal.todo # <<>>
        /\ unseal'.todo = Tail(unseal.todo) /\ unseal'.listed = unseal.listed
        /\ unseal'.calm = unseal.calm /\ unseal'.whole = unseal.whole
        /\ unseal'.key = unseal.key
        /\ UNCHANGED raft
    BY <1>1, <1>10, ClassifyRun DEF Classify, UnsealRuns
  <2>2. PICK q \in Pods : q = Head(unseal.todo)
    BY <1>1, <2>1, InTail
  <2>3. Restorable /\ Restorable' /\ q \in unseal.listed \cap up
    BY <1>2, <1>3, <2>1 DEF Restoring, Restorable, Advances
  <2>4. /\ unseal'.sealed = IF Status(q) = "sealed" THEN Append(unseal.sealed, q) ELSE unseal.sealed
        /\ unseal'.open = IF Status(q) = "open" THEN Append(unseal.open, q) ELSE unseal.open
        /\ unseal'.fresh = IF Status(q) = "fresh" THEN Append(unseal.fresh, q) ELSE unseal.fresh
    BY <1>1, <1>10, <2>2, <2>3, ClassifyRun
  <2>5. \A p : /\ In(p, unseal'.sealed) <=> In(p, unseal.sealed) \/ (p = q /\ Status(q) = "sealed")
               /\ In(p, unseal'.open) <=> In(p, unseal.open) \/ (p = q /\ Status(q) = "open")
               /\ In(p, unseal'.fresh) <=> In(p, unseal.fresh) \/ (p = q /\ Status(q) = "fresh")
    BY <1>1, <2>4, InAppend
  <2>6. \A p : In(p, unseal.todo) <=> p = q \/ In(p, unseal'.todo)
    BY <1>1, <2>1, <2>2, InTail
  <2>7. /\ Status(q) \in {"open", "sealed", "fresh"}
        /\ Status(q) = "open" => q \in unsealed
        /\ Status(q) = "sealed" => Initialized(q)
        /\ Status(q) = "fresh" => ~Initialized(q)
    BY DEF Status
  <2>8. \A p \in Pods : /\ In(p, unseal'.sealed) => Initialized(p)'
                        /\ In(p, unseal'.open) => p \in unsealed'
    BY <1>2, <1>5, <2>1, <2>5, <2>7 DEF Restoring
  <2>9. \A p \in Pods : In(p, unseal'.todo) \/ In(p, unseal'.sealed)
                        \/ In(p, unseal'.open) \/ In(p, unseal'.fresh)
    BY <1>2, <2>1, <2>5, <2>6, <2>7 DEF Restoring, Classified
  <2>10. \E p \in Pods : \/ In(p, unseal'.sealed) \/ In(p, unseal'.open)
                         \/ p \in Holding(unseal.key)' /\ In(p, unseal'.todo)
    <3>1. PICK p \in Pods : \/ In(p, unseal.sealed) \/ In(p, unseal.open)
                            \/ p \in Holding(unseal.key) /\ In(p, unseal.todo)
      BY <1>2, <2>1 DEF Restoring
    <3>2. p \in Holding(unseal.key) => p \in Holding(unseal.key)' /\ Initialized(p)
      BY <2>1, <2>3 DEF raft, Holding, Initialized, Restorable
    <3> QED BY <3>1, <3>2, <2>5, <2>6, <2>7
  <2> QED BY <1>2, <2>1, <2>3, <2>8, <2>9, <2>10 DEF Restoring, Classified
<1>11. CASE UnsealPod
  <2>1. /\ unseal'.pc = unseal.pc /\ unseal.pc \in {"sealed", "fresh"} /\ unseal.todo # <<>>
        /\ unseal'.todo = Tail(unseal.todo) /\ unseal'.key = unseal.key
        /\ unseal'.whole = unseal.whole /\ unseal.calm = "yes"
        /\ unseal'.sealed = unseal.sealed /\ unseal'.open = unseal.open
        /\ unseal'.fresh = unseal.fresh
    BY <1>1, <1>2, <1>11, AttemptRun DEF UnsealPod, Attempt
  <2>2. PICK q \in Pods : q = Head(unseal.todo)
    BY <1>1, <2>1, InTail
  <2>3. \A p : In(p, unseal.todo) <=> p = q \/ In(p, unseal'.todo)
    BY <1>1, <2>1, <2>2, InTail
  <2>4. Restorable /\ Restorable'
    BY <1>2, <1>3, <2>1 DEF Restoring, Advances
  <2>5. Initialized(q) => q \in unsealed'
    <3>1. Initialized(q) => CanUnseal(q, unseal.key)
      BY <1>1, <2>4, InitializedOpens
    <3>2. unseal'.calm # "no"
      BY <1>2
    <3>3. CanUnseal(q, unseal.key) => Unseal(q, unseal.key)
      BY <1>1, <1>11, <2>1, <2>2, <3>2 DEF UnsealPod, Attempt, UnsealRuns
    <3>4. unsealed \subseteq unsealed'
      BY <1>3 DEF Advances, Grows
    <3> QED BY <3>1, <3>3, <3>4 DEF Unseal
  <2>6. \A p \in Pods : /\ In(p, unseal'.sealed) => Initialized(p)'
                        /\ In(p, unseal'.open) => p \in unsealed'
    BY <1>2, <1>4, <2>1, ListsStay DEF Restoring
  <2>7. \A p \in Pods : Classified(p) => Classified(p)'
    BY <2>1 DEF Classified
  <2>8. unseal.pc = "sealed" =>
          \A p \in Pods : In(p, unseal'.sealed) => In(p, unseal'.todo) \/ p \in unsealed'
    BY <1>2, <1>5, <2>1, <2>3, <2>5 DEF Restoring
  <2>9. unseal.pc = "fresh" =>
          \A p \in Pods :
            /\ In(p, unseal'.sealed) => p \in unsealed'
            /\ In(p, unseal'.fresh) =>
                 Initialized(p)' /\ (In(p, unseal'.todo) \/ p \in unsealed')
    BY <1>2, <1>5, <2>1, <2>3, <2>5 DEF Restoring
  <2> QED BY <1>2, <2>1, <2>4, <2>6, <2>7, <2>8, <2>9 DEF Restoring
<1>12. CASE PickLeader
  <2> DEFINE found == unseal.sealed \o unseal.open
  <2>1. /\ unseal.pc = "sealed" /\ unseal'.pc = "join" /\ unseal.todo = <<>>
        /\ unseal'.todo = unseal.fresh /\ unseal'.key = unseal.key
        /\ unseal'.whole = unseal.whole
        /\ unseal'.sealed = unseal.sealed /\ unseal'.open = unseal.open
        /\ unseal'.fresh = unseal.fresh
        /\ unseal'.target = IF found = <<>> THEN First ELSE Head(found)
        /\ unseal'.calm = IF unseal.fresh = <<>> \/ unseal.key \in leader
                          THEN unseal.calm ELSE "no"
    BY <1>1, <1>12 DEF PickLeader, UnsealRuns
  <2>2. unseal.calm = "yes" /\ (unseal.fresh # <<>> => unseal.key \in leader)
    BY <1>2, <2>1
  <2>3. Restorable'
    BY <1>2, <1>3, <2>1, <2>2 DEF Restoring, Advances
  <2>4. \A p \in Pods : In(p, unseal.sealed) \/ In(p, unseal.open) => p \in unsealed
    BY <1>2, <2>1, <2>2, InEmpty DEF Restoring
  <2>5. \E p \in Pods : In(p, unseal.sealed) \/ In(p, unseal.open)
    BY <1>2, <2>1, <2>2 DEF Restoring
  <2>6. unseal'.target \in unsealed
    <3>1. /\ found # <<>> /\ Head(found) \in Pods
          /\ In(Head(found), unseal.sealed) \/ In(Head(found), unseal.open)
      BY <1>1, <2>5, FoundPod
    <3> QED BY <2>1, <2>4, <3>1
  <2>7. \A p \in Pods : /\ In(p, unseal'.sealed) => Initialized(p)'
                        /\ In(p, unseal'.open) => p \in unsealed'
    BY <1>2, <1>4, <2>1, <2>2, ListsStay DEF Restoring
  <2>8. \A p \in Pods : Classified(p)'
    BY <1>2, <2>1, <2>2 DEF Restoring, Classified
  <2>9. \A p \in Pods : In(p, unseal.fresh) => unseal.fresh # <<>>
    BY InEmpty
  <2> QED BY <1>5, <2>1, <2>2, <2>3, <2>4, <2>5, <2>6, <2>7, <2>8, <2>9 DEF Restoring
<1>13. CASE JoinPod
  <2>1. /\ unseal'.pc = "join" /\ unseal.pc = "join" /\ unseal.todo # <<>>
        /\ unseal'.todo = Tail(unseal.todo) /\ unseal'.key = unseal.key
        /\ unseal'.whole = unseal.whole /\ unseal.calm = "yes"
        /\ unseal'.sealed = unseal.sealed /\ unseal'.open = unseal.open
        /\ unseal'.fresh = unseal.fresh /\ unseal'.target = unseal.target
    BY <1>1, <1>2, <1>13, AttemptRun DEF JoinPod, Attempt
  <2>2. PICK q \in Pods : q = Head(unseal.todo)
    BY <1>1, <2>1, InTail
  <2>3. \A p : In(p, unseal.todo) <=> p = q \/ In(p, unseal'.todo)
    BY <1>1, <2>1, <2>2, InTail
  <2>4. Restorable /\ Restorable'
    BY <1>2, <1>3, <2>1 DEF Restoring, Advances
  <2>5. unseal.target \in unsealed /\ unseal.key \in leader
    BY <1>2, <2>1, <2>2, <2>3 DEF Restoring
  <2>6. Initialized(q)'
    <3>1. ~Initialized(q) => CanJoin(q, unseal.target)
      <4>1. data[unseal.target] = unseal.key
        BY <1>1, <2>4, <2>5 DEF RaftOK, Restorable
      <4> QED BY <2>4, <2>5, <4>1 DEF CanJoin, Initialized, Restorable
    <3>2. unseal'.calm # "no"
      BY <1>2
    <3>3. CanJoin(q, unseal.target) => Join(q, unseal.target)
      BY <1>1, <1>13, <2>1, <2>2, <3>2 DEF JoinPod, Attempt, UnsealRuns
    <3>4. Join(q, unseal.target) => Initialized(q)'
      <4>1. data[unseal.target] # NoStore
        BY <1>1, <2>5 DEF RaftOK
      <4> QED BY <1>1, <4>1 DEF Join, Initialized, RaftOK
    <3> QED BY <1>5, <3>1, <3>3, <3>4
  <2>7. \A p \in Pods : /\ In(p, unseal'.sealed) => Initialized(p)'
                        /\ In(p, unseal'.open) => p \in unsealed'
    BY <1>2, <1>4, <2>1, ListsStay DEF Restoring
  <2>8. \A p \in Pods : Classified(p)'
    BY <1>2, <2>1 DEF Restoring, Classified
  <2>9. \A p \in Pods :
          /\ In(p, unseal'.sealed) => p \in unsealed'
          /\ In(p, unseal'.todo) => unseal'.fresh # <<>>
          /\ In(p, unseal'.fresh) => In(p, unseal'.todo) \/ Initialized(p)'
    BY <1>2, <1>5, <2>1, <2>3, <2>6 DEF Restoring
  <2>10. \E p \in Pods : In(p, unseal'.sealed) \/ In(p, unseal'.open)
    BY <1>2, <2>1 DEF Restoring
  <2> QED BY <1>5, <2>1, <2>4, <2>5, <2>7, <2>8, <2>9, <2>10 DEF Restoring
<1>14. CASE LoopEnds
  <2>1. /\ unseal.todo = <<>> /\ unseal'.key = unseal.key
        /\ unseal'.whole = unseal.whole /\ unseal'.calm = unseal.calm
        /\ unseal'.sealed = unseal.sealed /\ unseal'.open = unseal.open
        /\ unseal'.fresh = unseal.fresh /\ UNCHANGED raft
        /\ \/ /\ unseal.pc = "classify" /\ unseal'.pc = "sealed"
              /\ unseal'.todo = unseal.sealed
           \/ /\ unseal.pc = "join" /\ unseal'.pc = "fresh"
              /\ unseal'.todo = unseal.fresh
           \/ /\ unseal.pc = "fresh" /\ unseal'.pc = "done"
    BY <1>1, <1>14 DEF LoopEnds, UnsealRuns
  <2>2. \A p : ~In(p, unseal.todo)
    BY <2>1, InEmpty
  <2>3. Restorable'
    BY <1>2, <1>3, <2>1 DEF Restoring, Advances
  <2>4. \A p \in Pods : /\ In(p, unseal'.sealed) => Initialized(p)'
                        /\ In(p, unseal'.open) => p \in unsealed'
    BY <1>2, <1>4, <2>1, ListsStay DEF Restoring
  <2>5. (\A p \in Pods : Classified(p)') /\ \E p \in Pods : In(p, unseal.sealed) \/ In(p, unseal.open)
    BY <1>2, <2>1, <2>2 DEF Restoring, Classified
  <2>6. CASE unseal.pc = "classify"
    BY <2>1, <2>3, <2>4, <2>5, <2>6 DEF Restoring
  <2>7. CASE unseal.pc = "join"
    <3>1. \A p \in Pods : /\ In(p, unseal.sealed) => p \in unsealed'
                          /\ In(p, unseal.fresh) => Initialized(p)'
      BY <1>2, <1>5, <2>1, <2>2, <2>7 DEF Restoring
    <3> QED BY <2>1, <2>3, <2>4, <2>5, <2>7, <3>1 DEF Restoring
  <2>8. CASE unseal.pc = "fresh"
    <3>1. \A p \in Pods : /\ In(p, unseal.sealed) => p \in unsealed'
                          /\ In(p, unseal.fresh) => p \in unsealed'
      BY <1>2, <1>5, <2>1, <2>2, <2>8 DEF Restoring
    <3> QED BY <2>1, <2>3, <2>4, <2>5, <2>8, <3>1 DEF Restoring
  <2> QED BY <2>1, <2>6, <2>7, <2>8
<1>15. CASE UnsealPlaybook
  BY <1>7, <1>8, <1>9, <1>10, <1>11, <1>12, <1>13, <1>14, <1>15 DEF UnsealPlaybook
<1>16. CASE unseal' = [unseal EXCEPT !.calm = "no"]
  BY <1>1, <1>2, <1>16 DEF UnsealRuns
<1> QED BY <1>6, <1>15, <1>16
    DEF Next, vars, PodStops, PodStarts, RetryJoin, Elect, RecordKeys, Setup,
        StartSetup, SetupFails, AwaitPod, CheckInitialized, RunInit, Initialize,
        SaveKeys, ReadKeys, UnsealFirst, JoinFollower, UnsealFollower,
        CheckSeal, Configure

-----------------------------------------------------------------------------
\* The theorems.

\* The invariant holds at the start.
LEMMA BaoInit == Init => BaoInv
<1> SUFFICES ASSUME Init PROVE BaoInv
  OBVIOUS
<1> USE DEF Init, NoStore
<1>1. First \in Pods /\ <<>> \in Seq(Pods)
  BY PodFacts
<1>2. MaxStores \in Nat \ {0} /\ stores \in {0, 1} /\ stores \in 0..MaxStores
  BY BoundsAssumption
<1>3. RaftOK
  BY <1>2 DEF RaftOK, Stores
<1>4. setup \in SetupRuns /\ unseal \in UnsealRuns
  BY <1>1, <1>2 DEF SetupRuns, UnsealRuns, SetupPcs, UnsealPcs
<1>5. counts \in Counts
  BY BoundsAssumption DEF Counts
<1>6. TypeOK
  BY <1>2, <1>3, <1>4, <1>5 DEF TypeOK
<1>7. LoopsHavePods /\ KeyInHand /\ FileFollows /\ KeyKept /\ Led
  BY DEF LoopsHavePods, KeyInHand, FileFollows, KeyKept, Led
<1>8. FirstDecides
  BY <1>1, <1>2 DEF FirstDecides
<1>9. Opening /\ ListsStartEmpty /\ Restoring
  BY DEF Opening, ListsStartEmpty, Restoring
<1> QED BY <1>6, <1>7, <1>8, <1>9 DEF BaoInv

\* Every step keeps the invariant.
LEMMA BaoStep == BaoInv /\ [Next]_vars => BaoInv'
<1> SUFFICES ASSUME BaoInv, [Next]_vars PROVE BaoInv'
  OBVIOUS
<1> USE DEF BaoInv
<1>1. TypeOK' /\ Led'
  BY TypeStep, RaftStep
<1>2. LoopsHavePods'
  BY SetupTypeStep
<1>3. KeyInHand' /\ FileFollows' /\ KeyKept'
  BY KeysStep
<1>4. FirstDecides'
  BY FirstStep
<1>5. Opening'
  BY OpeningStep
<1>6. ListsStartEmpty' /\ Restoring'
  BY ListsStartStep, RestoringStep
<1> QED BY <1>1, <1>2, <1>3, <1>4, <1>5, <1>6

\* The invariant is one.
THEOREM BaoInvariant == Spec => []BaoInv
  BY BaoInit, BaoStep, PTL DEF Spec

\* Every reachable state of OpenBao, the role and the playbook is well typed.
THEOREM BaoTypeCorrect == Spec => []TypeOK
<1>1. BaoInv => TypeOK
  BY DEF BaoInv
<1> QED BY <1>1, BaoInvariant, PTL

\* As long as openbao-0 keeps its volume there is one store, whatever runs
\* overlap, fail and are repeated and whichever followers are wiped.
THEOREM InitializedOnce == Spec => []OneStore
<1>1. ASSUME BaoInv
      PROVE  OneStore
  <2>1. SUFFICES ASSUME First \notin lost,
                        NEW p \in Pods, NEW q \in Pods,
                        data[p] # NoStore, data[q] # NoStore
                 PROVE  data[p] = data[q]
    BY DEF OneStore
  <2>2. stores \in 0..1
    BY <1>1, <2>1, BoundsAssumption DEF BaoInv, FirstDecides, TypeOK
  <2>3. data[p] \in 0..stores /\ data[q] \in 0..stores
    BY <1>1 DEF BaoInv, TypeOK, RaftOK
  <2> QED BY <2>1, <2>2, <2>3 DEF NoStore
<1> QED BY <1>1, BaoInvariant, PTL

\* The key of the last store is in a file, in the vault or in the hands of the
\* run that made it, unless such a run died before it saved it.
THEOREM KeysAreKept == Spec => []KeyKept
<1>1. BaoInv => KeyKept
  BY DEF BaoInv
<1> QED BY <1>1, BaoInvariant, PTL

\* A run of the role that no pod disturbed has opened every pod and configured the
\* store of openbao-0; it is the one store there is, with the key in the init
\* file, as long as openbao-0 keeps its volume.
THEOREM RoleOpensAll == Spec => []SetupOpens
<1>1. ASSUME BaoInv
      PROVE  SetupOpens
  <2>1. SUFFICES ASSUME setup.pc = "done", setup.calm = "yes", setup.key # NoStore
                 PROVE  /\ unsealed = Pods
                        /\ data[First] \in configured
                        /\ First \notin lost => \A p \in Pods : data[p] = setup.key
    BY DEF SetupOpens
  <2>2. unsealed = Pods /\ data[First] \in configured
    BY <1>1, <2>1 DEF BaoInv, Opening
  <2>3. ASSUME First \notin lost, NEW p \in Pods
        PROVE  data[p] = setup.key
    <3>1. stores \in 0..1 /\ setup.key \in 0..stores
      BY <1>1, <2>3, BoundsAssumption DEF BaoInv, FirstDecides, TypeOK, SetupRuns
    <3>2. data[p] \in 0..stores /\ data[p] # NoStore
      BY <1>1, <2>2 DEF BaoInv, TypeOK, RaftOK
    <3> QED BY <2>1, <3>1, <3>2 DEF NoStore
  <2> QED BY <2>2, <2>3
<1> QED BY <1>1, BaoInvariant, PTL

\* A run of the playbook that nothing disturbed has unsealed every pod.
THEOREM PlaybookUnsealsAll == Spec => []UnsealRestores
<1>1. ASSUME BaoInv
      PROVE  UnsealRestores
  <2>1. SUFFICES ASSUME unseal.pc = "done", unseal.calm = "yes", unseal.whole = "yes"
                 PROVE  unsealed = Pods
    BY DEF UnsealRestores
  <2>2. \A p \in Pods : p \in unsealed
    BY <1>1, <2>1 DEF BaoInv, Restoring, Classified
  <2>3. unsealed \subseteq Pods
    BY <1>1 DEF BaoInv, TypeOK, RaftOK
  <2> QED BY <2>2, <2>3
<1> QED BY <1>1, BaoInvariant, PTL
=============================================================================
