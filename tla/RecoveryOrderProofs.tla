-------------------------- MODULE RecoveryOrderProofs --------------------------
(***************************************************************************)
(* Proofs about what the retained records say and what they are worth: the *)
(* recovery verdict on any journal, the anchor outside the rollback        *)
(* domain, and the evidence a gateway retains of an exchange.              *)
(***************************************************************************)
EXTENDS RecoveryOrder, CoordinationAnchor, TimedExchange, FiniteSetTheorems, SequenceTheorems,
        WellFoundedInduction, TLAPS

\* Every non-empty set of naturals has a least element, which stands in for
\* induction along a chain.
LEMMA LeastNat ==
  ASSUME NEW S \in SUBSET Nat, S # {}
  PROVE  \E n \in S : \A m \in S : n <= m
<1> DEFINE R == OpToRel(<, Nat)
<1>1. IsWellFoundedOn(R, Nat)
  BY NatLessThanWellFounded
<1>2. R = {ss \in Nat \X Nat : ss[1] < ss[2]}
  BY DEF OpToRel
<1> HIDE DEF R
<1>3. PICK n \in S : \A m \in S : ~(<<m, n>> \in R)
  BY <1>1, WFMin, Zenon
<1>4. ASSUME NEW m \in S PROVE n <= m
  <2>1. <<m, n>> \in Nat \X Nat
    OBVIOUS
  <2>2. ~(m < n)
    BY <1>2, <1>3, <2>1
  <2>3. QED
    BY <2>2
<1>5. QED
  BY <1>4

(***************************************************************************)
(* A journal and a plant state the validator can be given: any pre-states, *)
(* any coordination states, finitely many records.                         *)
(***************************************************************************)
JournalType ==
  /\ pre \in [Effects -> PlantStates]
  /\ plantState \in PlantStates
  /\ IsFiniteSet({e \in Effects : st[e] # "none"})

\* Every journal and plant state the model checker enumerates is one.
LEMMA EnumeratedJournals ==
  ASSUME MaxVersion \in Nat, IsFiniteSet(Effects), OrderInit
  PROVE  JournalType
<1>1. BoundedStates \subseteq PlantStates
  BY DEF BoundedStates, PlantStates
<1>2. pre \in [Effects -> PlantStates] /\ plantState \in PlantStates
  BY <1>1 DEF OrderInit
<1>3. {e \in Effects : st[e] # "none"} \in SUBSET Effects
  OBVIOUS
<1>4. IsFiniteSet({e \in Effects : st[e] # "none"})
  BY <1>3, FS_Subset
<1> QED
  BY <1>2, <1>4 DEF JournalType

\* The versions and post-states of a journal's records.
LEMMA RecordTypes ==
  ASSUME pre \in [Effects -> PlantStates], NEW e \in Effects
  PROVE  /\ pre[e] \in PlantStates /\ pre[e].version \in Nat
         /\ Post(e) \in PlantStates /\ Post(e).version = pre[e].version + 1
         /\ Post(e).content = CommandOf[e]
BY EffectAssumption DEF PlantStates, Post

\* A finite, non-empty set of records has one of the highest version.
LEMMA LatestExists ==
  ASSUME pre \in [Effects -> PlantStates], NEW L \in SUBSET Effects, IsFiniteSet(L), L # {}
  PROVE  LatestOf(L) # {}
<1> DEFINE B == {k \in Nat : \A e \in L : pre[e].version <= k}
           V == {pre[e].version : e \in L}
<1>1. V \in SUBSET Nat
  BY RecordTypes
<1>2. B # {}
  <2>1. PICK n \in Nat : ExistsBijection(1..n, L)
    BY FS_NatBijection
  <2>2. PICK f \in [1..n -> L] : \A e \in L : \E i \in 1..n : f[i] = e
    BY <2>1 DEF ExistsBijection, Bijection, Surjection
  <2> DEFINE Bad == {k \in 0..n : ~\E b \in Nat : \A i \in 1..k : pre[f[i]].version <= b}
  <2>3. Bad = {}
    <3> SUFFICES ASSUME Bad # {}
                 PROVE  FALSE
      OBVIOUS
    <3>1. PICK k \in Bad : \A m \in Bad : k <= m
      <4>1. Bad \in SUBSET Nat
        OBVIOUS
      <4> HIDE DEF Bad
      <4> QED
        BY <4>1, LeastNat
    <3>2. k # 0
      <4>1. \A i \in 1..0 : pre[f[i]].version <= 0
        OBVIOUS
      <4> QED
        BY <3>1, <4>1
    <3>3. k \in 1..n /\ k - 1 \in 0..n /\ k - 1 \notin Bad
      <4>1. k \in 0..n /\ k - 1 \in Int
        BY <3>1
      <4>2. ~(k <= k - 1)
        BY <4>1
      <4>3. k - 1 \notin Bad
        BY <3>1, <4>2
      <4> QED
        BY <3>2, <4>1, <4>3
    <3>4. PICK b \in Nat : \A i \in 1..(k - 1) : pre[f[i]].version <= b
      BY <3>3
    <3>5. f[k] \in L /\ pre[f[k]].version \in Nat
      BY <3>3, RecordTypes
    <3>6. PICK c \in Nat : b <= c /\ pre[f[k]].version <= c
      <4>1. PICK w \in Nat : w = pre[f[k]].version
        BY <3>5
      <4>2. b + w \in Nat /\ b <= b + w /\ w <= b + w
        OBVIOUS
      <4> QED
        BY <4>1, <4>2
    <3>7. \A i \in 1..k : pre[f[i]].version <= c
      <4> SUFFICES ASSUME NEW i \in 1..k
                   PROVE  pre[f[i]].version <= c
        OBVIOUS
      <4>1. CASE i = k
        BY <3>6, <4>1
      <4>2. CASE i # k
        <5>1. i \in 1..(k - 1) /\ i \in 1..n
          BY <3>3, <4>2
        <5>2. PICK w \in Nat : w = pre[f[i]].version
          BY <5>1, RecordTypes
        <5>3. w <= b
          BY <3>4, <5>1, <5>2
        <5>4. b <= c
          BY <3>6
        <5>5. w <= c
          BY <5>3, <5>4
        <5> QED
          BY <5>2, <5>5
      <4> QED
        BY <4>1, <4>2
    <3> QED
      BY <3>1, <3>6, <3>7
  <2>4. PICK b \in Nat : \A i \in 1..n : pre[f[i]].version <= b
    <3>1. n \in 0..n
      OBVIOUS
    <3> QED
      BY <2>3, <3>1
  <2> QED
    BY <2>2, <2>4
<1>3. PICK b \in B : \A c \in B : b <= c
  <2>1. B \in SUBSET Nat
    OBVIOUS
  <2> HIDE DEF B
  <2> QED
    BY <1>2, <2>1, LeastNat
<1>4. PICK e \in L : pre[e].version = b
  <2> SUFFICES ASSUME \A e \in L : pre[e].version # b
               PROVE  FALSE
    OBVIOUS
  <2>1. \A e \in L : pre[e].version \in Nat /\ pre[e].version <= b
    BY <1>3, RecordTypes
  <2>2. b # 0
    BY <2>1
  <2>3. b - 1 \in B
    BY <1>3, <2>1, <2>2
  <2> QED
    BY <1>3, <2>3
<1>5. e \in LatestOf(L)
  BY <1>3, <1>4 DEF LatestOf
<1> QED
  BY <1>5

(***************************************************************************)
(* A matching chain has a link at every version below its last.            *)
(***************************************************************************)
LEMMA ChainHasNoGap ==
  ASSUME pre \in [Effects -> PlantStates], NEW L \in SUBSET Effects, ChainMatches(L),
         NEW e \in L, NEW k \in 0..pre[e].version
  PROVE  \E f \in L : pre[f].version = k
<1>1. \A f \in L : pre[f].version \in Nat
  BY RecordTypes
<1> DEFINE D == {d \in Nat : \E f \in L : pre[f].version = k + d}
<1>2. pre[e].version - k \in D
  BY <1>1
<1>3. PICK d \in D : \A c \in D : d <= c
  <2>1. D \in SUBSET Nat
    OBVIOUS
  <2> HIDE DEF D
  <2> QED
    BY <1>2, <2>1, LeastNat
<1>4. PICK f \in L : pre[f].version = k + d
  BY <1>3
<1>5. d = 0
  <2> SUFFICES ASSUME d # 0
               PROVE  FALSE
    OBVIOUS
  <2>1. pre[f].version # 0
    BY <1>1, <1>3, <1>4
  <2>2. PICK g \in L : Post(g) = pre[f]
    BY <1>4, <2>1 DEF ChainMatches
  <2>3. pre[g].version + 1 = k + d /\ pre[g].version \in Nat
    BY <1>4, <2>2, RecordTypes
  <2>4. d - 1 \in D
    BY <1>3, <2>2, <2>3
  <2> QED
    BY <1>3, <2>4
<1> QED
  BY <1>1, <1>4, <1>5

\* A matching chain has as many links as its end has versions behind it.
LEMMA ChainCounts ==
  ASSUME pre \in [Effects -> PlantStates], NEW L \in SUBSET Effects, IsFiniteSet(L),
         ChainMatches(L), NEW m \in LatestOf(L)
  PROVE  Cardinality(L) = pre[m].version + 1
<1> DEFINE n == pre[m].version
           v == [e \in L |-> pre[e].version]
<1>1. m \in L /\ n \in Nat /\ \A e \in L : pre[e].version \in 0..n
  BY RecordTypes DEF LatestOf
<1>2. v \in [L -> 0..n] /\ (\A e, f \in L : v[e] = v[f] => e = f)
  BY <1>1 DEF ChainMatches
<1>3. \A k \in 0..n : \E f \in L : v[f] = k
  BY <1>1, ChainHasNoGap
<1> HIDE DEF v, n
<1>4. ExistsBijection(L, 0..n)
  BY <1>2, <1>3 DEF ExistsBijection, Bijection, Injection, Surjection, IsInjective
<1>5. Cardinality(L) = Cardinality(0..n)
  BY <1>4, FS_Bijection
<1>6. Cardinality(0..n) = n + 1
  BY <1>1, FS_Interval
<1> QED
  BY <1>5, <1>6 DEF n

----------------------------------------------------------------------------
(* What a usable journal accounts for. *)

(***************************************************************************)
(* The reasons that let the coordinator serve, and what each one says.     *)
(***************************************************************************)
LEMMA UsableCases ==
  ASSUME RecoveryUsable(st, plantState), NEW L, L = AppliedIn(st), NEW Q, Q = PendingIn(st)
  PROVE  /\ \A e, f \in Q : e = f
         /\ ChainMatches(L)
         /\ \A e \in Q : PendingChainMatches(e, L) /\ (plantState = pre[e] \/ plantState = Post(e))
         /\ Q = {} /\ L = {} => plantState.version = 0
         /\ Q = {} /\ L # {} =>
              plantState = Post(CHOOSE e \in LatestOf(L) : TRUE)
<1> DEFINE r == RecoveryReason(st, plantState)
           q == CHOOSE e \in Q : TRUE
           m == CHOOSE e \in LatestOf(L) : TRUE
<1>1. r \notin UnavailableReasons \cup InconsistentReasons
  BY DEF RecoveryUsable
<1>2. ~(\E e, f \in Q : e # f)
  BY <1>1 DEF RecoveryReason, UnavailableReasons
<1>3. ChainMatches(L)
  BY <1>1, <1>2 DEF RecoveryReason, UnavailableReasons
<1>4. \A e \in Q : PendingChainMatches(e, L)
  BY <1>1, <1>2, <1>3 DEF RecoveryReason, UnavailableReasons
<1>5. Q # {} => r = PendingReason(q, plantState)
  BY <1>2, <1>3, <1>4 DEF RecoveryReason
<1>6. Q = {} => r = SettledReason(L, plantState)
  BY <1>2, <1>3, <1>4 DEF RecoveryReason
<1> HIDE DEF r
<1>7. Q # {} => plantState = pre[q] \/ plantState = Post(q)
  BY <1>1, <1>5 DEF PendingReason, InconsistentReasons
<1>8. \A e \in Q : e = q
  BY <1>2
<1>9. Q = {} /\ L = {} => plantState.version = 0
  BY <1>1, <1>6 DEF SettledReason, InconsistentReasons
<1>10. Q = {} /\ L # {} => plantState = Post(m)
  BY <1>1, <1>6 DEF SettledReason, InconsistentReasons
<1> QED
  BY <1>2, <1>3, <1>4, <1>7, <1>8, <1>9, <1>10

(***************************************************************************)
(* Whatever the journal and the plant hold, a verdict that lets the        *)
(* coordinator serve accounts for every version of the plant with one      *)
(* applied record, and at most the pending effect on top                   *)
(* (validate_coordination_recovery).                                       *)
(***************************************************************************)
THEOREM UsableJournalsAccount == JournalType => UsableMeansAccounted
<1> SUFFICES ASSUME JournalType, RecoveryUsable(st, plantState)
             PROVE  plantState.version
                      = Cardinality(AppliedIn(st))
                        + Cardinality({e \in PendingIn(st) : plantState = Post(e)})
  BY DEF UsableMeansAccounted
<1>1. PICK L : L = AppliedIn(st)
  OBVIOUS
<1>2. PICK Q : Q = PendingIn(st)
  OBVIOUS
<1> DEFINE onTop == {e \in Q : plantState = Post(e)}
           J == {e \in Effects : st[e] # "none"}
<1>3. L \in SUBSET Effects /\ Q \in SUBSET Effects /\ L \in SUBSET J /\ IsFiniteSet(J)
  BY <1>1, <1>2 DEF AppliedIn, PendingIn, JournalType
<1>4. IsFiniteSet(L)
  BY <1>3, FS_Subset
<1>5. pre \in [Effects -> PlantStates] /\ plantState \in PlantStates /\ plantState.version \in Nat
  BY DEF JournalType, PlantStates
<1>6. /\ \A e, f \in Q : e = f
      /\ ChainMatches(L)
      /\ \A e \in Q : PendingChainMatches(e, L) /\ (plantState = pre[e] \/ plantState = Post(e))
      /\ Q = {} /\ L = {} => plantState.version = 0
      /\ Q = {} /\ L # {} => plantState = Post(CHOOSE e \in LatestOf(L) : TRUE)
  BY <1>1, <1>2, UsableCases
<1>7. L = {} => Cardinality(L) = 0
  BY FS_EmptySet
<1>8. L # {} => \E m : m \in LatestOf(L)
  BY <1>3, <1>4, <1>5, LatestExists
<1>9. \A m \in LatestOf(L) : m \in Effects /\ Cardinality(L) = Post(m).version
  <2> SUFFICES ASSUME NEW m \in LatestOf(L)
               PROVE  m \in Effects /\ Cardinality(L) = Post(m).version
    OBVIOUS
  <2>1. m \in Effects
    BY <1>3 DEF LatestOf
  <2>2. Cardinality(L) = pre[m].version + 1
    BY <1>3, <1>4, <1>5, <1>6, ChainCounts
  <2> QED
    BY <1>5, <2>1, <2>2, RecordTypes
<1>10. CASE Q = {}
  <2>1. plantState.version = Cardinality(L)
    <3>1. CASE L = {}
      BY <1>6, <1>7, <1>10, <3>1
    <3>2. CASE L # {}
      <4>1. (CHOOSE e \in LatestOf(L) : TRUE) \in LatestOf(L)
        BY <1>8, <3>2
      <4> QED
        BY <1>6, <1>9, <1>10, <3>2, <4>1
    <3> QED
      BY <3>1, <3>2
  <2>2. onTop = {}
    BY <1>10
  <2>3. Cardinality(onTop) = 0
    BY <2>2, FS_EmptySet
  <2> QED
    BY <1>1, <1>2, <1>5, <2>1, <2>3
<1>11. CASE Q # {}
  <2>1. PICK q \in Q : TRUE
    BY <1>11
  <2>2. q \in Effects /\ pre[q].version \in Nat /\ Post(q).version = pre[q].version + 1
    BY <1>3, <1>5, <2>1, RecordTypes
  <2>3. pre[q].version = Cardinality(L)
    <3>1. CASE L = {}
      BY <1>6, <1>7, <2>1, <3>1 DEF PendingChainMatches
    <3>2. CASE L # {}
      <4>1. PICK f \in LatestOf(L) : Post(f) = pre[q]
        BY <1>6, <2>1, <3>2 DEF PendingChainMatches
      <4> QED
        BY <1>9, <4>1
    <3> QED
      BY <3>1, <3>2
  <2>4. CASE plantState = pre[q]
    <3>1. onTop = {}
      <4>1. plantState # Post(q)
        BY <2>2, <2>4
      <4> QED
        BY <1>6, <2>1, <4>1
    <3>2. Cardinality(onTop) = 0
      BY <3>1, FS_EmptySet
    <3> QED
      BY <1>1, <1>2, <2>2, <2>3, <2>4, <3>2
  <2>5. CASE plantState = Post(q)
    <3>1. onTop = {q}
      BY <1>6, <2>1, <2>5
    <3>2. Cardinality(onTop) = 1
      BY <3>1, FS_Singleton
    <3>3. plantState.version = Cardinality(L) + 1
      BY <2>2, <2>3, <2>5
    <3> QED
      BY <1>1, <1>2, <3>2, <3>3
  <2> QED
    BY <1>6, <2>1, <2>4, <2>5
<1> QED
  BY <1>10, <1>11

----------------------------------------------------------------------------
(* The walk of the code. *)

\* Any finite set of records can be sorted by version.
LEMMA SortExists ==
  ASSUME pre \in [Effects -> PlantStates], NEW L \in SUBSET Effects, IsFiniteSet(L)
  PROVE  \E s \in SetToSeqs(L) : SortedByVersion(s)
<1> DEFINE Sortable(T) == \E s \in SetToSeqs(T) : SortedByVersion(s)
           Bad == {k \in Nat : \E T \in SUBSET L : Cardinality(T) = k /\ ~Sortable(T)}
<1>1. Bad = {}
  <2> SUFFICES ASSUME Bad # {}
               PROVE  FALSE
    OBVIOUS
  <2>1. PICK k \in Bad : \A m \in Bad : k <= m
    <3>1. Bad \in SUBSET Nat
      OBVIOUS
    <3> HIDE DEF Bad
    <3> QED
      BY <3>1, LeastNat
  <2>2. PICK T \in SUBSET L : Cardinality(T) = k /\ ~Sortable(T)
    BY <2>1
  <2>3. IsFiniteSet(T) /\ T \in SUBSET Effects
    BY FS_Subset
  <2>4. T # {}
    <3> SUFFICES ASSUME T = {}
                 PROVE  FALSE
      OBVIOUS
    <3> DEFINE s == [i \in 1..0 |-> i]
    <3>1. Cardinality(T) = 0
      BY FS_EmptySet
    <3>2. s \in [1..0 -> {}] /\ DOMAIN s = {}
      OBVIOUS
    <3>3. s \in SetToSeqs(T)
      BY <3>1, <3>2 DEF SetToSeqs
    <3>4. SortedByVersion(s)
      BY <3>2 DEF SortedByVersion
    <3> QED
      BY <2>2, <3>3, <3>4
  <2>5. PICK m : m \in LatestOf(T)
    BY <2>3, <2>4, LatestExists
  <2> DEFINE U == T \ {m}
  <2>6. m \in T /\ U \in SUBSET L
    BY <2>5 DEF LatestOf
  <2>7. k \in Nat /\ k # 0 /\ Cardinality(U) = k - 1
    <3>1. Cardinality(U) = k - 1
      BY <2>2, <2>3, <2>6, FS_RemoveElement
    <3>2. k # 0
      BY <2>2, <2>3, <2>4, FS_EmptySet
    <3> QED
      BY <2>1, <3>1, <3>2
  <2>8. k - 1 \notin Bad
    BY <2>1, <2>7
  <2>9. Sortable(U)
    <3>1. k - 1 \in Nat
      BY <2>7
    <3> HIDE DEF Sortable, U
    <3> QED
      BY <2>6, <2>7, <2>8, <3>1
  <2>10. PICK r \in SetToSeqs(U) : SortedByVersion(r)
    BY <2>9
  <2>11. r \in [1..(k - 1) -> U] /\ \A i, j \in 1..(k - 1) : i # j => r[i] # r[j]
    BY <2>7, <2>10 DEF SetToSeqs
  <2>12. \A i, j \in 1..(k - 1) : i < j => pre[r[i]].version <= pre[r[j]].version
    BY <2>10, <2>11 DEF SortedByVersion
  <2> DEFINE s == [i \in 1..k |-> IF i = k THEN m ELSE r[i]]
  <2>13. DOMAIN s = 1..k /\ s[k] = m /\ \A i \in 1..k : i # k => i \in 1..(k - 1) /\ s[i] = r[i]
    BY <2>7
  <2>14. s \in [1..k -> T]
    BY <2>6, <2>11, <2>13
  <2> HIDE DEF s, U
  <2>15. ASSUME NEW i \in 1..k, NEW j \in 1..k, i # j
         PROVE  s[i] # s[j]
    <3>1. \A a \in 1..(k - 1) : r[a] # m
      BY <2>11 DEF U
    <3> QED
      BY <2>11, <2>13, <2>15, <3>1
  <2>16. ASSUME NEW i \in 1..k, NEW j \in 1..k, i < j
         PROVE  pre[s[i]].version <= pre[s[j]].version
    <3>1. i # k /\ i \in 1..(k - 1) /\ s[i] = r[i]
      BY <2>7, <2>13, <2>16
    <3>2. CASE j = k
      <4>1. s[i] \in T /\ s[j] = m
        BY <2>13, <2>14, <3>2
      <4> QED
        BY <2>5, <4>1 DEF LatestOf
    <3>3. CASE j # k
      BY <2>12, <2>13, <2>16, <3>1, <3>3
    <3> QED
      BY <3>2, <3>3
  <2>17. s \in SetToSeqs(T)
    BY <2>2, <2>14, <2>15 DEF SetToSeqs
  <2>18. SortedByVersion(s)
    BY <2>13, <2>16 DEF SortedByVersion
  <2> QED
    BY <2>2, <2>17, <2>18
<1>2. Cardinality(L) \in Nat /\ Cardinality(L) \notin Bad
  BY <1>1, FS_CardinalityType
<1>3. Sortable(L)
  <2> HIDE DEF Sortable
  <2> QED
    BY <1>2
<1> QED
  BY <1>3

\* What is known of the sorted links: each record once, versions ascending.
LEMMA SortedFacts ==
  ASSUME pre \in [Effects -> PlantStates], NEW L \in SUBSET Effects, IsFiniteSet(L),
         NEW s \in SetToSeqs(L), SortedByVersion(s)
  PROVE  /\ Len(s) \in Nat /\ DOMAIN s = 1..Len(s) /\ Len(s) = Cardinality(L)
         /\ \A i \in 1..Len(s) : s[i] \in L /\ pre[s[i]].version \in Nat
         /\ \A i, j \in 1..Len(s) : i # j => s[i] # s[j]
         /\ \A i, j \in 1..Len(s) : i <= j => pre[s[i]].version <= pre[s[j]].version
         /\ \A e \in L : \E i \in 1..Len(s) : s[i] = e
<1> DEFINE n == Cardinality(L)
<1>1. n \in Nat
  BY FS_CardinalityType
<1>2. s \in [1..n -> L] /\ \A i, j \in 1..n : i # j => s[i] # s[j]
  BY DEF SetToSeqs
<1> HIDE DEF n
<1>3. DOMAIN s = 1..n /\ s \in Seq(L) /\ Len(s) = n
  BY <1>1, <1>2
<1>4. s \in Injection(1..n, L)
  BY <1>2 DEF Injection, IsInjective
<1>5. Cardinality(1..n) = n
  BY <1>1, FS_Interval
<1>6. s \in Surjection(1..n, L)
  BY <1>4, <1>5, FS_Injection DEF n
<1>7. \A e \in L : \E i \in 1..n : s[i] = e
  BY <1>6 DEF Surjection
<1>8. \A i \in 1..n : s[i] \in L /\ pre[s[i]].version \in Nat
  BY <1>2, RecordTypes
<1>9. \A i, j \in 1..n : i <= j => pre[s[i]].version <= pre[s[j]].version
  <2> SUFFICES ASSUME NEW i \in 1..n, NEW j \in 1..n, i <= j
               PROVE  pre[s[i]].version <= pre[s[j]].version
    OBVIOUS
  <2>1. CASE i = j
    BY <1>8, <2>1
  <2>2. CASE i < j
    BY <1>3, <2>2 DEF SortedByVersion
  <2> QED
    BY <1>1, <2>1, <2>2
<1> QED
  BY <1>1, <1>2, <1>3, <1>7, <1>8, <1>9 DEF n

\* Along a matching walk the links have the versions 0, 1, 2, ...
LEMMA WalkVersions ==
  ASSUME NEW s, Len(s) \in Nat, WalkMatches(s),
         \A i \in 1..Len(s) : s[i] \in Effects, pre \in [Effects -> PlantStates],
         NEW i \in 1..Len(s)
  PROVE  pre[s[i]].version = i - 1
<1> DEFINE n == Len(s)
           Bad == {k \in 1..n : pre[s[k]].version # k - 1}
<1>1. Bad = {}
  <2> SUFFICES ASSUME Bad # {}
               PROVE  FALSE
    OBVIOUS
  <2>1. PICK k \in Bad : \A m \in Bad : k <= m
    <3>1. Bad \in SUBSET Nat
      OBVIOUS
    <3> HIDE DEF Bad
    <3> QED
      BY <3>1, LeastNat
  <2>2. k \in 1..n /\ pre[s[k]].version # k - 1
    BY <2>1
  <2>3. k # 1
    BY <2>2 DEF WalkMatches
  <2>4. pre[s[k]] = Post(s[k - 1]) /\ k - 1 \in 1..n
    BY <2>2, <2>3 DEF WalkMatches
  <2>5. k - 1 \notin Bad
    BY <2>1, <2>2
  <2>6. pre[s[k - 1]].version = k - 2
    BY <2>2, <2>4, <2>5
  <2>7. pre[s[k]].version = pre[s[k - 1]].version + 1
    BY <2>4, RecordTypes
  <2> QED
    BY <2>2, <2>6, <2>7
<1> QED
  BY <1>1

(***************************************************************************)
(* The walk over the sorted links and the set form accept the same chains. *)
(***************************************************************************)
LEMMA WalkIsChain ==
  ASSUME pre \in [Effects -> PlantStates], NEW L \in SUBSET Effects, IsFiniteSet(L),
         NEW s \in SetToSeqs(L), SortedByVersion(s)
  PROVE  WalkMatches(s) <=> ChainMatches(L)
<1>1. /\ Len(s) \in Nat /\ DOMAIN s = 1..Len(s)
      /\ \A i \in 1..Len(s) : s[i] \in L /\ pre[s[i]].version \in Nat
      /\ \A i, j \in 1..Len(s) : i # j => s[i] # s[j]
      /\ \A i, j \in 1..Len(s) : i <= j => pre[s[i]].version <= pre[s[j]].version
      /\ \A e \in L : \E i \in 1..Len(s) : s[i] = e
  BY SortedFacts
<1>2. PICK n \in Nat : n = Len(s)
  BY <1>1
<1>3. ASSUME WalkMatches(s)
      PROVE  ChainMatches(L)
  <2>1. \A i \in 1..n : pre[s[i]].version = i - 1
    BY <1>1, <1>2, <1>3, WalkVersions
  <2>2. ASSUME NEW e \in L, NEW f \in L, pre[e].version = pre[f].version
        PROVE  e = f
    <3>1. PICK i \in 1..n : s[i] = e
      BY <1>1, <1>2
    <3>2. PICK j \in 1..n : s[j] = f
      BY <1>1, <1>2
    <3>3. i - 1 = j - 1
      BY <2>1, <2>2, <3>1, <3>2
    <3>4. i = j
      BY <3>3
    <3> QED
      BY <3>1, <3>2, <3>4
  <2>3. ASSUME NEW e \in L, pre[e].version # 0
        PROVE  \E f \in L : Post(f) = pre[e]
    <3>1. PICK i \in 1..n : s[i] = e
      BY <1>1, <1>2
    <3>2. i # 1
      BY <2>1, <2>3, <3>1
    <3>3. i - 1 \in 1..n /\ pre[s[i]] = Post(s[i - 1])
      BY <1>2, <1>3, <3>2 DEF WalkMatches
    <3> QED
      BY <1>1, <1>2, <3>1, <3>3
  <2> QED
    BY <2>2, <2>3 DEF ChainMatches
<1>4. ASSUME ChainMatches(L)
      PROVE  WalkMatches(s)
  <2>1. ASSUME NEW i \in 1..n, NEW f \in L, Post(f) = pre[s[i]]
        PROVE  i # 1 /\ s[i - 1] = f
    <3>1. PICK j \in 1..n : s[j] = f
      BY <1>1, <1>2
    <3>2. PICK v \in Nat : pre[f].version = v /\ pre[s[i]].version = v + 1
      BY <2>1, RecordTypes
    <3>3. j < i
      <4> SUFFICES ASSUME i <= j
                   PROVE  FALSE
        OBVIOUS
      <4>1. v + 1 <= v
        BY <1>1, <1>2, <3>1, <3>2
      <4> QED
        BY <4>1
    <3>4. i # 1 /\ i - 1 \in 1..n /\ j <= i - 1 /\ i - 1 <= i
      BY <3>3
    <3>5. PICK w \in Nat : pre[s[i - 1]].version = w
      BY <1>1, <1>2, <3>4
    <3>6. v <= w /\ w <= v + 1
      BY <1>1, <1>2, <3>1, <3>2, <3>4, <3>5
    <3>7. w # v + 1
      <4> SUFFICES ASSUME w = v + 1
                   PROVE  FALSE
        OBVIOUS
      <4>1. s[i - 1] = s[i]
        BY <1>1, <1>2, <1>4, <3>2, <3>4, <3>5 DEF ChainMatches
      <4>2. i - 1 # i
        OBVIOUS
      <4> QED
        BY <1>1, <1>2, <3>4, <4>1, <4>2
    <3>8. w = v
      BY <3>6, <3>7
    <3> QED
      BY <1>1, <1>2, <1>4, <3>2, <3>4, <3>5, <3>8 DEF ChainMatches
  <2>2. ASSUME NEW i \in 1..n
        PROVE  IF i = 1 THEN pre[s[i]].version = 0 ELSE pre[s[i]] = Post(s[i - 1])
    <3>1. CASE i = 1
      BY <1>1, <1>2, <1>4, <2>1, <3>1 DEF ChainMatches
    <3>2. CASE i # 1
      <4>1. i - 1 \in 1..n /\ 1 \in 1..n /\ i - 1 <= i /\ i - 1 # i
        BY <3>2
      <4>2. pre[s[i]].version # 0
        <5> SUFFICES ASSUME pre[s[i]].version = 0
                     PROVE  FALSE
          OBVIOUS
        <5>1. pre[s[i - 1]].version = 0
          BY <1>1, <1>2, <4>1
        <5>2. s[i - 1] = s[i]
          BY <1>1, <1>2, <1>4, <4>1, <5>1 DEF ChainMatches
        <5> QED
          BY <1>1, <1>2, <4>1, <5>2
      <4>3. PICK f \in L : Post(f) = pre[s[i]]
        BY <1>1, <1>2, <1>4, <4>2 DEF ChainMatches
      <4>4. s[i - 1] = f
        BY <2>1, <4>3
      <4> QED
        BY <3>2, <4>3, <4>4
    <3> QED
      BY <3>1, <3>2
  <2> QED
    BY <1>2, <2>2 DEF WalkMatches
<1> QED
  BY <1>3, <1>4

\* The walk ends at the one latest link.
LEMMA WalkEnds ==
  ASSUME pre \in [Effects -> PlantStates], NEW L \in SUBSET Effects, IsFiniteSet(L),
         NEW s \in SetToSeqs(L), SortedByVersion(s), ChainMatches(L), L # {}
  PROVE  s # <<>> /\ LatestOf(L) = {Last(s)} /\ Last(s) \in Effects
<1>1. /\ Len(s) \in Nat /\ DOMAIN s = 1..Len(s)
      /\ \A i \in 1..Len(s) : s[i] \in L /\ pre[s[i]].version \in Nat
      /\ \A i, j \in 1..Len(s) : i <= j => pre[s[i]].version <= pre[s[j]].version
      /\ \A e \in L : \E i \in 1..Len(s) : s[i] = e
  BY SortedFacts
<1>2. PICK n \in Nat : n = Len(s)
  BY <1>1
<1>3. n # 0 /\ n \in 1..n
  BY <1>1, <1>2
<1>4. s # <<>>
  BY <1>2, <1>3
<1>5. Last(s) = s[n] /\ s[n] \in L
  BY <1>1, <1>2, <1>3 DEF Last
<1>6. \A f \in L : pre[f].version <= pre[s[n]].version
  <2> SUFFICES ASSUME NEW f \in L
               PROVE  pre[f].version <= pre[s[n]].version
    OBVIOUS
  <2>1. PICK i \in 1..n : s[i] = f
    BY <1>1, <1>2
  <2>2. i <= n
    OBVIOUS
  <2> QED
    BY <1>1, <1>2, <1>3, <2>1, <2>2
<1>7. \A e \in LatestOf(L) : e = s[n]
  <2> SUFFICES ASSUME NEW e \in LatestOf(L)
               PROVE  e = s[n]
    OBVIOUS
  <2>1. e \in L /\ pre[s[n]].version <= pre[e].version /\ pre[e].version <= pre[s[n]].version
    BY <1>5, <1>6 DEF LatestOf
  <2>2. pre[e].version \in Nat /\ pre[s[n]].version \in Nat
    BY <1>5, <2>1, RecordTypes
  <2>3. pre[e].version = pre[s[n]].version
    BY <2>1, <2>2
  <2> QED
    BY <1>5, <2>1, <2>3 DEF ChainMatches
<1>8. s[n] \in LatestOf(L)
  BY <1>5, <1>6 DEF LatestOf
<1> QED
  BY <1>4, <1>5, <1>7, <1>8

(***************************************************************************)
(* The verdict with sets that the coordination model uses is the verdict   *)
(* of the code's walk, on every journal and plant state, sound or not      *)
(* (validate_coordination_recovery).                                       *)
(***************************************************************************)
THEOREM WalkGivesVerdict == JournalType => VerdictsAgree
<1> SUFFICES ASSUME JournalType
             PROVE  VerdictsAgree
  OBVIOUS
<1>1. PICK L : L = AppliedIn(st)
  OBVIOUS
<1>2. PICK Q : Q = PendingIn(st)
  OBVIOUS
<1>3. PICK s : s = SortedLinks
  OBVIOUS
<1> DEFINE J == {e \in Effects : st[e] # "none"}
           q == CHOOSE p \in Q : TRUE
           end == Post(Last(s))
<1>4. /\ L \in SUBSET Effects /\ Q \in SUBSET Effects
      /\ L \in SUBSET J /\ Q \in SUBSET J /\ IsFiniteSet(J)
  BY <1>1, <1>2 DEF AppliedIn, PendingIn, PendingStates, JournalType
<1>5. IsFiniteSet(L) /\ IsFiniteSet(Q)
  BY <1>4, FS_Subset
<1>6. pre \in [Effects -> PlantStates] /\ plantState \in PlantStates
  BY DEF JournalType
<1>7. s \in SetToSeqs(L) /\ SortedByVersion(s)
  <2>1. \E r \in SetToSeqs(L) : SortedByVersion(r)
    BY <1>4, <1>5, <1>6, SortExists
  <2> QED
    BY <1>1, <1>3, <2>1 DEF SortedLinks
<1>8. Cardinality(Q) > 1 <=> \E e, f \in Q : e # f
  <2>1. Cardinality(Q) \in Nat
    BY <1>5, FS_CardinalityType
  <2>2. Cardinality(Q) = 0 <=> Q = {}
    BY <1>5, FS_EmptySet
  <2>3. Cardinality(Q) = 1 <=> \E x : Q = {x}
    BY <1>5, FS_Singleton
  <2> QED
    BY <2>1, <2>2, <2>3
<1>9. WalkMatches(s) <=> ChainMatches(L)
  BY <1>4, <1>5, <1>6, <1>7, WalkIsChain
<1>10. s = <<>> <=> L = {}
  <2>1. Len(s) = Cardinality(L) /\ DOMAIN s = 1..Len(s) /\ Len(s) \in Nat
        /\ \A e \in L : \E i \in 1..Len(s) : s[i] = e
    BY <1>4, <1>5, <1>6, <1>7, SortedFacts
  <2>2. Cardinality(L) = 0 <=> L = {}
    BY <1>5, FS_EmptySet
  <2>3. s = <<>> => L = {}
    BY <2>1, <2>2
  <2>4. L = {} => s = <<>>
    <3> SUFFICES ASSUME L = {}
                 PROVE  s = <<>>
      OBVIOUS
    <3>1. Cardinality(L) = 0
      BY <2>2
    <3>2. s \in [1..0 -> {}]
      BY <1>7, <3>1 DEF SetToSeqs
    <3> QED
      BY <3>2
  <2> QED
    BY <2>3, <2>4
<1>11. L # {} /\ ChainMatches(L) => LatestOf(L) = {Last(s)} /\ Last(s) \in Effects
  BY <1>4, <1>5, <1>6, <1>7, WalkEnds
<1>12. ASSUME Q # {}, ChainMatches(L), \A e, f \in Q : e = f
       PROVE  (pre[q] = IF s = <<>> THEN [pre[q] EXCEPT !.version = 0] ELSE end)
                <=> \A e \in Q : PendingChainMatches(e, L)
  <2>1. q \in Q /\ q \in Effects /\ \A e \in Q : e = q
    BY <1>4, <1>12
  <2>2. pre[q] \in PlantStates
    BY <1>6, <2>1
  <2>3. pre[q] = [pre[q] EXCEPT !.version = 0] <=> pre[q].version = 0
    BY <2>2 DEF PlantStates
  <2>4. CASE L = {}
    BY <1>10, <2>1, <2>3, <2>4 DEF PendingChainMatches
  <2>5. CASE L # {}
    BY <1>10, <1>11, <1>12, <2>1, <2>5 DEF PendingChainMatches
  <2> QED
    BY <2>4, <2>5
<1>13. ASSUME ChainMatches(L)
       PROVE  SettledReason(L, plantState)
                = IF s = <<>>
                  THEN IF plantState.version # 0 THEN "baseline_state_not_zero"
                                                 ELSE "aligned_empty_baseline"
                  ELSE IF plantState.version < end.version THEN "plant_state_rollback"
                  ELSE IF plantState.version > end.version THEN "plant_state_advanced"
                  ELSE IF plantState.content # end.content THEN "plant_state_digest_mismatch"
                  ELSE "aligned_applied_chain"
  <2>1. CASE L = {}
    BY <1>10, <2>1 DEF SettledReason
  <2>2. CASE L # {}
    <3>1. (CHOOSE e \in LatestOf(L) : TRUE) = Last(s)
      BY <1>11, <1>13, <2>2
    <3>2. end \in PlantStates
      BY <1>6, <1>11, <1>13, <2>2, RecordTypes
    <3> HIDE DEF end
    <3>3. ~(plantState.version < end.version) /\ ~(plantState.version > end.version) =>
            (plantState = end <=> plantState.content = end.content)
      BY <1>6, <3>2 DEF PlantStates
    <3>4. SettledReason(L, plantState)
            = IF plantState.version < end.version THEN "plant_state_rollback"
              ELSE IF plantState.version > end.version THEN "plant_state_advanced"
              ELSE IF plantState # end THEN "plant_state_digest_mismatch"
              ELSE "aligned_applied_chain"
      BY <2>2, <3>1 DEF SettledReason, end
    <3> QED
      BY <1>10, <2>2, <3>3, <3>4
  <2> QED
    BY <2>1, <2>2
<1>14. WalkedReason
         = IF Cardinality(Q) > 1 THEN "multiple_pending_effects"
           ELSE IF ~WalkMatches(s) THEN "applied_chain_broken"
           ELSE IF Q # {}
           THEN IF pre[q] # (IF s = <<>> THEN [pre[q] EXCEPT !.version = 0] ELSE end)
                THEN "pending_chain_broken"
                ELSE PendingReason(q, plantState)
           ELSE IF s = <<>>
           THEN IF plantState.version # 0 THEN "baseline_state_not_zero"
                                          ELSE "aligned_empty_baseline"
           ELSE IF plantState.version < end.version THEN "plant_state_rollback"
           ELSE IF plantState.version > end.version THEN "plant_state_advanced"
           ELSE IF plantState.content # end.content THEN "plant_state_digest_mismatch"
           ELSE "aligned_applied_chain"
  BY <1>2, <1>3 DEF WalkedReason
<1>15. RecoveryReason(st, plantState)
         = IF \E e, f \in Q : e # f THEN "multiple_pending_effects"
           ELSE IF ~ChainMatches(L) THEN "applied_chain_broken"
           ELSE IF \E e \in Q : ~PendingChainMatches(e, L) THEN "pending_chain_broken"
           ELSE IF Q # {} THEN PendingReason(q, plantState)
           ELSE SettledReason(L, plantState)
  BY <1>1, <1>2 DEF RecoveryReason
<1> HIDE DEF q, end
<1>16. RecoveryReason(st, plantState) = WalkedReason
  <2>1. CASE \E e, f \in Q : e # f
    BY <1>8, <1>14, <1>15, <2>1
  <2>2. CASE ~(\E e, f \in Q : e # f) /\ ~ChainMatches(L)
    BY <1>8, <1>9, <1>14, <1>15, <2>2
  <2>3. CASE ~(\E e, f \in Q : e # f) /\ ChainMatches(L) /\ Q # {}
    BY <1>8, <1>9, <1>12, <1>14, <1>15, <2>3
  <2>4. CASE ~(\E e, f \in Q : e # f) /\ ChainMatches(L) /\ Q = {}
    BY <1>8, <1>9, <1>13, <1>14, <1>15, <2>4
  <2> QED
    BY <2>1, <2>2, <2>3, <2>4
<1> QED
  BY <1>16 DEF VerdictsAgree

------------------------------------------------------------------------------
(***************************************************************************)
(* The inductive invariant.  An anchor is known while it is in the chain   *)
(* or in a readback that a call still holds.  The identity of a new anchor *)
(* is used by nothing that is known or that a store was based on, so a     *)
(* store continues whatever anchor has the identity it is based on, also   *)
(* after the authority or the site was put back.                           *)
(***************************************************************************)
Known == {chain[k] : k \in 1..Len(chain)}
         \cup {rb[s].anchor : s \in {x \in Sites : rb[x] # Absent}}

LocalStates == {store[s] : s \in Sites} \cup {old[1] : old \in UNION {saved[s] : s \in Sites}}

\* Identities given away so far.
Used(id) == id.epoch <= restores /\ (id.epoch = restores => id.seq < Len(chain))

ChainNumbered == \A k \in 1..Len(chain) : chain[k].id.seq = k - 1

AnchorSane(a) == Used(a.id) /\ a.projection.journal \in 0..Len(change)

OneAnchorPerId == \A a, b \in Known : a.id = b.id => a = b

\* A store that was changed carries the fence of its last change, and continues the
\* anchor it is based on by that change.
StoreSane(p) ==
    /\ p.journal \in 0..Len(change)
    /\ p.journal # 0 => p.token = change[p.journal].token
    /\ p.base # Absent => /\ p.journal # 0 /\ Used(p.base)
                          /\ \A a \in Known : a.id = p.base =>
                                Line(p) = Line(a.projection) \cup {p.journal}

ChainGrows ==
    \A k \in 1..(Len(chain) - 1) :
        LET p == chain[k].projection
            q == chain[k + 1].projection
        IN  /\ q.journal \in DOMAIN change
            /\ Line(q) = Line(p) \cup {q.journal}
            /\ change[q.journal].token = chain[k + 1].token

FloorSane(s) ==
    /\ floor[s] = Absent => accepted[s] = {}
    /\ floor[s] # Absent => \A a \in accepted[s] : a.seq <= floor[s].id.seq /\
                               (a.seq = floor[s].id.seq => a = floor[s].id)
    /\ \A a, b \in accepted[s] : a.seq = b.seq => a = b

AnchorInv ==
    /\ AnchorTypeOK
    /\ ChainNumbered
    /\ \A a \in Known : AnchorSane(a)
    /\ OneAnchorPerId
    /\ \A p \in LocalStates : StoreSane(p)
    /\ ChainGrows
    /\ \A s \in Sites : FloorSane(s)

-------------------------------------------------------------------------------
LEMMA KnownType ==
    ASSUME AnchorInv
    PROVE  /\ \A a \in Known : a \in Anchor /\ a.id \in Ids /\ a.projection \in Projection
           /\ \A k \in 1..Len(chain) : chain[k] \in Known
           /\ \A s \in Sites : rb[s] # Absent => rb[s] \in Readback /\ rb[s].anchor \in Known
<1>1. /\ \A k \in 1..Len(chain) : chain[k] \in Anchor /\ chain[k] \in Known
      /\ \A s \in Sites : rb[s] # Absent => rb[s] \in Readback /\ rb[s].anchor \in Known
  BY DEF AnchorInv, AnchorTypeOK, Known
<1>2. \A r \in Readback : r.anchor \in Anchor
  BY DEF Readback
<1>3. \A a \in Anchor : a.id \in Ids /\ a.projection \in Projection
  BY DEF Anchor
<1>4. \A a \in Known : a \in Anchor
  BY <1>1, <1>2 DEF Known
<1>5. QED
  BY <1>1, <1>3, <1>4

LEMMA LocalType ==
    ASSUME AnchorInv
    PROVE  \A p \in LocalStates : p \in Projection
BY DEF AnchorInv, AnchorTypeOK, LocalStates

LEMMA CurrentFacts ==
    ASSUME AnchorInv
    PROVE  /\ Len(chain) \in Nat /\ Len(chain) > 0 /\ Len(chain) \in 1..Len(chain)
           /\ Current = chain[Len(chain)] /\ Current \in Known /\ Current \in Anchor
           /\ Current.id.seq + 1 = Len(chain)
<1>1. Len(chain) \in Nat /\ Len(chain) > 0
  BY DEF AnchorInv, AnchorTypeOK
<1>2. Len(chain) \in 1..Len(chain) /\ Current = chain[Len(chain)]
  BY <1>1 DEF Current
<1>3. Current \in Known /\ Current \in Anchor
  BY <1>2, KnownType
<1>4. Current.id.seq = Len(chain) - 1
  BY <1>2 DEF AnchorInv, ChainNumbered
<1>5. QED
  BY <1>1, <1>2, <1>3, <1>4

LEMMA InitAnchorInv == AnchorInit => AnchorInv
<1> SUFFICES ASSUME AnchorInit PROVE AnchorInv
  OBVIOUS
<1>1. Absent \notin Ids
  BY DEF Absent, Ids
<1>2. Genesis \in Projection /\ Genesis.journal = 0 /\ Genesis.base = Absent
  BY DEF Genesis, Projection
<1>3. /\ GenesisAnchor \in Anchor /\ GenesisAnchor.id.seq = 0 /\ GenesisAnchor.id.epoch = 0
      /\ GenesisAnchor.projection = Genesis
  <2>1. [epoch |-> 0, seq |-> 0] \in Ids
    BY AnchorAssumption DEF Ids
  <2>2. QED
    BY <1>2, <2>1 DEF GenesisAnchor, Anchor
<1>4. chain = <<GenesisAnchor>> /\ Len(chain) = 1 /\ chain[1] = GenesisAnchor
  BY DEF AnchorInit
<1>5. AnchorTypeOK
  <2>1. chain \in Seq(Anchor) /\ chain # <<>>
    BY <1>3, <1>4
  <2>2. <<>> \in Seq([token : Nat, line : SUBSET Nat])
    OBVIOUS
  <2>3. /\ store \in [Sites -> Projection] /\ rb \in [Sites -> Readback \cup {Absent}]
        /\ fence \in [Sites -> FenceGrant \cup {Absent}]
        /\ floor \in [Sites -> Floor \cup {Absent}]
        /\ saved \in [Sites -> SUBSET (Projection \X (Floor \cup {Absent}))]
        /\ accepted \in [Sites -> SUBSET Ids]
    BY <1>2 DEF AnchorInit
  <2>4. token \in 0..MaxToken /\ restores \in 0..MaxRestores /\ change = <<>>
    BY AnchorAssumption DEF AnchorInit
  <2>5. QED
    BY <2>1, <2>2, <2>3, <2>4 DEF AnchorTypeOK
<1>6. Known = {GenesisAnchor} /\ \A p \in LocalStates : p = Genesis
  BY <1>4 DEF AnchorInit, Known, LocalStates
<1>7. ChainNumbered /\ OneAnchorPerId /\ ChainGrows
  BY <1>3, <1>4, <1>6 DEF ChainNumbered, OneAnchorPerId, ChainGrows
<1>8. \A a \in Known : AnchorSane(a)
  BY <1>2, <1>3, <1>4, <1>6 DEF AnchorInit, AnchorSane, Used
<1>9. \A p \in LocalStates : StoreSane(p)
  BY <1>2, <1>6 DEF AnchorInit, StoreSane
<1>10. \A s \in Sites : FloorSane(s)
  BY DEF AnchorInit, FloorSane
<1>11. QED
  BY <1>5, <1>7, <1>8, <1>9, <1>10 DEF AnchorInv

(***************************************************************************)
(* Steps that bring neither a new anchor nor a new store nor a change.     *)
(***************************************************************************)
LEMMA FrameStep ==
    ASSUME AnchorInv, AnchorTypeOK',
           Known' \subseteq Known, LocalStates' \subseteq LocalStates, change' = change,
           \A id \in Ids : Used(id) => Used(id)',
           ChainNumbered', ChainGrows', \A s \in Sites : FloorSane(s)'
    PROVE  AnchorInv'
<1>1. \A a \in Known' : AnchorSane(a)'
  BY KnownType DEF AnchorInv, AnchorSane
<1>2. OneAnchorPerId'
  BY DEF AnchorInv, OneAnchorPerId
<1>3. ASSUME NEW p \in LocalStates' PROVE StoreSane(p)'
  <2>1. p \in LocalStates /\ StoreSane(p) /\ p \in Projection
    BY LocalType DEF AnchorInv
  <2>2. p.base # Absent => p.base \in Ids
    BY <2>1 DEF Projection
  <2>3. QED
    BY <2>1, <2>2 DEF StoreSane, Line
<1>4. QED
  BY <1>1, <1>2, <1>3 DEF AnchorInv

LEMMA SameChain ==
    ASSUME AnchorInv, UNCHANGED <<chain, change>>
    PROVE  ChainNumbered' /\ ChainGrows'
BY DEF AnchorInv, ChainNumbered, ChainGrows, Line

\* A readback, a fence that is asked for or runs out, and a call that fails.
LEMMA CallStep ==
    ASSUME AnchorInv, NEW s \in Sites,
           GetReadback(s) \/ AcquireFence(s) \/ CallFails(s) \/ FenceExpires(s)
    PROVE  AnchorInv'
<1>1. UNCHANGED <<chain, store, floor, saved, change, restores, accepted>>
  BY DEF GetReadback, AcquireFence, CallFails, FenceExpires
<1>2. /\ rb' = rb \/ rb' = [rb EXCEPT ![s] = Absent]
         \/ rb' = [rb EXCEPT ![s] = [anchor |-> Current, token |-> token]]
  BY DEF GetReadback, AcquireFence, CallFails, FenceExpires
<1>3. Known' \subseteq Known
  <2>1. \A x \in Sites : rb'[x] # Absent => rb'[x].anchor \in Known
    <3>1. Current \in Known /\ rb \in [Sites -> Readback \cup {Absent}]
      BY CurrentFacts DEF AnchorInv, AnchorTypeOK
    <3>2. \A x \in Sites : rb'[x] = rb[x] \/ rb'[x] = Absent
                           \/ rb'[x] = [anchor |-> Current, token |-> token]
      BY <1>2, <3>1
    <3>3. QED
      BY <3>1, <3>2, KnownType
  <2>2. QED
    BY <1>1, <2>1, KnownType DEF Known
<1>4. LocalStates' = LocalStates
  BY <1>1 DEF LocalStates
<1>5. AnchorTypeOK'
  <2>1. rb' \in [Sites -> Readback \cup {Absent}]
    <3>1. Current \in Anchor /\ token \in Nat
      BY CurrentFacts, AnchorAssumption DEF AnchorInv, AnchorTypeOK
    <3>2. [anchor |-> Current, token |-> token] \in Readback
      BY <3>1 DEF Readback
    <3>3. QED
      BY <1>2, <3>2 DEF AnchorInv, AnchorTypeOK
  <2>2. token' \in 0..MaxToken /\ fence' \in [Sites -> FenceGrant \cup {Absent}]
    <3>1. CASE GetReadback(s) \/ CallFails(s)
      BY <3>1 DEF GetReadback, CallFails, AnchorInv, AnchorTypeOK
    <3>2. CASE AcquireFence(s)
      <4>1. token \in 0..MaxToken /\ token < MaxToken /\ token' = token + 1
        BY <3>2 DEF AcquireFence, AnchorInv, AnchorTypeOK
      <4>2. Current.id \in Ids
        BY CurrentFacts DEF Anchor
      <4>3. [base |-> Current.id, token |-> token + 1, live |-> TRUE] \in FenceGrant
        BY <4>1, <4>2, AnchorAssumption DEF FenceGrant
      <4>4. fence' = [fence EXCEPT ![s] =
                        [base |-> Current.id, token |-> token + 1, live |-> TRUE]]
        BY <3>2 DEF AcquireFence
      <4>5. QED
        BY <4>1, <4>3, <4>4, AnchorAssumption DEF AnchorInv, AnchorTypeOK
    <3>3. CASE FenceExpires(s)
      <4>1. fence[s] \in FenceGrant /\ fence' = [fence EXCEPT ![s].live = FALSE] /\ token' = token
        BY <3>3 DEF FenceExpires, AnchorInv, AnchorTypeOK
      <4>2. [fence[s] EXCEPT !.live = FALSE] \in FenceGrant
        BY <4>1 DEF FenceGrant
      <4>3. QED
        BY <4>1, <4>2 DEF AnchorInv, AnchorTypeOK
    <3>4. QED
      BY <3>1, <3>2, <3>3
  <2>3. QED
    BY <1>1, <2>1, <2>2 DEF AnchorInv, AnchorTypeOK
<1>6. \A x \in Sites : FloorSane(x)'
  BY <1>1 DEF AnchorInv, FloorSane
<1>7. \A id \in Ids : Used(id) => Used(id)'
  BY <1>1 DEF Used
<1>8. QED
  BY <1>1, <1>3, <1>4, <1>5, <1>6, <1>7, SameChain, FrameStep

\* A verdict that lets a call go on accepted the readback against the floor.
LEMMA VerdictMeans ==
    ASSUME NEW p, NEW r, NEW f, NEW g, NEW need \in BOOLEAN,
           Validate(p, r, f, g, need) \in {"aligned", "recovery_required", "admission_ready"}
    PROVE  /\ FloorAccepts(r, f)
           /\ Validate(p, r, f, g, need) = "admission_ready" =>
                 p = r.anchor.projection /\ FenceAccepts(g, r)
<1> DEFINE v == Validate(p, r, f, g, need)
<1>1. CASE p.status = "inconsistent"
  BY <1>1 DEF Validate
<1>2. CASE p.status # "inconsistent" /\ ~FloorAccepts(r, f)
  BY <1>2 DEF Validate
<1>3. CASE p.status # "inconsistent" /\ FloorAccepts(r, f) /\ SameDigest(p, r.anchor.projection)
  <2>1. v = IF ~need THEN "aligned"
            ELSE IF FenceAccepts(g, r) THEN "admission_ready" ELSE "fence_failure"
    BY <1>3 DEF Validate
  <2>2. v = "admission_ready" => FenceAccepts(g, r)
    BY <2>1
  <2>3. QED
    BY <1>3, <2>2 DEF SameDigest
<1>4. CASE p.status # "inconsistent" /\ FloorAccepts(r, f) /\ ~SameDigest(p, r.anchor.projection)
  <2>1. v = IF AdvancedUnderFence(p, r) THEN "recovery_required" ELSE "inconsistent"
    BY <1>4 DEF Validate
  <2>2. v # "admission_ready"
    BY <2>1
  <2>3. QED
    BY <1>4, <2>2
<1>5. QED
  BY <1>1, <1>2, <1>3, <1>4

\* The floor only follows the chain: the accepted anchor is the floor's or its direct
\* successor, above everything accepted before.
LEMMA FloorFollows ==
    ASSUME AnchorInv, NEW s \in Sites, rb[s] # Absent, FloorAccepts(rb[s], floor[s]),
           RetainFloor(s)
    PROVE  /\ \A x \in Sites : FloorSane(x)'
           /\ floor' \in [Sites -> Floor \cup {Absent}] /\ accepted' \in [Sites -> SUBSET Ids]
<1> DEFINE id == rb[s].anchor.id
           f == [id |-> id, token |-> rb[s].token]
<1>1. rb[s] \in Readback /\ id \in Ids /\ rb[s].token \in Nat
  BY KnownType DEF Readback
<1>2. floor' = [floor EXCEPT ![s] = f] /\ accepted' = [accepted EXCEPT ![s] = @ \cup {id}]
  BY DEF RetainFloor
<1>3. f \in Floor /\ f.id = id /\ f # Absent /\ id.seq \in Nat
  BY <1>1 DEF Floor, Absent, Ids
<1> HIDE DEF f, id
<1>4. /\ floor' \in [Sites -> Floor \cup {Absent}] /\ accepted' \in [Sites -> SUBSET Ids]
      /\ floor'[s] = f /\ accepted'[s] = accepted[s] \cup {id}
      /\ \A x \in Sites : x # s => floor'[x] = floor[x] /\ accepted'[x] = accepted[x]
  BY <1>1, <1>2, <1>3 DEF AnchorInv, AnchorTypeOK
<1>5. \A a \in accepted[s] : a.seq \in Nat
  BY DEF AnchorInv, AnchorTypeOK, Ids
<1>6. FloorSane(s)'
  <2>1. CASE floor[s] = Absent
    BY <1>3, <1>4, <2>1 DEF AnchorInv, FloorSane
  <2>2. CASE floor[s] # Absent
    <3>1. floor[s] \in Floor
      BY <2>2 DEF AnchorInv, AnchorTypeOK
    <3>2. floor[s].id.seq \in Nat
      BY <3>1 DEF Floor, Ids
    <3>3. id = floor[s].id \/ id.seq = floor[s].id.seq + 1
      BY <2>2 DEF FloorAccepts, id
    <3>4. \A a \in accepted[s] : a.seq <= id.seq /\ (a.seq = id.seq => a = id)
      BY <1>3, <1>5, <2>2, <3>2, <3>3 DEF AnchorInv, FloorSane
    <3>5. QED
      BY <1>3, <1>4, <2>2, <3>4 DEF AnchorInv, FloorSane
  <2>3. QED
    BY <2>1, <2>2
<1>7. QED
  BY <1>4, <1>6 DEF AnchorInv, FloorSane

LEMMA ReadbackOnlyStep ==
    ASSUME AnchorInv, NEW s \in Sites, ReadbackOnly(s)
    PROVE  AnchorInv'
<1>1. /\ rb[s] # Absent /\ RetainFloor(s) /\ rb' = [rb EXCEPT ![s] = Absent]
      /\ UNCHANGED <<chain, token, store, fence, saved, change, restores>>
  BY DEF ReadbackOnly
<1>2. FloorAccepts(rb[s], floor[s])
  BY VerdictMeans DEF ReadbackOnly
<1>3. \A x \in Sites : rb'[x] = rb[x] \/ rb'[x] = Absent
  BY <1>1 DEF AnchorInv, AnchorTypeOK
<1>4. Known' \subseteq Known /\ LocalStates' = LocalStates
  BY <1>1, <1>3 DEF Known, LocalStates
<1>5. AnchorTypeOK'
  <2>1. rb' \in [Sites -> Readback \cup {Absent}]
    BY <1>1 DEF AnchorInv, AnchorTypeOK
  <2>2. QED
    BY <1>1, <1>2, <2>1, FloorFollows DEF AnchorInv, AnchorTypeOK
<1>6. \A id \in Ids : Used(id) => Used(id)'
  BY <1>1 DEF Used
<1>7. QED
  BY <1>1, <1>2, <1>4, <1>5, <1>6, FloorFollows, SameChain, FrameStep

\* The line of a state is settled once its change is made.
LEMMA LineStays ==
    ASSUME AnchorInv, NEW c \in [token : Nat, line : SUBSET Nat], change' = Append(change, c),
           NEW p, p.journal \in 0..Len(change)
    PROVE  /\ p.journal \in 0..Len(change)' /\ Line(p)' = Line(p)
           /\ p.journal # 0 => change'[p.journal] = change[p.journal]
<1>1. change \in Seq([token : Nat, line : SUBSET Nat])
  BY DEF AnchorInv, AnchorTypeOK
<1>2. Len(change') = Len(change) + 1 /\ \A i \in 1..Len(change) : change'[i] = change[i]
  BY <1>1
<1>3. p.journal # 0 => p.journal \in 1..Len(change)
  BY <1>1
<1>4. QED
  BY <1>1, <1>2, <1>3 DEF Line

\* A change that continues a known anchor: the part of the step that does not depend on
\* which site made it.
LEMMA ChangeStep ==
    ASSUME AnchorInv, NEW a0 \in Known, NEW p \in Projection,
           NEW c \in [token : Nat, line : SUBSET Nat],
           p.journal = Len(change) + 1, p.token = c.token, p.base = a0.id,
           c.line = Line(a0.projection),
           change' = Append(change, c), UNCHANGED <<chain, restores>>,
           Known' \subseteq Known, LocalStates' \subseteq LocalStates \cup {p},
           AnchorTypeOK', \A s \in Sites : FloorSane(s)'
    PROVE  AnchorInv'
<1>1. change \in Seq([token : Nat, line : SUBSET Nat]) /\ Len(change) \in Nat
  BY DEF AnchorInv, AnchorTypeOK
<1>2. change'[Len(change) + 1] = c /\ Len(change') = Len(change) + 1
  BY <1>1
<1>3. \A a \in Known : /\ a.projection.journal \in 0..Len(change) /\ Used(a.id)
  BY DEF AnchorInv, AnchorSane
<1>4. ASSUME NEW a \in Known PROVE Line(a.projection)' = Line(a.projection) /\ AnchorSane(a)'
  <2>1. /\ a.projection.journal \in 0..Len(change)'
        /\ Line(a.projection)' = Line(a.projection)
    BY <1>3, LineStays
  <2>2. Used(a.id)'
    BY <1>3 DEF Used
  <2>3. QED
    BY <2>1, <2>2 DEF AnchorSane
<1>5. OneAnchorPerId'
  BY DEF AnchorInv, OneAnchorPerId
<1>6. ASSUME NEW q \in LocalStates PROVE StoreSane(q)'
  <2>1. StoreSane(q)
    BY DEF AnchorInv
  <2>2. /\ q.journal \in 0..Len(change)' /\ Line(q)' = Line(q)
        /\ q.journal # 0 => change'[q.journal] = change[q.journal]
    BY <2>1, LineStays DEF StoreSane
  <2>3. QED
    BY <1>4, <2>1, <2>2 DEF StoreSane, Used
<1>7. StoreSane(p)'
  <2>1. p.journal \in 0..Len(change)' /\ p.journal # 0 /\ p.token = change'[p.journal].token
    BY <1>1, <1>2
  <2>2. Line(p)' = {p.journal} \cup Line(a0.projection)
    BY <1>1, <1>2, <2>1 DEF Line
  <2>3. \A a \in Known' : a.id = p.base => a = a0
    BY DEF AnchorInv, OneAnchorPerId
  <2>4. Line(a0.projection)' = Line(a0.projection) /\ Used(a0.id)'
    BY <1>4 DEF AnchorSane
  <2>5. QED
    BY <2>1, <2>2, <2>3, <2>4 DEF StoreSane
<1>8. ChainNumbered'
  BY DEF AnchorInv, ChainNumbered
<1>9. ChainGrows'
  <2>1. SUFFICES ASSUME NEW k \in 1..(Len(chain) - 1)
                 PROVE  /\ chain'[k + 1].projection.journal \in DOMAIN change'
                        /\ Line(chain[k + 1].projection)' =
                             Line(chain[k].projection)' \cup {chain'[k + 1].projection.journal}
                        /\ change'[chain'[k + 1].projection.journal].token = chain'[k + 1].token
    BY DEF ChainGrows
  <2>2. PICK x, y : x = chain[k] /\ y = chain[k + 1]
    OBVIOUS
  <2>3. x \in Known /\ y \in Known
    BY <2>2, CurrentFacts, KnownType
  <2>4. /\ y.projection.journal \in DOMAIN change
        /\ Line(y.projection) = Line(x.projection) \cup {y.projection.journal}
        /\ change[y.projection.journal].token = y.token
    BY <2>2 DEF AnchorInv, ChainGrows
  <2>5. /\ y.projection.journal \in DOMAIN change'
        /\ change'[y.projection.journal] = change[y.projection.journal]
    BY <1>1, <2>4
  <2>6. Line(y.projection)' = Line(x.projection)' \cup {y.projection.journal}
    BY <1>4, <2>3, <2>4
  <2>7. chain'[k] = x /\ chain'[k + 1] = y
    BY <2>2
  <2>8. Line(chain[k + 1].projection)' = Line(y.projection)'
        /\ Line(chain[k].projection)' = Line(x.projection)'
    BY <2>7 DEF Line
  <2>9. QED
    BY <2>4, <2>5, <2>6, <2>7, <2>8
<1>10. QED
  BY <1>4, <1>5, <1>6, <1>7, <1>8, <1>9 DEF AnchorInv

LEMMA AdmitPrepareStep ==
    ASSUME AnchorInv, NEW s \in Sites, AdmitPrepare(s)
    PROVE  AnchorInv'
<1>1. PICK was, a0, g, f : was = store[s] /\ a0 = rb[s].anchor /\ g = fence[s] /\ f = floor[s]
  OBVIOUS
<1> DEFINE j == Len(change) + 1
           new == [was EXCEPT !.journal = j, !.status = "recovery_required",
                              !.token = g.token, !.base = g.base]
           entry == [token |-> g.token,
                     line |-> {was.journal} \cup
                              (IF was.journal = 0 THEN {} ELSE change[was.journal].line)]
<1>2. PICK p, c : p = new /\ c = entry
  OBVIOUS
<1>3. /\ rb[s] # Absent /\ RetainFloor(s) /\ rb' = [rb EXCEPT ![s] = Absent]
      /\ store' = [store EXCEPT ![s] = p] /\ change' = Append(change, c)
      /\ saved' = [saved EXCEPT ![s] = @ \cup {<<was, f>>}]
      /\ UNCHANGED <<chain, token, fence, restores>>
  BY <1>1, <1>2 DEF AdmitPrepare
<1>4. FloorAccepts(rb[s], floor[s]) /\ was = a0.projection /\ FenceAccepts(g, rb[s])
  BY <1>1, VerdictMeans DEF AdmitPrepare
<1>5. /\ was \in Projection /\ was \in LocalStates /\ StoreSane(was)
      /\ a0 \in Known /\ AnchorSane(a0) /\ a0.id \in Ids
      /\ change \in Seq([token : Nat, line : SUBSET Nat]) /\ Len(change) \in Nat
      /\ f \in Floor \cup {Absent}
  BY <1>1, <1>3, KnownType DEF AnchorInv, AnchorTypeOK, LocalStates
<1>6. g \in FenceGrant /\ g.base = a0.id /\ g.token \in Nat
  <2>1. g \in FenceGrant /\ g.base = a0.id
    BY <1>1, <1>4 DEF FenceAccepts, AnchorInv, AnchorTypeOK
  <2>2. QED
    BY <2>1 DEF FenceGrant
<1>7. c.token = g.token /\ c.line = Line(was) /\ c = [token |-> c.token, line |-> c.line]
  BY <1>2 DEF Line
<1>8. c \in [token : Nat, line : SUBSET Nat]
  <2>1. was.journal \in Nat /\ was.journal \in 0..Len(change)
    BY <1>5 DEF StoreSane
  <2>2. was.journal # 0 => was.journal \in 1..Len(change)
    BY <1>5, <2>1
  <2>3. was.journal # 0 => \E x \in [token : Nat, line : SUBSET Nat] : x = change[was.journal]
    <3> DEFINE R == [token : Nat, line : SUBSET Nat]
    <3>1. change \in Seq(R)
      BY <1>5
    <3> HIDE DEF R
    <3>2. \A i \in 1..Len(change) : change[i] \in R
      BY <3>1
    <3>3. was.journal # 0 => \E x \in R : x = change[was.journal]
      BY <2>2, <3>2
    <3>4. QED
      BY <3>3 DEF R
  <2>4. was.journal # 0 => change[was.journal].line \in SUBSET Nat
    BY <2>3
  <2>5. c.line \in SUBSET Nat
    BY <1>7, <2>1, <2>4 DEF Line
  <2>6. QED
    BY <1>6, <1>7, <2>5
<1>9. p \in Projection /\ p.journal = j /\ p.token = g.token /\ p.base = a0.id
  <2>1. j \in Nat /\ a0.id \in Ids \cup {Absent}
    BY <1>5
  <2>2. QED
    BY <1>2, <1>5, <1>6, <2>1 DEF Projection
<1>10. \A x \in Sites : rb'[x] = rb[x] \/ rb'[x] = Absent
  BY <1>3 DEF AnchorInv, AnchorTypeOK
<1>11. Known' \subseteq Known
  BY <1>3, <1>10 DEF Known
<1>12. LocalStates' \subseteq LocalStates \cup {p}
  <2>1. \A x \in Sites : store'[x] \in LocalStates \cup {p}
    BY <1>3 DEF LocalStates, AnchorInv, AnchorTypeOK
  <2>2. \A x \in Sites : \A old \in saved'[x] : old \in saved[x] \/ old = <<was, f>>
    BY <1>3 DEF AnchorInv, AnchorTypeOK
  <2>3. \A x \in Sites : \A old \in saved'[x] : old[1] \in LocalStates
    BY <1>5, <2>2 DEF LocalStates
  <2>4. QED
    BY <2>1, <2>3 DEF LocalStates
<1>13. AnchorTypeOK'
  <2>1. rb' \in [Sites -> Readback \cup {Absent}] /\ store' \in [Sites -> Projection]
    BY <1>3, <1>9 DEF AnchorInv, AnchorTypeOK
  <2>2. saved' \in [Sites -> SUBSET (Projection \X (Floor \cup {Absent}))]
    <3>1. <<was, f>> \in Projection \X (Floor \cup {Absent})
      BY <1>5
    <3>2. QED
      BY <1>3, <3>1 DEF AnchorInv, AnchorTypeOK
  <2>3. change' \in Seq([token : Nat, line : SUBSET Nat])
    BY <1>3, <1>5, <1>8
  <2>4. QED
    BY <1>3, <1>4, <2>1, <2>2, <2>3, FloorFollows DEF AnchorInv, AnchorTypeOK
<1>14. p.token = c.token /\ c.line = Line(a0.projection)
  BY <1>4, <1>7, <1>9
<1>15. \A x \in Sites : FloorSane(x)'
  BY <1>3, <1>4, FloorFollows
<1>16. QED
  BY <1>3, <1>5, <1>8, <1>9, <1>11, <1>12, <1>13, <1>14, <1>15, ChangeStep

(***************************************************************************)
(* The other steps of a site.                                              *)
(***************************************************************************)
LEMMA SettleStep ==
    ASSUME AnchorInv, NEW s \in Sites, NEW end \in {"applied", "not_applied", "mismatch"},
           Settle(s, end)
    PROVE  AnchorInv'
<1>1. PICK was, f : was = store[s] /\ f = floor[s]
  OBVIOUS
<1>2. /\ was \in Projection /\ was \in LocalStates /\ StoreSane(was) /\ f \in Floor \cup {Absent}
  BY <1>1 DEF AnchorInv, AnchorTypeOK, LocalStates
<1>3. PICK p : p = Ended(was, end)
  OBVIOUS
<1>4. /\ store' = [store EXCEPT ![s] = p]
      /\ saved' = [saved EXCEPT ![s] = @ \cup {<<was, f>>}]
      /\ UNCHANGED <<chain, token, rb, fence, floor, change, restores, accepted>>
  BY <1>1, <1>3 DEF Settle
<1>5. p \in Projection /\ p.journal = was.journal /\ p.token = was.token /\ p.base = was.base
  <2>1. was.version + 1 \in Nat /\ was.journal \in Nat
    BY <1>2 DEF Projection
  <2>2. CASE end = "applied"
    <3>1. p = [was EXCEPT !.status = "aligned", !.version = was.version + 1,
                          !.plant = was.journal]
      BY <1>3, <2>2 DEF Ended
    <3>2. QED
      BY <1>2, <2>1, <3>1 DEF Projection
  <2>3. CASE end = "not_applied"
    <3>1. p = [was EXCEPT !.status = "aligned"]
      BY <1>3, <2>3 DEF Ended
    <3>2. QED
      BY <1>2, <3>1 DEF Projection
  <2>4. CASE end = "mismatch"
    <3>1. p = [was EXCEPT !.status = "inconsistent"]
      BY <1>3, <2>4 DEF Ended
    <3>2. QED
      BY <1>2, <3>1 DEF Projection
  <2>5. QED
    BY <2>2, <2>3, <2>4
<1>6. LocalStates' \subseteq LocalStates \cup {p} /\ Known' = Known
  <2>1. \A x \in Sites : store'[x] \in LocalStates \cup {p}
    BY <1>4 DEF LocalStates, AnchorInv, AnchorTypeOK
  <2>2. \A x \in Sites : \A old \in saved'[x] : old \in saved[x] \/ old = <<was, f>>
    BY <1>4 DEF AnchorInv, AnchorTypeOK
  <2>3. \A x \in Sites : \A old \in saved'[x] : old[1] \in LocalStates
    BY <1>2, <2>2 DEF LocalStates
  <2>4. QED
    BY <1>4, <2>1, <2>3 DEF LocalStates, Known
<1>7. AnchorTypeOK'
  <2>1. store' \in [Sites -> Projection]
    BY <1>4, <1>5 DEF AnchorInv, AnchorTypeOK
  <2>2. saved' \in [Sites -> SUBSET (Projection \X (Floor \cup {Absent}))]
    <3>1. <<was, f>> \in Projection \X (Floor \cup {Absent})
      BY <1>2
    <3>2. QED
      BY <1>4, <3>1 DEF AnchorInv, AnchorTypeOK
  <2>3. QED
    BY <1>4, <2>1, <2>2 DEF AnchorInv, AnchorTypeOK
<1>8. ASSUME NEW q \in LocalStates \cup {p} PROVE StoreSane(q)'
  <2>1. PICK o : /\ StoreSane(o) /\ q.journal = o.journal
                 /\ q.token = o.token /\ q.base = o.base
    BY <1>2, <1>5 DEF AnchorInv
  <2>2. Line(q)' = Line(o)
    BY <1>4, <2>1 DEF Line
  <2>3. \A a \in Known : Line(a.projection)' = Line(a.projection)
    BY <1>4 DEF Line
  <2>4. QED
    BY <1>4, <1>6, <2>1, <2>2, <2>3 DEF StoreSane, Used
<1>9. \A a \in Known' : AnchorSane(a)'
  BY <1>4, <1>6 DEF AnchorInv, AnchorSane, Used
<1>10. OneAnchorPerId' /\ \A x \in Sites : FloorSane(x)'
  BY <1>4, <1>6 DEF AnchorInv, OneAnchorPerId, FloorSane
<1>11. QED
  BY <1>4, <1>6, <1>7, <1>8, <1>9, <1>10, SameChain DEF AnchorInv

\* A site that is put back finds a state and a floor it had.
LEMMA RestoreSiteStep ==
    ASSUME AnchorInv, NEW s \in Sites, NEW old \in saved[s], RestoreSite(s, old)
    PROVE  AnchorInv'
<1>1. /\ restores < MaxRestores /\ restores' = restores + 1
      /\ store' = [store EXCEPT ![s] = old[1]] /\ floor' = [floor EXCEPT ![s] = old[2]]
      /\ rb' = [rb EXCEPT ![s] = Absent] /\ fence' = [fence EXCEPT ![s] = Absent]
      /\ accepted' = [accepted EXCEPT ![s] = IF old[2] = Absent THEN {} ELSE {old[2].id}]
      /\ UNCHANGED <<chain, token, saved, change>>
  BY DEF RestoreSite
<1>2. old[1] \in Projection /\ old[1] \in LocalStates /\ old[2] \in Floor \cup {Absent}
  BY DEF AnchorInv, AnchorTypeOK, LocalStates
<1>3. old[2] # Absent => old[2].id \in Ids
  BY <1>2 DEF Floor
<1>4. restores \in Nat /\ restores' \in 0..MaxRestores
  BY <1>1, AnchorAssumption DEF AnchorInv, AnchorTypeOK
<1>5. AnchorTypeOK'
  <2>1. /\ store' \in [Sites -> Projection] /\ floor' \in [Sites -> Floor \cup {Absent}]
        /\ rb' \in [Sites -> Readback \cup {Absent}] /\ fence' \in [Sites -> FenceGrant \cup {Absent}]
        /\ accepted' \in [Sites -> SUBSET Ids]
    BY <1>1, <1>2, <1>3 DEF AnchorInv, AnchorTypeOK
  <2>2. QED
    BY <1>1, <1>4, <2>1 DEF AnchorInv, AnchorTypeOK
<1>6. Known' \subseteq Known
  <2>1. \A x \in Sites : rb'[x] = rb[x] \/ rb'[x] = Absent
    BY <1>1 DEF AnchorInv, AnchorTypeOK
  <2>2. QED
    BY <1>1, <2>1 DEF Known
<1>7. LocalStates' \subseteq LocalStates
  <2>1. \A x \in Sites : store'[x] \in LocalStates
    BY <1>1, <1>2 DEF LocalStates, AnchorInv, AnchorTypeOK
  <2>2. QED
    BY <1>1, <2>1 DEF LocalStates
<1>8. \A id \in Ids : Used(id) => Used(id)'
  BY <1>1, <1>4 DEF Used, Ids
<1>9. \A x \in Sites : FloorSane(x)'
  <2>1. /\ floor'[s] = old[2] /\ accepted'[s] = IF old[2] = Absent THEN {} ELSE {old[2].id}
        /\ \A x \in Sites : x # s => floor'[x] = floor[x] /\ accepted'[x] = accepted[x]
    BY <1>1 DEF AnchorInv, AnchorTypeOK
  <2>2. old[2] # Absent => old[2].id.seq \in Nat
    BY <1>3 DEF Ids
  <2>3. FloorSane(s)'
    BY <2>1, <2>2 DEF FloorSane
  <2>4. QED
    BY <2>1, <2>3 DEF AnchorInv, FloorSane
<1>10. QED
  BY <1>1, <1>5, <1>6, <1>7, <1>8, <1>9, SameChain, FrameStep

(***************************************************************************)
(* The authority's steps.                                                  *)
(***************************************************************************)
LEMMA CompareAndAdvanceStep ==
    ASSUME AnchorInv, NEW s \in Sites, CompareAndAdvance(s)
    PROVE  AnchorInv'
<1>1. PICK p, cur, g : p = store[s] /\ cur = Current /\ g = fence[s]
  OBVIOUS
<1>2. PICK n : n = Len(chain)
  OBVIOUS
<1>3. PICK a0 : a0 = [id |-> [epoch |-> restores, seq |-> cur.id.seq + 1], prev |-> cur.id,
                      token |-> g.token, projection |-> p]
  OBVIOUS
<1>4. /\ chain' = Append(chain, a0)
      /\ UNCHANGED <<token, store, rb, fence, floor, saved, change, restores, accepted>>
      /\ g # Absent /\ p.token = g.token /\ p.base = cur.id
  BY <1>1, <1>3 DEF CompareAndAdvance, FenceIsCurrent, ProjectionIsMonotonic
<1>5. /\ n \in Nat /\ n > 0 /\ cur = chain[n] /\ cur \in Known /\ cur \in Anchor
      /\ cur.id.seq + 1 = n /\ chain \in Seq(Anchor)
  BY <1>1, <1>2, CurrentFacts DEF AnchorInv, AnchorTypeOK
<1>6. cur.id \in Ids /\ restores \in 0..MaxRestores
  BY <1>5 DEF Anchor, AnchorInv, AnchorTypeOK
<1>7. /\ p \in Projection /\ p \in LocalStates /\ StoreSane(p) /\ g \in FenceGrant
  BY <1>1, <1>4 DEF AnchorInv, AnchorTypeOK, LocalStates
<1>8. g.token \in Nat /\ p.base # Absent
  <2>1. Absent \notin Ids
    BY DEF Absent, Ids
  <2>2. QED
    BY <1>4, <1>6, <1>7, <2>1 DEF FenceGrant
<1>9. /\ a0.id = [epoch |-> restores, seq |-> n] /\ a0.projection = p /\ a0.token = p.token
      /\ a0.id.epoch = restores /\ a0.id.seq = n
  BY <1>3, <1>4, <1>5
<1>10. a0 \in Anchor
  <2>1. [epoch |-> restores, seq |-> n] \in Ids
    BY <1>5, <1>6 DEF Ids
  <2>2. QED
    BY <1>3, <1>5, <1>6, <1>7, <1>8, <2>1 DEF Anchor
<1>11. /\ chain' \in Seq(Anchor) /\ Len(chain') = n + 1 /\ chain' # <<>>
       /\ chain'[n + 1] = a0 /\ \A k \in 1..n : chain'[k] = chain[k]
  BY <1>2, <1>4, <1>5, <1>10
<1>12. AnchorTypeOK'
  BY <1>4, <1>11 DEF AnchorInv, AnchorTypeOK
<1>13. Known' \subseteq Known \cup {a0} /\ LocalStates' = LocalStates
  <2>1. \A k \in 1..Len(chain') : chain'[k] \in Known \cup {a0}
    <3>1. \A k \in 1..Len(chain') : k \in 1..n \/ k = n + 1
      BY <1>5, <1>11
    <3>2. QED
      BY <1>2, <1>11, <3>1, KnownType
  <2>2. QED
    BY <1>4, <2>1 DEF Known, LocalStates
<1>14. ASSUME NEW id \in Ids, Used(id) PROVE Used(id)' /\ id # a0.id
  <2>1. Used(id)'
    BY <1>2, <1>4, <1>5, <1>11, <1>14 DEF Used, Ids
  <2>2. id.epoch = restores => id.seq < n
    BY <1>2, <1>14 DEF Used
  <2>3. id # a0.id
    BY <1>5, <1>9, <2>2
  <2>4. QED
    BY <2>1, <2>3
<1>15. \A a \in Known : Used(a.id) /\ a.id \in Ids
  BY KnownType DEF AnchorInv, AnchorSane
<1>16. \A a \in Known' : AnchorSane(a)'
  <2>1. \A a \in Known : AnchorSane(a)'
    BY <1>4, <1>14, <1>15 DEF AnchorInv, AnchorSane
  <2>2. AnchorSane(a0)'
    <3>1. Used(a0.id)'
      BY <1>4, <1>5, <1>6, <1>9, <1>11 DEF Used
    <3>2. QED
      BY <1>4, <1>7, <1>9, <3>1 DEF AnchorSane, StoreSane
  <2>3. QED
    BY <1>13, <2>1, <2>2
<1>17. OneAnchorPerId'
  BY <1>13, <1>14, <1>15 DEF AnchorInv, OneAnchorPerId
<1>18. ASSUME NEW q \in LocalStates PROVE StoreSane(q)'
  <2>1. StoreSane(q) /\ q \in Projection
    BY LocalType DEF AnchorInv
  <2>2. q.base # Absent => q.base \in Ids
    BY <2>1 DEF Projection
  <2>3. q.base # Absent => Used(q.base)' /\ q.base # a0.id
    BY <1>14, <2>1, <2>2 DEF StoreSane
  <2>4. Line(q)' = Line(q) /\ \A a \in Known : Line(a.projection)' = Line(a.projection)
    BY <1>4 DEF Line
  <2>5. QED
    BY <1>4, <1>13, <2>1, <2>3, <2>4 DEF StoreSane
<1>19. ChainNumbered'
  BY <1>2, <1>5, <1>9, <1>11 DEF AnchorInv, ChainNumbered
<1>20. ChainGrows'
  <2>1. SUFFICES ASSUME NEW k \in 1..n
                 PROVE  /\ chain'[k + 1].projection.journal \in DOMAIN change'
                        /\ Line(chain[k + 1].projection)' =
                             Line(chain[k].projection)' \cup {chain'[k + 1].projection.journal}
                        /\ change'[chain'[k + 1].projection.journal].token = chain'[k + 1].token
    <3>1. Len(chain') - 1 = n
      BY <1>5, <1>11
    <3>2. QED
      BY <3>1 DEF ChainGrows
  <2>2. PICK x, y : x = chain'[k] /\ y = chain'[k + 1]
    OBVIOUS
  <2>3. SUFFICES /\ y.projection.journal \in DOMAIN change
                 /\ Line(y.projection) = Line(x.projection) \cup {y.projection.journal}
                 /\ change[y.projection.journal].token = y.token
    BY <1>4, <2>2 DEF Line
  <2>4. CASE k = n
    <3>1. x = cur /\ y = a0
      BY <1>5, <1>11, <2>2, <2>4
    <3>2. Line(p) = Line(cur.projection) \cup {p.journal} /\ p.journal # 0
      BY <1>4, <1>5, <1>7, <1>8 DEF StoreSane
    <3>3. p.journal \in 1..Len(change) /\ p.token = change[p.journal].token
      BY <1>7, <3>2 DEF StoreSane, AnchorInv, AnchorTypeOK
    <3>4. DOMAIN change = 1..Len(change)
      BY DEF AnchorInv, AnchorTypeOK
    <3>5. QED
      BY <1>9, <3>1, <3>2, <3>3, <3>4
  <2>5. CASE k # n
    <3>1. k \in 1..(Len(chain) - 1) /\ k + 1 \in 1..n
      BY <1>2, <1>5, <2>5
    <3>2. x = chain[k] /\ y = chain[k + 1]
      BY <1>11, <2>2, <3>1
    <3>3. QED
      BY <3>1, <3>2 DEF AnchorInv, ChainGrows
  <2>6. QED
    BY <2>4, <2>5
<1>21. \A x \in Sites : FloorSane(x)'
  BY <1>4 DEF AnchorInv, FloorSane
<1>22. QED
  BY <1>12, <1>13, <1>16, <1>17, <1>18, <1>19, <1>20, <1>21 DEF AnchorInv

LEMMA RestoreAuthorityStep ==
    ASSUME AnchorInv, NEW n \in 1..Len(chain), NEW t \in 0..token, RestoreAuthority(n, t)
    PROVE  AnchorInv'
<1>1. /\ chain' = SubSeq(chain, 1, n) /\ token' = t /\ restores < MaxRestores
      /\ restores' = restores + 1
      /\ UNCHANGED <<store, rb, fence, floor, saved, change, accepted>>
  BY DEF RestoreAuthority
<1>2. chain \in Seq(Anchor) /\ Len(chain) \in Nat /\ restores \in Nat
  BY DEF AnchorInv, AnchorTypeOK
<1>3. /\ chain' \in Seq(Anchor) /\ Len(chain') = n /\ \A k \in 1..n : chain'[k] = chain[k]
  BY <1>1, <1>2
<1>4. AnchorTypeOK'
  <2>1. chain' # <<>> /\ token' \in 0..MaxToken /\ restores' \in 0..MaxRestores
    <3>1. chain' # <<>>
      BY <1>2, <1>3
    <3>2. token \in 0..MaxToken /\ restores \in 0..MaxRestores
      BY DEF AnchorInv, AnchorTypeOK
    <3>3. QED
      BY <1>1, <3>1, <3>2, AnchorAssumption
  <2>2. QED
    BY <1>1, <1>3, <2>1 DEF AnchorInv, AnchorTypeOK
<1>5. Known' \subseteq Known /\ LocalStates' = LocalStates
  <2>1. \A k \in 1..Len(chain') : chain'[k] \in Known
    BY <1>2, <1>3, KnownType
  <2>2. QED
    BY <1>1, <2>1 DEF Known, LocalStates
<1>6. \A id \in Ids : Used(id) => Used(id)'
  BY <1>1, <1>2 DEF Used, Ids
<1>7. ChainNumbered' /\ ChainGrows'
  <2>1. \A k \in 1..n : k \in 1..Len(chain)
    BY <1>2
  <2>2. ChainNumbered'
    BY <1>3, <2>1 DEF AnchorInv, ChainNumbered
  <2>3. \A k \in 1..(n - 1) : k \in 1..n /\ k + 1 \in 1..n /\ k \in 1..(Len(chain) - 1)
    BY <1>2
  <2>4. ChainGrows'
    <3>1. SUFFICES ASSUME NEW k \in 1..(n - 1)
                   PROVE  /\ chain'[k + 1].projection.journal \in DOMAIN change'
                          /\ Line(chain[k + 1].projection)' =
                               Line(chain[k].projection)' \cup {chain'[k + 1].projection.journal}
                          /\ change'[chain'[k + 1].projection.journal].token = chain'[k + 1].token
      BY <1>3 DEF ChainGrows
    <3>2. chain'[k] = chain[k] /\ chain'[k + 1] = chain[k + 1]
      BY <1>3, <2>3
    <3>3. /\ Line(chain[k + 1].projection)' = Line(chain[k + 1].projection)
          /\ Line(chain[k].projection)' = Line(chain[k].projection)
      BY <1>1, <3>2 DEF Line
    <3>4. QED
      BY <1>1, <2>3, <3>2, <3>3 DEF AnchorInv, ChainGrows
  <2>5. QED
    BY <2>2, <2>4
<1>8. \A x \in Sites : FloorSane(x)'
  BY <1>1 DEF AnchorInv, FloorSane
<1>9. QED
  BY <1>1, <1>4, <1>5, <1>6, <1>7, <1>8, FrameStep

LEMMA NextAnchorInv == AnchorInv /\ [AnchorNext]_anchorVars => AnchorInv'
<1> SUFFICES ASSUME AnchorInv, [AnchorNext]_anchorVars PROVE AnchorInv'
  OBVIOUS
<1>1. ASSUME NEW s \in Sites, SiteStep(s) PROVE AnchorInv'
  <2>1. CASE GetReadback(s) \/ AcquireFence(s) \/ CallFails(s) \/ FenceExpires(s)
    BY <2>1, CallStep
  <2>2. CASE AdmitPrepare(s)
    BY <2>2, AdmitPrepareStep
  <2>3. CASE ReadbackOnly(s)
    BY <2>3, ReadbackOnlyStep
  <2>4. CASE \E end \in {"applied", "not_applied", "mismatch"} : Settle(s, end)
    BY <2>4, SettleStep
  <2>5. CASE CompareAndAdvance(s)
    BY <2>5, CompareAndAdvanceStep
  <2>6. CASE \E old \in saved[s] : RestoreSite(s, old)
    BY <2>6, RestoreSiteStep
  <2>7. QED
    BY <1>1, <2>1, <2>2, <2>3, <2>4, <2>5, <2>6 DEF SiteStep
<1>2. CASE AuthorityRestored
  BY <1>2, RestoreAuthorityStep DEF AuthorityRestored
<1>3. CASE UNCHANGED anchorVars
  <2>1. /\ UNCHANGED <<chain, token, store, rb, fence>>
        /\ UNCHANGED <<floor, saved, change, restores, accepted>>
    BY <1>3 DEF anchorVars
  <2>2. AnchorTypeOK' /\ \A s \in Sites : FloorSane(s)'
    BY <2>1 DEF AnchorInv, AnchorTypeOK, FloorSane
  <2>3. Known' = Known /\ LocalStates' = LocalStates /\ \A id \in Ids : Used(id) => Used(id)'
    BY <2>1 DEF Known, LocalStates, Used
  <2>4. QED
    BY <2>1, <2>2, <2>3, SameChain, FrameStep
<1>4. QED
  BY <1>1, <1>2, <1>3 DEF AnchorNext

\* A store that was overtaken by a newer fence stays out: an anchor is only ever added
\* for a store written under the authority's current fence.
LEMMA OnlyCurrentAnchored ==
    ASSUME AnchorInv, [AnchorNext]_anchorVars, NEW k \in DOMAIN chain'
    PROVE  \/ k \in DOMAIN chain /\ chain'[k] = chain[k]
           \/ chain'[k].projection.token = token
<1>1. chain \in Seq(Anchor) /\ Len(chain) \in Nat
  BY DEF AnchorInv, AnchorTypeOK
<1>2. CASE chain' = chain
  BY <1>2
<1>3. ASSUME NEW s \in Sites, CompareAndAdvance(s)
      PROVE  (k \in DOMAIN chain /\ chain'[k] = chain[k]) \/ chain'[k].projection.token = token
  <2>1. PICK p, a0 : /\ p.token = token /\ a0.projection = p
                     /\ chain' = Append(chain, a0)
    <3>1. store[s].token = token
      BY <1>3 DEF CompareAndAdvance, FenceIsCurrent, ProjectionIsMonotonic
    <3>2. QED
      BY <1>3, <3>1 DEF CompareAndAdvance
  <2>2. QED
    BY <1>1, <2>1
<1>4. ASSUME NEW n \in 1..Len(chain), NEW t, RestoreAuthority(n, t)
      PROVE  k \in DOMAIN chain /\ chain'[k] = chain[k]
  <2>1. chain' = SubSeq(chain, 1, n)
    BY <1>4 DEF RestoreAuthority
  <2>2. QED
    BY <1>1, <2>1
<1>5. chain' = chain \/ (\E s \in Sites : CompareAndAdvance(s))
        \/ (\E n \in 1..Len(chain), t \in 0..token : RestoreAuthority(n, t))
  BY DEF AnchorNext, SiteStep, AuthorityRestored, anchorVars, GetReadback, AcquireFence,
         AdmitPrepare, ReadbackOnly, CallFails, Settle, FenceExpires, RestoreSite
<1>6. QED
  BY <1>2, <1>3, <1>4, <1>5

(***************************************************************************)
(* The theorems.                                                           *)
(***************************************************************************)
\* The inductive invariant holds in every reachable state, for any number of sites and
\* any number of fences, changes and rollbacks (InMemoryMonotonicAnchorReference with
\* the admission of the sites).
THEOREM AnchorInvariant == AnchorSpec => []AnchorInv
BY InitAnchorInv, NextAnchorInv, PTL DEF AnchorSpec

\* Every anchor continues the one before it by one change made under its own fence, and
\* what a site accepted lies on one chain: compare_and_advance, the admission checks of
\* validate_anchored_coordination_recovery and the retained floor, whatever is put back.
THEOREM OneLine == AnchorSpec => []AnchorsFormOneLine
<1>1. AnchorInv => AnchorsFormOneLine
  BY DEF AnchorInv, ChainGrows, FloorSane, AnchorsFormOneLine
<1>2. QED
  BY <1>1, AnchorInvariant, PTL

\* A store overtaken by a newer fence is never anchored unless the authority's token is
\* put back (the comparison of the projection's fence in compare_and_advance).
THEOREM OutdatedStaysOut == AnchorSpec => OutdatedNeverAnchored
<1>1. ASSUME AnchorInv, [AnchorNext]_anchorVars
      PROVE  [\A s \in Sites : Outdated(store[s]) =>
                  \A k \in DOMAIN chain' : chain'[k].projection # store[s]]_anchorVars
  <2>1. SUFFICES ASSUME NEW s \in Sites, Outdated(store[s]), NEW k \in DOMAIN chain'
                 PROVE  chain'[k].projection # store[s]
    OBVIOUS
  <2>2. store[s].token < token /\ \A i \in DOMAIN chain : chain[i].projection # store[s]
    BY <2>1 DEF Outdated
  <2>3. token \in Nat
    BY <1>1, AnchorAssumption DEF AnchorInv, AnchorTypeOK
  <2>4. (k \in DOMAIN chain /\ chain'[k] = chain[k]) \/ chain'[k].projection.token = token
    BY <1>1, OnlyCurrentAnchored
  <2>5. QED
    BY <2>2, <2>3, <2>4
<1>2. QED
  BY <1>1, AnchorInvariant, PTL DEF AnchorSpec, OutdatedNeverAnchored

--------------------------------------------------------------------------------
(***************************************************************************)
(* What the gateway retains of an exchange: the evidence it verified once  *)
(* and shows again later.                                                  *)
(***************************************************************************)
\* The fields of the records the exchange is made of.
AttemptFields == {"kind", "request", "status", "retained", "updated", "receipt", "acceptance", "outcome"}
ReceiptFields == {"request", "cred", "prepared"}
AcceptanceFields == {"commit", "cred", "accepted"}
OutcomeFields == {"request", "disposition", "acceptance", "ack", "cred", "signed"}

\* The shapes of receipts, acceptances and outcomes.
IsReceipt(r) == DOMAIN r = ReceiptFields /\ r.prepared \in Nat
IsAcceptance(x) ==
    DOMAIN x = AcceptanceFields /\ x.accepted \in Nat /\ x.commit.kind = "commit" /\ x.commit.receipt.prepared \in Nat
IsOutcome(o) ==
    DOMAIN o = OutcomeFields /\ o.signed \in Nat /\ (o.acceptance # None => IsAcceptance(o.acceptance))

\* What OutcomeHistorical asks of an acceptance, revocations aside.
AcceptanceKept(x, at) ==
    LET receipt == x.commit.receipt
        permit == receipt.request.permit
    IN  /\ IsAcceptance(x) /\ AcceptanceClosed(x)
        /\ x.accepted <= at + FutureSkew /\ receipt.prepared <= at + FutureSkew
        /\ InWindow(GatewayCred, x.accepted) /\ InWindow(x.cred, x.accepted)
        /\ InWindow(GatewayCred, receipt.prepared) /\ InWindow(receipt.cred, receipt.prepared)
        /\ receipt.cred = permit.cred
        /\ ValidAt(receipt.request.issued, receipt.request.expires, receipt.prepared)
        /\ InnerDispatchVerified(permit, x.cred, permit.boot, x.accepted)

\* The same for an outcome.
OutcomeKept(o, request, at) ==
    /\ IsOutcome(o) /\ o.request = request
    /\ o.signed <= at + FutureSkew /\ InWindow(o.cred, o.signed)
    /\ ValidAt(request.issued, request.expires, o.signed)
    /\ request.kind # "commit" => InWindow(GatewayCred, o.signed)
    /\ request.kind = "commit" => o.acceptance # None
    /\ o.acceptance = None => o.disposition = "not_dispatched"
    /\ o.acceptance # None => AcceptanceKept(o.acceptance, at)
    /\ AcknowledgmentFits(o)

\* An attempt in the gateway's record.
GwAttempt(a, now) ==
    /\ DOMAIN a = AttemptFields /\ a.kind = a.request.kind /\ a.retained \in Nat
    /\ a.receipt # None => IsReceipt(a.receipt)
    /\ a.outcome # None =>
         /\ a.status = "response_retained"
         /\ OutcomeKept(a.outcome, a.request, now)
         /\ a.kind = "query" => /\ a.updated \in Nat
                                /\ a.outcome.signed <= a.updated /\ a.updated <= now + FutureSkew

\* A record is two sequences.
IsSequence(s) == s \in Seq({s[i] : i \in DOMAIN s})

Shape(rec) ==
    /\ DOMAIN rec = {"transitions", "attempts"}
    /\ IsSequence(rec.transitions) /\ IsSequence(rec.attempts)

\* A record with a commit was armed by a receipt before any query of it began.
ArmedBefore(rec, t, now) ==
    /\ t.state = "dispatch_armed" /\ DOMAIN t.ev = ReceiptFields
    /\ t.at \in Nat /\ t.at <= now
    /\ \A a \in ToSet(rec.attempts) : a.kind = "query" => t.at <= a.retained

Armed(rec, now) ==
    (\E a \in ToSet(rec.attempts) : a.kind = "commit") => \E t \in ToSet(rec.transitions) : ArmedBefore(rec, t, now)

\* A record of the gateway.
GwRecord(rec, now) ==
    /\ Shape(rec)
    /\ \A a \in ToSet(rec.attempts) : GwAttempt(a, now)
    /\ Armed(rec, now)

\* A record of the coordinator.
OtRecord(rec) ==
    /\ Shape(rec)
    /\ \A a \in ToSet(rec.attempts) : DOMAIN a = AttemptFields /\ (a.acceptance # None => IsAcceptance(a.acceptance))

\* A commit request names a receipt, and an answer fits the request it answers.
CommitTyped(q) == q.kind = "commit" => q.receipt.prepared \in Nat

Answered(q, b) ==
    /\ q.kind = "prepare" => IsReceipt(b)
    /\ q.kind \in {"commit", "query"} => IsOutcome(b) /\ OutcomeClosed(b)
    /\ q.kind = "query" => InWindow(GatewayCred, b.signed)

\* The inductive invariant: the clocks, the gateway with the call it waits for, and
\* the coordinator with the requests it has admitted.
ClockInv == gwNow \in Nat /\ otNow \in Nat

GwInv ==
    /\ gwRec = None \/ GwRecord(gwRec, gwNow)
    /\ call # None =>
         /\ GwRecord(gwRec, gwNow)
         /\ call.kind = "prepare" => \A a \in ToSet(gwRec.attempts) : a.request = call
         /\ \A b \in answers : Answered(call, b)

OtInv ==
    /\ \A q \in network : CommitTyped(q)
    /\ \A h \in admitted : /\ h.at \in Nat /\ CommitTyped(h.request)
                           /\ h.request.kind = "query" => InWindow(GatewayCred, h.at)
    /\ otRec = None \/ OtRecord(otRec)
    /\ working # None =>
         DOMAIN working = {"acceptance", "ack"} /\ IsAcceptance(working.acceptance) /\ OtRecord(otRec)

ExchangeInv == ClockInv /\ GwInv /\ OtInv

(***************************************************************************)
(* The steps the journal methods are made of.                              *)
(***************************************************************************)
\* The elements of a sequence that grew by one.
LEMMA AppendElements ==
    ASSUME NEW s, IsSequence(s), NEW e
    PROVE  IsSequence(Append(s, e)) /\ ToSet(Append(s, e)) = ToSet(s) \cup {e}
<1> DEFINE S == {s[i] : i \in DOMAIN s} \cup {e}
           q == Append(s, e)
<1>1. s \in Seq(S) /\ e \in S
  <2>1. s \in Seq({s[i] : i \in DOMAIN s})  BY DEF IsSequence
  <2> QED BY <2>1
<1> HIDE DEF S
<1>2. /\ q \in Seq(S) /\ Len(q) = Len(s) + 1
      /\ \A i \in 1..Len(s) : q[i] = s[i]
      /\ q[Len(s) + 1] = e
  BY <1>1, AppendProperties
<1>3. DOMAIN s = 1..Len(s) /\ Len(s) \in Nat /\ DOMAIN q = 1..(Len(s) + 1)
  BY <1>1, <1>2, LenProperties
<1> HIDE DEF q
<1>4. {q[i] : i \in DOMAIN q} = {s[i] : i \in DOMAIN s} \cup {e}
  <2>1. ASSUME NEW i \in DOMAIN q  PROVE q[i] \in {s[j] : j \in DOMAIN s} \cup {e}
    <3>1. i \in 1..Len(s) \/ i = Len(s) + 1  BY <1>3, <2>1
    <3> QED BY <3>1, <1>2, <1>3
  <2>2. ASSUME NEW i \in DOMAIN s  PROVE s[i] \in {q[j] : j \in DOMAIN q}
    <3>1. i \in DOMAIN q /\ q[i] = s[i]  BY <1>2, <1>3, <2>2
    <3> QED BY <3>1
  <2>3. Len(s) + 1 \in DOMAIN q /\ q[Len(s) + 1] = e  BY <1>2, <1>3
  <2> QED BY <2>1, <2>2, <2>3
<1>5. q \in Seq({q[i] : i \in DOMAIN q})
  <2>1. q = [i \in 1..(Len(s) + 1) |-> q[i]]  BY <1>2, <1>3
  <2>2. Len(s) + 1 \in Nat  BY <1>3
  <2>3. PICK n \in Nat : n = Len(s) + 1  BY <2>2
  <2>4. \A i \in 1..n : q[i] \in {q[j] : j \in DOMAIN q}  BY <1>3, <2>3
  <2> QED BY <2>1, <2>3, <2>4
<1> QED BY <1>4, <1>5 DEF IsSequence, ToSet, q

\* A transition is appended and the attempts stay.
LEMMA TransitionStep ==
    ASSUME NEW rec, Shape(rec), NEW state, NEW ev, NEW at
    PROVE  /\ Shape(Transition(rec, state, ev, at))
           /\ Transition(rec, state, ev, at).attempts = rec.attempts
           /\ ToSet(Transition(rec, state, ev, at).transitions) =
                ToSet(rec.transitions) \cup {[state |-> state, ev |-> ev, at |-> at]}
<1> DEFINE t == [state |-> state, ev |-> ev, at |-> at]
           r == Transition(rec, state, ev, at)
<1>1. r = [rec EXCEPT !.transitions = Append(rec.transitions, t)]  BY DEF Transition
<1> HIDE DEF t, r
<1>2. /\ DOMAIN r = {"transitions", "attempts"} /\ r.attempts = rec.attempts
      /\ r.transitions = Append(rec.transitions, t)
  BY <1>1 DEF Shape
<1>3. IsSequence(Append(rec.transitions, t)) /\ ToSet(Append(rec.transitions, t)) = ToSet(rec.transitions) \cup {t}
  BY AppendElements DEF Shape
<1>4. Shape(r)  BY <1>2, <1>3 DEF Shape
<1> QED BY <1>2, <1>3, <1>4 DEF r, t

\* An attempt is appended and the transitions stay.
LEMMA RetainStep ==
    ASSUME NEW rec, Shape(rec), NEW a
    PROVE  /\ Shape(Retain(rec, a))
           /\ Retain(rec, a).transitions = rec.transitions
           /\ ToSet(Retain(rec, a).attempts) = ToSet(rec.attempts) \cup {a}
<1> DEFINE r == Retain(rec, a)
<1>1. r = [rec EXCEPT !.attempts = Append(rec.attempts, a)]  BY DEF Retain
<1> HIDE DEF r
<1>2. /\ DOMAIN r = {"transitions", "attempts"} /\ r.transitions = rec.transitions
      /\ r.attempts = Append(rec.attempts, a)
  BY <1>1 DEF Shape
<1>3. IsSequence(Append(rec.attempts, a)) /\ ToSet(Append(rec.attempts, a)) = ToSet(rec.attempts) \cup {a}
  BY AppendElements DEF Shape
<1>4. Shape(r)  BY <1>2, <1>3 DEF Shape
<1> QED BY <1>2, <1>3, <1>4 DEF r

\* The attempts of r are those of rec, with x in the place of the one for its request.
Swaps(r, rec, x) ==
    /\ \A a \in ToSet(r.attempts) : a = x \/ (a \in ToSet(rec.attempts) /\ a.request # x.request)
    /\ \A b \in ToSet(rec.attempts) : \E a \in ToSet(r.attempts) : a.request = b.request

\* _replace_attempt changes the attempt at one request and nothing else.
LEMMA ReplaceStep ==
    ASSUME NEW rec, Shape(rec), NEW x
    PROVE  /\ Shape(Replace(rec, x))
           /\ Replace(rec, x).transitions = rec.transitions
           /\ Swaps(Replace(rec, x), rec, x)
<1> DEFINE r == Replace(rec, x)
           s == rec.attempts
           q == [i \in DOMAIN s |-> IF s[i].request = x.request THEN x ELSE s[i]]
<1>1. r = [rec EXCEPT !.attempts = q]  BY DEF Replace
<1> HIDE DEF r, q
<1>2. /\ DOMAIN r = {"transitions", "attempts"} /\ r.transitions = rec.transitions
      /\ r.attempts = q
  BY <1>1 DEF Shape
<1>3. IsSequence(q)
  <2>1. s \in Seq({s[i] : i \in DOMAIN s})  BY DEF Shape, IsSequence
  <2>2. PICK n \in Nat : DOMAIN s = 1..n  BY <2>1
  <2>3. DOMAIN q = 1..n /\ q = [i \in 1..n |-> q[i]]  BY <2>2 DEF q
  <2>4. \A i \in 1..n : q[i] \in {q[j] : j \in DOMAIN q}  BY <2>3
  <2> QED BY <2>3, <2>4 DEF IsSequence
<1>4. \A a \in ToSet(q) : a = x \/ (a \in ToSet(rec.attempts) /\ a.request # x.request)
  BY DEF q, ToSet
<1>5. Shape(r)  BY <1>2, <1>3 DEF Shape
<1>6. \A b \in ToSet(rec.attempts) : \E a \in ToSet(q) : a.request = b.request
  <2> SUFFICES ASSUME NEW i \in DOMAIN s  PROVE \E a \in ToSet(q) : a.request = s[i].request
    BY DEF ToSet
  <2>1. q[i] \in ToSet(q) /\ q[i].request = s[i].request  BY DEF q, ToSet
  <2> QED BY <2>1
<1>7. Swaps(r, rec, x)  BY <1>2, <1>4, <1>6 DEF Swaps
<1> QED BY <1>2, <1>5, <1>7 DEF r

\* The attempt a method looks up is one of the record.
LEMMA AttemptForIn ==
    ASSUME NEW rec, NEW q, Holds(rec, q)
    PROVE  AttemptFor(rec, q) \in ToSet(rec.attempts) /\ AttemptFor(rec, q).request = q
BY DEF Holds, AttemptFor

(***************************************************************************)
(* What each method of the journals does to a record.                      *)
(***************************************************************************)
\* No transition is lost.
Follows(r, rec) == Shape(r) /\ ToSet(rec.transitions) \subseteq ToSet(r.transitions)

\* How an attempt differs from the one it replaces.
Marks(a, b, at) ==
    b.status = "request_retained" /\ a = [b EXCEPT !.status = "outcome_unknown", !.updated = at]
Binds(a, b, acceptance, at) ==
    /\ acceptance # None /\ b.request = acceptance.commit
    /\ a = [b EXCEPT !.acceptance = acceptance, !.updated = at]
Answers(a, b, outcome, at) ==
    /\ b.request = outcome.request
    /\ a = [b EXCEPT !.status = "response_retained", !.outcome = outcome, !.updated = at]

\* begin: one attempt, without an answer.
LEMMA BegunShape ==
    ASSUME NEW request, NEW at
    PROVE  /\ Shape(BegunRecord(request, at))
           /\ ToSet(BegunRecord(request, at).attempts) = {Attempt(request, "request_retained", at)}
<1> DEFINE a == Attempt(request, "request_retained", at)
           t == [state |-> "received", ev |-> request, at |-> at]
           r == BegunRecord(request, at)
<1>1. r = [transitions |-> <<t>>, attempts |-> <<a>>]  BY DEF BegunRecord
<1> HIDE DEF a, t, r
<1>2. DOMAIN r = {"transitions", "attempts"} /\ r.transitions = <<t>> /\ r.attempts = <<a>>  BY <1>1
<1>3. \A x : IsSequence(<<x>>) /\ ToSet(<<x>>) = {x}  BY DEF IsSequence, ToSet
<1> QED BY <1>2, <1>3 DEF Shape, a, r

\* The receipt is in the attempt of the request it answers.
Receives(r, rec, receipt, at) ==
    \A a \in ToSet(r.attempts) :
        \/ a \in ToSet(rec.attempts) /\ a.request # receipt.request
        \/ \E b \in ToSet(rec.attempts) :
             /\ b.request = receipt.request
             /\ a = [b EXCEPT !.status = "response_retained", !.receipt = receipt, !.updated = at]

\* retain_preparation arms the effect with the receipt.
LEMMA PreparedShape ==
    ASSUME NEW rec, Shape(rec), NEW receipt, NEW at, PreparedRecord(rec, receipt, at) # Refused
    PROVE  /\ Follows(PreparedRecord(rec, receipt, at), rec)
           /\ [state |-> "dispatch_armed", ev |-> receipt, at |-> at] \in
                ToSet(PreparedRecord(rec, receipt, at).transitions)
           /\ Receives(PreparedRecord(rec, receipt, at), rec, receipt, at)
<1> DEFINE b == AttemptFor(rec, receipt.request)
           x == [b EXCEPT !.status = "response_retained", !.receipt = receipt, !.updated = at]
           m == Replace(rec, x)
           r == PreparedRecord(rec, receipt, at)
<1>1. Holds(rec, receipt.request) /\ r = Transition(m, "dispatch_armed", receipt, at)
  BY DEF PreparedRecord
<1>2. b \in ToSet(rec.attempts) /\ b.request = receipt.request  BY <1>1, AttemptForIn
<1> HIDE DEF b, r
<1>3. /\ Shape(m) /\ m.transitions = rec.transitions
      /\ \A a \in ToSet(m.attempts) : a = x \/ (a \in ToSet(rec.attempts) /\ a.request # x.request)
  <2> HIDE DEF x
  <2>1. Shape(m) /\ m.transitions = rec.transitions /\ Swaps(m, rec, x)  BY ReplaceStep
  <2> QED BY <2>1 DEF Swaps
<1>4. /\ Shape(r) /\ r.attempts = m.attempts
      /\ ToSet(r.transitions) = ToSet(m.transitions) \cup {[state |-> "dispatch_armed", ev |-> receipt, at |-> at]}
  <2> HIDE DEF m
  <2> QED BY <1>1, <1>3, TransitionStep
<1>5. \A a \in ToSet(r.attempts) :
                \/ a \in ToSet(rec.attempts) /\ a.request # receipt.request
                \/ a = x
  <2> HIDE DEF m
  <2>1. x.request = b.request
    BY DEF x
  <2> HIDE DEF x
  <2> QED BY <2>1, <1>2, <1>3, <1>4
<1>6. Follows(r, rec)
  <2> HIDE DEF m
  <2> QED BY <1>3, <1>4 DEF Follows
<1>7. [state |-> "dispatch_armed", ev |-> receipt, at |-> at] \in ToSet(r.transitions)  BY <1>4
<1>8. Receives(r, rec, receipt, at)  BY <1>2, <1>5 DEF Receives
<1> QED BY <1>6, <1>7, <1>8 DEF r

\* A replaced attempt, alone or with the transition that goes with it.
LEMMA ReplacedStep ==
    ASSUME NEW rec, Shape(rec), NEW x, NEW r,
           \/ r = Replace(rec, x)
           \/ \E state, ev, at : r = Transition(Replace(rec, x), state, ev, at)
    PROVE  Follows(r, rec) /\ Swaps(r, rec, x)
<1> DEFINE m == Replace(rec, x)
<1>1. Shape(m) /\ m.transitions = rec.transitions /\ Swaps(m, rec, x)  BY ReplaceStep
<1> HIDE DEF m
<1>2. CASE r = m  BY <1>1, <1>2 DEF Follows
<1>3. ASSUME NEW state, NEW ev, NEW at, r = Transition(m, state, ev, at)
      PROVE  Shape(r) /\ r.attempts = m.attempts /\ ToSet(m.transitions) \subseteq ToSet(r.transitions)
  BY <1>1, <1>3, TransitionStep
<1>4. CASE \E state, ev, at : r = Transition(m, state, ev, at)
  <2>1. Shape(r) /\ r.attempts = m.attempts /\ ToSet(m.transitions) \subseteq ToSet(r.transitions)
    BY <1>3, <1>4
  <2> QED BY <1>1, <2>1 DEF Follows, Swaps
<1> QED BY <1>2, <1>4 DEF m

\* begin_commit retains the commit, with the acceptance of the coordinator.
LEMMA CommitBegunStep ==
    ASSUME NEW rec, Shape(rec), NEW commit, NEW acceptance, NEW at,
           CommitBegunRecord(rec, commit, acceptance, at) # Refused
    PROVE  /\ Follows(CommitBegunRecord(rec, commit, acceptance, at), rec)
           /\ commit.receipt \in ReceiptsIn(rec.attempts)
           /\ ToSet(CommitBegunRecord(rec, commit, acceptance, at).attempts) =
                ToSet(rec.attempts) \cup {[Attempt(commit, "request_retained", at) EXCEPT !.acceptance = acceptance]}
<1> DEFINE x == [Attempt(commit, "request_retained", at) EXCEPT !.acceptance = acceptance]
           m == Retain(rec, x)
           r == CommitBegunRecord(rec, commit, acceptance, at)
<1>1. commit.receipt \in ReceiptsIn(rec.attempts)  BY DEF CommitBegunRecord
<1>2. r = m \/ r = Transition(m, "commit_accepted", acceptance, at)  BY DEF CommitBegunRecord
<1> HIDE DEF x, r
<1>3. Shape(m) /\ m.transitions = rec.transitions /\ ToSet(m.attempts) = ToSet(rec.attempts) \cup {x}
  BY RetainStep
<1> HIDE DEF m
<1>4. CASE r = m  BY <1>1, <1>3, <1>4 DEF Follows, r, x
<1>5. CASE r = Transition(m, "commit_accepted", acceptance, at)
  <2>1. /\ Shape(r) /\ r.attempts = m.attempts
        /\ ToSet(r.transitions) = ToSet(m.transitions) \cup
             {[state |-> "commit_accepted", ev |-> acceptance, at |-> at]}
    BY <1>3, <1>5, TransitionStep
  <2>2. Follows(r, rec)  BY <1>3, <2>1 DEF Follows
  <2> QED BY <1>1, <1>3, <2>1, <2>2 DEF r, x
<1> QED BY <1>2, <1>4, <1>5

\* _bind_outcome_acceptance changes at most the attempt of the commit.
LEMMA BoundStep ==
    ASSUME NEW rec, Shape(rec), NEW outcome, NEW at, BoundRecord(rec, outcome, at) # Refused
    PROVE  /\ Follows(BoundRecord(rec, outcome, at), rec)
           /\ \A a \in ToSet(BoundRecord(rec, outcome, at).attempts) :
                \/ a \in ToSet(rec.attempts)
                \/ \E b \in ToSet(rec.attempts) : Binds(a, b, outcome.acceptance, at)
           /\ \A b \in ToSet(rec.attempts) :
                \E a \in ToSet(BoundRecord(rec, outcome, at).attempts) : a.request = b.request
<1> DEFINE c == outcome.acceptance
           b == AttemptFor(rec, c.commit)
           x == [b EXCEPT !.acceptance = c, !.updated = at]
           m == Replace(rec, x)
           r == BoundRecord(rec, outcome, at)
<1>1. \/ r = rec
      \/ r = Transition(rec, "commit_accepted", c, at)
      \/ /\ c # None /\ Holds(rec, c.commit)
         /\ r = m \/ r = Transition(m, "commit_accepted", c, at)
  BY DEF BoundRecord
<1> HIDE DEF c, r
<1>2. CASE r = rec  BY <1>2 DEF Follows, r
<1>3. CASE r = Transition(rec, "commit_accepted", c, at)
  <2>1. /\ Shape(r) /\ r.attempts = rec.attempts
        /\ ToSet(r.transitions) = ToSet(rec.transitions) \cup {[state |-> "commit_accepted", ev |-> c, at |-> at]}
    BY <1>3, TransitionStep
  <2> QED BY <2>1 DEF Follows, r
<1>4. ASSUME c # None, Holds(rec, c.commit), r = m \/ r = Transition(m, "commit_accepted", c, at)
      PROVE  /\ Follows(r, rec)
             /\ \A a \in ToSet(r.attempts) : \/ a \in ToSet(rec.attempts)
                                             \/ \E d \in ToSet(rec.attempts) : Binds(a, d, c, at)
             /\ \A d \in ToSet(rec.attempts) : \E a \in ToSet(r.attempts) : a.request = d.request
  <2>1. b \in ToSet(rec.attempts) /\ b.request = c.commit  BY <1>4, AttemptForIn
  <2> HIDE DEF b
  <2>2. Binds(x, b, c, at)  BY <1>4, <2>1 DEF Binds
  <2> HIDE DEF x
  <2>3. Follows(r, rec) /\ Swaps(r, rec, x)
    <3>1. r = Replace(rec, x) \/ \E state, ev, t : r = Transition(Replace(rec, x), state, ev, t)
      BY <1>4
    <3> QED BY <3>1, ReplacedStep
  <2> QED BY <2>1, <2>2, <2>3 DEF Swaps
<1> QED BY <1>1, <1>2, <1>3, <1>4 DEF r, c

\* mark_commit_unknown and fail_query mark the attempt at the request q, if it has no answer.
MarksOnly(r, rec, at) ==
    /\ Follows(r, rec)
    /\ \A a \in ToSet(r.attempts) : a \in ToSet(rec.attempts) \/ \E b \in ToSet(rec.attempts) : Marks(a, b, at)

\* An attempt without an answer is marked, alone or with a transition.
LEMMA MarkStep ==
    ASSUME NEW rec, Shape(rec), NEW q, NEW at, Holds(rec, q), AttemptFor(rec, q).status = "request_retained",
           NEW r,
           LET x == [AttemptFor(rec, q) EXCEPT !.status = "outcome_unknown", !.updated = at]
           IN  r = Replace(rec, x) \/ \E state, ev, t : r = Transition(Replace(rec, x), state, ev, t)
    PROVE  MarksOnly(r, rec, at)
<1> DEFINE b == AttemptFor(rec, q)
           x == [b EXCEPT !.status = "outcome_unknown", !.updated = at]
<1>1. b \in ToSet(rec.attempts) /\ b.request = q /\ b.status = "request_retained"  BY AttemptForIn
<1>2. r = Replace(rec, x) \/ \E state, ev, t : r = Transition(Replace(rec, x), state, ev, t)  OBVIOUS
<1> HIDE DEF b
<1>3. Marks(x, b, at)  BY <1>1 DEF Marks
<1> HIDE DEF x
<1>4. Follows(r, rec) /\ Swaps(r, rec, x)  BY <1>2, ReplacedStep
<1> QED BY <1>1, <1>3, <1>4 DEF MarksOnly, Swaps

\* mark_commit_unknown
LEMMA CommitUnknownStep ==
    ASSUME NEW rec, Shape(rec), NEW commit, NEW at, CommitUnknownRecord(rec, commit, at) # Refused
    PROVE  MarksOnly(CommitUnknownRecord(rec, commit, at), rec, at)
<1> DEFINE r == CommitUnknownRecord(rec, commit, at)
           x == [AttemptFor(rec, commit) EXCEPT !.status = "outcome_unknown", !.updated = at]
<1>1. /\ Holds(rec, commit) /\ AttemptFor(rec, commit).status = "request_retained"
      /\ r = Replace(rec, x) \/ r = Transition(Replace(rec, x), "unknown_effect", commit, at)
  BY DEF CommitUnknownRecord
<1> HIDE DEF r
<1>2. r = Replace(rec, x) \/ \E state, ev, t : r = Transition(Replace(rec, x), state, ev, t)
  BY <1>1
<1>3. MarksOnly(r, rec, at)  BY <1>1, <1>2, MarkStep
<1> QED BY <1>3 DEF r

\* fail_query
LEMMA QueryFailedStep ==
    ASSUME NEW rec, Shape(rec), NEW query, NEW at, QueryFailedRecord(rec, query, at) # Refused
    PROVE  MarksOnly(QueryFailedRecord(rec, query, at), rec, at)
<1> DEFINE r == QueryFailedRecord(rec, query, at)
           x == [AttemptFor(rec, query) EXCEPT !.status = "outcome_unknown", !.updated = at]
<1>1. /\ Holds(rec, query) /\ AttemptFor(rec, query).status = "request_retained"
      /\ r = Replace(rec, x) \/ r = Transition(Replace(rec, x), "unknown_effect", query, at)
  BY DEF QueryFailedRecord
<1> HIDE DEF r
<1>2. r = Replace(rec, x) \/ \E state, ev, t : r = Transition(Replace(rec, x), state, ev, t)
  BY <1>1
<1>3. MarksOnly(r, rec, at)  BY <1>1, <1>2, MarkStep
<1> QED BY <1>3 DEF r

\* finish_commit and complete_query: an answer in the attempt of its request, over
\* a record that binds the acceptance.
AnswersOver(r, bound, rec, outcome, at) ==
    /\ bound = BoundRecord(rec, outcome, at) /\ bound # Refused
    /\ Follows(r, bound)
    /\ \A a \in ToSet(r.attempts) :
         a \in ToSet(bound.attempts) \/ \E b \in ToSet(bound.attempts) : Answers(a, b, outcome, at)

\* An answer is written over the record that binds its acceptance.
LEMMA AnswerStep ==
    ASSUME NEW rec, Shape(rec), NEW outcome, NEW at, NEW bound, bound = BoundRecord(rec, outcome, at),
           bound # Refused, Holds(rec, outcome.request), NEW r,
           LET x == [AttemptFor(bound, outcome.request)
                       EXCEPT !.status = "response_retained", !.outcome = outcome, !.updated = at]
           IN  r = Replace(bound, x) \/ \E state, ev, t : r = Transition(Replace(bound, x), state, ev, t)
    PROVE  AnswersOver(r, bound, rec, outcome, at)
<1> DEFINE q == outcome.request
           b == AttemptFor(bound, q)
           x == [b EXCEPT !.status = "response_retained", !.outcome = outcome, !.updated = at]
<1>1. Shape(bound) /\ \A d \in ToSet(rec.attempts) : \E a \in ToSet(bound.attempts) : a.request = d.request
  BY BoundStep DEF Follows
<1>2. Holds(bound, q)
  <2>1. PICK d \in ToSet(rec.attempts) : d.request = q  BY DEF Holds
  <2> QED BY <1>1, <2>1 DEF Holds
<1>3. b \in ToSet(bound.attempts) /\ b.request = q  BY <1>2, AttemptForIn
<1>4. r = Replace(bound, x) \/ \E state, ev, t : r = Transition(Replace(bound, x), state, ev, t)  OBVIOUS
<1> HIDE DEF b
<1>5. Answers(x, b, outcome, at)  BY <1>3 DEF Answers
<1> HIDE DEF x
<1>6. Follows(r, bound) /\ Swaps(r, bound, x)  BY <1>1, <1>4, ReplacedStep
<1> QED BY <1>3, <1>5, <1>6 DEF AnswersOver, Swaps

\* finish_commit
LEMMA CommitFinishedStep ==
    ASSUME NEW rec, Shape(rec), NEW outcome, NEW at, CommitFinishedRecord(rec, outcome, at) # Refused
    PROVE  AnswersOver(CommitFinishedRecord(rec, outcome, at), BoundRecord(rec, outcome, at), rec, outcome, at)
<1> DEFINE r == CommitFinishedRecord(rec, outcome, at)
           bound == BoundRecord(rec, outcome, at)
           x == [AttemptFor(bound, outcome.request)
                   EXCEPT !.status = "response_retained", !.outcome = outcome, !.updated = at]
<1>1. /\ Holds(rec, outcome.request) /\ bound # Refused
      /\ r = Replace(bound, x) \/ r = Transition(Replace(bound, x), outcome.disposition, outcome, at)
  BY DEF CommitFinishedRecord
<1> HIDE DEF r, bound
<1>2. r = Replace(bound, x) \/ \E state, ev, t : r = Transition(Replace(bound, x), state, ev, t)
  BY <1>1
<1>3. AnswersOver(r, bound, rec, outcome, at)  BY <1>1, <1>2, AnswerStep DEF bound
<1> QED BY <1>3 DEF r, bound

\* complete_query
LEMMA QueryCompletedStep ==
    ASSUME NEW rec, Shape(rec), NEW outcome, NEW at, QueryCompletedRecord(rec, outcome, at) # Refused
    PROVE  AnswersOver(QueryCompletedRecord(rec, outcome, at), BoundRecord(rec, outcome, at), rec, outcome, at)
<1> DEFINE r == QueryCompletedRecord(rec, outcome, at)
           bound == BoundRecord(rec, outcome, at)
           x == [AttemptFor(bound, outcome.request)
                   EXCEPT !.status = "response_retained", !.outcome = outcome, !.updated = at]
<1>1. /\ Holds(rec, outcome.request) /\ bound # Refused
      /\ r = Replace(bound, x) \/ r = Transition(Replace(bound, x), outcome.disposition, outcome, at)
  BY DEF QueryCompletedRecord
<1> HIDE DEF r, bound
<1>2. r = Replace(bound, x) \/ \E state, ev, t : r = Transition(Replace(bound, x), state, ev, t)
  BY <1>1
<1>3. AnswersOver(r, bound, rec, outcome, at)  BY <1>1, <1>2, AnswerStep DEF bound
<1> QED BY <1>3 DEF r, bound

\* begin_query
LEMMA QueryBegunStep ==
    ASSUME NEW rec, Shape(rec), NEW query, NEW role, NEW at, QueryBegunRecord(rec, query, role, at) # Refused
    PROVE  /\ Follows(QueryBegunRecord(rec, query, role, at), rec)
           /\ ToSet(QueryBegunRecord(rec, query, role, at).attempts) =
                ToSet(rec.attempts) \cup {Attempt(query, "request_retained", at)}
<1> DEFINE x == Attempt(query, "request_retained", at)
           r == QueryBegunRecord(rec, query, role, at)
<1>1. r = Retain(rec, x)  BY DEF QueryBegunRecord
<1> HIDE DEF x, r
<1>2. Shape(r) /\ r.transitions = rec.transitions /\ ToSet(r.attempts) = ToSet(rec.attempts) \cup {x}
  BY <1>1, RetainStep
<1> QED BY <1>2 DEF Follows, r, x

\* close_not_dispatched
LEMMA ClosedStep ==
    ASSUME NEW rec, Shape(rec), NEW at, ClosedRecord(rec, at) # Refused
    PROVE  Follows(ClosedRecord(rec, at), rec) /\ ClosedRecord(rec, at).attempts = rec.attempts
<1>1. ClosedRecord(rec, at) = Transition(rec, "not_dispatched", None, at)  BY DEF ClosedRecord
<1> QED BY <1>1, TransitionStep DEF Follows

(***************************************************************************)
(* What the methods do to a record of the gateway and to one of the        *)
(* coordinator.                                                            *)
(***************************************************************************)
\* The clock moves only forward, and kept evidence stays kept.
LEMMA KeptLater ==
    ASSUME NEW o, NEW q, NEW at \in Nat, NEW later \in Nat, at <= later, OutcomeKept(o, q, at)
    PROVE  OutcomeKept(o, q, later)
<1> USE EvidenceAssumption
<1>1. \A n \in Nat : n <= at + FutureSkew => n <= later + FutureSkew  OBVIOUS
<1>2. o.signed \in Nat /\ o.signed <= later + FutureSkew  BY <1>1 DEF OutcomeKept, IsOutcome
<1>3. ASSUME NEW x, AcceptanceKept(x, at)  PROVE AcceptanceKept(x, later)
  <2>1. x.accepted \in Nat /\ x.commit.receipt.prepared \in Nat  BY <1>3 DEF AcceptanceKept, IsAcceptance
  <2>2. x.accepted <= later + FutureSkew /\ x.commit.receipt.prepared <= later + FutureSkew
    BY <1>1, <1>3, <2>1 DEF AcceptanceKept
  <2> QED BY <1>3, <2>2 DEF AcceptanceKept
<1> QED BY <1>2, <1>3 DEF OutcomeKept

\* Every attempt of the new record descends from one of the old.
LEMMA GwDescends ==
    ASSUME NEW rec, NEW r, GwRecord(rec, gwNow), Follows(r, rec),
           \A a \in ToSet(r.attempts) :
             GwAttempt(a, gwNow) /\ \E b \in ToSet(rec.attempts) : b.kind = a.kind /\ b.retained = a.retained
    PROVE  GwRecord(r, gwNow)
<1>1. ASSUME NEW c \in ToSet(r.attempts), c.kind = "commit"
      PROVE  \E t \in ToSet(r.transitions) : ArmedBefore(r, t, gwNow)
  <2>1. PICK b \in ToSet(rec.attempts) : b.kind = "commit"  BY <1>1
  <2>2. PICK t \in ToSet(rec.transitions) : ArmedBefore(rec, t, gwNow)  BY <2>1 DEF GwRecord, Armed
  <2>3. t \in ToSet(r.transitions)  BY <2>2 DEF Follows
  <2>4. ASSUME NEW a \in ToSet(r.attempts), a.kind = "query"  PROVE t.at <= a.retained
    <3>1. PICK d \in ToSet(rec.attempts) : d.kind = "query" /\ d.retained = a.retained  BY <2>4
    <3> QED BY <2>2, <3>1 DEF ArmedBefore
  <2>5. ArmedBefore(r, t, gwNow)  BY <2>2, <2>4 DEF ArmedBefore
  <2> QED BY <2>3, <2>5
<1> QED BY <1>1 DEF GwRecord, Armed, Follows

\* A mark touches no attempt that holds an outcome.
LEMMA GwMarks ==
    ASSUME NEW rec, NEW r, NEW at, GwRecord(rec, gwNow), MarksOnly(r, rec, at)
    PROVE  GwRecord(r, gwNow)
<1>1. ASSUME NEW a \in ToSet(r.attempts)
      PROVE  GwAttempt(a, gwNow) /\ \E b \in ToSet(rec.attempts) : b.kind = a.kind /\ b.retained = a.retained
  <2>1. CASE a \in ToSet(rec.attempts)  BY <2>1 DEF GwRecord
  <2>2. ASSUME NEW b \in ToSet(rec.attempts), Marks(a, b, at)
        PROVE  GwAttempt(a, gwNow) /\ b.kind = a.kind /\ b.retained = a.retained
    <3>1. DOMAIN b = AttemptFields /\ GwAttempt(b, gwNow)  BY DEF GwRecord, GwAttempt
    <3>2. b.outcome = None  BY <2>2, <3>1 DEF GwAttempt, Marks
    <3>3. /\ DOMAIN a = AttemptFields /\ a.kind = b.kind /\ a.request = b.request /\ a.retained = b.retained
          /\ a.receipt = b.receipt /\ a.outcome = b.outcome
      <4>1. PICK y : y = [b EXCEPT !.status = "outcome_unknown"]  OBVIOUS
      <4>2. a = [y EXCEPT !.updated = at]  BY <2>2, <4>1 DEF Marks
      <4> QED BY <3>1, <4>1, <4>2 DEF AttemptFields
    <3> QED BY <3>1, <3>2, <3>3 DEF GwAttempt
  <2> QED BY <2>1, <2>2 DEF MarksOnly
<1> QED BY <1>1, GwDescends DEF MarksOnly

\* A kept outcome makes its attempt a good one.
LEMMA GwAnswers ==
    ASSUME NEW rec, NEW r, NEW bound, NEW outcome, NEW at \in Nat, GwRecord(rec, gwNow),
           AnswersOver(r, bound, rec, outcome, at),
           OutcomeKept(outcome, outcome.request, gwNow), outcome.signed <= at, at <= gwNow + FutureSkew
    PROVE  GwRecord(r, gwNow)
<1> DEFINE c == outcome.acceptance
<1>0. IsOutcome(outcome) /\ (c # None => c.commit.kind = "commit")  BY DEF OutcomeKept, IsOutcome, IsAcceptance
<1>1. Shape(rec)  BY DEF GwRecord
<1>2. /\ Follows(bound, rec)
      /\ \A a \in ToSet(bound.attempts) :
           a \in ToSet(rec.attempts) \/ \E b \in ToSet(rec.attempts) : Binds(a, b, c, at)
  BY <1>1, BoundStep DEF AnswersOver
<1> HIDE DEF c
<1>3. GwRecord(bound, gwNow)
  <2>1. ASSUME NEW a \in ToSet(bound.attempts)
        PROVE  GwAttempt(a, gwNow) /\ \E b \in ToSet(rec.attempts) : b.kind = a.kind /\ b.retained = a.retained
    <3>1. CASE a \in ToSet(rec.attempts)  BY <3>1 DEF GwRecord
    <3>2. ASSUME NEW b \in ToSet(rec.attempts), Binds(a, b, c, at)
          PROVE  GwAttempt(a, gwNow) /\ b.kind = a.kind /\ b.retained = a.retained
      <4>1. DOMAIN b = AttemptFields /\ GwAttempt(b, gwNow)  BY DEF GwRecord, GwAttempt
      <4>2. /\ DOMAIN a = AttemptFields /\ a.kind = b.kind /\ a.request = b.request /\ a.retained = b.retained
            /\ a.receipt = b.receipt /\ a.outcome = b.outcome /\ a.status = b.status
        <5>1. PICK y : y = [b EXCEPT !.acceptance = c]  OBVIOUS
        <5>2. a = [y EXCEPT !.updated = at]  BY <3>2, <5>1 DEF Binds
        <5> QED BY <4>1, <5>1, <5>2 DEF AttemptFields
      <4>3. a.kind = "commit"  BY <1>0, <3>2, <4>1, <4>2 DEF Binds, GwAttempt
      <4> QED BY <4>1, <4>2, <4>3 DEF GwAttempt
    <3> QED BY <1>2, <3>1, <3>2
  <2> QED BY <1>2, <2>1, GwDescends
<1>4. ASSUME NEW a \in ToSet(r.attempts)
      PROVE  GwAttempt(a, gwNow) /\ \E b \in ToSet(bound.attempts) : b.kind = a.kind /\ b.retained = a.retained
  <2>1. CASE a \in ToSet(bound.attempts)  BY <1>3, <2>1 DEF GwRecord
  <2>2. ASSUME NEW b \in ToSet(bound.attempts), Answers(a, b, outcome, at)
        PROVE  GwAttempt(a, gwNow) /\ b.kind = a.kind /\ b.retained = a.retained
    <3>1. DOMAIN b = AttemptFields /\ GwAttempt(b, gwNow)  BY <1>3 DEF GwRecord, GwAttempt
    <3>2. /\ DOMAIN a = AttemptFields /\ a.kind = b.kind /\ a.request = b.request /\ a.retained = b.retained
          /\ a.receipt = b.receipt /\ a.outcome = outcome /\ a.status = "response_retained" /\ a.updated = at
      <4>1. PICK y : y = [b EXCEPT !.status = "response_retained"]  OBVIOUS
      <4>2. PICK z : z = [y EXCEPT !.outcome = outcome]  OBVIOUS
      <4>3. a = [z EXCEPT !.updated = at]  BY <2>2, <4>1, <4>2 DEF Answers
      <4>4. DOMAIN y = AttemptFields /\ y.status = "response_retained"
            /\ y.kind = b.kind /\ y.request = b.request /\ y.retained = b.retained /\ y.receipt = b.receipt
        BY <3>1, <4>1 DEF AttemptFields
      <4>5. DOMAIN z = AttemptFields /\ z.status = "response_retained" /\ z.outcome = outcome
            /\ z.kind = b.kind /\ z.request = b.request /\ z.retained = b.retained /\ z.receipt = b.receipt
        BY <4>2, <4>4 DEF AttemptFields
      <4> QED BY <4>3, <4>5 DEF AttemptFields
    <3>3. a.request = outcome.request  BY <2>2, <3>2 DEF Answers
    <3> QED BY <3>1, <3>2, <3>3 DEF GwAttempt
  <2> QED BY <2>1, <2>2 DEF AnswersOver
<1> QED BY <1>3, <1>4, GwDescends DEF AnswersOver

\* A request retained now.
LEMMA GwRetains ==
    ASSUME NEW rec, NEW r, GwRecord(rec, gwNow), Follows(r, rec), gwNow \in Nat, NEW q, NEW a, DOMAIN a = AttemptFields,
           a.kind = q.kind, a.request = q, a.retained = gwNow, a.receipt = None, a.outcome = None,
           ToSet(r.attempts) = ToSet(rec.attempts) \cup {a},
           a.kind = "commit" => \E t \in ToSet(rec.transitions) : ArmedBefore(rec, t, gwNow)
    PROVE  GwRecord(r, gwNow)
<1>1. GwAttempt(a, gwNow)  BY DEF GwAttempt
<1>2. ASSUME NEW c \in ToSet(r.attempts), c.kind = "commit"
      PROVE  \E t \in ToSet(r.transitions) : ArmedBefore(r, t, gwNow)
  <2>1. PICK t \in ToSet(rec.transitions) : ArmedBefore(rec, t, gwNow)  BY <1>2 DEF GwRecord, Armed
  <2>2. t \in ToSet(r.transitions) /\ ArmedBefore(r, t, gwNow)  BY <2>1 DEF Follows, ArmedBefore
  <2> QED BY <2>2
<1> QED BY <1>1, <1>2 DEF GwRecord, Armed, Follows

\* The same of the coordinator's record: a mark keeps its acceptances.
LEMMA OtMarks ==
    ASSUME NEW rec, NEW r, NEW at, OtRecord(rec), MarksOnly(r, rec, at)
    PROVE  OtRecord(r)
<1>1. ASSUME NEW a \in ToSet(r.attempts)
      PROVE  DOMAIN a = AttemptFields /\ (a.acceptance # None => IsAcceptance(a.acceptance))
  <2>1. CASE a \in ToSet(rec.attempts)  BY <2>1 DEF OtRecord
  <2>2. ASSUME NEW b \in ToSet(rec.attempts), Marks(a, b, at)
        PROVE  DOMAIN a = AttemptFields /\ a.acceptance = b.acceptance
    <3>1. DOMAIN b = AttemptFields  BY DEF OtRecord
    <3>2. PICK y : y = [b EXCEPT !.status = "outcome_unknown"]  OBVIOUS
    <3>3. a = [y EXCEPT !.updated = at]  BY <2>2, <3>2 DEF Marks
    <3> QED BY <3>1, <3>2, <3>3 DEF AttemptFields
  <2> QED BY <2>1, <2>2 DEF MarksOnly, OtRecord
<1> QED BY <1>1 DEF OtRecord, MarksOnly, Follows

\* An answer keeps the acceptances, or binds its own.
LEMMA OtAnswers ==
    ASSUME NEW rec, NEW r, NEW bound, NEW outcome, NEW at, OtRecord(rec),
           AnswersOver(r, bound, rec, outcome, at), IsOutcome(outcome)
    PROVE  OtRecord(r)
<1> DEFINE c == outcome.acceptance
           Fits(a) == DOMAIN a = AttemptFields /\ (a.acceptance # None => IsAcceptance(a.acceptance))
<1>0. c # None => IsAcceptance(c)  BY DEF IsOutcome
<1>1. Shape(rec) /\ \A a \in ToSet(rec.attempts) : Fits(a)  BY DEF OtRecord
<1>2. /\ Follows(bound, rec)
      /\ \A a \in ToSet(bound.attempts) :
           a \in ToSet(rec.attempts) \/ \E b \in ToSet(rec.attempts) : Binds(a, b, c, at)
  BY <1>1, BoundStep DEF AnswersOver
<1> HIDE DEF c
<1>3. ASSUME NEW a \in ToSet(bound.attempts)  PROVE Fits(a)
  <2>1. ASSUME NEW b \in ToSet(rec.attempts), Binds(a, b, c, at)
        PROVE  DOMAIN a = AttemptFields /\ a.acceptance = c
    <3>1. DOMAIN b = AttemptFields  BY <1>1
    <3>2. PICK y : y = [b EXCEPT !.acceptance = c]  OBVIOUS
    <3>3. a = [y EXCEPT !.updated = at]  BY <2>1, <3>2 DEF Binds
    <3> QED BY <3>1, <3>2, <3>3 DEF AttemptFields
  <2> QED BY <1>0, <1>1, <1>2, <2>1
<1>4. ASSUME NEW a \in ToSet(r.attempts)  PROVE Fits(a)
  <2>1. ASSUME NEW b \in ToSet(bound.attempts), Answers(a, b, outcome, at)
        PROVE  DOMAIN a = AttemptFields /\ a.acceptance = b.acceptance
    <3>1. DOMAIN b = AttemptFields  BY <1>3
    <3>2. PICK y : y = [b EXCEPT !.status = "response_retained"]  OBVIOUS
    <3>3. PICK z : z = [y EXCEPT !.outcome = outcome]  OBVIOUS
    <3>4. a = [z EXCEPT !.updated = at]  BY <2>1, <3>2, <3>3 DEF Answers
    <3>5. DOMAIN y = AttemptFields /\ y.acceptance = b.acceptance  BY <3>1, <3>2 DEF AttemptFields
    <3>6. DOMAIN z = AttemptFields /\ z.acceptance = b.acceptance  BY <3>5, <3>3 DEF AttemptFields
    <3> QED BY <3>4, <3>6 DEF AttemptFields
  <2> QED BY <1>3, <2>1 DEF AnswersOver
<1> QED BY <1>4 DEF OtRecord, AnswersOver, Follows

\* A new attempt with a well-formed acceptance, or none.
LEMMA OtRetains ==
    ASSUME NEW rec, NEW r, OtRecord(rec), Follows(r, rec), NEW a, DOMAIN a = AttemptFields,
           a.acceptance # None => IsAcceptance(a.acceptance),
           ToSet(r.attempts) = ToSet(rec.attempts) \cup {a}
    PROVE  OtRecord(r)
BY DEF OtRecord, Follows

(***************************************************************************)
(* What the invariant says of the evidence the gateway shows.              *)
(***************************************************************************)
\* The last of some positions of a sequence is one of them.
LEMMA LastOfIn ==
    ASSUME NEW s, IsSequence(s), NEW indices \in SUBSET (DOMAIN s), indices # {}
    PROVE  LastOf(indices) \in indices
<1>1. PICK n \in Nat : DOMAIN s = 1..n  BY DEF IsSequence
<1> DEFINE D == {n - i : i \in indices}
<1>2. D \in SUBSET Nat /\ D # {}  BY <1>1
<1>3. PICK d \in D : \A m \in D : d <= m
  <2> HIDE DEF D
  <2> QED BY <1>2, LeastNat
<1>4. PICK i \in indices : d = n - i  OBVIOUS
<1>5. ASSUME NEW j \in indices  PROVE j <= i
  <2>1. n - i <= n - j  BY <1>3, <1>4
  <2>2. i \in Nat /\ j \in Nat  BY <1>1
  <2> QED BY <2>1, <2>2
<1> QED BY <1>5 DEF LastOf

\* Kept evidence passes the historical verification unless a revocation reaches it.
LEMMA KeptVerifies ==
    ASSUME NEW o, NEW q, NEW at \in Nat, OutcomeKept(o, q, at), ~RevokedEvidence(o)
    PROVE  OutcomeHistorical(o, q, at)
<1> DEFINE x == o.acceptance
<1>1. HistoricalKey(o.cred, o.signed, at)  BY DEF OutcomeKept, HistoricalKey, RevokedEvidence
<1>2. ASSUME x # None
      PROVE  AcceptanceVerified(x, at) /\ HistoricalKey(GatewayCred, x.accepted, at)
  <2>1. AcceptanceKept(x, at)  BY <1>2 DEF OutcomeKept
  <2>2. /\ ~RevokedBy(x.cred, x.accepted) /\ ~RevokedBy(GatewayCred, x.accepted)
        /\ ~RevokedBy(x.commit.receipt.cred, x.commit.receipt.prepared)
        /\ ~RevokedBy(GatewayCred, x.commit.receipt.prepared)
    BY <1>2 DEF RevokedEvidence
  <2> HIDE DEF x
  <2>3. /\ HistoricalKey(GatewayCred, x.accepted, at) /\ HistoricalKey(x.cred, x.accepted, at)
        /\ HistoricalKey(GatewayCred, x.commit.receipt.prepared, at)
        /\ HistoricalKey(x.commit.receipt.cred, x.commit.receipt.prepared, at)
    BY <2>1, <2>2 DEF AcceptanceKept, HistoricalKey
  <2> QED BY <2>1, <2>3 DEF AcceptanceKept, AcceptanceVerified, ReceiptVerified
<1>3. ~RevokedBy(GatewayCred, o.signed)  BY DEF RevokedEvidence
<1>4. q.kind # "commit" => HistoricalKey(GatewayCred, o.signed, at)  BY <1>3 DEF OutcomeKept, HistoricalKey
<1>5. q.kind = "commit" => x # None  BY DEF OutcomeKept
<1> QED BY <1>1, <1>2, <1>4, <1>5 DEF OutcomeKept, OutcomeHistorical

\* The terminal outcome is one the record retains.
LEMMA TerminalIn ==
    ASSUME NEW rec, Shape(rec), TerminalOutcome(rec) # None
    PROVE  TerminalOutcome(rec).disposition \in {"applied", "rejected"}
<1> DEFINE wanted == OutcomesWith(rec, "applied") \cup OutcomesWith(rec, "rejected")
           found == {i \in DOMAIN rec.attempts : rec.attempts[i].outcome \in wanted}
<1>1. found # {} /\ TerminalOutcome(rec) = rec.attempts[LastOf(found)].outcome
  BY DEF TerminalOutcome, LatestWith
<1>2. LastOf(found) \in found
  <2>1. found \in SUBSET (DOMAIN rec.attempts) /\ IsSequence(rec.attempts)  BY DEF Shape
  <2> HIDE DEF found
  <2> QED BY <1>1, <2>1, LastOfIn
<1>3. TerminalOutcome(rec) \in wanted  BY <1>1, <1>2
<1> QED BY <1>3 DEF OutcomesWith

\* The query whose answer a reconciliation shows.
LEMMA ShownIn ==
    ASSUME NEW rec, Shape(rec), ShownQuery(rec) # None
    PROVE  /\ ShownQuery(rec) \in ToSet(rec.attempts)
           /\ ShownQuery(rec).kind = "query" /\ ShownQuery(rec).outcome # None
           /\ IF TerminalOutcome(rec) # None THEN ShownQuery(rec).outcome = TerminalOutcome(rec)
              ELSE ShownQuery(rec).outcome.disposition = "unknown_effect"
<1> DEFINE outcome == TerminalOutcome(rec)
           Shows(a) == /\ a.kind = "query" /\ a.outcome # None
                       /\ IF outcome # None THEN a.outcome = outcome
                                            ELSE a.outcome.disposition = "unknown_effect"
           shown == {i \in DOMAIN rec.attempts : Shows(rec.attempts[i])}
<1>1. shown # {} /\ ShownQuery(rec) = rec.attempts[LastOf(shown)]  BY DEF ShownQuery
<1>2. LastOf(shown) \in shown
  <2>1. shown \in SUBSET (DOMAIN rec.attempts) /\ IsSequence(rec.attempts)  BY DEF Shape
  <2> HIDE DEF shown
  <2> QED BY <1>1, <2>1, LastOfIn
<1>3. Shows(rec.attempts[LastOf(shown)]) /\ LastOf(shown) \in DOMAIN rec.attempts  BY <1>2
<1> QED BY <1>1, <1>3 DEF ToSet

\* The state before a query that was shown is known: the receipt armed the effect before it.
LEMMA PriorKnown ==
    ASSUME NEW rec, GwRecord(rec, gwNow), Committed(rec), NEW a \in ToSet(rec.attempts), a.kind = "query",
           IsOutcome(a.outcome), a.outcome.acceptance # None
    PROVE  PriorState(rec, a) # None
<1> DEFINE Before(t) == /\ t.at <= a.retained
                        /\ t.ev \notin {a.outcome, a.outcome.acceptance}
                        /\ t.state \in {"dispatch_armed", "commit_accepted", "unknown_effect"}
           prior == {i \in DOMAIN rec.transitions : Before(rec.transitions[i])}
<1>1. PICK t \in ToSet(rec.transitions) : ArmedBefore(rec, t, gwNow)  BY DEF GwRecord, Armed, Committed, AttemptsOf
<1>2. Before(t)
  <2>1. DOMAIN t.ev = ReceiptFields /\ t.at <= a.retained /\ t.state = "dispatch_armed"  BY <1>1 DEF ArmedBefore
  <2>2. DOMAIN a.outcome = OutcomeFields /\ DOMAIN a.outcome.acceptance = AcceptanceFields
    BY DEF IsOutcome, IsAcceptance
  <2>3. "prepared" \in ReceiptFields /\ "prepared" \notin OutcomeFields /\ "prepared" \notin AcceptanceFields
    BY DEF ReceiptFields, OutcomeFields, AcceptanceFields
  <2>4. t.ev # a.outcome /\ t.ev # a.outcome.acceptance  BY <2>1, <2>2, <2>3
  <2> QED BY <2>1, <2>4
<1>3. prior # {}  BY <1>1, <1>2 DEF ToSet
<1>4. LastOf(prior) \in prior
  <2>1. prior \in SUBSET (DOMAIN rec.transitions) /\ IsSequence(rec.transitions)  BY DEF GwRecord, Shape
  <2> HIDE DEF prior
  <2> QED BY <1>3, <2>1, LastOfIn
<1>5. rec.transitions[LastOf(prior)].state \in {"dispatch_armed", "commit_accepted", "unknown_effect"}  BY <1>4
<1>6. PriorState(rec, a) = rec.transitions[LastOf(prior)].state  BY <1>3 DEF PriorState
<1> QED BY <1>5, <1>6, JournalAssumption

\* The invariant gives the property: what is kept verifies, and the prior state is known.
LEMMA KeptEvidenceShows ==
    ASSUME ExchangeInv
    PROVE  RetainedStaysVerifiable
<1> SUFFICES ASSUME gwRec # None
             PROVE  /\ \A a \in RetainedBy(gwRec) :
                         OutcomeHistorical(a.outcome, a.request, gwNow) \/ RevokedEvidence(a.outcome)
                    /\ Reconciled(gwRec, gwNow) = "retained_effect_verification_failed" =>
                         ~IdentitiesCurrent(FALSE) \/ RevokedEvidence(ShownQuery(gwRec).outcome)
  BY DEF RetainedStaysVerifiable
<1>0. GwRecord(gwRec, gwNow) /\ Shape(gwRec) /\ gwNow \in Nat  BY DEF ExchangeInv, ClockInv, GwInv, GwRecord
<1>1. ASSUME NEW a \in ToSet(gwRec.attempts), a.outcome # None, ~RevokedEvidence(a.outcome)
      PROVE  OutcomeHistorical(a.outcome, a.request, gwNow)
  <2>1. OutcomeKept(a.outcome, a.request, gwNow)  BY <1>0, <1>1 DEF GwRecord, GwAttempt
  <2> QED BY <1>0, <1>1, <2>1, KeptVerifies
<1>2. \A a \in RetainedBy(gwRec) : OutcomeHistorical(a.outcome, a.request, gwNow) \/ RevokedEvidence(a.outcome)
  BY <1>1 DEF RetainedBy
<1>3. ASSUME Reconciled(gwRec, gwNow) = "retained_effect_verification_failed",
             IdentitiesCurrent(FALSE), ~RevokedEvidence(ShownQuery(gwRec).outcome)
      PROVE  FALSE
  <2> DEFINE a == ShownQuery(gwRec)
             evidence == EvidenceFrom(gwRec, a)
  <2>1. Committed(gwRec) /\ a # None /\ ~EvidenceVerified(gwRec, evidence, gwNow)  BY <1>3 DEF Reconciled
  <2>2. /\ a \in ToSet(gwRec.attempts) /\ a.kind = "query" /\ a.outcome # None
        /\ IF TerminalOutcome(gwRec) # None THEN a.outcome = TerminalOutcome(gwRec)
           ELSE a.outcome.disposition = "unknown_effect"
    BY <1>0, <2>1, ShownIn
  <2>3. ~RevokedEvidence(a.outcome)  BY <1>3
  <2> HIDE DEF a
  <2>4. OutcomeHistorical(a.outcome, a.request, gwNow)  BY <1>1, <2>2, <2>3
  <2>5. /\ OutcomeKept(a.outcome, a.request, gwNow)
        /\ a.outcome.signed <= a.updated /\ a.updated <= gwNow + FutureSkew
    BY <1>0, <2>2 DEF GwRecord, GwAttempt
  <2>6. TerminalOutcome(gwRec) # None => a.outcome.disposition \in {"applied", "rejected"}
    BY <1>0, <2>2, TerminalIn
  <2>7. a.outcome.acceptance # None /\ IsOutcome(a.outcome) /\ a.outcome.request = a.request
    BY <2>2, <2>5, <2>6 DEF OutcomeKept
  <2>8. PriorState(gwRec, a) # None  BY <1>0, <2>1, <2>2, <2>7, PriorKnown
  <2>9. /\ evidence.prior = PriorState(gwRec, a) /\ evidence.query = a.request
        /\ evidence.outcome = a.outcome /\ evidence.at = a.updated
    BY DEF EvidenceFrom
  <2> HIDE DEF evidence
  <2>10. EvidenceBinds(evidence) /\ EvidenceHolds(evidence, gwNow)
    BY <2>4, <2>5, <2>7, <2>8, <2>9 DEF EvidenceBinds, EvidenceHolds
  <2>11. TerminalOutcome(gwRec) # None => TerminalExposed(gwRec, gwNow)
    <3> SUFFICES ASSUME TerminalOutcome(gwRec) # None  PROVE TerminalExposed(gwRec, gwNow)
      OBVIOUS
    <3> DEFINE outcome == TerminalOutcome(gwRec)
               retaining == {i \in DOMAIN gwRec.attempts : gwRec.attempts[i].outcome = outcome}
    <3>1. a.outcome = outcome  BY <2>2
    <3>2. retaining # {}  BY <2>2, <3>1 DEF ToSet
    <3>3. LastOf(retaining) \in retaining
      <4>1. retaining \in SUBSET (DOMAIN gwRec.attempts) /\ IsSequence(gwRec.attempts)  BY <1>0 DEF Shape
      <4> HIDE DEF retaining
      <4> QED BY <3>2, <4>1, LastOfIn
    <3> DEFINE e == gwRec.attempts[LastOf(retaining)]
    <3>4. e \in ToSet(gwRec.attempts) /\ e.outcome = outcome  BY <3>3 DEF ToSet
    <3> HIDE DEF e
    <3>5. OutcomeHistorical(outcome, e.request, gwNow)
      <4>1. OutcomeHistorical(e.outcome, e.request, gwNow)  BY <1>1, <2>3, <3>1, <3>4
      <4> QED BY <3>4, <4>1
    <3> QED BY <1>3, <3>5 DEF TerminalExposed, e
  <2>12. EvidenceVerified(gwRec, evidence, gwNow)
    BY <1>3, <2>2, <2>6, <2>9, <2>10, <2>11 DEF EvidenceVerified, ResolutionClosed, PendingClosed
  <2> QED BY <2>1, <2>12 DEF evidence
<1> QED BY <1>2, <1>3

(***************************************************************************)
(* Every step keeps the invariant.                                         *)
(***************************************************************************)
\* Nothing is retained at first.
LEMMA ExchangeBegins == ExchangeInit => ExchangeInv
BY DEF ExchangeInit, ExchangeInv, ClockInv, GwInv, OtInv

\* A step of the gateway leaves the coordinator as it is.
LEMMA OtFrame ==
    ASSUME ExchangeInv, GwUnchanged, \A q \in network' : CommitTyped(q)
    PROVE  ClockInv' /\ OtInv'
BY DEF ExchangeInv, ClockInv, OtInv, GwUnchanged

\* A step of the coordinator leaves the gateway as it is, but for the answer it gives.
LEMMA GwFrame ==
    ASSUME ExchangeInv, OtUnchanged, call # None => \A b \in answers' : Answered(call, b)
    PROVE  ClockInv' /\ GwInv'
BY DEF ExchangeInv, ClockInv, GwInv, OtUnchanged

\* What a method of the gateway's journal stores.
LEMMA GwStored ==
    ASSUME NEW rec, GwKeeps(rec), gwRec = None \/ GwRecord(gwRec, gwNow),
           rec # Refused => GwRecord(rec, gwNow), gwNow' = gwNow
    PROVE  gwRec' = None \/ GwRecord(gwRec', gwNow')
BY DEF GwKeeps, Storable

\* What a method of the coordinator's journal stores.
LEMMA OtStored ==
    ASSUME NEW rec, OtStores(rec), otRec = None \/ OtRecord(otRec), rec # Refused => OtRecord(rec)
    PROVE  otRec' = None \/ OtRecord(otRec')
BY DEF OtStores, Storable

\* A new attempt has no answer.
LEMMA AttemptShape ==
    ASSUME NEW q, NEW status, NEW at
    PROVE  /\ DOMAIN Attempt(q, status, at) = AttemptFields
           /\ Attempt(q, status, at).kind = q.kind /\ Attempt(q, status, at).request = q
           /\ Attempt(q, status, at).retained = at /\ Attempt(q, status, at).receipt = None
           /\ Attempt(q, status, at).acceptance = None /\ Attempt(q, status, at).outcome = None
BY DEF Attempt, AttemptFields

\* The first request of the effect.
LEMMA GwPrepareStep == ASSUME ExchangeInv, GwPrepare PROVE ExchangeInv'
<1> DEFINE q == PrepareRequest(PermitAt(pin.cred, pin.boot, gwNow), gwNow)
           r == BegunRecord(q, gwNow)
<1>1. /\ call = None /\ gwRec = None /\ GwStores(r)
      /\ IF Storable(r) THEN Send(q) ELSE UNCHANGED <<call, network>>
      /\ answers' = {} /\ GwUnchanged
  BY DEF GwPrepare
<1>2. q.kind = "prepare"  BY DEF PrepareRequest
<1> HIDE DEF q
<1>3. Shape(r) /\ ToSet(r.attempts) = {Attempt(q, "request_retained", gwNow)}  BY BegunShape
<1> HIDE DEF r
<1>4. gwNow \in Nat /\ gwNow' = gwNow  BY <1>1 DEF ExchangeInv, ClockInv, GwUnchanged
<1> DEFINE a == Attempt(q, "request_retained", gwNow)
<1>5. /\ DOMAIN a = AttemptFields /\ a.kind = q.kind /\ a.request = q /\ a.retained = gwNow
      /\ a.receipt = None /\ a.outcome = None
  BY AttemptShape
<1> HIDE DEF a
<1>6. GwAttempt(a, gwNow)  BY <1>4, <1>5 DEF GwAttempt
<1>7. ToSet(r.attempts) = {a}  BY <1>3 DEF a
<1>8. GwRecord(r, gwNow)  BY <1>2, <1>3, <1>5, <1>6, <1>7 DEF GwRecord, Armed
<1>9. \A p \in network' : CommitTyped(p)
  <2>1. CommitTyped(q)  BY <1>2 DEF CommitTyped
  <2> QED BY <1>1, <2>1 DEF Send, ExchangeInv, OtInv
<1>10. ClockInv' /\ OtInv'  BY <1>1, <1>9, OtFrame
<1>11. GwInv'
  <2>1. CASE Storable(r)
    <3>1. gwRec' = r /\ call' = q  BY <1>1, <2>1 DEF GwStores, GwKeeps, Send
    <3> QED BY <1>1, <1>4, <1>5, <1>7, <1>8, <3>1 DEF GwInv
  <2>2. CASE ~Storable(r)
    <3>1. gwRec' = None /\ call' = None  BY <1>1, <2>2 DEF GwStores, GwKeeps
    <3> QED BY <3>1 DEF GwInv
  <2> QED BY <2>1, <2>2
<1> QED BY <1>10, <1>11 DEF ExchangeInv

\* A step that leaves the gateway idle.
LEMMA GwIdle ==
    ASSUME ExchangeInv, GwUnchanged, UNCHANGED network, call' = None, gwRec' = None \/ GwRecord(gwRec', gwNow')
    PROVE  ExchangeInv'
<1>1. ClockInv' /\ OtInv'  BY OtFrame DEF ExchangeInv, OtInv
<1>2. GwInv'  BY DEF GwInv
<1> QED BY <1>1, <1>2 DEF ExchangeInv

\* Closing an effect leaves its attempts.
LEMMA GwClosed ==
    ASSUME GwRecord(gwRec, gwNow), NEW at, GwKeeps(ClosedRecord(gwRec, at)), gwNow' = gwNow
    PROVE  gwRec' = None \/ GwRecord(gwRec', gwNow')
<1> DEFINE r == ClosedRecord(gwRec, at)
<1>1. Shape(gwRec)  BY DEF GwRecord
<1>2. ASSUME r # Refused  PROVE GwRecord(r, gwNow)
  <2>1. Follows(r, gwRec) /\ r.attempts = gwRec.attempts  BY <1>1, <1>2, ClosedStep
  <2> HIDE DEF r
  <2>2. \A a \in ToSet(r.attempts) :
          GwAttempt(a, gwNow) /\ \E b \in ToSet(gwRec.attempts) : b.kind = a.kind /\ b.retained = a.retained
    BY <1>1, <2>1 DEF GwRecord
  <2> QED BY <1>1, <2>1, <2>2, GwDescends
<1> HIDE DEF r
<1>3. GwKeeps(r)  BY DEF r
<1> QED BY <1>1, <1>2, <1>3, GwStored

\* A missing prepare answer closes the effect.
LEMMA GwPrepareFailsStep == ASSUME ExchangeInv, GwPrepareFails PROVE ExchangeInv'
<1>1. gwNow' = gwNow  BY DEF GwPrepareFails, GwUnchanged
<1>2. GwRecord(gwRec, gwNow)  BY DEF GwPrepareFails, ExchangeInv, GwInv
<1>3. gwRec' = None \/ GwRecord(gwRec', gwNow')  BY <1>1, <1>2, GwClosed DEF GwPrepareFails, GwStores
<1> QED BY <1>3, GwIdle DEF GwPrepareFails

\* An effect without a commit is closed.
LEMMA GwCloseStep == ASSUME ExchangeInv, GwClose PROVE ExchangeInv'
<1>1. gwNow' = gwNow /\ GwRecord(gwRec, gwNow)  BY DEF GwClose, GwUnchanged, ExchangeInv, GwInv
<1>2. gwRec' = None \/ GwRecord(gwRec', gwNow')  BY <1>1, GwClosed DEF GwClose, GwStores
<1> QED BY <1>2, GwIdle DEF GwClose

\* The receipt is retained, and the commit that follows it.
LEMMA GwCommits ==
    ASSUME ExchangeInv, NEW answer, answer \in answers, call # None, call.kind = "prepare", answers' = {},
           NEW prepared, prepared = PreparedRecord(gwRec, answer, Later(gwNow, answer.prepared)),
           ReceiptTrusted(answer), Storable(prepared), CommitFrom(prepared), GwUnchanged
    PROVE  ExchangeInv'
<1> DEFINE at == Later(gwNow, answer.prepared)
<1>1. GwRecord(gwRec, gwNow) /\ Shape(gwRec) /\ \A a \in ToSet(gwRec.attempts) : a.request = call
  BY DEF ExchangeInv, GwInv, GwRecord
<1>2. IsReceipt(answer) /\ answer.request = call
  BY DEF ExchangeInv, GwInv, Answered, ReceiptTrusted, ReceiptVerified
<1>3. gwNow \in Nat /\ gwNow' = gwNow /\ answer.prepared \in Nat
  BY <1>2 DEF ExchangeInv, ClockInv, GwUnchanged, IsReceipt
<1>4. at \in Nat /\ (gwNow >= answer.prepared => at = gwNow)  BY <1>3 DEF Later
<1> DEFINE t == [state |-> "dispatch_armed", ev |-> answer, at |-> at]
<1>5. Follows(prepared, gwRec) /\ t \in ToSet(prepared.transitions) /\ Receives(prepared, gwRec, answer, at)
  <2>1. prepared # Refused  BY DEF Storable
  <2> HIDE DEF at
  <2>2. prepared = PreparedRecord(gwRec, answer, at)  BY DEF at
  <2> QED BY <1>1, <2>1, <2>2, PreparedShape
<1>6. t.state = "dispatch_armed" /\ DOMAIN t.ev = ReceiptFields /\ t.at = at  BY <1>2 DEF IsReceipt
<1> HIDE DEF at, t
<1>7. ASSUME NEW a \in ToSet(prepared.attempts)
      PROVE  /\ GwAttempt(a, gwNow) /\ a.kind = "prepare" /\ a.request = call /\ a.receipt = answer
             /\ \E b \in ToSet(gwRec.attempts) : b.kind = a.kind /\ b.retained = a.retained
  <2>1. PICK b \in ToSet(gwRec.attempts) :
          a = [b EXCEPT !.status = "response_retained", !.receipt = answer, !.updated = at]
    BY <1>1, <1>2, <1>5 DEF Receives
  <2>2. DOMAIN b = AttemptFields /\ GwAttempt(b, gwNow) /\ b.request = call
    BY <1>1 DEF GwRecord, GwAttempt
  <2>3. b.kind = "prepare"  BY <2>2 DEF GwAttempt
  <2>4. /\ DOMAIN a = AttemptFields /\ a.kind = b.kind /\ a.request = b.request /\ a.retained = b.retained
        /\ a.receipt = answer /\ a.outcome = b.outcome /\ a.status = "response_retained"
    <3>1. PICK y : y = [b EXCEPT !.status = "response_retained"]  OBVIOUS
    <3>2. PICK z : z = [y EXCEPT !.receipt = answer]  OBVIOUS
    <3>3. a = [z EXCEPT !.updated = at]  BY <2>1, <3>1, <3>2
    <3>4. DOMAIN y = AttemptFields /\ y.status = "response_retained"
          /\ y.kind = b.kind /\ y.request = b.request /\ y.retained = b.retained /\ y.outcome = b.outcome
      BY <2>2, <3>1 DEF AttemptFields
    <3>5. DOMAIN z = AttemptFields /\ z.status = "response_retained" /\ z.receipt = answer
          /\ z.kind = b.kind /\ z.request = b.request /\ z.retained = b.retained /\ z.outcome = b.outcome
      BY <3>2, <3>4 DEF AttemptFields
    <3> QED BY <3>3, <3>5 DEF AttemptFields
  <2>5. GwAttempt(a, gwNow)  BY <1>2, <2>2, <2>3, <2>4 DEF GwAttempt
  <2> QED BY <2>2, <2>3, <2>4, <2>5
<1>8. GwRecord(prepared, gwNow)  BY <1>1, <1>5, <1>7, GwDescends
<1> DEFINE commit == CommitRequest(LatestReceipt(prepared), gwNow)
           begun == CommitBegunRecord(prepared, commit, None, gwNow)
<1>9. CASE IdentitiesCurrent(TRUE) /\ CommitClosed(commit) /\ Storable(begun)
  <2>1. gwRec' = begun /\ Send(commit)  BY <1>9 DEF CommitFrom
  <2>2. begun # Refused /\ Shape(prepared)  BY <1>8, <1>9 DEF Storable, GwRecord
  <2>3. commit.kind = "commit" /\ commit.issued = gwNow  BY DEF CommitRequest
  <2> DEFINE c == [Attempt(commit, "request_retained", gwNow) EXCEPT !.acceptance = None]
  <2>4. gwNow >= commit.receipt.prepared  BY <1>9, <2>3 DEF CommitClosed
  <2> HIDE DEF commit
  <2>5. /\ Follows(begun, prepared) /\ commit.receipt \in ReceiptsIn(prepared.attempts)
        /\ ToSet(begun.attempts) = ToSet(prepared.attempts) \cup {c}
    BY <2>2, CommitBegunStep
  <2>6. commit.receipt = answer  BY <1>7, <2>5 DEF ReceiptsIn
  <2>7. at = gwNow  BY <1>4, <2>4, <2>6
  <2>8. ArmedBefore(prepared, t, gwNow)
    BY <1>3, <1>6, <1>7, <2>7 DEF ArmedBefore
  <2>9. /\ DOMAIN c = AttemptFields /\ c.kind = commit.kind /\ c.request = commit /\ c.retained = gwNow
        /\ c.receipt = None /\ c.outcome = None
    <3>1. PICK y : y = Attempt(commit, "request_retained", gwNow)  OBVIOUS
    <3>2. /\ DOMAIN y = AttemptFields /\ y.kind = commit.kind /\ y.request = commit /\ y.retained = gwNow
          /\ y.receipt = None /\ y.outcome = None
      BY <3>1, AttemptShape
    <3>3. c = [y EXCEPT !.acceptance = None]  BY <3>1
    <3> QED BY <3>2, <3>3 DEF AttemptFields
  <2> HIDE DEF c, begun
  <2>10. GwRecord(begun, gwNow)
    <3>1. \E u \in ToSet(prepared.transitions) : ArmedBefore(prepared, u, gwNow)  BY <1>5, <2>8
    <3> HIDE DEF t
    <3> QED BY <1>3, <1>8, <2>5, <2>9, <3>1, GwRetains
  <2>11. \A p \in network' : CommitTyped(p)
    <3>1. CommitTyped(commit)  BY <1>3, <2>6 DEF CommitTyped
    <3> QED BY <2>1, <3>1 DEF Send, ExchangeInv, OtInv
  <2>12. ClockInv' /\ OtInv'  BY <2>11, OtFrame
  <2>13. GwInv'  BY <1>3, <2>1, <2>3, <2>10 DEF GwInv, Send
  <2> QED BY <2>12, <2>13 DEF ExchangeInv
<1>10. CASE ~(IdentitiesCurrent(TRUE) /\ CommitClosed(commit) /\ Storable(begun))
  <2>1. gwRec' = prepared /\ call' = None /\ UNCHANGED network  BY <1>10 DEF CommitFrom
  <2> QED BY <1>3, <1>8, <2>1, GwIdle
<1> QED BY <1>9, <1>10

\* The receipt is trusted and the commit follows, or the effect is closed.
LEMMA GwPreparedStep == ASSUME ExchangeInv, GwPrepared PROVE ExchangeInv'
<1>1. PICK answer \in answers :
        /\ call # None /\ call.kind = "prepare" /\ answers' = {}
        /\ LET at == Later(gwNow, answer.prepared)
               prepared == PreparedRecord(gwRec, answer, at)
           IN  IF ReceiptTrusted(answer) /\ Storable(prepared)
               THEN CommitFrom(prepared)
               ELSE GwKeeps(ClosedRecord(gwRec, at)) /\ call' = None /\ UNCHANGED network
        /\ GwUnchanged
  BY DEF GwPrepared
<1> DEFINE at == Later(gwNow, answer.prepared)
           prepared == PreparedRecord(gwRec, answer, at)
<1>2. CASE ReceiptTrusted(answer) /\ Storable(prepared)
  <2>1. CommitFrom(prepared)  BY <1>1, <1>2
  <2>2. prepared = PreparedRecord(gwRec, answer, Later(gwNow, answer.prepared))  OBVIOUS
  <2> HIDE DEF prepared
  <2> QED BY <1>1, <1>2, <2>1, <2>2, GwCommits
<1>3. CASE ~(ReceiptTrusted(answer) /\ Storable(prepared))
  <2>1. GwKeeps(ClosedRecord(gwRec, at)) /\ call' = None /\ UNCHANGED network  BY <1>1, <1>3
  <2>2. gwNow' = gwNow /\ GwRecord(gwRec, gwNow)  BY <1>1 DEF GwUnchanged, ExchangeInv, GwInv
  <2> HIDE DEF at
  <2>3. gwRec' = None \/ GwRecord(gwRec', gwNow')  BY <2>1, <2>2, GwClosed
  <2> QED BY <1>1, <2>1, <2>3, GwIdle
<1> QED BY <1>2, <1>3

\* A failed call marks its attempt.
LEMMA GwFails ==
    ASSUME GwRecord(gwRec, gwNow), NEW failed, failed # Refused,
           failed = CommitUnknownRecord(gwRec, call, gwNow) \/ failed = QueryFailedRecord(gwRec, call, gwNow)
    PROVE  GwRecord(failed, gwNow)
<1>1. Shape(gwRec)  BY DEF GwRecord
<1>2. CASE failed = CommitUnknownRecord(gwRec, call, gwNow)
  <2>1. MarksOnly(failed, gwRec, gwNow)  BY <1>1, <1>2, CommitUnknownStep
  <2> QED BY <2>1, GwMarks
<1>3. CASE failed = QueryFailedRecord(gwRec, call, gwNow)
  <2>1. MarksOnly(failed, gwRec, gwNow)  BY <1>1, <1>3, QueryFailedStep
  <2> QED BY <2>1, GwMarks
<1> QED BY <1>2, <1>3

\* What the gateway verifies of an answer is what it keeps.
LEMMA TrustedIsKept ==
    ASSUME NEW o, Answered(call, o), call.kind \in {"commit", "query"}, OutcomeTrusted(o)
    PROVE  OutcomeKept(o, o.request, gwNow)
<1>1. IsOutcome(o) /\ OutcomeClosed(o) /\ (call.kind = "query" => InWindow(GatewayCred, o.signed))
  BY DEF Answered
<1>2. OutcomeVerified(o, call, gwNow) /\ o.request = call  BY DEF OutcomeTrusted, OutcomeVerified
<1>3. o.acceptance # None => AcceptanceKept(o.acceptance, gwNow)
  <2> SUFFICES ASSUME o.acceptance # None  PROVE AcceptanceKept(o.acceptance, gwNow)  OBVIOUS
  <2>1. PICK x : x = o.acceptance  OBVIOUS
  <2>2. IsAcceptance(x) /\ AcceptanceVerified(x, gwNow)  BY <1>1, <1>2, <2>1 DEF IsOutcome, OutcomeVerified
  <2>3. AcceptanceKept(x, gwNow)
    BY <2>2 DEF AcceptanceVerified, AcceptanceKept, ReceiptVerified, HistoricalKey
  <2> QED BY <2>1, <2>3
<1>4. AcknowledgmentFits(o)
  <2>1. CASE o.disposition = "not_dispatched"  BY <1>1, <2>1 DEF OutcomeClosed, AcknowledgmentFits
  <2>2. CASE o.disposition # "not_dispatched"  BY <1>1, <2>2 DEF OutcomeClosed
  <2> QED BY <2>1, <2>2
<1>5. o.acceptance = None => o.disposition = "not_dispatched"  BY <1>1 DEF OutcomeClosed
<1>6. InWindow(o.cred, o.signed)  BY <1>1 DEF OutcomeClosed
<1> QED BY <1>1, <1>2, <1>3, <1>4, <1>5, <1>6 DEF OutcomeKept, OutcomeVerified

\* An outcome is retained only when it was verified.
LEMMA GwAnsweredStep == ASSUME ExchangeInv, GwAnswered PROVE ExchangeInv'
<1>1. PICK answer \in answers :
        /\ call # None /\ call.kind \in {"commit", "query"} /\ answers' = {}
        /\ LET at == Later(gwNow, answer.signed)
               retained == IF call.kind = "commit" THEN CommitFinishedRecord(gwRec, answer, at)
                                                   ELSE QueryCompletedRecord(gwRec, answer, at)
               failed == IF call.kind = "commit" THEN CommitUnknownRecord(gwRec, call, gwNow)
                                                 ELSE QueryFailedRecord(gwRec, call, gwNow)
           IN  GwStores(IF OutcomeTrusted(answer) /\ (Storable(retained) \/ IllFormed(retained))
                        THEN retained ELSE failed)
        /\ call' = None /\ UNCHANGED network /\ GwUnchanged
  BY DEF GwAnswered
<1> DEFINE at == Later(gwNow, answer.signed)
           retained == IF call.kind = "commit" THEN CommitFinishedRecord(gwRec, answer, at)
                                               ELSE QueryCompletedRecord(gwRec, answer, at)
           failed == IF call.kind = "commit" THEN CommitUnknownRecord(gwRec, call, gwNow)
                                             ELSE QueryFailedRecord(gwRec, call, gwNow)
           r == IF OutcomeTrusted(answer) /\ (Storable(retained) \/ IllFormed(retained)) THEN retained ELSE failed
<1>2. /\ GwRecord(gwRec, gwNow) /\ Shape(gwRec) /\ gwNow' = gwNow /\ gwNow \in Nat /\ Answered(call, answer)
      /\ FutureSkew \in Nat
  BY <1>1, EvidenceAssumption DEF ExchangeInv, ClockInv, GwInv, GwRecord, GwUnchanged
<1>3. ASSUME OutcomeTrusted(answer), retained # Refused  PROVE GwRecord(retained, gwNow)
  <2>1. OutcomeKept(answer, answer.request, gwNow)  BY <1>1, <1>2, <1>3, TrustedIsKept
  <2>2. answer.signed \in Nat /\ answer.signed <= gwNow + FutureSkew  BY <2>1 DEF OutcomeKept, IsOutcome
  <2>3. at \in Nat /\ answer.signed <= at /\ at <= gwNow + FutureSkew  BY <1>2, <2>2 DEF Later
  <2> HIDE DEF at
  <2>4. AnswersOver(retained, BoundRecord(gwRec, answer, at), gwRec, answer, at)
    <3>1. CASE call.kind = "commit"
      <4>1. retained = CommitFinishedRecord(gwRec, answer, at)  BY <3>1
      <4> QED BY <1>2, <1>3, <4>1, CommitFinishedStep
    <3>2. CASE call.kind # "commit"
      <4>1. retained = QueryCompletedRecord(gwRec, answer, at)  BY <3>2
      <4> QED BY <1>2, <1>3, <4>1, QueryCompletedStep
    <3> QED BY <3>1, <3>2
  <2> HIDE DEF retained
  <2> QED BY <1>2, <2>1, <2>3, <2>4, GwAnswers
<1>4. failed # Refused => GwRecord(failed, gwNow)
  <2>1. failed = CommitUnknownRecord(gwRec, call, gwNow) \/ failed = QueryFailedRecord(gwRec, call, gwNow)
    OBVIOUS
  <2> HIDE DEF failed
  <2> QED BY <1>2, <2>1, GwFails
<1>5. GwStores(r)  BY <1>1
<1>6. r # Refused => GwRecord(r, gwNow)
  <2> HIDE DEF retained, failed
  <2> QED BY <1>3, <1>4
<1> HIDE DEF r
<1>7. gwRec' = None \/ GwRecord(gwRec', gwNow')  BY <1>2, <1>5, <1>6, GwStored DEF GwStores
<1> QED BY <1>1, <1>7, GwIdle

\* A call without an answer marks its attempt.
LEMMA GwCallFailsStep == ASSUME ExchangeInv, GwCallFails PROVE ExchangeInv'
<1> DEFINE failed == IF call.kind = "commit" THEN CommitUnknownRecord(gwRec, call, gwNow)
                                             ELSE QueryFailedRecord(gwRec, call, gwNow)
<1>1. call # None /\ GwStores(failed) /\ call' = None /\ UNCHANGED network /\ GwUnchanged  BY DEF GwCallFails
<1>2. GwRecord(gwRec, gwNow) /\ gwNow' = gwNow  BY <1>1 DEF ExchangeInv, GwInv, GwUnchanged
<1>3. failed = CommitUnknownRecord(gwRec, call, gwNow) \/ failed = QueryFailedRecord(gwRec, call, gwNow)
  OBVIOUS
<1> HIDE DEF failed
<1>4. failed # Refused => GwRecord(failed, gwNow)  BY <1>2, <1>3, GwFails
<1>5. gwRec' = None \/ GwRecord(gwRec', gwNow')  BY <1>1, <1>2, <1>4, GwStored DEF GwStores
<1> QED BY <1>1, <1>5, GwIdle

\* A query is retained after the commit it asks about.
LEMMA GwQueryStep == ASSUME ExchangeInv, GwQuery PROVE ExchangeInv'
<1> DEFINE commit == (CHOOSE a \in AttemptsOf(gwRec, "commit") : TRUE)
           marked == IF commit.status = "request_retained"
                     THEN CommitUnknownRecord(gwRec, commit.request, gwNow) ELSE gwRec
           query == QueryRequest(Len(gwRec.attempts), gwNow)
           begun == QueryBegunRecord(marked, query, "gateway", gwNow)
<1>1. /\ call = None /\ gwRec # None
      /\ IF ~Storable(marked) THEN UNCHANGED <<gwRec, call, network>>
         ELSE IF IdentitiesCurrent(FALSE) /\ Storable(begun)
         THEN gwRec' = begun /\ Send(query)
         ELSE gwRec' = marked /\ UNCHANGED <<call, network>>
      /\ answers' = {} /\ GwUnchanged
  BY DEF GwQuery
<1>2. GwRecord(gwRec, gwNow) /\ Shape(gwRec) /\ gwNow' = gwNow /\ gwNow \in Nat
  BY <1>1 DEF ExchangeInv, ClockInv, GwInv, GwRecord, GwUnchanged
<1>3. query.kind = "query"  BY DEF QueryRequest
<1> HIDE DEF commit, query
<1>8. CASE ~Storable(marked)
  <2>1. UNCHANGED <<gwRec, call, network>>  BY <1>1, <1>8
  <2> QED BY <1>1, <1>2, <2>1, GwIdle
<1> SUFFICES ASSUME Storable(marked)  PROVE ExchangeInv'
  BY <1>8
<1>4. marked # Refused  BY DEF Storable
<1>5. GwRecord(marked, gwNow)
  <2>1. CASE marked = gwRec  BY <1>2, <2>1
  <2>2. CASE marked = CommitUnknownRecord(gwRec, commit.request, gwNow)
    <3> HIDE DEF marked
    <3>1. MarksOnly(marked, gwRec, gwNow)  BY <1>2, <1>4, <2>2, CommitUnknownStep
    <3> QED BY <1>2, <3>1, GwMarks
  <2> QED BY <2>1, <2>2
<1> HIDE DEF marked
<1>6. CASE IdentitiesCurrent(FALSE) /\ Storable(begun)
  <2>1. gwRec' = begun /\ Send(query) /\ begun # Refused  BY <1>1, <1>6 DEF Storable
  <2>2. Shape(marked)  BY <1>5 DEF GwRecord
  <2> DEFINE a == Attempt(query, "request_retained", gwNow)
  <2>3. Follows(begun, marked) /\ ToSet(begun.attempts) = ToSet(marked.attempts) \cup {a}
    BY <2>1, <2>2, QueryBegunStep
  <2>4. /\ DOMAIN a = AttemptFields /\ a.kind = query.kind /\ a.request = query /\ a.retained = gwNow
        /\ a.receipt = None /\ a.outcome = None
    BY AttemptShape
  <2> HIDE DEF a, begun
  <2>5. GwRecord(begun, gwNow)  BY <1>2, <1>3, <1>5, <2>3, <2>4, GwRetains
  <2>6. \A p \in network' : CommitTyped(p)
    <3>1. CommitTyped(query)  BY <1>3 DEF CommitTyped
    <3> QED BY <2>1, <3>1 DEF Send, ExchangeInv, OtInv
  <2>7. ClockInv' /\ OtInv'  BY <1>1, <2>6, OtFrame
  <2>8. GwInv'  BY <1>1, <1>2, <1>3, <2>1, <2>5 DEF GwInv, Send
  <2> QED BY <2>7, <2>8 DEF ExchangeInv
<1>7. CASE ~(IdentitiesCurrent(FALSE) /\ Storable(begun))
  <2> HIDE DEF begun
  <2>1. gwRec' = marked /\ call' = None /\ UNCHANGED network  BY <1>1, <1>7
  <2>2. gwRec' = None \/ GwRecord(gwRec', gwNow')  BY <1>2, <1>5, <2>1
  <2> QED BY <1>1, <2>1, <2>2, GwIdle
<1> QED BY <1>6, <1>7

\* A request is authenticated at one reading of the clock.
LEMMA OtAdmitStep == ASSUME ExchangeInv, OtAdmit PROVE ExchangeInv'
<1>1. PICK q \in network :
        /\ network' = network \ {q}
        /\ admitted' = IF Authenticated(q, otNow)
                       THEN admitted \cup {[request |-> q, at |-> otNow]} ELSE admitted
        /\ UNCHANGED <<otRec, marker, working, answers, illFormed>> /\ OtUnchanged
  BY DEF OtAdmit
<1>2. ClockInv' /\ GwInv'  BY <1>1, GwFrame DEF ExchangeInv, GwInv
<1>3. CommitTyped(q) /\ otNow \in Nat  BY DEF ExchangeInv, OtInv, ClockInv
<1>4. ASSUME Authenticated(q, otNow), q.kind = "query"  PROVE InWindow(GatewayCred, otNow)
  BY <1>4 DEF Authenticated, EnvelopeAdmitted, CurrentKey
<1>5. PICK e : e = [request |-> q, at |-> otNow]  OBVIOUS
<1>6. e.request = q /\ e.at = otNow  BY <1>5
<1>7. \A h \in admitted' : /\ h.at \in Nat /\ CommitTyped(h.request)
                           /\ h.request.kind = "query" => InWindow(GatewayCred, h.at)
  BY <1>1, <1>3, <1>4, <1>5, <1>6 DEF ExchangeInv, OtInv
<1>8. OtInv'  BY <1>1, <1>7 DEF ExchangeInv, OtInv
<1> QED BY <1>2, <1>8 DEF ExchangeInv

\* A step of the coordinator that takes an admitted request or concludes one.
LEMMA OtFinal ==
    ASSUME ExchangeInv, OtUnchanged, network' = network, admitted' \subseteq admitted,
           call # None => \A b \in answers' : Answered(call, b),
           otRec' = None \/ OtRecord(otRec'),
           working' # None =>
             DOMAIN working' = {"acceptance", "ack"} /\ IsAcceptance(working'.acceptance) /\ OtRecord(otRec')
    PROVE  ExchangeInv'
<1>1. ClockInv' /\ GwInv'  BY GwFrame
<1>2. OtInv'  BY DEF ExchangeInv, OtInv
<1> QED BY <1>1, <1>2 DEF ExchangeInv

\* prepare_effect of an effect without a record.
LEMMA PrepareAnsweredStep ==
    ASSUME NEW receipt, NEW at, PrepareAnswered(receipt, at) # Refused
    PROVE  OtRecord(PrepareAnswered(receipt, at))
<1> DEFINE begun == BegunRecord(receipt.request, at)
           a == Attempt(receipt.request, "request_retained", at)
           r == PreparedRecord(begun, receipt, at)
<1>1. r # Refused /\ r = PrepareAnswered(receipt, at)  BY DEF PrepareAnswered
<1>2. Shape(begun) /\ ToSet(begun.attempts) = {a}  BY BegunShape
<1>3. DOMAIN a = AttemptFields /\ a.acceptance = None  BY AttemptShape
<1> HIDE DEF begun, a
<1>4. Follows(r, begun) /\ Receives(r, begun, receipt, at)  BY <1>1, <1>2, PreparedShape
<1> HIDE DEF r
<1>5. ASSUME NEW d \in ToSet(r.attempts)  PROVE DOMAIN d = AttemptFields /\ d.acceptance = None
  <2>1. CASE d = a  BY <1>3, <2>1
  <2>2. CASE d = [a EXCEPT !.status = "response_retained", !.receipt = receipt, !.updated = at]
    <3>1. PICK y : y = [a EXCEPT !.status = "response_retained"]  OBVIOUS
    <3>2. PICK z : z = [y EXCEPT !.receipt = receipt]  OBVIOUS
    <3>3. d = [z EXCEPT !.updated = at]  BY <2>2, <3>1, <3>2
    <3>4. DOMAIN y = AttemptFields /\ y.acceptance = None  BY <1>3, <3>1 DEF AttemptFields
    <3>5. DOMAIN z = AttemptFields /\ z.acceptance = None  BY <3>4, <3>2 DEF AttemptFields
    <3> QED BY <3>3, <3>5 DEF AttemptFields
  <2> QED BY <1>2, <1>4, <2>1, <2>2 DEF Receives
<1>6. OtRecord(r)  BY <1>4, <1>5 DEF OtRecord, Follows
<1> QED BY <1>1, <1>6

\* The receipt answers the prepare request.
LEMMA OtPrepareStep == ASSUME ExchangeInv, OtPrepare PROVE ExchangeInv'
<1>1. PICK h \in admitted :
        LET receipt == Receipt(h.request, ot.cred, h.at)
            rec == PrepareAnswered(receipt, h.at)
        IN  /\ Locked(h, "prepare") /\ otRec = None
            /\ IF /\ ReceiptClosed(receipt) /\ Storable(rec)
                  /\ ReceiptVerified(receipt, h.request, h.at)
               THEN Answer(h.request, receipt) /\ marker' = TRUE
               ELSE Refuse /\ UNCHANGED marker
            /\ IF ReceiptClosed(receipt) THEN OtStores(rec) ELSE UNCHANGED <<otRec, illFormed>>
            /\ UNCHANGED <<network, working>> /\ OtUnchanged
  BY DEF OtPrepare
<1> DEFINE receipt == Receipt(h.request, ot.cred, h.at)
           rec == PrepareAnswered(receipt, h.at)
<1>2. /\ h.request.kind = "prepare" /\ admitted' \subseteq admitted /\ working = None /\ working' = None
      /\ otRec = None /\ network' = network /\ OtUnchanged
  BY <1>1 DEF Locked
<1>3. /\ answers' = answers \/ answers' = (IF call = h.request THEN {receipt} ELSE answers)
      /\ OtStores(rec) \/ otRec' = otRec
  BY <1>1 DEF Answer, Refuse
<1>4. IsReceipt(receipt)
  <2>1. h.at \in Nat  BY DEF ExchangeInv, OtInv
  <2> QED BY <2>1 DEF Receipt, IsReceipt, ReceiptFields
<1> HIDE DEF receipt
<1>5. call # None => \A b \in answers' : Answered(call, b)
  <2>1. call = h.request => Answered(call, receipt)  BY <1>2, <1>4 DEF Answered
  <2>2. call # None => \A b \in answers : Answered(call, b)  BY DEF ExchangeInv, GwInv
  <2> QED BY <1>3, <2>1, <2>2
<1>6. rec # Refused => OtRecord(rec)  BY PrepareAnsweredStep
<1> HIDE DEF rec
<1>7. otRec' = None \/ OtRecord(otRec')  BY <1>2, <1>3, <1>6, OtStored
<1> QED BY <1>2, <1>5, <1>7, OtFinal

\* The acceptance names the commit that was admitted.
LEMMA OtAcceptStep == ASSUME ExchangeInv, OtAccept PROVE ExchangeInv'
<1>1. PICK h \in admitted :
        LET acceptance == Acceptance(h.request, ot.cred, h.at)
            rec == CommitBegunRecord(otRec, h.request, acceptance, h.at)
            issued == marker /\ AcceptanceClosed(acceptance)
        IN  /\ Locked(h, "commit") /\ otRec # None
            /\ marker' = FALSE
            /\ IF issued THEN OtStores(rec) ELSE UNCHANGED <<otRec, illFormed>>
            /\ working' = IF issued /\ Storable(rec) /\ AcceptanceVerified(acceptance, h.at)
                          THEN [acceptance |-> acceptance, ack |-> None] ELSE None
            /\ Refuse /\ UNCHANGED network /\ OtUnchanged
  BY DEF OtAccept
<1> DEFINE acceptance == Acceptance(h.request, ot.cred, h.at)
           rec == CommitBegunRecord(otRec, h.request, acceptance, h.at)
           issued == marker /\ AcceptanceClosed(acceptance)
<1>2. /\ h.request.kind = "commit" /\ admitted' \subseteq admitted /\ otRec # None
      /\ answers' = answers /\ network' = network /\ OtUnchanged
  BY <1>1 DEF Locked, Refuse
<1>3. /\ IF issued THEN OtStores(rec) ELSE otRec' = otRec
      /\ working' = IF issued /\ Storable(rec) /\ AcceptanceVerified(acceptance, h.at)
                    THEN [acceptance |-> acceptance, ack |-> None] ELSE None
  BY <1>1
<1>4. IsAcceptance(acceptance)
  <2>1. h.at \in Nat /\ h.request.receipt.prepared \in Nat  BY <1>2 DEF ExchangeInv, OtInv, CommitTyped
  <2> QED BY <1>2, <2>1 DEF Acceptance, IsAcceptance, AcceptanceFields
<1> HIDE DEF acceptance, issued
<1>5. OtRecord(otRec) /\ Shape(otRec)  BY <1>2 DEF ExchangeInv, OtInv, OtRecord
<1>6. ASSUME rec # Refused  PROVE OtRecord(rec)
  <2> DEFINE a == [Attempt(h.request, "request_retained", h.at) EXCEPT !.acceptance = acceptance]
  <2>1. Follows(rec, otRec) /\ ToSet(rec.attempts) = ToSet(otRec.attempts) \cup {a}
    BY <1>5, <1>6, CommitBegunStep
  <2>2. DOMAIN a = AttemptFields /\ a.acceptance = acceptance
    <3>1. PICK y : y = Attempt(h.request, "request_retained", h.at)  OBVIOUS
    <3>2. DOMAIN y = AttemptFields  BY <3>1, AttemptShape
    <3>3. a = [y EXCEPT !.acceptance = acceptance]  BY <3>1
    <3> QED BY <3>2, <3>3 DEF AttemptFields
  <2> HIDE DEF a, rec
  <2> QED BY <1>4, <1>5, <2>1, <2>2, OtRetains
<1> HIDE DEF rec
<1>7. otRec' = None \/ OtRecord(otRec')  BY <1>3, <1>5, <1>6, OtStored
<1>8. working' # None =>
        DOMAIN working' = {"acceptance", "ack"} /\ IsAcceptance(working'.acceptance) /\ OtRecord(otRec')
  <2> SUFFICES ASSUME working' # None
               PROVE  DOMAIN working' = {"acceptance", "ack"} /\ IsAcceptance(working'.acceptance) /\ OtRecord(otRec')
    OBVIOUS
  <2>1. working' = [acceptance |-> acceptance, ack |-> None] /\ issued /\ Storable(rec)  BY <1>3
  <2>2. otRec' = rec /\ rec # Refused  BY <1>3, <2>1 DEF OtStores, Storable
  <2> QED BY <1>4, <1>6, <2>1, <2>2
<1>9. call # None => \A b \in answers' : Answered(call, b)  BY <1>2 DEF ExchangeInv, GwInv
<1> QED BY <1>2, <1>7, <1>8, <1>9, OtFinal

\* The device answers, the acceptance stays.
LEMMA OtDeviceStep == ASSUME ExchangeInv, OtDevice PROVE ExchangeInv'
<1>1. PICK status : working' = [working EXCEPT !.ack = Acknowledgment(status, otNow)]  BY DEF OtDevice
<1>2. /\ working # None /\ otRec' = otRec /\ network' = network /\ admitted' = admitted /\ answers' = answers
      /\ OtUnchanged
  BY DEF OtDevice
<1>3. DOMAIN working = {"acceptance", "ack"} /\ IsAcceptance(working.acceptance) /\ OtRecord(otRec)
  BY <1>2 DEF ExchangeInv, OtInv
<1>4. DOMAIN working' = {"acceptance", "ack"} /\ working'.acceptance = working.acceptance  BY <1>1, <1>3
<1>5. call # None => \A b \in answers' : Answered(call, b)  BY <1>2 DEF ExchangeInv, GwInv
<1> QED BY <1>2, <1>3, <1>4, <1>5, OtFinal

\* The signed outcome is closed, and carries the acceptance.
LEMMA OtConcludeStep == ASSUME ExchangeInv, OtConclude PROVE ExchangeInv'
<1> DEFINE acceptance == working.acceptance
           commit == acceptance.commit
           told == Outcome(commit, working.ack.status, acceptance, working.ack, ot.cred, otNow)
           unknown == Outcome(commit, "unknown_effect", acceptance, None, ot.cred, otNow)
           Signed(outcome) ==
             LET rec == CommitFinishedRecord(otRec, outcome, otNow)
             IN  /\ OtStores(rec)
                 /\ IF Storable(rec) THEN Answer(commit, outcome) ELSE Refuse
           marked == CommitUnknownRecord(otRec, commit, otNow)
<1>1. /\ working # None /\ working' = None /\ network' = network /\ admitted' = admitted /\ OtUnchanged
      /\ \/ OutcomeIssuable(told) /\ Signed(told)
         \/ OutcomeIssuable(unknown) /\ Signed(unknown)
         \/ OtStores(marked) /\ Refuse
  BY DEF OtConclude
<1>2. IsAcceptance(acceptance) /\ OtRecord(otRec) /\ Shape(otRec) /\ otNow \in Nat
  BY <1>1 DEF ExchangeInv, OtInv, ClockInv, OtRecord
<1>3. commit.kind = "commit"  BY <1>2 DEF IsAcceptance
<1>4. IsOutcome(told) /\ IsOutcome(unknown)
  <2> HIDE DEF acceptance, commit
  <2> QED BY <1>2 DEF Outcome, IsOutcome, OutcomeFields
<1> HIDE DEF told, unknown, acceptance, commit
<1>5. call # None => \A b \in answers : Answered(call, b)  BY DEF ExchangeInv, GwInv
<1>6. ASSUME NEW o, IsOutcome(o), OutcomeIssuable(o), Signed(o)
      PROVE  /\ call # None => \A b \in answers' : Answered(call, b)
             /\ otRec' = None \/ OtRecord(otRec')
  <2> DEFINE rec == CommitFinishedRecord(otRec, o, otNow)
  <2>1. OtStores(rec) /\ (answers' = answers \/ answers' = IF call = commit THEN {o} ELSE answers)
    BY <1>6 DEF Answer, Refuse
  <2>2. call = commit => Answered(call, o)  BY <1>3, <1>6 DEF Answered, OutcomeIssuable
  <2>3. ASSUME rec # Refused  PROVE OtRecord(rec)
    <3>1. AnswersOver(rec, BoundRecord(otRec, o, otNow), otRec, o, otNow)  BY <1>2, <2>3, CommitFinishedStep
    <3> HIDE DEF rec
    <3> QED BY <1>2, <1>6, <3>1, OtAnswers
  <2> HIDE DEF rec
  <2>4. otRec' = None \/ OtRecord(otRec')  BY <1>2, <2>1, <2>3, OtStored
  <2> QED BY <1>5, <2>1, <2>2, <2>4
<1>7. ASSUME OtStores(marked), Refuse
      PROVE  /\ call # None => \A b \in answers' : Answered(call, b)
             /\ otRec' = None \/ OtRecord(otRec')
  <2>1. ASSUME marked # Refused  PROVE OtRecord(marked)
    <3>1. MarksOnly(marked, otRec, otNow)  BY <1>2, <2>1, CommitUnknownStep
    <3> HIDE DEF marked
    <3> QED BY <1>2, <3>1, OtMarks
  <2> HIDE DEF marked
  <2>2. otRec' = None \/ OtRecord(otRec')  BY <1>2, <1>7, <2>1, OtStored
  <2> QED BY <1>5, <1>7, <2>2 DEF Refuse
<1> HIDE DEF Signed, marked
<1>8. /\ call # None => \A b \in answers' : Answered(call, b)
      /\ otRec' = None \/ OtRecord(otRec')
  BY <1>1, <1>4, <1>6, <1>7
<1> QED BY <1>1, <1>8, OtFinal

\* The answer to a query is signed at the time the query was admitted.
LEMMA OtQueryStep == ASSUME ExchangeInv, OtQuery PROVE ExchangeInv'
<1>1. PICK h \in admitted :
        LET outcome == QueryOutcome(h)
            begun == QueryBegunRecord(otRec, h.request, "effect_coordinator", h.at)
            rec == QueryAnswered(otRec, outcome, h.at)
            issued == otRec # None /\ StoredEvidenceHolds(h.at) /\ OutcomeIssuable(outcome)
        IN  /\ Locked(h, "query")
            /\ IF ~issued THEN UNCHANGED <<otRec, illFormed>>
               ELSE IF Storable(rec) \/ IllFormed(rec) THEN OtStores(rec)
               ELSE OtStores(begun)
            /\ IF issued /\ Storable(rec) /\ OutcomeVerified(outcome, h.request, h.at)
               THEN Answer(h.request, outcome) ELSE Refuse
            /\ marker' = (marker /\ (issued /\ Storable(rec) => ~TerminalState(StateOf(rec))))
            /\ UNCHANGED <<network, working>> /\ OtUnchanged
  BY DEF OtQuery
<1> DEFINE outcome == QueryOutcome(h)
           begun == QueryBegunRecord(otRec, h.request, "effect_coordinator", h.at)
           rec == QueryAnswered(otRec, outcome, h.at)
           issued == otRec # None /\ StoredEvidenceHolds(h.at) /\ OutcomeIssuable(outcome)
<1>2. /\ h.request.kind = "query" /\ admitted' \subseteq admitted /\ working = None /\ working' = None
      /\ network' = network /\ OtUnchanged
  BY <1>1 DEF Locked
<1>3. /\ (~issued /\ otRec' = otRec) \/ (issued /\ (OtStores(rec) \/ OtStores(begun)))
      /\ answers' = answers \/ (issued /\ answers' = IF call = h.request THEN {outcome} ELSE answers)
  BY <1>1 DEF Answer, Refuse
<1>4. h.at \in Nat /\ InWindow(GatewayCred, h.at)  BY <1>2 DEF ExchangeInv, OtInv
<1>5. otRec # None => OtRecord(otRec) /\ Shape(otRec)  BY DEF ExchangeInv, OtInv, OtRecord
<1>6. ASSUME otRec # None
      PROVE  IsOutcome(outcome) /\ outcome.signed = h.at /\ outcome.request = h.request
  <2> DEFINE acceptance == LatestAcceptance(otRec)
  <2>1. acceptance # None => IsAcceptance(acceptance)
    <3>1. acceptance # None => acceptance \in AcceptancesIn(otRec.attempts)  BY DEF LatestAcceptance
    <3> QED BY <1>5, <1>6, <3>1 DEF AcceptancesIn, OtRecord
  <2>2. \E d, x, ack : (x = None \/ x = acceptance) /\ outcome = Outcome(h.request, d, x, ack, ot.cred, h.at)
    BY DEF QueryOutcome
  <2> HIDE DEF outcome, acceptance
  <2>3. PICK d, x, ack : (x = None \/ x = acceptance) /\ outcome = Outcome(h.request, d, x, ack, ot.cred, h.at)
    BY <2>2
  <2>4. /\ DOMAIN outcome = OutcomeFields /\ outcome.signed = h.at /\ outcome.request = h.request
        /\ outcome.acceptance = x
    BY <2>3 DEF Outcome, OutcomeFields
  <2> QED BY <1>4, <2>1, <2>3, <2>4 DEF IsOutcome
<1>7. issued => otRec # None /\ OutcomeIssuable(outcome)  OBVIOUS
<1> HIDE DEF outcome, issued
<1>8. call # None => \A b \in answers' : Answered(call, b)
  <2>1. issued /\ call = h.request => Answered(call, outcome)
    BY <1>2, <1>4, <1>6, <1>7 DEF Answered, OutcomeIssuable
  <2>2. call # None => \A b \in answers : Answered(call, b)  BY DEF ExchangeInv, GwInv
  <2> QED BY <1>3, <2>1, <2>2
<1> DEFINE Query(q) == QueryBegunRecord(otRec, q, "effect_coordinator", h.at)
<1>9. ASSUME NEW q, otRec # None, Query(q) # Refused  PROVE OtRecord(Query(q))
  <2> DEFINE a == Attempt(q, "request_retained", h.at)
             r == Query(q)
  <2>1. Follows(r, otRec) /\ ToSet(r.attempts) = ToSet(otRec.attempts) \cup {a}
    BY <1>5, <1>9, QueryBegunStep
  <2>2. DOMAIN a = AttemptFields /\ a.acceptance = None  BY AttemptShape
  <2> HIDE DEF a, r
  <2>3. OtRecord(r)  BY <1>5, <1>9, <2>1, <2>2, OtRetains
  <2> QED BY <2>3 DEF r
<1>10. issued /\ begun # Refused => OtRecord(begun)  BY <1>7, <1>9
<1>11. ASSUME issued, rec # Refused  PROVE OtRecord(rec)
  <2> DEFINE asked == Query(outcome.request)
  <2>1. asked # Refused /\ rec = QueryCompletedRecord(asked, outcome, h.at)  BY <1>11 DEF QueryAnswered
  <2>2. OtRecord(asked) /\ Shape(asked)  BY <1>7, <1>9, <1>11, <2>1 DEF OtRecord
  <2> HIDE DEF asked, rec
  <2>3. AnswersOver(rec, BoundRecord(asked, outcome, h.at), asked, outcome, h.at)
    BY <1>11, <2>1, <2>2, QueryCompletedStep
  <2> QED BY <1>6, <1>7, <1>11, <2>2, <2>3, OtAnswers
<1> HIDE DEF rec, begun
<1>12. otRec' = None \/ OtRecord(otRec')  BY <1>3, <1>5, <1>10, <1>11, OtStored
<1> QED BY <1>2, <1>8, <1>12, OtFinal

\* Later readings of the clock keep what was kept.
LEMMA TickStep == ASSUME ExchangeInv, Tick PROVE ExchangeInv'
<1>1. /\ gwNow \in Nat /\ otNow \in Nat /\ gwNow' \in Nat /\ otNow' \in Nat /\ gwNow <= gwNow'
      /\ FutureSkew \in Nat
  BY EvidenceAssumption DEF ExchangeInv, ClockInv, Tick
<1>2. ASSUME NEW rec, GwRecord(rec, gwNow)  PROVE GwRecord(rec, gwNow')
  <2>1. ASSUME NEW a \in ToSet(rec.attempts)  PROVE GwAttempt(a, gwNow')
    <3>1. GwAttempt(a, gwNow)  BY <1>2 DEF GwRecord
    <3>2. ASSUME a.outcome # None  PROVE OutcomeKept(a.outcome, a.request, gwNow')
      BY <1>1, <3>1, <3>2, KeptLater DEF GwAttempt
    <3>3. ASSUME a.outcome # None, a.kind = "query"  PROVE a.updated <= gwNow' + FutureSkew
      BY <1>1, <3>1, <3>3 DEF GwAttempt
    <3> QED BY <3>1, <3>2, <3>3 DEF GwAttempt
  <2>2. ASSUME NEW t, ArmedBefore(rec, t, gwNow)  PROVE ArmedBefore(rec, t, gwNow')
    BY <1>1, <2>2 DEF ArmedBefore
  <2> QED BY <1>2, <2>1, <2>2 DEF GwRecord, Armed
<1>3. /\ gwRec' = gwRec /\ otRec' = otRec /\ call' = call /\ answers' = answers /\ network' = network
      /\ admitted' = admitted /\ working' = working
  BY DEF Tick, EnvUnchanged
<1>4. GwInv'  BY <1>2, <1>3 DEF ExchangeInv, GwInv
<1>5. OtInv'  BY <1>3 DEF ExchangeInv, OtInv
<1> QED BY <1>1, <1>4, <1>5 DEF ExchangeInv, ClockInv

\* Restarts and revocations change no record.
LEMMA DisturbanceStep == ASSUME ExchangeInv, GwRestart \/ OtRestart \/ Revoke PROVE ExchangeInv'
<1>1. CASE GwRestart
  BY <1>1 DEF GwRestart, EnvUnchanged, ExchangeInv, ClockInv, GwInv, OtInv
<1>2. CASE OtRestart
  BY <1>2 DEF OtRestart, EnvUnchanged, ExchangeInv, ClockInv, GwInv, OtInv
<1>3. CASE Revoke
  BY <1>3 DEF Revoke, EnvUnchanged, ExchangeInv, ClockInv, GwInv, OtInv
<1> QED BY <1>1, <1>2, <1>3

\* ExchangeInv is inductive.
LEMMA ExchangeSteps == ASSUME ExchangeInv, [ExchangeNext]_exchangeVars PROVE ExchangeInv'
<1>1. CASE UNCHANGED exchangeVars
  BY <1>1 DEF exchangeVars, ExchangeInv, ClockInv, GwInv, OtInv
<1>2. CASE GwPrepare  BY <1>2, GwPrepareStep
<1>3. CASE GwPrepared  BY <1>3, GwPreparedStep
<1>4. CASE GwPrepareFails  BY <1>4, GwPrepareFailsStep
<1>5. CASE GwAnswered  BY <1>5, GwAnsweredStep
<1>6. CASE GwCallFails  BY <1>6, GwCallFailsStep
<1>7. CASE GwClose  BY <1>7, GwCloseStep
<1>8. CASE GwQuery  BY <1>8, GwQueryStep
<1>9. CASE OtAdmit  BY <1>9, OtAdmitStep
<1>10. CASE OtPrepare  BY <1>10, OtPrepareStep
<1>11. CASE OtAccept  BY <1>11, OtAcceptStep
<1>12. CASE OtDevice  BY <1>12, OtDeviceStep
<1>13. CASE OtConclude  BY <1>13, OtConcludeStep
<1>14. CASE OtQuery  BY <1>14, OtQueryStep
<1>15. CASE Tick  BY <1>15, TickStep
<1>16. CASE GwRestart \/ OtRestart \/ Revoke  BY <1>16, DisturbanceStep
<1> QED
  BY <1>1, <1>2, <1>3, <1>4, <1>5, <1>6, <1>7, <1>8, <1>9, <1>10, <1>11, <1>12, <1>13, <1>14, <1>15, <1>16
     DEF ExchangeNext

\* Whatever happens to clocks, credentials and processes, an outcome the gateway
\* verified and retained passes verify_historical_for_request for ever, and a
\* reconciliation shows it, unless a revocation reaches back to a signature of it
\* or a party has no credential for the present (reconcile_effect_evidence).
THEOREM RetainedVerifies == ExchangeSpec => []RetainedStaysVerifiable
<1>1. ExchangeSpec => []ExchangeInv
  <2>1. ExchangeInv /\ [ExchangeNext]_exchangeVars => ExchangeInv'  BY ExchangeSteps
  <2> QED BY ExchangeBegins, <2>1, PTL DEF ExchangeSpec
<1>2. ExchangeInv => RetainedStaysVerifiable  BY KeptEvidenceShows
<1> QED BY <1>1, <1>2, PTL

================================================================================
