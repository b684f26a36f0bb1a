--------------------------- MODULE OutputsProofs ----------------------------
(***************************************************************************)
(* What the counters of the outputers and the outcome that prometheus      *)
(* counts say, for runs of any length.                                     *)
(***************************************************************************)
EXTENDS Outputs, FiniteSetTheorems, WellFoundedInduction, TLAPS

\* The results that an outputer counts in one group.
Counted(run, kinds, k) == {<<k, l>> : l \in {m \in DOMAIN run[k] : run[k][m] \in kinds}}

\* The results of a run that an outputer counts.
CountedSet(run, kinds) == UNION {Counted(run, kinds, k) : k \in DOMAIN run}

\* A group has finitely many results to count.
LEMMA CountedFinite ==
    ASSUME NEW run \in Seq(Seq(Results)), NEW kinds, NEW k \in DOMAIN run
    PROVE  IsFiniteSet(Counted(run, kinds, k))
<1> DEFINE M == {m \in DOMAIN run[k] : run[k][m] \in kinds}
           f == [l \in M |-> <<k, l>>]
<1>1. run[k] \in Seq(Results) /\ DOMAIN run[k] = 1..Len(run[k]) /\ Len(run[k]) \in Nat
  OBVIOUS
<1>2. IsFiniteSet(1..Len(run[k]))
  BY <1>1, FS_Interval
<1>3. M \in SUBSET (1..Len(run[k]))
  BY <1>1
<1>4. IsFiniteSet(M)
  BY <1>2, <1>3, FS_Subset
<1>5. f \in Surjection(M, Counted(run, kinds, k))
  BY DEF Surjection, Counted
<1> QED
  BY <1>4, <1>5, FS_Surjection

\* A run has finitely many results to count.
LEMMA CountedSetFinite ==
    ASSUME NEW run \in Seq(Seq(Results)), NEW kinds
    PROVE  IsFiniteSet(CountedSet(run, kinds))
<1> DEFINE T == {Counted(run, kinds, k) : k \in DOMAIN run}
           f == [k \in DOMAIN run |-> Counted(run, kinds, k)]
<1>1. DOMAIN run = 1..Len(run) /\ Len(run) \in Nat
  OBVIOUS
<1>2. IsFiniteSet(DOMAIN run)
  BY <1>1, FS_Interval
<1>3. f \in Surjection(DOMAIN run, T)
  BY DEF Surjection
<1>4. IsFiniteSet(T)
  BY <1>2, <1>3, FS_Surjection
<1>5. \A c \in T : IsFiniteSet(c)
  BY CountedFinite
<1> QED
  BY <1>4, <1>5, FS_UNION DEF CountedSet

\* The counter of the failed results is zero exactly when none failed.
LEMMA FailedCountsFailures ==
    ASSUME NEW run \in Seq(Seq(Results))
    PROVE  /\ failed(run) \in Nat
           /\ failed(run) = 0 <=> ~SomeFailed(run)
<1> DEFINE S == CountedSet(run, {FAIL})
<1>1. failed(run) = Cardinality(S)
  BY DEF failed, Count, CountedSet, Counted
<1>2. IsFiniteSet(S)
  BY CountedSetFinite
<1>3. S = {} <=> ~SomeFailed(run)
  <2>1. ASSUME NEW k \in DOMAIN run, NEW l \in DOMAIN run[k], run[k][l] = FAIL
        PROVE  <<k, l>> \in S
    <3>1. <<k, l>> \in Counted(run, {FAIL}, k)
      BY <2>1 DEF Counted
    <3> QED
      BY <3>1 DEF CountedSet
  <2>2. ASSUME NEW c \in S PROVE SomeFailed(run)
    <3>1. PICK k \in DOMAIN run : c \in Counted(run, {FAIL}, k)
      BY DEF CountedSet
    <3>2. PICK l \in DOMAIN run[k] : run[k][l] \in {FAIL}
      BY <3>1 DEF Counted
    <3> QED
      BY <3>2 DEF SomeFailed
  <2> QED
    BY <2>1, <2>2, Zenon DEF SomeFailed
<1>4. Cardinality(S) \in Nat /\ (Cardinality(S) = 0 <=> S = {})
  BY <1>2, FS_CardinalityType, FS_EmptySet
<1> QED
  BY <1>1, <1>3, <1>4

\* Every counting outputer ends with exit code zero exactly when no result of
\* the run failed, and never with 3, the code of a retry that timed out.
LEMMA ExitCodeCountsFailures ==
    ASSUME NEW run \in Seq(Seq(Results)), NEW format \in CountingFormats,
           NEW exitCode \in ExitCodes(format, run)
    PROVE  /\ exitCode \in {0, 1, 2}
           /\ exitCode = 0 <=> ~SomeFailed(run)
<1>1. format # "structured" /\ format # "prometheus"
  BY DEF CountingFormats
<1>2. failed(run) \in Nat /\ (failed(run) = 0 <=> ~SomeFailed(run))
  BY FailedCountsFailures
<1>3. CASE failed(run) = 0
  <2>1. ExitCodes(format, run) = {0}
    BY <1>1, <1>3 DEF ExitCodes
  <2> QED
    BY <1>2, <1>3, <2>1
<1>4. CASE failed(run) > 0
  <2>1. ExitCodes(format, run) \in {{1}, {2}}
    BY <1>1, <1>4 DEF ExitCodes
  <2> QED
    BY <1>2, <1>4, <2>1
<1> QED
  BY <1>2, <1>3, <1>4

\* Every outputer ends with one of four exit codes.
LEMMA ExitCodesBounded ==
    ASSUME NEW run \in Seq(Seq(Results)), NEW format \in Formats,
           NEW exitCode \in ExitCodes(format, run)
    PROVE  exitCode \in {-1, 0, 1, 2}
<1>1. CASE format \in CountingFormats
  BY <1>1, ExitCodeCountsFailures
<1>2. CASE format = "structured"
  <2>1. format \notin CountingFormats /\ format # "prometheus" /\ format # "nagios"
    BY <1>2 DEF CountingFormats
  <2>2. ExitCodes(format, run) = {0}
    BY <1>2, <2>1 DEF ExitCodes
  <2> QED
    BY <2>2
<1>3. CASE format = "prometheus"
  <2>1. format \notin CountingFormats /\ format # "structured" /\ format # "nagios"
    BY <1>3 DEF CountingFormats
  <2>2. ExitCodes(format, run) = {0, -1}
    BY <1>3, <2>1 DEF ExitCodes
  <2> QED
    BY <2>2
<1> QED
  BY <1>1, <1>2, <1>3 DEF Formats
-----------------------------------------------------------------------------
(* Induction, and folds over a sequence.                                   *)

\* The order on Nat as the set of pairs the library's theorems are about.
LEMMA NatOrder == OpToRel(<, Nat) = {ss \in Nat \X Nat : ss[1] < ss[2]}
BY Zenon DEF OpToRel

\* A non-empty set of natural numbers has a smallest element.
LEMMA LeastNat == ASSUME NEW S \in SUBSET Nat, S # {} PROVE \E m \in S : \A q \in S : m <= q
<1>1. PICK m \in S : \A q \in S : ~(<<q, m>> \in OpToRel(<, Nat))
  BY WFMin, NatLessThanWellFounded
<1>2. ASSUME NEW q \in S, q < m PROVE FALSE
  <2>1. <<q, m>> \in Nat \X Nat
    OBVIOUS
  <2>2. <<q, m>>[1] < <<q, m>>[2]
    BY <1>2
  <2> QED
    BY <1>1, <2>1, <2>2, NatOrder
<1> QED
  BY <1>2

\* Induction up to n, for a property given as the set of the numbers that have it.
LEMMA UpTo ==
    ASSUME NEW n \in Nat, NEW S, 0 \in S, \A k \in 1..n : k - 1 \in S => k \in S
    PROVE  \A k \in 0..n : k \in S
<1> DEFINE T == {k \in 0..n : k \notin S}
<1> SUFFICES ASSUME T # {} PROVE FALSE
  OBVIOUS
<1>1. T \in SUBSET Nat
  OBVIOUS
<1>2. PICK m \in T : \A q \in T : m <= q
  BY <1>1, LeastNat
<1>3. m \in 1..n /\ m - 1 \in 0..n /\ ~(m <= m - 1)
  BY <1>2
<1> QED
  BY <1>2, <1>3

\* The largest of some numbers up to n.
LEMMA MaxOf ==
    ASSUME NEW n \in Nat, NEW s \in SUBSET (1..n), s # {}
    PROVE  Max(s) \in s /\ \A y \in s : Max(s) >= y
<1> DEFINE T == {d \in Nat : n - d \in s}
<1>1. PICK x \in s : TRUE
  OBVIOUS
<1>2. n - x \in Nat /\ n - (n - x) = x
  OBVIOUS
<1>3. n - x \in T
  BY <1>2
<1>4. PICK d \in T : \A q \in T : d <= q
  BY <1>3, LeastNat
<1>5. ASSUME NEW y \in s PROVE n - d >= y
  <2>1. n - y \in Nat /\ n - (n - y) = y
    OBVIOUS
  <2>2. d <= n - y
    BY <1>4, <2>1
  <2> QED
    BY <2>1, <2>2
<1>6. n - d \in s
  OBVIOUS
<1> QED
  BY <1>5, <1>6 DEF Max

\* The largest of the numbers up to m.
LEMMA MaxOfInterval ==
    ASSUME NEW m \in Nat, NEW s \in SUBSET (1..m), m \in s
    PROVE  Max(s) = m
<1>1. Max(s) \in 1..m /\ Max(s) >= m
  BY MaxOf
<1>2. \A x \in 1..m : x >= m => x = m
  OBVIOUS
<1> QED
  BY <1>1, <1>2

\* A fold of F over the numbers up to n, from the smallest to the largest.
IsFold(iter, base, F, n) ==
    \A s \in SUBSET (1..n) : iter[s] = IF s = {} THEN base ELSE F[Max(s)][iter[s \ {Max(s)}]]

\* A fold exists.
LEMMA FoldExists ==
    ASSUME NEW O, NEW n \in Nat, NEW base \in O, NEW F \in [1..n -> [O -> O]]
    PROVE  \E iter \in [SUBSET (1..n) -> O] : IsFold(iter, base, F, n)
<1> DEFINE S == {m \in 0..n : \E iter \in [SUBSET (1..m) -> O] : IsFold(iter, base, F, m)}
<1>1. 0 \in S
  <2> DEFINE iter == [s \in SUBSET (1..0) |-> base]
  <2>1. \A s \in SUBSET (1..0) : s = {}
    OBVIOUS
  <2>2. iter \in [SUBSET (1..0) -> O] /\ IsFold(iter, base, F, 0)
    BY <2>1 DEF IsFold
  <2>3. 0 \in 0..n
    OBVIOUS
  <2> HIDE DEF iter
  <2> QED
    BY <2>2, <2>3
<1>2. ASSUME NEW m \in 1..n, m - 1 \in S PROVE m \in S
  <2>1. PICK f \in [SUBSET (1..(m - 1)) -> O] : IsFold(f, base, F, m - 1)
    BY <1>2
  <2> DEFINE g == [s \in SUBSET (1..m) |-> IF m \in s THEN F[m][f[s \ {m}]] ELSE f[s]]
  <2>2. ASSUME NEW s \in SUBSET (1..m)
        PROVE  /\ m \in s => s \ {m} \in SUBSET (1..(m - 1))
               /\ m \notin s => s \in SUBSET (1..(m - 1))
    OBVIOUS
  <2>3. g \in [SUBSET (1..m) -> O]
    <3> SUFFICES ASSUME NEW s \in SUBSET (1..m)
                 PROVE  (IF m \in s THEN F[m][f[s \ {m}]] ELSE f[s]) \in O
      OBVIOUS
    <3>1. CASE m \in s
      BY <2>2, <3>1
    <3>2. CASE m \notin s
      BY <2>2, <3>2
    <3> QED
      BY <3>1, <3>2
  <2>4. \A s \in SUBSET (1..m) : g[s] = IF m \in s THEN F[m][f[s \ {m}]] ELSE f[s]
    OBVIOUS
  <2> HIDE DEF g
  <2>5. ASSUME NEW s \in SUBSET (1..m)
        PROVE  g[s] = IF s = {} THEN base ELSE F[Max(s)][g[s \ {Max(s)}]]
    <3>1. CASE m \in s
      <4>1. Max(s) = m
        BY <3>1, MaxOfInterval
      <4>2. s \ {m} \in SUBSET (1..m) /\ m \notin s \ {m}
        OBVIOUS
      <4>3. g[s \ {m}] = f[s \ {m}]
        BY <2>4, <4>2
      <4>4. g[s] = F[m][f[s \ {m}]]
        BY <2>4, <3>1
      <4> QED
        BY <3>1, <4>1, <4>3, <4>4
    <3>2. CASE m \notin s
      <4> DEFINE t == s \ {Max(s)}
      <4>1. s \in SUBSET (1..(m - 1)) /\ t \in SUBSET (1..m) /\ m \notin t
        BY <2>2, <3>2
      <4>2. g[s] = f[s] /\ g[t] = f[t]
        BY <2>4, <3>2, <4>1
      <4>3. f[s] = IF s = {} THEN base ELSE F[Max(s)][f[t]]
        BY <2>1, <4>1 DEF IsFold
      <4> QED
        BY <4>2, <4>3
    <3> QED
      BY <3>1, <3>2
  <2>6. IsFold(g, base, F, m)
    BY <2>5 DEF IsFold
  <2> QED
    BY <2>3, <2>6
<1> HIDE DEF S
<1>3. \A k \in 0..n : k \in S
  BY <1>1, <1>2, UpTo
<1>4. n \in 0..n
  OBVIOUS
<1> QED
  BY <1>3, <1>4 DEF S

-----------------------------------------------------------------------------
(* The outcome of a run (prometheus.go).                                   *)

RunOutcomes == {"unknown", "pass", "fail", "skip"}

\* What one more result of a group makes of the outcome, and what the first does.
ChangeOutcome(acc, result) ==
    IF canChangeOverallOutcome(acc, ToOutcome(result)) THEN ToOutcome(result) ELSE acc
FirstOutcome(current, group) == IF group = <<>> THEN current ELSE ToOutcome(group[1])

\* The outcome is fail once a result failed, and not before.
LEMMA ChangeFails ==
    ASSUME NEW acc \in RunOutcomes, NEW result \in Results
    PROVE  /\ ToOutcome(result) \in RunOutcomes /\ ChangeOutcome(acc, result) \in RunOutcomes
           /\ ToOutcome(result) = "fail" <=> result = FAIL
           /\ ChangeOutcome(acc, result) = "fail" <=> acc = "fail" \/ result = FAIL
<1>1. /\ ToOutcome(SUCCESS) = "pass" /\ ToOutcome(FAIL) = "fail" /\ ToOutcome(SKIP) = "skip"
      /\ result \in {SUCCESS, FAIL, SKIP} /\ SUCCESS # FAIL /\ SKIP # FAIL
  BY DEF ToOutcome, Results, SUCCESS, FAIL, SKIP
<1>2. ToOutcome(result) \in RunOutcomes /\ (ToOutcome(result) = "fail" <=> result = FAIL)
  BY <1>1 DEF RunOutcomes
<1>3. ChangeOutcome(acc, result) \in RunOutcomes
  BY <1>2 DEF ChangeOutcome
<1>4. CASE acc = "fail"
  BY <1>2, <1>3, <1>4 DEF ChangeOutcome, canChangeOverallOutcome
<1>5. CASE acc # "fail"
  BY <1>2, <1>3, <1>5 DEF ChangeOutcome, canChangeOverallOutcome, RunOutcomes
<1> QED
  BY <1>4, <1>5

\* The inner loop of Output, result by result.
LEMMA GroupLoop ==
    ASSUME NEW current \in RunOutcomes, NEW group \in Seq(Results)
    PROVE  \E f : /\ f[0] = FirstOutcome(current, group) /\ f[Len(group)] = GroupOutcome(current, group)
                  /\ \A k \in 1..Len(group) : f[k] = ChangeOutcome(f[k - 1], group[k])
<1> DEFINE n == Len(group)
           base == FirstOutcome(current, group)
           F == [i \in 1..n |-> [a \in RunOutcomes |-> ChangeOutcome(a, group[i])]]
           R(iter) == [s \in SUBSET DOMAIN group |->
                         IF s = {} THEN base ELSE ChangeOutcome(iter[s \ {Max(s)}], group[Max(s)])]
           it == CHOOSE iter : iter = R(iter)
           f == [k \in 0..n |-> it[1..k]]
<1>1. n \in Nat /\ DOMAIN group = 1..n /\ \A i \in 1..n : group[i] \in Results
  OBVIOUS
<1>2. base \in RunOutcomes
  <2>1. CASE group = <<>>
    BY <2>1 DEF FirstOutcome
  <2>2. CASE group # <<>>
    <3>1. 1 \in 1..n
      BY <1>1, <2>2
    <3> QED
      BY <1>1, <2>2, <3>1, ChangeFails DEF FirstOutcome
  <2> QED
    BY <2>1, <2>2
<1>3. F \in [1..n -> [RunOutcomes -> RunOutcomes]]
  BY <1>1, ChangeFails
<1>4. \A i \in 1..n : \A a \in RunOutcomes : F[i][a] = ChangeOutcome(a, group[i])
  OBVIOUS
<1> HIDE DEF n, base, F
<1>5. PICK g \in [SUBSET (1..n) -> RunOutcomes] : IsFold(g, base, F, n)
  BY <1>1, <1>2, <1>3, FoldExists
<1>6. ASSUME NEW s \in SUBSET (1..n)
      PROVE  g[s] = IF s = {} THEN base ELSE ChangeOutcome(g[s \ {Max(s)}], group[Max(s)])
  <2>1. CASE s = {}
    BY <1>5, <2>1 DEF IsFold
  <2>2. CASE s # {}
    <3>1. Max(s) \in 1..n
      BY <1>1, <2>2, MaxOf
    <3>2. s \ {Max(s)} \in SUBSET (1..n)
      OBVIOUS
    <3>3. g[s \ {Max(s)}] \in RunOutcomes
      BY <3>2
    <3>4. g[s] = F[Max(s)][g[s \ {Max(s)}]]
      BY <1>5, <2>2 DEF IsFold
    <3> QED
      BY <1>4, <2>2, <3>1, <3>3, <3>4
  <2> QED
    BY <2>1, <2>2
<1>7. g = R(g)
  BY <1>1, <1>6
<1>8. it = R(it)
  <2> HIDE DEF R
  <2> QED
    BY <1>7
<1>9. GroupOutcome(current, group) = it[DOMAIN group]
  BY DEF GroupOutcome, FoldLeft, MapThenFoldSet, FirstOutcome, ChangeOutcome, base
<1> HIDE DEF it
<1>10. /\ f[0] = base /\ f[n] = GroupOutcome(current, group)
       /\ \A k \in 1..n : f[k] = ChangeOutcome(f[k - 1], group[k])
  <2>1. \A s \in SUBSET (1..n) :
          it[s] = IF s = {} THEN base ELSE ChangeOutcome(it[s \ {Max(s)}], group[Max(s)])
    BY <1>1, <1>8
  <2>2. 1..0 = {} /\ 0 \in 0..n /\ n \in 0..n
    BY <1>1
  <2>3. f[0] = base
    <3>1. f[0] = it[{}] /\ {} \in SUBSET (1..n)
      BY <2>2
    <3> HIDE DEF f
    <3> QED
      BY <2>1, <3>1
  <2>4. f[n] = GroupOutcome(current, group)
    BY <1>1, <1>9, <2>2
  <2>5. ASSUME NEW k \in 1..n PROVE f[k] = ChangeOutcome(f[k - 1], group[k])
    <3>1. /\ k \in Nat /\ k \in 0..n /\ k - 1 \in 0..n /\ 1..k \in SUBSET (1..n) /\ k \in 1..k
          /\ (1..k) \ {k} = 1..(k - 1)
      BY <1>1
    <3>2. Max(1..k) = k
      BY <3>1, MaxOfInterval
    <3>3. it[1..k] = ChangeOutcome(it[1..(k - 1)], group[k])
      <4>1. 1..k # {}
        BY <3>1
      <4> QED
        BY <2>1, <3>1, <3>2, <4>1
    <3> QED
      BY <3>1, <3>3
  <2> HIDE DEF f
  <2> QED
    BY <2>3, <2>4, <2>5
<1> HIDE DEF f
<1> QED
  BY <1>10 DEF n, base

\* A group with a result makes the outcome its own: fail exactly if one failed.
LEMMA GroupFails ==
    ASSUME NEW current \in RunOutcomes, NEW group \in Seq(Results)
    PROVE  /\ GroupOutcome(current, group) \in RunOutcomes
           /\ group = <<>> => GroupOutcome(current, group) = current
           /\ group # <<>> => (GroupOutcome(current, group) = "fail" <=> \E l \in DOMAIN group : group[l] = FAIL)
<1> DEFINE n == Len(group)
<1>1. n \in Nat /\ DOMAIN group = 1..n /\ \A i \in 1..n : group[i] \in Results
  OBVIOUS
<1>2. PICK f : /\ f[0] = FirstOutcome(current, group) /\ f[n] = GroupOutcome(current, group)
               /\ \A k \in 1..n : f[k] = ChangeOutcome(f[k - 1], group[k])
  BY GroupLoop
<1>3. CASE group = <<>>
  BY <1>2, <1>3 DEF FirstOutcome
<1>4. CASE group # <<>>
  <2>1. 1 \in 1..n
    BY <1>1, <1>4
  <2> DEFINE S == {k \in 0..n : /\ f[k] \in RunOutcomes
                                /\ f[k] = "fail" <=> group[1] = FAIL \/ \E l \in 1..k : group[l] = FAIL}
  <2>2. 0 \in S
    <3>1. f[0] = ToOutcome(group[1])
      BY <1>2, <1>4 DEF FirstOutcome
    <3>2. f[0] \in RunOutcomes /\ (f[0] = "fail" <=> group[1] = FAIL)
      BY <1>1, <2>1, <3>1, ChangeFails
    <3>3. 1..0 = {} /\ 0 \in 0..n
      BY <1>1
    <3> QED
      BY <3>2, <3>3
  <2>3. ASSUME NEW k \in 1..n, k - 1 \in S PROVE k \in S
    <3>1. /\ f[k - 1] \in RunOutcomes
          /\ f[k - 1] = "fail" <=> group[1] = FAIL \/ \E l \in 1..(k - 1) : group[l] = FAIL
      BY <2>3
    <3>2. f[k] \in RunOutcomes /\ (f[k] = "fail" <=> f[k - 1] = "fail" \/ group[k] = FAIL)
      BY <1>1, <1>2, <3>1, ChangeFails
    <3>3. k \in 0..n /\ 1..k = 1..(k - 1) \cup {k}
      BY <1>1
    <3> QED
      BY <3>1, <3>2, <3>3
  <2> HIDE DEF n, S
  <2>4. \A k \in 0..n : k \in S
    BY <1>1, <2>2, <2>3, UpTo
  <2>5. n \in S
    BY <1>1, <2>4
  <2>6. f[n] \in RunOutcomes /\ (f[n] = "fail" <=> group[1] = FAIL \/ \E l \in 1..n : group[l] = FAIL)
    BY <2>5 DEF S
  <2> QED
    BY <1>1, <1>2, <1>4, <2>1, <2>6
<1> QED
  BY <1>3, <1>4

\* The outer loop of Output, group by group.
LEMMA RunLoop ==
    ASSUME NEW run \in Seq(Seq(Results))
    PROVE  \E f : /\ f[0] = "unknown" /\ f[Len(run)] = OverallOutcome(run)
                  /\ \A k \in 1..Len(run) : f[k] = GroupOutcome(f[k - 1], run[k])
<1> DEFINE n == Len(run)
           F == [i \in 1..n |-> [a \in RunOutcomes |-> GroupOutcome(a, run[i])]]
           R(iter) == [s \in SUBSET DOMAIN run |->
                         IF s = {} THEN "unknown" ELSE GroupOutcome(iter[s \ {Max(s)}], run[Max(s)])]
           it == CHOOSE iter : iter = R(iter)
           f == [k \in 0..n |-> it[1..k]]
<1>1. n \in Nat /\ DOMAIN run = 1..n /\ \A i \in 1..n : run[i] \in Seq(Results)
  OBVIOUS
<1>2. "unknown" \in RunOutcomes
  BY DEF RunOutcomes
<1>3. F \in [1..n -> [RunOutcomes -> RunOutcomes]]
  BY <1>1, GroupFails
<1>4. \A i \in 1..n : \A a \in RunOutcomes : F[i][a] = GroupOutcome(a, run[i])
  OBVIOUS
<1> HIDE DEF n, F
<1>5. PICK g \in [SUBSET (1..n) -> RunOutcomes] : IsFold(g, "unknown", F, n)
  BY <1>1, <1>2, <1>3, FoldExists
<1>6. ASSUME NEW s \in SUBSET (1..n)
      PROVE  g[s] = IF s = {} THEN "unknown" ELSE GroupOutcome(g[s \ {Max(s)}], run[Max(s)])
  <2>1. CASE s = {}
    BY <1>5, <2>1 DEF IsFold
  <2>2. CASE s # {}
    <3>1. Max(s) \in 1..n
      BY <1>1, <2>2, MaxOf
    <3>2. s \ {Max(s)} \in SUBSET (1..n)
      OBVIOUS
    <3>3. g[s \ {Max(s)}] \in RunOutcomes
      BY <3>2
    <3>4. g[s] = F[Max(s)][g[s \ {Max(s)}]]
      BY <1>5, <2>2 DEF IsFold
    <3> QED
      BY <1>4, <2>2, <3>1, <3>3, <3>4
  <2> QED
    BY <2>1, <2>2
<1>7. g = R(g)
  BY <1>1, <1>6
<1>8. it = R(it)
  <2> HIDE DEF R
  <2> QED
    BY <1>7
<1>9. OverallOutcome(run) = it[DOMAIN run]
  BY DEF OverallOutcome, FoldLeft, MapThenFoldSet
<1> HIDE DEF it
<1>10. /\ f[0] = "unknown" /\ f[n] = OverallOutcome(run)
       /\ \A k \in 1..n : f[k] = GroupOutcome(f[k - 1], run[k])
  <2>1. \A s \in SUBSET (1..n) :
          it[s] = IF s = {} THEN "unknown" ELSE GroupOutcome(it[s \ {Max(s)}], run[Max(s)])
    BY <1>1, <1>8
  <2>2. 1..0 = {} /\ 0 \in 0..n /\ n \in 0..n
    BY <1>1
  <2>3. f[0] = "unknown"
    <3>1. f[0] = it[{}] /\ {} \in SUBSET (1..n)
      BY <2>2
    <3> HIDE DEF f
    <3> QED
      BY <2>1, <3>1
  <2>4. f[n] = OverallOutcome(run)
    BY <1>1, <1>9, <2>2
  <2>5. ASSUME NEW k \in 1..n PROVE f[k] = GroupOutcome(f[k - 1], run[k])
    <3>1. /\ k \in Nat /\ k \in 0..n /\ k - 1 \in 0..n /\ 1..k \in SUBSET (1..n) /\ k \in 1..k
          /\ (1..k) \ {k} = 1..(k - 1)
      BY <1>1
    <3>2. Max(1..k) = k
      BY <3>1, MaxOfInterval
    <3>3. it[1..k] = GroupOutcome(it[1..(k - 1)], run[k])
      <4>1. 1..k # {}
        BY <3>1
      <4> QED
        BY <2>1, <3>1, <3>2, <4>1
    <3> QED
      BY <3>1, <3>3
  <2> HIDE DEF f
  <2> QED
    BY <2>3, <2>4, <2>5
<1> HIDE DEF f
<1> QED
  BY <1>10 DEF n

\* The run's outcome is fail exactly if a result failed in the last group that
\* had any.
LEMMA OverallFails ==
    ASSUME NEW run \in Seq(Seq(Results))
    PROVE  OverallOutcome(run) = "fail" <=>
              \E k \in DOMAIN run : SomeFailed(<<run[k]>>) /\ \A l \in DOMAIN run : l > k => run[l] = <<>>
<1> DEFINE n == Len(run)
           Bad(k) == \E l \in DOMAIN run[k] : run[k][l] = FAIL
           BadIsLast(m) == \E k \in 1..m : Bad(k) /\ \A l \in 1..m : l > k => run[l] = <<>>
<1>1. n \in Nat /\ DOMAIN run = 1..n /\ \A k \in 1..n : run[k] \in Seq(Results)
  OBVIOUS
<1>2. PICK f : /\ f[0] = "unknown" /\ f[n] = OverallOutcome(run)
               /\ \A k \in 1..n : f[k] = GroupOutcome(f[k - 1], run[k])
  BY RunLoop
<1>3. \A k \in 1..n : run[k] = <<>> => ~Bad(k)
  OBVIOUS
<1>4. \A k \in 1..n : SomeFailed(<<run[k]>>) <=> Bad(k)
  BY DEF SomeFailed
<1>5. ASSUME NEW k \in 1..n, f[k - 1] \in RunOutcomes
      PROVE  /\ f[k] \in RunOutcomes
             /\ run[k] = <<>> => f[k] = f[k - 1]
             /\ run[k] # <<>> => (f[k] = "fail" <=> Bad(k))
  BY <1>1, <1>2, <1>5, GroupFails
<1> HIDE DEF Bad, n
<1> DEFINE S == {m \in 0..n : f[m] \in RunOutcomes /\ (f[m] = "fail" <=> BadIsLast(m))}
<1>6. 0 \in S
  <2>1. 1..0 = {} /\ 0 \in 0..n
    BY <1>1
  <2> QED
    BY <1>2, <2>1 DEF RunOutcomes
<1>7. ASSUME NEW m \in 1..n, m - 1 \in S PROVE m \in S
  <2>1. f[m - 1] \in RunOutcomes /\ (f[m - 1] = "fail" <=> BadIsLast(m - 1))
    BY <1>7
  <2>2. m \in 0..n /\ 1..m = 1..(m - 1) \cup {m} /\ \A k \in 1..(m - 1) : m > k /\ ~(k > m)
    BY <1>1
  <2>3. ~(m > m)
    BY <1>1
  <2>4. CASE run[m] = <<>>
    <3>1. ~Bad(m) /\ f[m] = f[m - 1] /\ f[m] \in RunOutcomes
      BY <1>3, <1>5, <2>1, <2>4
    <3>2. BadIsLast(m) <=> BadIsLast(m - 1)
      BY <2>2, <2>3, <2>4, <3>1
    <3> QED
      BY <2>1, <2>2, <3>1, <3>2
  <2>5. CASE run[m] # <<>>
    <3>1. f[m] \in RunOutcomes /\ (f[m] = "fail" <=> Bad(m))
      BY <1>5, <2>1, <2>5
    <3>2. BadIsLast(m) <=> Bad(m)
      BY <2>2, <2>3, <2>5
    <3> QED
      BY <2>2, <3>1, <3>2
  <2> QED
    BY <2>4, <2>5
<1> HIDE DEF S
<1>8. \A m \in 0..n : m \in S
  BY <1>1, <1>6, <1>7, UpTo
<1>9. n \in S
  BY <1>1, <1>8
<1>10. OverallOutcome(run) = "fail" <=> BadIsLast(n)
  BY <1>2, <1>9 DEF S
<1>11. ASSUME NEW k \in 1..n
       PROVE  /\ Bad(k) <=> SomeFailed(<<run[k]>>)
              /\ (\A l \in 1..n : l > k => run[l] = <<>>) <=> (\A l \in DOMAIN run : l > k => run[l] = <<>>)
  BY <1>1, <1>4
<1>12. BadIsLast(n) <=> \E k \in 1..n : SomeFailed(<<run[k]>>) /\ \A l \in DOMAIN run : l > k => run[l] = <<>>
  BY <1>11
<1>13. DOMAIN run = 1..n
  BY <1>1
<1> HIDE DEF BadIsLast
<1> QED
  BY <1>10, <1>12, <1>13, Zenon
=============================================================================
