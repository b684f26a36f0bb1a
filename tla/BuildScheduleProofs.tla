------------------------- MODULE BuildScheduleProofs -------------------------
(***************************************************************************)
(* Proofs about buildSchedule, for every number of resources and every     *)
(* gossfile: it accepts exactly the gossfiles it should, and the depth-    *)
(* first search accepts no cycle and reports only real ones.               *)
(***************************************************************************)
EXTENDS BuildSchedule, NaturalsInduction, WellFoundedInduction, FiniteSetTheorems, TLAPS

(***************************************************************************)
(* The inductive invariant.                                                *)
(***************************************************************************)

\* Nothing is visited before all dependencies are resolved.
Phases ==
    /\ pc \in {"index", "resolve"} => 
         colour = [r \in Resources |-> 0] /\ stack = <<>> /\ roots = Resources
    /\ pc # "done" => error = "none"
    /\ pc = "done" /\ error = "none" => roots = {} /\ stack = <<>>

\* The references in progress are those on the stack, each once.
StackIsGrey ==
    /\ \A k \in DOMAIN stack : colour[stack[k]] = 1
    /\ \A r \in Resources : colour[r] = 1 => \E k \in DOMAIN stack : stack[k] = r
    /\ \A j, k \in DOMAIN stack : stack[j] = stack[k] => j = k

\* Each activation but the last is inside the call for the one above it.
Calls ==
    \A k \in 1..(Len(stack) - 1) :
        /\ next[stack[k]] \in DOMAIN deps[stack[k]]
        /\ deps[stack[k]][next[stack[k]]] = stack[k + 1]

\* The dependencies an activation has left behind are finished.
Explored ==
    \A k \in DOMAIN stack :
        /\ next[stack[k]] >= 1
        /\ \A i \in DOMAIN deps[stack[k]] :
              i < next[stack[k]] => colour[deps[stack[k]][i]] = 2

\* A finished reference finished after its dependencies.
FinishedInv ==
    \A r \in Resources : colour[r] = 2 =>
        /\ 1 <= finish[r] /\ finish[r] <= Cardinality(Finished)
        /\ \A i \in DOMAIN deps[r] :
              colour[deps[r][i]] = 2 /\ finish[deps[r][i]] < finish[r]

\* What the range over byRef has yielded has been visited.
RootsInv ==
    pc \in {"visit", "done"} /\ error = "none" =>
        \A r \in Resources : r \in roots \/ colour[r] # 0

IInv ==
    /\ TypeOK
    /\ Phases
    /\ StackIsGrey
    /\ Calls
    /\ Explored
    /\ FinishedInv
    /\ RootsInv
    /\ CycleIsReal

-----------------------------------------------------------------------------
(* Facts about the operators.                                              *)

\* The order on Nat as the set of pairs the library's theorems are about.
LEMMA LessThan == OpToRel(<, Nat) = {ss \in Nat \X Nat : ss[1] < ss[2]}
BY Zenon DEF OpToRel

\* A non-empty set of natural numbers has a smallest element.
LEMMA SmallestElement == ASSUME NEW S \in SUBSET Nat, S # {}
                         PROVE  \E m \in S : \A q \in S : m <= q
<1>1. PICK m \in S : \A q \in S : ~(<<q, m>> \in OpToRel(<, Nat))
  BY WFMin, NatLessThanWellFounded
<1>2. ASSUME NEW q \in S, q < m PROVE FALSE
  <2>1. <<q, m>> \in Nat \X Nat
    OBVIOUS
  <2>2. <<q, m>>[1] < <<q, m>>[2]
    BY <1>2
  <2> QED
    BY <1>1, <2>1, <2>2, LessThan
<1> QED
  BY <1>2

\* There are at most N finished references, fewer while one is not finished.
LEMMA FinishedCount ==
    ASSUME TypeOK
    PROVE  /\ Cardinality(Finished) \in 0..N
           /\ \A r \in Resources : colour[r] # 2 =>
                  /\ Cardinality(Finished \cup {r}) = Cardinality(Finished) + 1
                  /\ Cardinality(Finished) + 1 <= N
<1>1. IsFiniteSet(Resources) /\ Cardinality(Resources) = N
  BY FS_Interval, NAssumption DEF Resources
<1>2. Finished \in SUBSET Resources
  BY DEF Finished
<1>3. IsFiniteSet(Finished) /\ Cardinality(Finished) <= N /\ Cardinality(Finished) \in Nat
  BY <1>1, <1>2, FS_Subset, FS_CardinalityType
<1>4. ASSUME NEW r \in Resources, colour[r] # 2
      PROVE  /\ Cardinality(Finished \cup {r}) = Cardinality(Finished) + 1
             /\ Cardinality(Finished) + 1 <= N
  <2>1. r \notin Finished
    BY <1>4 DEF Finished
  <2>2. Cardinality(Finished \cup {r}) = Cardinality(Finished) + 1
    BY <1>3, <2>1, FS_AddElement
  <2>3. Finished \cup {r} \in SUBSET Resources
    BY <1>2
  <2>4. Cardinality(Finished \cup {r}) <= N
    BY <1>1, <2>3, FS_Subset
  <2> QED
    BY <2>2, <2>4
<1> QED
  BY <1>3, <1>4, NAssumption

\* The last activation, when there is one.
LEMMA TopFacts == ASSUME TypeOK, stack # <<>>
                  PROVE  Len(stack) \in DOMAIN stack /\ Top = stack[Len(stack)] /\ Top \in Resources
  BY DEF TypeOK, Top

\* Along the stack the rank can only fall: an activation's dependency that is
\* on the stack itself closes a cycle.
LEMMA StackCycle ==
    ASSUME TypeOK, Calls, NEW j \in DOMAIN stack,
           NEW i \in DOMAIN deps[stack[Len(stack)]],
           deps[stack[Len(stack)]][i] = stack[j]
    PROVE  ~Acyclic(deps)
<1>1. SUFFICES ASSUME NEW rank \in [Resources -> Resources],
                      \A r \in Resources : \A n \in DOMAIN deps[r] : rank[deps[r][n]] < rank[r]
               PROVE  FALSE
  BY DEF Acyclic
<1>2. /\ DOMAIN stack = 1..Len(stack) /\ Len(stack) \in Nat
      /\ \A k \in DOMAIN stack : stack[k] \in Resources /\ rank[stack[k]] \in Nat
  <2>1. /\ DOMAIN stack = 1..Len(stack) /\ Len(stack) \in Nat
        /\ \A k \in DOMAIN stack : stack[k] \in Resources
    <3>1. stack \in Seq(Resources)
      BY DEF TypeOK
    <3> QED
      BY <3>1
  <2>2. Resources \subseteq Nat
    BY NAssumption DEF Resources
  <2> QED
    BY <2>1, <2>2
<1> DEFINE Higher == {k \in DOMAIN stack : k >= j /\ rank[stack[k]] > rank[stack[j]]}
<1>3. rank[stack[j]] < rank[stack[Len(stack)]]
  <2>1. stack[Len(stack)] \in Resources
    BY <1>2
  <2> QED
    BY <1>1, <2>1
<1>4. Len(stack) \in Higher
  BY <1>2, <1>3
<1>5. PICK k \in Higher : \A m \in Higher : k <= m
  <2>1. Higher \in SUBSET Nat /\ Higher # {}
    BY <1>2, <1>4
  <2> HIDE DEF Higher
  <2> QED
    BY <2>1, SmallestElement
<1>6. k # j /\ k >= j /\ k \in DOMAIN stack
  BY <1>2, <1>5
<1>7. k - 1 \in DOMAIN stack /\ k - 1 >= j /\ k - 1 \in 1..(Len(stack) - 1) /\ (k - 1) + 1 = k
  BY <1>2, <1>6
<1>8. rank[stack[k]] < rank[stack[k - 1]]
  BY <1>1, <1>2, <1>7 DEF Calls
<1>9. k - 1 \in Higher
  BY <1>2, <1>5, <1>7, <1>8
<1> QED
  BY <1>2, <1>5, <1>6, <1>9

-----------------------------------------------------------------------------
(* The invariant is inductive.                                             *)

\* The invariant holds before the first resource is indexed.
LEMMA InitInv == Init => IInv
<1> SUFFICES ASSUME Init PROVE IInv
  OBVIOUS
<1>1. TypeOK
  BY NAssumption DEF Init, TypeOK, Resources, Errors
<1>2. stack = <<>> /\ DOMAIN stack = {} /\ Len(stack) = 0
  BY DEF Init
<1>3. \A r \in Resources : colour[r] = 0
  BY DEF Init
<1>4. Phases
  BY DEF Init, Phases
<1>5. StackIsGrey /\ Calls /\ Explored
  BY <1>2, <1>3 DEF StackIsGrey, Calls, Explored
<1>6. FinishedInv /\ RootsInv /\ CycleIsReal
  BY <1>3 DEF Init, FinishedInv, RootsInv, CycleIsReal
<1> QED
  BY <1>1, <1>4, <1>5, <1>6 DEF IInv

\* Indexing a resource, or failing to, starts no visit.
LEMMA IndexResourceInv == ASSUME IInv, IndexResource PROVE IInv'
<1>1. /\ pc = "index" /\ pc' \in {"index", "resolve", "done"}
      /\ at' \in Resources
      /\ index' \subseteq Resources
      /\ error' \in Errors /\ (pc' # "done" => error' = error) /\ error' # "cycle"
      /\ (pc' = "done" => error' # "none")
      /\ UNCHANGED <<deps, colour, next, stack, roots, finish>>
  <2>1. /\ at \in 1..N /\ index \subseteq Resources /\ Resources = 1..N
        /\ error = "none"
    BY DEF IInv, TypeOK, Phases, IndexResource, Resources
  <2>2. pc = "index" /\ UNCHANGED <<deps, colour, next, stack, roots, finish>>
    BY DEF IndexResource, graphVars
  <2>3. CASE \E r \in index : Ref(r) = Ref(at)
    <3>1. pc' = "done" /\ error' = "duplicate" /\ at' = at /\ index' = index
      BY <2>3 DEF IndexResource, Fail
    <3> QED
      BY <2>1, <2>2, <3>1 DEF Errors
  <2>4. CASE ~\E r \in index : Ref(r) = Ref(at)
    <3>1. /\ index' = index \cup {at}
          /\ at' = IF at = N THEN 1 ELSE at + 1
          /\ pc' \in {"index", "resolve"} /\ error' = error
      BY <2>4 DEF IndexResource
    <3>2. at' \in 1..N
      BY <2>1, <3>1, NAssumption
    <3> QED
      BY <2>1, <2>2, <3>1, <3>2 DEF Errors
  <2> QED
    BY <2>3, <2>4
<1>2. TypeOK'
  BY <1>1 DEF IInv, TypeOK
<1>3. Phases'
  BY <1>1 DEF IInv, Phases
<1>4. StackIsGrey' /\ Calls' /\ Explored'
  BY <1>1 DEF IInv, StackIsGrey, Calls, Explored
<1>5. FinishedInv' /\ RootsInv' /\ CycleIsReal'
  <2>1. \A r \in Resources : colour[r] = 0
    BY <1>1 DEF IInv, Phases
  <2> QED
    BY <1>1, <2>1 DEF IInv, FinishedInv, RootsInv, CycleIsReal
<1> QED
  BY <1>2, <1>3, <1>4, <1>5 DEF IInv

\* A resolved entry is a resource; no visit has started yet.
LEMMA ResolveDependencyInv == ASSUME IInv, ResolveDependency PROVE IInv'
<1> DEFINE dep == resources[at].dependsOn[Len(deps[at]) + 1]
<1>1. /\ pc = "resolve" /\ pc' \in {"resolve", "done"}
      /\ UNCHANGED <<at, index, colour, next, stack, roots, finish>>
      /\ \/ /\ error' = ResolutionError(dep) /\ pc' = "done" /\ error' # "none"
            /\ deps' = deps
         \/ /\ deps' = [deps EXCEPT ![at] = Append(@, CHOOSE r \in Matches(dep) : TRUE)]
            /\ ResolutionError(dep) = "none" /\ error' = error /\ pc' = pc
  BY DEF ResolveDependency, Fail, graphVars
<1>2. Matches(dep) \subseteq Resources
  BY DEF Matches, IInv, TypeOK
<1>3. ResolutionError(dep) = "none" => Matches(dep) # {}
  BY DEF ResolutionError
<1>4. ResolutionError(dep) \in Errors \ {"cycle"}
  BY DEF ResolutionError, Errors
<1>5. \A r \in Resources : colour[r] = 0
  BY <1>1 DEF IInv, Phases
<1>6. stack = <<>> /\ Len(stack) = 0 /\ DOMAIN stack = {}
  BY <1>1 DEF IInv, Phases
<1> HIDE DEF dep
<1>7. TypeOK'
  <2>1. deps' \in [Resources -> Seq(Resources)]
    <3>1. CASE deps' = deps
      BY <3>1 DEF IInv, TypeOK
    <3>2. CASE deps' # deps
      <4>1. (CHOOSE r \in Matches(dep) : TRUE) \in Resources
        BY <1>1, <1>2, <1>3, <3>2
      <4>2. \A s \in Seq(Resources), x \in Resources : Append(s, x) \in Seq(Resources)
        OBVIOUS
      <4>3. deps \in [Resources -> Seq(Resources)] /\ at \in Resources
        BY DEF IInv, TypeOK
      <4>4. deps[at] \in Seq(Resources)
        BY <4>3
      <4>5. Append(deps[at], CHOOSE r \in Matches(dep) : TRUE) \in Seq(Resources)
        BY <4>1, <4>2, <4>4
      <4> QED
        BY <1>1, <3>2, <4>3, <4>5
    <3> QED
      BY <3>1, <3>2
  <2> QED
    BY <1>1, <1>4, <2>1 DEF IInv, TypeOK
<1>8. Phases'
  BY <1>1 DEF IInv, Phases
<1>9. StackIsGrey' /\ Calls' /\ Explored'
  BY <1>1, <1>5, <1>6 DEF StackIsGrey, Calls, Explored
<1>10. FinishedInv' /\ RootsInv' /\ CycleIsReal'
  <2>1. error' # "cycle"
    BY <1>1, <1>4 DEF IInv, Phases
  <2> QED
    BY <1>1, <1>5, <2>1 DEF FinishedInv, RootsInv, CycleIsReal
<1> QED
  BY <1>7, <1>8, <1>9, <1>10 DEF IInv

\* Going on to the next resource, or to the search.
LEMMA NextResourceInv == ASSUME IInv, NextResource PROVE IInv'
<1>1. /\ pc = "resolve" /\ pc' \in {"resolve", "visit"}
      /\ at' \in Resources
      /\ UNCHANGED <<index, deps, colour, next, stack, roots, finish, error>>
  BY NAssumption DEF IInv, TypeOK, NextResource, Resources, graphVars
<1>2. \A r \in Resources : colour[r] = 0
  BY <1>1 DEF IInv, Phases
<1>3. TypeOK'
  BY <1>1 DEF IInv, TypeOK
<1>4. Phases'
  BY <1>1 DEF IInv, Phases
<1>5. StackIsGrey' /\ Calls' /\ Explored'
  BY <1>1 DEF IInv, StackIsGrey, Calls, Explored
<1>6. FinishedInv' /\ RootsInv' /\ CycleIsReal'
  BY <1>1, <1>2 DEF IInv, Phases, FinishedInv, RootsInv, CycleIsReal
<1> QED
  BY <1>3, <1>4, <1>5, <1>6 DEF IInv

\* What an invariant state of the search knows about types.
LEMMA SearchTypes ==
    ASSUME IInv
    PROVE  /\ stack \in Seq(Resources) /\ Len(stack) \in Nat /\ DOMAIN stack = 1..Len(stack)
           /\ \A k \in 1..Len(stack) : stack[k] \in Resources
           /\ colour \in [Resources -> {0, 1, 2}]
           /\ next \in [Resources -> Nat]
           /\ finish \in [Resources -> 0..N]
           /\ \A r \in Resources : /\ deps[r] \in Seq(Resources)
                                   /\ Len(deps[r]) \in Nat
                                   /\ DOMAIN deps[r] = 1..Len(deps[r])
                                   /\ \A i \in DOMAIN deps[r] : deps[r][i] \in Resources
<1>1. /\ stack \in Seq(Resources)
      /\ colour \in [Resources -> {0, 1, 2}]
      /\ next \in [Resources -> Nat]
      /\ finish \in [Resources -> 0..N]
      /\ deps \in [Resources -> Seq(Resources)]
  BY DEF IInv, TypeOK
<1>2. Len(stack) \in Nat /\ DOMAIN stack = 1..Len(stack) /\ \A k \in 1..Len(stack) : stack[k] \in Resources
  BY <1>1
<1>3. ASSUME NEW r \in Resources
      PROVE  /\ deps[r] \in Seq(Resources)
             /\ Len(deps[r]) \in Nat
             /\ DOMAIN deps[r] = 1..Len(deps[r])
             /\ \A i \in DOMAIN deps[r] : deps[r][i] \in Resources
  <2>1. deps[r] \in Seq(Resources)
    BY <1>1
  <2> QED
    BY <2>1
<1> QED
  BY <1>1, <1>2, <1>3

\* A visit starts a new activation of r, called by the range over byRef or by
\* the loop of the last activation.
LEMMA EnterInv ==
    ASSUME IInv, NEW r \in Resources, colour[r] = 0,
           pc = "visit", UNCHANGED <<pc, at, error, index, deps, finish>>,
           colour' = [colour EXCEPT ![r] = 1],
           stack' = Append(stack, r),
           next' = [next EXCEPT ![r] = 1],
           roots' = roots \/ roots' = roots \ {r},
           stack # <<>> => /\ next[Top] \in DOMAIN deps[Top]
                           /\ deps[Top][next[Top]] = r
    PROVE  IInv'
<1>1. /\ stack \in Seq(Resources) /\ Len(stack) \in Nat /\ DOMAIN stack = 1..Len(stack)
      /\ \A k \in 1..Len(stack) : stack[k] \in Resources
      /\ colour \in [Resources -> {0, 1, 2}]
      /\ next \in [Resources -> Nat]
  BY SearchTypes
<1>2. /\ Len(stack') = Len(stack) + 1 /\ DOMAIN stack' = 1..(Len(stack) + 1)
      /\ \A k \in 1..Len(stack) : stack'[k] = stack[k]
      /\ stack'[Len(stack) + 1] = r
      /\ stack' \in Seq(Resources)
  BY <1>1
<1>3. \A k \in 1..Len(stack) : stack[k] # r /\ colour[stack[k]] = 1
  BY <1>1 DEF IInv, StackIsGrey
<1>4. \A q \in Resources : /\ colour'[q] = IF q = r THEN 1 ELSE colour[q]
                           /\ next'[q] = IF q = r THEN 1 ELSE next[q]
  BY <1>1
<1>5. TypeOK'
  <2>1. /\ colour' \in [Resources -> {0, 1, 2}] /\ next' \in [Resources -> Nat]
        /\ roots' \subseteq Resources
    BY <1>1 DEF IInv, TypeOK
  <2> QED
    BY <1>2, <2>1 DEF IInv, TypeOK
<1>6. Phases'
  BY DEF IInv, Phases
<1>7. StackIsGrey'
  <2>1. \A k \in DOMAIN stack' : colour'[stack'[k]] = 1
    BY <1>1, <1>2, <1>3, <1>4
  <2>2. ASSUME NEW q \in Resources, colour'[q] = 1 PROVE \E k \in DOMAIN stack' : stack'[k] = q
    <3>1. CASE q = r
      BY <1>1, <1>2, <3>1
    <3>2. CASE q # r
      <4>1. PICK k \in DOMAIN stack : stack[k] = q
        BY <1>4, <2>2, <3>2 DEF IInv, StackIsGrey
      <4> QED
        BY <1>1, <1>2, <4>1
    <3> QED
      BY <3>1, <3>2
  <2>3. \A j, k \in DOMAIN stack' : stack'[j] = stack'[k] => j = k
    BY <1>1, <1>2, <1>3 DEF IInv, StackIsGrey
  <2> QED
    BY <2>1, <2>2, <2>3 DEF StackIsGrey
<1>8. Calls'
  <2>1. ASSUME NEW k \in 1..(Len(stack') - 1)
        PROVE  /\ next'[stack'[k]] \in DOMAIN deps[stack'[k]]
               /\ deps[stack'[k]][next'[stack'[k]]] = stack'[k + 1]
    <3>1. k \in 1..Len(stack) /\ stack'[k] = stack[k] /\ next'[stack[k]] = next[stack[k]]
      BY <1>1, <1>2, <1>3, <1>4
    <3>2. CASE k = Len(stack)
      <4>1. stack # <<>> /\ stack[k] = Top /\ stack'[k + 1] = r
        BY <1>1, <1>2, <3>1, <3>2 DEF Top
      <4> QED
        BY <3>1, <4>1
    <3>3. CASE k # Len(stack)
      <4>1. k \in 1..(Len(stack) - 1) /\ k + 1 \in 1..Len(stack)
        BY <1>1, <3>1, <3>3
      <4>2. stack'[k + 1] = stack[k + 1]
        BY <1>2, <4>1
      <4> QED
        BY <3>1, <4>1, <4>2 DEF IInv, Calls
    <3> QED
      BY <3>2, <3>3
  <2> QED
    BY <2>1 DEF Calls
<1>9. Explored'
  <2>1. ASSUME NEW k \in DOMAIN stack'
        PROVE  /\ next'[stack'[k]] >= 1
               /\ \A i \in DOMAIN deps[stack'[k]] :
                     i < next'[stack'[k]] => colour'[deps[stack'[k]][i]] = 2
    <3>1. CASE k = Len(stack) + 1
      <4>1. stack'[k] = r /\ next'[r] = 1 /\ DOMAIN deps[r] = 1..Len(deps[r])
        BY <1>2, <1>4, <3>1, SearchTypes
      <4> QED
        BY <4>1
    <3>2. CASE k # Len(stack) + 1
      <4>1. k \in DOMAIN stack /\ stack'[k] = stack[k] /\ next'[stack[k]] = next[stack[k]]
        BY <1>1, <1>2, <1>3, <1>4, <3>2
      <4>2. \A i \in DOMAIN deps[stack[k]] : deps[stack[k]][i] \in Resources
        BY <1>1, <4>1, SearchTypes
      <4>3. \A q \in Resources : colour[q] = 2 => colour'[q] = 2
        BY <1>4
      <4>4. /\ next[stack[k]] >= 1
            /\ \A i \in DOMAIN deps[stack[k]] :
                  i < next[stack[k]] => colour[deps[stack[k]][i]] = 2
        BY <4>1 DEF IInv, Explored
      <4> QED
        BY <4>1, <4>2, <4>3, <4>4
    <3> QED
      BY <3>1, <3>2
  <2> QED
    BY <2>1 DEF Explored
<1>10. FinishedInv'
  <2>1. \A q \in Resources : colour'[q] = 2 <=> colour[q] = 2
    BY <1>4
  <2>2. Finished' = Finished
    BY <2>1 DEF Finished
  <2>3. \A q \in Resources : \A i \in DOMAIN deps[q] : deps[q][i] \in Resources
    BY SearchTypes
  <2> QED
    BY <2>1, <2>2, <2>3 DEF IInv, FinishedInv
<1>11. RootsInv'
  BY <1>4 DEF IInv, RootsInv
<1>12. CycleIsReal'
  BY DEF IInv, CycleIsReal
<1> QED
  BY <1>5, <1>6, <1>7, <1>8, <1>9, <1>10, <1>11, <1>12 DEF IInv

\* A visit of a finished reference returns at once.
LEMMA AlreadyFinishedInv ==
    ASSUME IInv, NEW r \in Resources, colour[r] = 2,
           pc = "visit", UNCHANGED <<pc, at, error, index, deps, finish, colour>>,
           Resume(stack),
           roots' = roots \/ roots' = roots \ {r},
           stack # <<>> => deps[Top][next[Top]] = r
    PROVE  IInv'
<1>1. /\ stack \in Seq(Resources) /\ Len(stack) \in Nat /\ DOMAIN stack = 1..Len(stack)
      /\ \A k \in 1..Len(stack) : stack[k] \in Resources
      /\ next \in [Resources -> Nat]
  BY SearchTypes
<1>2. stack' = stack
  BY DEF Resume
<1>3. /\ next' \in [Resources -> Nat]
      /\ \A k \in 1..Len(stack) : k # Len(stack) => next'[stack[k]] = next[stack[k]]
      /\ stack # <<>> => next'[Top] = next[Top] + 1
  <2>1. CASE stack = <<>>
    BY <1>1, <2>1 DEF Resume
  <2>2. CASE stack # <<>>
    <3>1. PICK t \in Resources : t = Top
      BY <2>2, TopFacts DEF IInv
    <3>2. next' = [next EXCEPT ![t] = @ + 1]
      BY <2>2, <3>1 DEF Resume, Top
    <3>3. \A q \in Resources : next'[q] = IF q = t THEN next[q] + 1 ELSE next[q]
      BY <1>1, <3>2
    <3>4. next' \in [Resources -> Nat]
      BY <1>1, <3>2
    <3>5. ASSUME NEW k \in 1..Len(stack), k # Len(stack) PROVE stack[k] # t
      <4>1. Len(stack) \in DOMAIN stack /\ stack[Len(stack)] = t /\ k \in DOMAIN stack
        BY <1>1, <2>2, <3>1, TopFacts DEF IInv
      <4> QED
        BY <3>5, <4>1 DEF IInv, StackIsGrey
    <3> QED
      BY <1>1, <3>1, <3>3, <3>4, <3>5
  <2> QED
    BY <2>1, <2>2
<1>4. TypeOK'
  BY <1>2, <1>3 DEF IInv, TypeOK
<1>5. Phases' /\ StackIsGrey'
  BY <1>2 DEF IInv, Phases, StackIsGrey
<1>6. Calls'
  <2>1. ASSUME NEW k \in 1..(Len(stack) - 1)
        PROVE  /\ next'[stack[k]] \in DOMAIN deps[stack[k]]
               /\ deps[stack[k]][next'[stack[k]]] = stack[k + 1]
    <3>1. k \in 1..Len(stack) /\ k # Len(stack)
      <4>1. Len(stack) \in Nat
        BY <1>1
      <4> QED
        BY <4>1
    <3>2. next'[stack[k]] = next[stack[k]]
      BY <1>3, <3>1
    <3> QED
      BY <3>2 DEF IInv, Calls
  <2> QED
    BY <1>2, <2>1 DEF Calls
<1>7. Explored'
  <2>1. ASSUME NEW k \in DOMAIN stack
        PROVE  /\ next'[stack[k]] >= 1
               /\ \A i \in DOMAIN deps[stack[k]] :
                     i < next'[stack[k]] => colour[deps[stack[k]][i]] = 2
    <3>1. /\ next[stack[k]] >= 1 /\ next[stack[k]] \in Nat
          /\ \A i \in DOMAIN deps[stack[k]] :
                i < next[stack[k]] => colour[deps[stack[k]][i]] = 2
      BY <1>1 DEF IInv, Explored
    <3>2. CASE k # Len(stack)
      BY <1>1, <1>3, <3>1, <3>2
    <3>3. CASE k = Len(stack)
      <4>1. next'[stack[k]] = next[stack[k]] + 1 /\ stack # <<>> /\ stack[k] = Top
        <5>1. stack # <<>> /\ stack[k] = Top
          BY <1>1, <3>3 DEF Top
        <5> QED
          BY <1>3, <5>1
      <4>2. DOMAIN deps[stack[k]] \subseteq Nat
        <5>1. stack[k] \in Resources
          BY <1>1
        <5>2. DOMAIN deps[stack[k]] = 1..Len(deps[stack[k]]) /\ Len(deps[stack[k]]) \in Nat
          BY <5>1, SearchTypes
        <5> QED
          BY <5>2
      <4>3. \A i \in DOMAIN deps[stack[k]] :
               i < next'[stack[k]] => i < next[stack[k]] \/ i = next[stack[k]]
        BY <3>1, <4>1, <4>2
      <4> QED
        BY <3>1, <4>1, <4>3
    <3> QED
      BY <3>2, <3>3
  <2> QED
    BY <1>2, <2>1 DEF Explored
<1>8. FinishedInv'
  <2>1. Finished' = Finished
    BY DEF Finished
  <2> QED
    BY <2>1 DEF IInv, FinishedInv
<1>9. RootsInv' /\ CycleIsReal'
  BY DEF IInv, RootsInv, CycleIsReal
<1> QED
  BY <1>4, <1>5, <1>6, <1>7, <1>8, <1>9 DEF IInv

\* Meeting a reference in progress, the search fails, and rightly: the
\* activations from that reference up to the last one are a cycle.
LEMMA CycleInv ==
    ASSUME IInv, NEW r \in Resources, colour[r] = 1,
           pc = "visit", Fail("cycle"),
           UNCHANGED <<index, deps, finish, colour, next, stack>>,
           roots' = roots \/ roots' = roots \ {r},
           stack # <<>> => /\ next[Top] \in DOMAIN deps[Top]
                           /\ deps[Top][next[Top]] = r
    PROVE  IInv'
<1>1. pc' = "done" /\ error' = "cycle" /\ at' = at
  BY DEF Fail
<1>2. PICK j \in DOMAIN stack : stack[j] = r
  BY DEF IInv, StackIsGrey
<1>3. stack # <<>> /\ Top = stack[Len(stack)]
  BY <1>2 DEF Top
<1>4. ~Acyclic(deps)
  BY <1>2, <1>3, StackCycle DEF IInv
<1>5. TypeOK'
  BY <1>1 DEF IInv, TypeOK, Errors
<1>6. Phases' /\ StackIsGrey' /\ Calls' /\ Explored'
  BY <1>1 DEF IInv, Phases, StackIsGrey, Calls, Explored
<1>7. FinishedInv'
  <2>1. Finished' = Finished
    BY DEF Finished
  <2> QED
    BY <2>1 DEF IInv, FinishedInv
<1>8. RootsInv' /\ CycleIsReal'
  BY <1>1, <1>4 DEF RootsInv, CycleIsReal
<1> QED
  BY <1>5, <1>6, <1>7, <1>8 DEF IInv

\* The last activation returns: its dependencies have all finished before it,
\* and its caller, which was waiting for it, goes on.
LEMMA VisitReturnInv == ASSUME IInv, VisitReturn PROVE IInv'
<1> DEFINE m == Len(stack)
           rest == SubSeq(stack, 1, m - 1)
<1>1. /\ stack \in Seq(Resources) /\ m \in Nat /\ DOMAIN stack = 1..m
      /\ \A k \in 1..m : stack[k] \in Resources
      /\ colour \in [Resources -> {0, 1, 2}]
      /\ next \in [Resources -> Nat]
      /\ finish \in [Resources -> 0..N]
  BY SearchTypes
<1>2. /\ pc = "visit" /\ stack # <<>>
      /\ next[Top] > Len(deps[Top])
      /\ colour' = [colour EXCEPT ![Top] = 2]
      /\ finish' = [finish EXCEPT ![Top] = Cardinality(Finished) + 1]
      /\ stack' = rest
      /\ next' = IF rest = <<>> THEN next ELSE [next EXCEPT ![rest[Len(rest)]] = @ + 1]
      /\ UNCHANGED <<pc, at, index, deps, roots, error>>
  BY DEF VisitReturn, Resume
<1>3. PICK t \in Resources : t = Top
  BY <1>2, TopFacts DEF IInv
<1>4. m \in 1..m /\ stack[m] = t
  BY <1>1, <1>2, <1>3 DEF Top
<1>5. /\ rest \in Seq(Resources) /\ Len(rest) = m - 1 /\ DOMAIN rest = 1..(m - 1)
      /\ \A k \in 1..(m - 1) : rest[k] = stack[k]
  BY <1>1, <1>4
<1> HIDE DEF rest
<1>6. \A k \in 1..(m - 1) : /\ k \in 1..m /\ stack[k] \in Resources /\ stack[k] # t
                            /\ colour[stack[k]] = 1
  <2>1. ASSUME NEW k \in 1..(m - 1)
        PROVE  k \in 1..m /\ stack[k] \in Resources /\ stack[k] # t /\ colour[stack[k]] = 1
    <3>1. k \in 1..m /\ k # m
      <4>1. m \in Nat
        BY <1>1
      <4> HIDE DEF m
      <4> QED
        BY <4>1
    <3> QED
      BY <1>1, <1>4, <3>1 DEF IInv, StackIsGrey
  <2> QED
    BY <2>1
<1>7. colour[t] = 1
  BY <1>1, <1>4 DEF IInv, StackIsGrey
<1>8. \A q \in Resources : /\ colour'[q] = IF q = t THEN 2 ELSE colour[q]
                           /\ finish'[q] = IF q = t THEN Cardinality(Finished) + 1 ELSE finish[q]
  BY <1>1, <1>2, <1>3
<1>9. /\ next' \in [Resources -> Nat]
      /\ \A k \in 1..(m - 1) : k # m - 1 => next'[stack[k]] = next[stack[k]]
      /\ m # 1 => next'[stack[m - 1]] = next[stack[m - 1]] + 1
  <2>1. CASE m = 1
    <3>1. rest = <<>>
      BY <1>5, <2>1
    <3> QED
      BY <1>1, <1>2, <2>1, <3>1
  <2>2. CASE m # 1
    <3>1. m - 1 \in 1..(m - 1) /\ rest # <<>>
      BY <1>1, <1>4, <1>5, <2>2
    <3>2. PICK c \in Resources : c = stack[m - 1] /\ c = rest[Len(rest)]
      BY <1>5, <1>6, <3>1
    <3>3. next' = [next EXCEPT ![c] = @ + 1]
      BY <1>2, <3>1, <3>2
    <3>4. \A q \in Resources : next'[q] = IF q = c THEN next[q] + 1 ELSE next[q]
      BY <1>1, <3>3
    <3>5. next' \in [Resources -> Nat]
      BY <1>1, <3>3
    <3>6. ASSUME NEW k \in 1..(m - 1), k # m - 1 PROVE stack[k] # c
      <4>1. k \in DOMAIN stack /\ m - 1 \in DOMAIN stack
        BY <1>1, <1>6, <3>1
      <4> QED
        BY <3>2, <3>6, <4>1 DEF IInv, StackIsGrey
    <3>7. next'[stack[m - 1]] = next[stack[m - 1]] + 1
      BY <3>2, <3>4
    <3> QED
      BY <1>6, <3>4, <3>5, <3>6, <3>7
  <2> QED
    BY <2>1, <2>2
<1>10. /\ Cardinality(Finished) \in 0..N
       /\ Cardinality(Finished \cup {t}) = Cardinality(Finished) + 1
       /\ Cardinality(Finished) + 1 <= N
       /\ Finished' = Finished \cup {t}
  <2>1. TypeOK /\ colour[t] # 2
    BY <1>7 DEF IInv
  <2>2. Finished' = Finished \cup {t}
    BY <1>8 DEF Finished
  <2> QED
    BY <2>1, <2>2, FinishedCount
<1>11. TypeOK'
  <2>1. colour' \in [Resources -> {0, 1, 2}]
    BY <1>1, <1>2
  <2>2. finish' \in [Resources -> 0..N]
    <3>1. Cardinality(Finished) + 1 \in 0..N
      BY <1>10, NAssumption
    <3> QED
      BY <1>1, <1>2, <3>1
  <2> QED
    BY <1>2, <1>5, <1>9, <2>1, <2>2 DEF IInv, TypeOK
<1>12. Phases'
  BY <1>2 DEF IInv, Phases
<1>13. StackIsGrey'
  <2>1. \A k \in DOMAIN rest : colour'[rest[k]] = 1
    BY <1>5, <1>6, <1>8
  <2>2. ASSUME NEW q \in Resources, colour'[q] = 1 PROVE \E k \in DOMAIN rest : rest[k] = q
    <3>1. q # t /\ colour[q] = 1
      BY <1>8, <2>2
    <3>2. PICK k \in DOMAIN stack : stack[k] = q
      BY <3>1 DEF IInv, StackIsGrey
    <3>3. k \in 1..(m - 1)
      BY <1>1, <1>4, <3>1, <3>2
    <3> QED
      BY <1>5, <3>2, <3>3
  <2>3. \A j, k \in DOMAIN rest : rest[j] = rest[k] => j = k
    BY <1>1, <1>5, <1>6 DEF IInv, StackIsGrey
  <2> QED
    BY <1>2, <2>1, <2>2, <2>3 DEF StackIsGrey
<1>14. Calls'
  <2>1. ASSUME NEW k \in 1..(Len(rest) - 1)
        PROVE  /\ next'[rest[k]] \in DOMAIN deps[rest[k]]
               /\ deps[rest[k]][next'[rest[k]]] = rest[k + 1]
    <3>1. k \in 1..(m - 1) /\ k # m - 1 /\ k + 1 \in 1..(m - 1)
      <4>1. m \in Nat /\ Len(rest) = m - 1
        BY <1>1, <1>5
      <4> HIDE DEF m
      <4> QED
        BY <4>1
    <3>2. rest[k] = stack[k] /\ rest[k + 1] = stack[k + 1] /\ next'[stack[k]] = next[stack[k]]
      BY <1>5, <1>9, <3>1
    <3> QED
      BY <3>1, <3>2 DEF IInv, Calls
  <2> QED
    BY <1>2, <2>1 DEF Calls
<1>15. Explored'
  <2>1. ASSUME NEW k \in 1..(m - 1)
        PROVE  /\ next'[stack[k]] >= 1
               /\ \A i \in DOMAIN deps[stack[k]] :
                     i < next'[stack[k]] => colour'[deps[stack[k]][i]] = 2
    <3>1. /\ next[stack[k]] >= 1 /\ next[stack[k]] \in Nat
          /\ \A i \in DOMAIN deps[stack[k]] :
                i < next[stack[k]] => colour[deps[stack[k]][i]] = 2
      BY <1>1, <1>6 DEF IInv, Explored
    <3>2. \A i \in DOMAIN deps[stack[k]] : deps[stack[k]][i] \in Resources
      BY <1>6, SearchTypes
    <3>3. \A q \in Resources : colour[q] = 2 \/ q = t => colour'[q] = 2
      BY <1>8
    <3>4. CASE k # m - 1
      <4>1. next'[stack[k]] = next[stack[k]]
        BY <1>9, <3>4
      <4> QED
        BY <3>1, <3>2, <3>3, <4>1
    <3>5. CASE k = m - 1
      <4>1. next'[stack[k]] = next[stack[k]] + 1 /\ k + 1 = m
        <5>1. m \in Nat
          BY <1>1
        <5>2. m # 1 /\ k + 1 = m
          <6> HIDE DEF m
          <6> QED
            BY <3>5, <5>1
        <5> QED
          BY <1>9, <3>5, <5>2
      <4>2. deps[stack[k]][next[stack[k]]] = t
        BY <1>4, <4>1 DEF IInv, Calls
      <4>3. DOMAIN deps[stack[k]] \subseteq Nat
        <5>1. stack[k] \in Resources
          BY <1>6
        <5>2. DOMAIN deps[stack[k]] = 1..Len(deps[stack[k]]) /\ Len(deps[stack[k]]) \in Nat
          BY <5>1, SearchTypes
        <5> QED
          BY <5>2
      <4>4. \A i \in DOMAIN deps[stack[k]] :
               i < next'[stack[k]] => i < next[stack[k]] \/ i = next[stack[k]]
        BY <3>1, <4>1, <4>3
      <4> QED
        BY <3>1, <3>2, <3>3, <4>1, <4>2, <4>4
    <3> QED
      BY <3>4, <3>5
  <2>2. ASSUME NEW k \in DOMAIN rest
        PROVE  /\ next'[rest[k]] >= 1
               /\ \A i \in DOMAIN deps[rest[k]] :
                     i < next'[rest[k]] => colour'[deps[rest[k]][i]] = 2
    <3>1. k \in 1..(m - 1) /\ rest[k] = stack[k]
      BY <1>5
    <3> QED
      BY <2>1, <3>1
  <2>3. stack' = rest /\ deps' = deps
    BY <1>2
  <2> QED
    BY <2>2, <2>3 DEF Explored
<1>16. FinishedInv'
  <2>1. \A i \in DOMAIN deps[t] : deps[t][i] \in Resources /\ colour[deps[t][i]] = 2
    <3>1. DOMAIN deps[t] = 1..Len(deps[t]) /\ Len(deps[t]) \in Nat /\ next[t] \in Nat
      BY <1>1, SearchTypes
    <3>2. \A i \in DOMAIN deps[t] : i < next[t]
      BY <1>2, <1>3, <3>1
    <3>3. \A i \in DOMAIN deps[t] : i < next[t] => colour[deps[t][i]] = 2
      BY <1>1, <1>4 DEF IInv, Explored
    <3> QED
      BY <3>2, <3>3, SearchTypes
  <2>2. \A q \in Resources : colour[q] = 2 =>
           /\ q # t /\ 1 <= finish[q] /\ finish[q] <= Cardinality(Finished)
           /\ finish'[q] = finish[q] /\ finish[q] \in 0..N /\ colour'[q] = 2
    BY <1>1, <1>7, <1>8 DEF IInv, FinishedInv
  <2>3. Cardinality(Finished') = Cardinality(Finished) + 1
    BY <1>10
  <2>4. ASSUME NEW q \in Resources, colour'[q] = 2
        PROVE  /\ 1 <= finish'[q] /\ finish'[q] <= Cardinality(Finished')
               /\ \A i \in DOMAIN deps[q] :
                     colour'[deps[q][i]] = 2 /\ finish'[deps[q][i]] < finish'[q]
    <3>1. CASE q = t
      <4>1. finish'[q] = Cardinality(Finished) + 1
        BY <1>8, <3>1
      <4>2. \A i \in DOMAIN deps[q] :
               colour'[deps[q][i]] = 2 /\ finish'[deps[q][i]] < finish'[q]
        BY <1>10, <2>1, <2>2, <3>1, <4>1
      <4> QED
        BY <1>10, <2>3, <4>1, <4>2
    <3>2. CASE q # t
      <4>1. colour[q] = 2
        BY <1>8, <2>4, <3>2
      <4>2. \A i \in DOMAIN deps[q] :
               deps[q][i] \in Resources /\ colour[deps[q][i]] = 2 /\ finish[deps[q][i]] < finish[q]
        BY <4>1, SearchTypes DEF IInv, FinishedInv
      <4>3. \A i \in DOMAIN deps[q] :
               colour'[deps[q][i]] = 2 /\ finish'[deps[q][i]] < finish'[q]
        BY <2>2, <4>1, <4>2
      <4> QED
        BY <1>10, <2>2, <2>3, <4>1, <4>3
    <3> QED
      BY <3>1, <3>2
  <2> QED
    BY <1>2, <2>4 DEF FinishedInv
<1>17. RootsInv' /\ CycleIsReal'
  BY <1>2, <1>8 DEF IInv, RootsInv, CycleIsReal
<1> QED
  BY <1>11, <1>12, <1>13, <1>14, <1>15, <1>16, <1>17 DEF IInv

\* Every step keeps the invariant.
LEMMA NextInv == IInv /\ [Next]_vars => IInv'
<1> SUFFICES ASSUME IInv, [Next]_vars PROVE IInv'
  OBVIOUS
<1>1. CASE IndexResource
  BY <1>1, IndexResourceInv
<1>2. CASE ResolveDependency
  BY <1>2, ResolveDependencyInv
<1>3. CASE NextResource
  BY <1>3, NextResourceInv
<1>4. ASSUME NEW r \in Resources, VisitRoot(r) PROVE IInv'
  <2>1. /\ pc = "visit" /\ stack = <<>> /\ roots' = roots \ {r} /\ Visit(r)
        /\ UNCHANGED <<index, deps, finish>>
    BY <1>4 DEF VisitRoot
  <2>2. CASE colour[r] = 0
    BY <2>1, <2>2, EnterInv DEF Visit
  <2>3. CASE colour[r] = 1
    BY <2>1, <2>3, CycleInv DEF Visit
  <2>4. CASE colour[r] = 2
    BY <2>1, <2>4, AlreadyFinishedInv DEF Visit
  <2> QED
    BY <2>2, <2>3, <2>4 DEF IInv, TypeOK
<1>5. CASE VisitDependency
  <2> DEFINE r == deps[Top][next[Top]]
  <2>1. /\ pc = "visit" /\ stack # <<>> /\ roots' = roots /\ Visit(r)
        /\ next[Top] <= Len(deps[Top])
        /\ UNCHANGED <<index, deps, finish>>
    BY <1>5 DEF VisitDependency
  <2>2. Top \in Resources /\ Len(stack) \in DOMAIN stack /\ Top = stack[Len(stack)]
    BY <2>1, TopFacts DEF IInv
  <2>3. next[Top] \in DOMAIN deps[Top]
    <3>1. next[Top] >= 1
      BY <2>2 DEF IInv, Explored
    <3>2. next[Top] \in Nat /\ DOMAIN deps[Top] = 1..Len(deps[Top]) /\ Len(deps[Top]) \in Nat
      BY <2>2, SearchTypes
    <3> QED
      BY <2>1, <3>1, <3>2
  <2>4. r \in Resources
    BY <2>2, <2>3, SearchTypes
  <2> HIDE DEF r
  <2>5. r = deps[Top][next[Top]]
    BY DEF r
  <2>6. CASE colour[r] = 0
    BY <2>1, <2>3, <2>4, <2>5, <2>6, EnterInv DEF Visit
  <2>7. CASE colour[r] = 1
    BY <2>1, <2>3, <2>4, <2>5, <2>7, CycleInv DEF Visit
  <2>8. CASE colour[r] = 2
    BY <2>1, <2>3, <2>4, <2>5, <2>8, AlreadyFinishedInv DEF Visit
  <2> QED
    BY <2>4, <2>6, <2>7, <2>8 DEF IInv, TypeOK
<1>6. CASE VisitReturn
  BY <1>6, VisitReturnInv
<1>7. CASE Accept
  <2>1. /\ pc' = "done" /\ pc = "visit" /\ stack = <<>> /\ roots = {}
        /\ UNCHANGED <<at, index, deps, colour, next, stack, roots, finish, error>>
    BY <1>7 DEF Accept, graphVars
  <2>2. TypeOK' /\ Phases' /\ RootsInv' /\ CycleIsReal'
    BY <2>1 DEF IInv, TypeOK, Phases, RootsInv, CycleIsReal
  <2>3. Finished' = Finished
    BY <2>1 DEF Finished
  <2>4. StackIsGrey' /\ Calls' /\ Explored' /\ FinishedInv'
    BY <2>1, <2>3 DEF IInv, StackIsGrey, Calls, Explored, FinishedInv
  <2> QED
    BY <2>2, <2>4 DEF IInv
<1>8. CASE Returned \/ UNCHANGED vars
  <2>1. UNCHANGED <<pc, at, index, deps, colour, next, stack, roots, finish, error>>
    BY <1>8 DEF Returned, vars, graphVars
  <2>2. TypeOK' /\ Phases' /\ RootsInv' /\ CycleIsReal'
    BY <2>1 DEF IInv, TypeOK, Phases, RootsInv, CycleIsReal
  <2>3. Finished' = Finished
    BY <2>1 DEF Finished
  <2>4. StackIsGrey' /\ Calls' /\ Explored' /\ FinishedInv'
    BY <2>1, <2>3 DEF IInv, StackIsGrey, Calls, Explored, FinishedInv
  <2> QED
    BY <2>2, <2>4 DEF IInv
<1> QED
  BY <1>1, <1>2, <1>3, <1>4, <1>5, <1>6, <1>7, <1>8 DEF Next

\* The invariant holds throughout buildSchedule.
THEOREM Invariance == Spec => []IInv
  BY InitInv, NextInv, PTL DEF Spec

-----------------------------------------------------------------------------
(* What follows from it.                                                   *)

\* The variables of buildSchedule keep their types for every gossfile.
THEOREM TypeCorrect == Spec => []TypeOK
<1>1. IInv => TypeOK
  BY DEF IInv
<1> QED
  BY <1>1, Invariance, PTL

\* When nothing is left to visit, the order in which the visits finished ranks
\* every resource above its dependencies.
LEMMA AllFinished == IInv => AcceptedIsAcyclic
<1> SUFFICES ASSUME IInv, pc = "done", error = "none" PROVE Acyclic(deps)
  BY DEF AcceptedIsAcyclic, Accepted
<1>1. \A r \in Resources : colour[r] = 2
  <2>1. roots = {} /\ stack = <<>> /\ DOMAIN stack = {}
    BY DEF IInv, Phases
  <2>2. \A r \in Resources : colour[r] # 0
    BY <2>1 DEF IInv, RootsInv
  <2>3. \A r \in Resources : colour[r] # 1
    BY <2>1 DEF IInv, StackIsGrey
  <2> QED
    BY <2>2, <2>3 DEF IInv, TypeOK
<1>2. finish \in [Resources -> 0..N] /\ \A r \in Resources : 1 <= finish[r]
  BY <1>1 DEF IInv, TypeOK, FinishedInv
<1>3. finish \in [Resources -> Resources]
  BY <1>2, NAssumption DEF Resources
<1>4. \A r \in Resources : \A i \in DOMAIN deps[r] : finish[deps[r][i]] < finish[r]
  BY <1>1 DEF IInv, FinishedInv
<1> QED
  BY <1>3, <1>4 DEF Acyclic

\* detectDependencyCycles lets no cyclic schedule through, whatever the
\* gossfile and whatever order the range over byRef takes: what the scheduler
\* assumes of its schedules.
THEOREM AcceptedSchedulesAreAcyclic == Spec => []AcceptedIsAcyclic
  BY Invariance, AllFinished, PTL

\* A gossfile is never rejected for a cycle it does not have.
THEOREM ReportedCyclesAreReal == Spec => []CycleIsReal
<1>1. IInv => CycleIsReal
  BY DEF IInv
<1> QED
  BY <1>1, Invariance, PTL

-----------------------------------------------------------------------------
(* buildSchedule accepts exactly the gossfiles it should: the invariant of *)
(* the two loops before the search.                                        *)

\* How resolveDependencyRef reads an entry, over all resources at once, and the
\* gossfiles and lists that this makes.
ReadAs(dep, r) ==
    \/ Len(dep) = 1 /\ resources[r].key = dep
    \/ Len(dep) > 1 /\ ~HasEmptyPart(dep) /\ Ref(r) = dep

WellRead ==
    /\ \A r, q \in Resources : r # q => Ref(r) # Ref(q)
    /\ \A r \in Resources : \A i \in DOMAIN resources[r].dependsOn :
          \E q \in Resources : \A p \in Resources :
              ReadAs(resources[r].dependsOn[i], p) <=> p = q

AsRead ==
    [r \in Resources |->
        [i \in DOMAIN resources[r].dependsOn |->
            CHOOSE q \in Resources : ReadAs(resources[r].dependsOn[i], q)]]

\* A depends-on entry is read as this resource and for no other.
StandsOnlyFor(dep, q) == \A p \in Resources : ReadAs(dep, p) <=> p = q

\* The resources before the one the first loop is at are indexed, and their
\* references are distinct.
Indexed ==
    /\ pc = "index" => index = 1..(at - 1)
    /\ (pc \in {"resolve", "visit"} \/ (pc = "done" /\ error # "duplicate")) => index = Resources
    /\ \A r, q \in index : r # q => Ref(r) # Ref(q)

\* What has been resolved is what was meant, for all resources before the one the
\* second loop is at.
Resolved ==
    /\ pc = "index" => \A r \in Resources : Len(deps[r]) = 0
    /\ \A r \in Resources :
          /\ Len(deps[r]) <= Len(resources[r].dependsOn)
          /\ \A i \in 1..Len(deps[r]) : StandsOnlyFor(resources[r].dependsOn[i], deps[r][i])
    /\ pc = "resolve" => \A r \in Resources : r < at => Len(deps[r]) = Len(resources[r].dependsOn)
    /\ (pc = "visit" \/ (pc = "done" /\ error \in {"none", "cycle"})) =>
          \A r \in Resources : Len(deps[r]) = Len(resources[r].dependsOn)

\* Every other error is one.
RejectedRightly == error \in {"duplicate", "invalid", "not found", "ambiguous"} => ~WellRead

ResolutionInv == resources \in Inputs /\ Indexed /\ Resolved /\ RejectedRightly

\* What the errors of an entry mean.
LEMMA ResolutionErrors ==
    ASSUME NEW dep
    PROVE  /\ ResolutionError(dep) = "none" =>
                 /\ ~(Len(dep) > 1 /\ HasEmptyPart(dep)) /\ Matches(dep) # {}
                 /\ Len(dep) = 1 => \A r, q \in Matches(dep) : r = q
           /\ ResolutionError(dep) = "invalid" => Len(dep) > 1 /\ HasEmptyPart(dep)
           /\ ResolutionError(dep) = "not found" =>
                 ~(Len(dep) > 1 /\ HasEmptyPart(dep)) /\ Matches(dep) = {}
           /\ ResolutionError(dep) = "ambiguous" =>
                 Len(dep) = 1 /\ \E r, q \in Matches(dep) : r # q
           /\ ResolutionError(dep) \in {"none", "invalid", "not found", "ambiguous"}
BY DEF ResolutionError

\* With all resources indexed, an entry without an empty part matches what it
\* stands for.
LEMMA MatchesAreMeant ==
    ASSUME NEW dep \in Strings, index = Resources, ~(Len(dep) > 1 /\ HasEmptyPart(dep))
    PROVE  \A p \in Resources : p \in Matches(dep) <=> ReadAs(dep, p)
<1>1. Len(dep) \in Nat /\ Len(dep) # 0
  BY DEF Strings
<1>2. CASE Len(dep) > 1
  <2>1. Len(dep) # 1
    <3>1. \A n \in Nat : n > 1 => n # 1
      OBVIOUS
    <3> QED
      BY <1>1, <1>2, <3>1
  <2> QED
    BY <1>2, <2>1 DEF Matches, ReadAs
<1>3. CASE Len(dep) = 1
  <2>1. ~(Len(dep) > 1)
    BY <1>3
  <2> QED
    BY <1>3, <2>1 DEF Matches, ReadAs
<1>4. Len(dep) > 1 \/ Len(dep) = 1
  <2>1. \A n \in Nat : n # 0 => n > 1 \/ n = 1
    OBVIOUS
  <2> QED
    BY <1>1, <2>1, Zenon
<1> QED
  BY <1>2, <1>3, <1>4, Zenon

\* What a resource of a gossfile is.
LEMMA InputTypes ==
    ASSUME resources \in Inputs, NEW r \in Resources
    PROVE  /\ resources[r].dependsOn \in Seq(Strings)
           /\ Len(resources[r].dependsOn) \in Nat
           /\ DOMAIN resources[r].dependsOn = 1..Len(resources[r].dependsOn)
           /\ \A i \in 1..Len(resources[r].dependsOn) : resources[r].dependsOn[i] \in Strings
<1>1. resources[r].dependsOn \in Seq(Strings)
  BY InputsAssumption
<1> QED
  BY <1>1

\* Nothing is indexed or resolved at first.
LEMMA ResolutionInitial == Init => ResolutionInv
<1> SUFFICES ASSUME Init PROVE ResolutionInv
  OBVIOUS
<1>1. /\ resources \in Inputs /\ pc = "index" /\ index = {} /\ at = 1 /\ error = "none"
      /\ \A r \in Resources : deps[r] = <<>> /\ Len(deps[r]) = 0
  BY DEF Init
<1>2. Indexed
  BY <1>1 DEF Indexed
<1>3. Resolved
  BY <1>1, InputTypes DEF Resolved
<1> QED
  BY <1>1, <1>2, <1>3 DEF ResolutionInv, RejectedRightly

\* One round of the loop that fills the index.
LEMMA IndexResourceResolution ==
    ASSUME IInv, ResolutionInv, IndexResource PROVE ResolutionInv'
<1>1. /\ pc = "index" /\ at \in 1..N /\ index = 1..(at - 1) /\ Resources = 1..N
      /\ \A r, q \in index : r # q => Ref(r) # Ref(q)
      /\ error = "none" /\ UNCHANGED <<resources, deps>>
  BY DEF IInv, TypeOK, Phases, ResolutionInv, Indexed, IndexResource, Resources
<1>2. \A r : Ref(r)' = Ref(r)
  BY <1>1 DEF Ref
<1>3. CASE \E r \in index : Ref(r) = Ref(at)
  <2>1. pc' = "done" /\ error' = "duplicate" /\ index' = index
    BY <1>3 DEF IndexResource, Fail
  <2>2. Indexed'
    BY <1>1, <1>2, <2>1 DEF Indexed
  <2>3. Resolved'
    BY <1>1, <2>1 DEF ResolutionInv, Resolved, StandsOnlyFor, ReadAs, Ref
  <2>4. ~WellRead'
    <3>1. PICK r \in index : Ref(r) = Ref(at)
      BY <1>3
    <3>2. r \in Resources /\ at \in Resources /\ r # at
      BY <1>1, NAssumption
    <3> QED
      BY <1>2, <3>1, <3>2 DEF WellRead
  <2> QED
    BY <1>1, <2>2, <2>3, <2>4 DEF ResolutionInv, RejectedRightly
<1>4. CASE ~\E r \in index : Ref(r) = Ref(at)
  <2>1. /\ index' = index \cup {at} /\ error' = error
        /\ at' = IF at = N THEN 1 ELSE at + 1
        /\ pc' = IF at = N THEN "resolve" ELSE "index"
    BY <1>4 DEF IndexResource
  <2>2. index \cup {at} = 1..at
    BY <1>1, NAssumption
  <2>3. Indexed'
    <3>1. \A r, q \in index' : r # q => Ref(r)' # Ref(q)'
      BY <1>1, <1>2, <1>4, <2>1
    <3>2. CASE at = N
      BY <1>1, <2>1, <2>2, <3>1, <3>2 DEF Indexed
    <3>3. CASE at # N
      <4>1. (at + 1) - 1 = at
        BY <1>1, NAssumption
      <4> QED
        BY <1>1, <2>1, <2>2, <3>1, <3>3, <4>1 DEF Indexed
    <3> QED
      BY <3>2, <3>3
  <2>4. Resolved'
    <3>1. pc' = "resolve" => at' = 1
      BY <2>1
    <3>2. \A r \in Resources : ~(r < 1)
      BY NAssumption DEF Resources
    <3>3. pc' \in {"index", "resolve"}
      BY <2>1
    <3> QED
      BY <1>1, <2>1, <3>1, <3>2, <3>3 DEF ResolutionInv, Resolved, StandsOnlyFor, ReadAs, Ref
  <2> QED
    BY <1>1, <2>1, <2>3, <2>4 DEF ResolutionInv, RejectedRightly
<1> QED
  BY <1>3, <1>4

\* What an entry stands for depends on the gossfile alone.
LEMMA MeaningUnchanged ==
    ASSUME UNCHANGED resources
    PROVE  /\ \A r : Ref(r)' = Ref(r)
           /\ \A dep, q : StandsOnlyFor(dep, q)' <=> StandsOnlyFor(dep, q)
           /\ WellRead' <=> WellRead
BY DEF Ref, StandsOnlyFor, ReadAs, WellRead

\* With all resources indexed under distinct references, an entry that resolves
\* stands only for what it resolves to.
LEMMA ResolvedIsMeant ==
    ASSUME index = Resources, \A r, q \in index : r # q => Ref(r) # Ref(q),
           NEW dep \in Strings, ResolutionError(dep) = "none"
    PROVE  StandsOnlyFor(dep, CHOOSE r \in Matches(dep) : TRUE)
<1> DEFINE x == CHOOSE r \in Matches(dep) : TRUE
<1>1. /\ ~(Len(dep) > 1 /\ HasEmptyPart(dep)) /\ Matches(dep) # {}
      /\ Len(dep) = 1 => \A r, q \in Matches(dep) : r = q
  BY ResolutionErrors
<1>2. x \in Matches(dep)
  BY <1>1
<1>3. \A r, q \in Matches(dep) : r = q
  <2>1. Len(dep) \in Nat /\ Len(dep) # 0
    BY DEF Strings
  <2>2. CASE Len(dep) > 1
    <3>1. \A r \in Matches(dep) : r \in index /\ Ref(r) = dep
      BY <2>2 DEF Matches
    <3> QED
      BY <3>1
  <2>3. \A n \in Nat : n # 0 => n > 1 \/ n = 1
    OBVIOUS
  <2> QED
    BY <1>1, <2>1, <2>2, <2>3
<1>4. Matches(dep) \subseteq Resources
  BY DEF Matches
<1>5. \A p \in Resources : p \in Matches(dep) <=> ReadAs(dep, p)
  BY <1>1, MatchesAreMeant
<1> HIDE DEF x
<1>6. \A p \in Resources : ReadAs(dep, p) <=> p = x
  BY <1>2, <1>3, <1>4, <1>5
<1> QED
  BY <1>6 DEF StandsOnlyFor, x

\* With all resources indexed, an entry that does not resolve stands for none or
\* for several resources.
LEMMA UnresolvedIsWrong ==
    ASSUME index = Resources, NEW dep \in Strings, ResolutionError(dep) # "none",
           NEW q \in Resources, StandsOnlyFor(dep, q)
    PROVE  FALSE
<1>1. ReadAs(dep, q) /\ \A p \in Resources : ReadAs(dep, p) => p = q
  BY DEF StandsOnlyFor
<1>2. CASE ResolutionError(dep) = "invalid"
  <2>1. Len(dep) > 1 /\ HasEmptyPart(dep)
    BY <1>2, ResolutionErrors
  <2>2. Len(dep) # 1
    <3>1. Len(dep) \in Nat
      BY DEF Strings
    <3>2. \A n \in Nat : n > 1 => n # 1
      OBVIOUS
    <3> QED
      BY <2>1, <3>1, <3>2
  <2> QED
    BY <1>1, <2>1, <2>2 DEF ReadAs
<1>3. CASE ResolutionError(dep) = "not found"
  BY <1>1, <1>3, ResolutionErrors, MatchesAreMeant
<1>4. CASE ResolutionError(dep) = "ambiguous"
  <2>1. PICK r, p \in Matches(dep) : r # p
    BY <1>4, ResolutionErrors
  <2>2. Len(dep) = 1 /\ ~(Len(dep) > 1 /\ HasEmptyPart(dep))
    <3>1. Len(dep) = 1
      BY <1>4, ResolutionErrors
    <3>2. ~(Len(dep) > 1)
      BY <3>1
    <3> QED
      BY <3>1, <3>2
  <2>3. r \in Resources /\ p \in Resources
    BY DEF Matches
  <2>4. ReadAs(dep, r) /\ ReadAs(dep, p)
    BY <2>2, <2>3, MatchesAreMeant
  <2> QED
    BY <1>1, <2>1, <2>3, <2>4
<1> QED
  BY <1>2, <1>3, <1>4, ResolutionErrors

\* One entry of the second loop.
LEMMA ResolveDependencyResolution ==
    ASSUME IInv, ResolutionInv, ResolveDependency PROVE ResolutionInv'
<1> DEFINE n == Len(deps[at]) + 1
           dep == resources[at].dependsOn[n]
           x == CHOOSE r \in Matches(dep) : TRUE
<1>1. /\ pc = "resolve" /\ index = Resources /\ at \in Resources
      /\ \A r, q \in index : r # q => Ref(r) # Ref(q)
      /\ error = "none" /\ UNCHANGED <<resources, index, at>>
      /\ Len(deps[at]) < Len(resources[at].dependsOn)
      /\ resources \in Inputs
  BY DEF IInv, TypeOK, Phases, ResolutionInv, Indexed, ResolveDependency, Fail
<1>2. deps \in [Resources -> Seq(Resources)]
  BY DEF IInv, TypeOK
<1>3. deps[at] \in Seq(Resources) /\ Len(deps[at]) \in Nat
  BY <1>1, <1>2
<1>4. Len(resources[at].dependsOn) \in Nat
  BY <1>1, InputTypes
<1>5. n \in 1..Len(resources[at].dependsOn)
  BY <1>1, <1>3, <1>4
<1>6. dep \in Strings
  BY <1>1, <1>5, InputTypes
<1>7. CASE ResolutionError(dep) # "none"
  <2>1. pc' = "done" /\ error' = ResolutionError(dep) /\ deps' = deps
    BY <1>7 DEF ResolveDependency, Fail
  <2>2. error' \in {"invalid", "not found", "ambiguous"}
    BY <1>7, <2>1, ResolutionErrors
  <2>3. Indexed'
    <3>1. \A r, q \in index' : r # q => Ref(r)' # Ref(q)'
      BY <1>1, MeaningUnchanged
    <3>2. index' = Resources /\ pc' # "index"
      BY <1>1, <2>1
    <3> QED
      BY <3>1, <3>2 DEF Indexed
  <2>4. Resolved'
    BY <1>1, <2>1, <2>2, MeaningUnchanged DEF ResolutionInv, Resolved
  <2>5. ~WellRead
    <3> SUFFICES ASSUME WellRead PROVE FALSE
      OBVIOUS
    <3>1. n \in DOMAIN resources[at].dependsOn
      BY <1>1, <1>5, InputTypes
    <3>2. PICK q \in Resources : StandsOnlyFor(dep, q)
      BY <1>1, <3>1 DEF WellRead, StandsOnlyFor
    <3> QED
      BY <1>1, <1>6, <1>7, <3>2, UnresolvedIsWrong
  <2> QED
    BY <1>1, <2>3, <2>4, <2>5, MeaningUnchanged DEF ResolutionInv, RejectedRightly
<1>8. CASE ResolutionError(dep) = "none"
  <2>1. pc' = pc /\ error' = error /\ deps' = [deps EXCEPT ![at] = Append(deps[at], x)]
    BY <1>8 DEF ResolveDependency
  <2>2. Indexed'
    BY <1>1, <2>1, MeaningUnchanged DEF Indexed
  <2>3. StandsOnlyFor(dep, x)
    BY <1>1, <1>6, <1>8, ResolvedIsMeant
  <2>4. x \in Resources
    <3>1. Matches(dep) # {} /\ Matches(dep) \subseteq Resources
      BY <1>1, <1>8, ResolutionErrors DEF Matches
    <3> QED
      BY <3>1
  <2> HIDE DEF x, dep
  <2>5. /\ deps'[at] = Append(deps[at], x) /\ Len(deps'[at]) = Len(deps[at]) + 1
        /\ deps'[at][n] = x
        /\ \A i \in 1..Len(deps[at]) : deps'[at][i] = deps[at][i]
    BY <1>1, <1>2, <1>3, <2>1, <2>4
  <2>6. \A r \in Resources : r # at => deps'[r] = deps[r]
    BY <1>2, <2>1
  <2>7. \A i \in 1..Len(deps'[at]) : StandsOnlyFor(resources[at].dependsOn[i], deps'[at][i])
    <3> SUFFICES ASSUME NEW i \in 1..Len(deps'[at])
                 PROVE  StandsOnlyFor(resources[at].dependsOn[i], deps'[at][i])
      OBVIOUS
    <3>1. i = n \/ i \in 1..Len(deps[at])
      BY <1>3, <2>5
    <3>2. CASE i = n
      BY <2>3, <2>5, <3>2 DEF dep
    <3>3. CASE i \in 1..Len(deps[at])
      BY <1>1, <2>5, <3>3 DEF ResolutionInv, Resolved
    <3> QED
      BY <3>1, <3>2, <3>3
  <2>8. Resolved'
    <3>1. Len(deps'[at]) <= Len(resources[at].dependsOn)
      BY <1>1, <1>3, <1>4, <2>5
    <3>2. \A r \in Resources : r < at => r # at
      BY NAssumption DEF Resources
    <3>3. \A r \in Resources :
             /\ Len(deps'[r]) <= Len(resources[r].dependsOn)
             /\ \A i \in 1..Len(deps'[r]) : StandsOnlyFor(resources[r].dependsOn[i], deps'[r][i])
      BY <2>6, <2>7, <3>1 DEF ResolutionInv, Resolved
    <3>4. \A r \in Resources : r < at => Len(deps'[r]) = Len(resources[r].dependsOn)
      BY <1>1, <2>6, <3>2 DEF ResolutionInv, Resolved
    <3> QED
      BY <1>1, <2>1, <3>3, <3>4, MeaningUnchanged DEF Resolved
  <2> QED
    BY <1>1, <2>1, <2>2, <2>8 DEF ResolutionInv, RejectedRightly
<1> QED
  BY <1>7, <1>8

\* The second loop goes on to the next resource, or to the search.
LEMMA NextResourceResolution ==
    ASSUME IInv, ResolutionInv, NextResource PROVE ResolutionInv'
<1>1. /\ pc = "resolve" /\ index = Resources /\ at \in 1..N /\ error = "none"
      /\ Len(deps[at]) = Len(resources[at].dependsOn)
      /\ at' = IF at = N THEN at ELSE at + 1
      /\ pc' = IF at = N THEN "visit" ELSE "resolve"
      /\ UNCHANGED <<resources, index, deps, error>>
  BY DEF IInv, TypeOK, Phases, ResolutionInv, Indexed, NextResource, Resources
<1>2. Indexed'
  BY <1>1, MeaningUnchanged DEF ResolutionInv, Indexed
<1>3. Resolved'
  <2>1. \A r \in Resources : r < at \/ r = at => Len(deps[r]) = Len(resources[r].dependsOn)
    BY <1>1 DEF ResolutionInv, Resolved
  <2>2. /\ \A r \in Resources : r < at + 1 => r < at \/ r = at
        /\ at = N => \A r \in Resources : r < at \/ r = at
    BY <1>1, NAssumption DEF Resources
  <2>3. CASE at = N
    BY <1>1, <2>1, <2>2, <2>3, MeaningUnchanged DEF ResolutionInv, Resolved
  <2>4. CASE at # N
    BY <1>1, <2>1, <2>2, <2>4, MeaningUnchanged DEF ResolutionInv, Resolved
  <2> QED
    BY <2>3, <2>4
<1> QED
  BY <1>1, <1>2, <1>3 DEF ResolutionInv, RejectedRightly

\* The search leaves the index and the lists alone; its only error is a cycle.
LEMMA SearchResolution ==
    ASSUME IInv, ResolutionInv, pc = "visit", UNCHANGED <<resources, index, deps>>,
           pc' \in {"visit", "done"}, error' \in {"none", "cycle"}
    PROVE  ResolutionInv'
<1>1. Indexed'
  BY MeaningUnchanged DEF ResolutionInv, Indexed
<1>2. Resolved'
  BY MeaningUnchanged DEF ResolutionInv, Resolved
<1> QED
  BY <1>1, <1>2 DEF ResolutionInv, RejectedRightly

\* Every step keeps the invariant of the two loops.
LEMMA ResolutionInductive == IInv /\ ResolutionInv /\ [Next]_vars => ResolutionInv'
<1> SUFFICES ASSUME IInv, ResolutionInv, [Next]_vars PROVE ResolutionInv'
  OBVIOUS
<1>1. CASE IndexResource
  BY <1>1, IndexResourceResolution
<1>2. CASE ResolveDependency
  BY <1>2, ResolveDependencyResolution
<1>3. CASE NextResource
  BY <1>3, NextResourceResolution
<1>4. ASSUME NEW r, Visit(r), pc = "visit" PROVE pc' \in {"visit", "done"} /\ error' \in {"none", "cycle"}
  <2>1. error = "none"
    BY <1>4 DEF IInv, Phases
  <2> QED
    BY <1>4, <2>1 DEF Visit, Fail
<1>5. ASSUME NEW r \in Resources, VisitRoot(r) PROVE ResolutionInv'
  BY <1>4, <1>5, SearchResolution DEF VisitRoot
<1>6. CASE VisitDependency
  BY <1>4, <1>6, SearchResolution DEF VisitDependency
<1>7. CASE VisitReturn \/ Accept
  <2>1. pc = "visit" /\ pc' \in {"visit", "done"} /\ UNCHANGED <<resources, index, deps, error>>
    BY <1>7 DEF VisitReturn, Accept
  <2>2. error = "none"
    BY <2>1 DEF IInv, Phases
  <2> QED
    BY <2>1, <2>2, SearchResolution
<1>8. CASE UNCHANGED vars
  <2>1. UNCHANGED <<resources, pc, at, index, deps, error>>
    BY <1>8 DEF vars
  <2>2. Indexed'
    BY <2>1, MeaningUnchanged DEF ResolutionInv, Indexed
  <2>3. Resolved'
    BY <2>1, MeaningUnchanged DEF ResolutionInv, Resolved
  <2> QED
    BY <2>1, <2>2, <2>3, MeaningUnchanged DEF ResolutionInv, RejectedRightly
<1> QED
  BY <1>1, <1>2, <1>3, <1>5, <1>6, <1>7, <1>8 DEF Next, Returned

\* Once the second loop is over, the lists are those that were meant.
LEMMA ListsAreMeant ==
    ASSUME IInv, ResolutionInv, pc = "done", error \in {"none", "cycle"}
    PROVE  WellRead /\ deps = AsRead
<1>1. /\ resources \in Inputs /\ index = Resources
      /\ \A r, q \in Resources : r # q => Ref(r) # Ref(q)
      /\ \A r \in Resources :
            /\ Len(deps[r]) = Len(resources[r].dependsOn)
            /\ \A i \in 1..Len(deps[r]) : StandsOnlyFor(resources[r].dependsOn[i], deps[r][i])
  BY DEF ResolutionInv, Indexed, Resolved
<1>2. deps \in [Resources -> Seq(Resources)]
  BY DEF IInv, TypeOK
<1>3. \A r \in Resources : /\ DOMAIN resources[r].dependsOn = 1..Len(deps[r])
                           /\ DOMAIN deps[r] = 1..Len(deps[r])
                           /\ \A i \in 1..Len(deps[r]) : deps[r][i] \in Resources
  <2> SUFFICES ASSUME NEW r \in Resources
               PROVE  /\ DOMAIN resources[r].dependsOn = 1..Len(deps[r])
                      /\ DOMAIN deps[r] = 1..Len(deps[r])
                      /\ \A i \in 1..Len(deps[r]) : deps[r][i] \in Resources
    OBVIOUS
  <2>1. deps[r] \in Seq(Resources)
    BY <1>2
  <2> QED
    BY <1>1, <2>1, InputTypes
<1>4. WellRead
  <2>1. ASSUME NEW r \in Resources, NEW i \in DOMAIN resources[r].dependsOn
        PROVE  \E q \in Resources : \A p \in Resources :
                   ReadAs(resources[r].dependsOn[i], p) <=> p = q
    <3>1. i \in 1..Len(deps[r])
      BY <1>3
    <3>2. deps[r][i] \in Resources /\ StandsOnlyFor(resources[r].dependsOn[i], deps[r][i])
      BY <1>1, <1>3, <3>1
    <3> QED
      BY <3>2 DEF StandsOnlyFor
  <2> QED
    BY <1>1, <2>1 DEF WellRead
<1>5. \A r \in Resources : \A i \in 1..Len(deps[r]) :
         deps[r][i] = CHOOSE q \in Resources : ReadAs(resources[r].dependsOn[i], q)
  BY <1>1, <1>3 DEF StandsOnlyFor
<1>6. \A r \in Resources : deps[r] = AsRead[r]
  <2> SUFFICES ASSUME NEW r \in Resources PROVE deps[r] = AsRead[r]
    OBVIOUS
  <2>1. AsRead[r] = [i \in 1..Len(deps[r]) |->
                       CHOOSE q \in Resources : ReadAs(resources[r].dependsOn[i], q)]
    BY <1>3 DEF AsRead
  <2>2. deps[r] = [i \in 1..Len(deps[r]) |-> deps[r][i]]
    <3>1. deps[r] \in Seq(Resources)
      BY <1>2
    <3> QED
      BY <3>1
  <2> QED
    BY <1>5, <2>1, <2>2
<1>7. deps = AsRead
  BY <1>2, <1>6 DEF AsRead
<1> QED
  BY <1>4, <1>7

\* An entry is read as a resource it stands for.
LEMMA ReadIsMeant ==
    ASSUME NEW dep, NEW r, ReadAs(dep, r)
    PROVE  StandsFor(dep, r)
BY DEF ReadAs, StandsFor

\* An entry that is not misread is read as all it stands for: a reference has a
\* colon.
LEMMA MeantIsRead ==
    ASSUME NEW dep \in Strings, resources \in Inputs, ~Misread(dep), NEW r \in Resources
    PROVE  StandsFor(dep, r) <=> ReadAs(dep, r)
<1>1. resources[r].key \in Strings /\ resources[r].type \in STRING
  BY InputsAssumption
<1>2. Len(dep) \in Nat /\ Len(dep) # 0
  BY DEF Strings
<1>3. Len(Ref(r)) > 1
  <2>1. resources[r].key \in Seq(STRING) /\ resources[r].key # <<>>
    BY <1>1 DEF Strings
  <2>2. Len(resources[r].key) \in Nat /\ Len(resources[r].key) # 0
    BY <2>1
  <2>3. Len(Ref(r)) = 1 + Len(resources[r].key)
    BY <1>1, <2>1 DEF Ref
  <2> QED
    BY <2>2, <2>3
<1>4. CASE Len(dep) = 1
  <2>1. ~(Len(dep) > 1)
    BY <1>4
  <2>2. Ref(r) # dep
    BY <1>3, <2>1, Zenon
  <2> QED
    BY <1>4, <2>1, <2>2 DEF StandsFor, ReadAs
<1>5. CASE Len(dep) > 1
  <2>1. resources[r].key # dep
    BY <1>5 DEF Misread
  <2>2. Ref(r) = dep => ~HasEmptyPart(dep)
    BY <1>5 DEF Misread
  <2> QED
    BY <1>5, <2>1, <2>2 DEF StandsFor, ReadAs
<1>6. Len(dep) > 1 \/ Len(dep) = 1
  <2>1. \A n \in Nat : n # 0 => n > 1 \/ n = 1
    OBVIOUS
  <2> QED
    BY <1>2, <2>1, Zenon
<1> QED
  BY <1>4, <1>5, <1>6, Zenon

\* Without a misread entry, what is read is what was meant.
LEMMA AllReadIsMeant ==
    ASSUME resources \in Inputs, AllRead
    PROVE  (WellFormed <=> WellRead) /\ (WellRead => Meant = AsRead)
<1>1. ASSUME NEW r \in Resources, NEW i \in DOMAIN resources[r].dependsOn, NEW p \in Resources
      PROVE  StandsFor(resources[r].dependsOn[i], p) <=> ReadAs(resources[r].dependsOn[i], p)
  <2>1. resources[r].dependsOn[i] \in Strings
    BY InputTypes
  <2>2. ~Misread(resources[r].dependsOn[i])
    BY DEF AllRead
  <2> QED
    BY <2>1, <2>2, MeantIsRead
<1>2. WellFormed <=> WellRead
  BY <1>1 DEF WellFormed, WellRead
<1>3. ASSUME WellRead, NEW r \in Resources, NEW i \in DOMAIN resources[r].dependsOn
      PROVE  (CHOOSE q \in Resources : StandsFor(resources[r].dependsOn[i], q)) =
             (CHOOSE q \in Resources : ReadAs(resources[r].dependsOn[i], q))
  <2>1. PICK q \in Resources : \A p \in Resources : ReadAs(resources[r].dependsOn[i], p) <=> p = q
    BY <1>3 DEF WellRead
  <2>2. \A p \in Resources : StandsFor(resources[r].dependsOn[i], p) <=> p = q
    BY <1>1, <2>1
  <2> QED
    BY <2>1, <2>2
<1>4. ASSUME WellRead PROVE Meant = AsRead
  <2>1. ASSUME NEW r \in Resources PROVE Meant[r] = AsRead[r]
    BY <1>3, <1>4 DEF Meant, AsRead
  <2> QED
    BY <2>1 DEF Meant, AsRead
<1> QED
  BY <1>2, <1>4

\* The loops and the search together.
LEMMA ExactlyAccepted == IInv /\ ResolutionInv => AcceptsExactly
<1> SUFFICES ASSUME IInv, ResolutionInv, pc = "done"
             PROVE  /\ AllRead => (error = "none" <=> (WellFormed /\ Acyclic(Meant)))
                    /\ (AllRead /\ error = "none") => deps = Meant
                    /\ error = "none" =>
                           \A r \in Resources :
                               /\ Len(deps[r]) = Len(resources[r].dependsOn)
                               /\ \A i \in 1..Len(deps[r]) : StandsFor(resources[r].dependsOn[i], deps[r][i])
  BY DEF AcceptsExactly
<1>1. /\ error = "none" <=> (WellRead /\ Acyclic(AsRead))
      /\ error = "none" => deps = AsRead
  <2>1. CASE error = "none"
    BY <2>1, ListsAreMeant, AllFinished DEF AcceptedIsAcyclic, Accepted
  <2>2. CASE error = "cycle"
    BY <2>2, ListsAreMeant DEF IInv, CycleIsReal
  <2>3. CASE error \in {"duplicate", "invalid", "not found", "ambiguous"}
    BY <2>3 DEF ResolutionInv, RejectedRightly
  <2> QED
    BY <2>1, <2>2, <2>3 DEF IInv, TypeOK, Errors
<1>2. ASSUME AllRead
      PROVE  (WellFormed <=> WellRead) /\ (WellRead => Meant = AsRead)
  BY <1>2, AllReadIsMeant DEF ResolutionInv
<1>3. ASSUME error = "none", NEW r \in Resources
      PROVE  /\ Len(deps[r]) = Len(resources[r].dependsOn)
             /\ \A i \in 1..Len(deps[r]) : StandsFor(resources[r].dependsOn[i], deps[r][i])
  <2>1. /\ Len(deps[r]) = Len(resources[r].dependsOn)
        /\ \A i \in 1..Len(deps[r]) : StandsOnlyFor(resources[r].dependsOn[i], deps[r][i])
    BY <1>3 DEF ResolutionInv, Resolved
  <2>2. \A i \in 1..Len(deps[r]) : deps[r][i] \in Resources
    <3>1. deps[r] \in Seq(Resources)
      BY DEF IInv, TypeOK
    <3> QED
      BY <3>1
  <2>3. \A i \in 1..Len(deps[r]) : ReadAs(resources[r].dependsOn[i], deps[r][i])
    BY <2>1, <2>2 DEF StandsOnlyFor
  <2> QED
    BY <2>1, <2>3, ReadIsMeant
<1> QED
  BY <1>1, <1>2, <1>3

\* buildSchedule accepts exactly the gossfiles whose references are distinct,
\* whose depends-on entries each stand for one resource and whose dependencies
\* have no cycle, and its schedule lists what was meant, unless an entry is a key
\* with a colon: for every gossfile and every order of the range over byRef.
THEOREM ScheduleAcceptsExactly == Spec => []AcceptsExactly
<1>1. Spec => []ResolutionInv
  BY ResolutionInitial, ResolutionInductive, Invariance, PTL DEF Spec
<1> QED
  BY <1>1, Invariance, ExactlyAccepted, PTL
=============================================================================
