---------------------------- MODULE BuildSchedule ----------------------------
(***************************************************************************)
(* buildSchedule (dependency_scheduler.go): the resources of the gossfile  *)
(* are indexed by reference, every depends-on entry is resolved to a       *)
(* reference, and a depth-first search looks for cycles.                   *)
(*                                                                         *)
(* A string is the sequence of its colon-separated segments: "nginx" is    *)
(* <<"nginx">>, "tcp:22" is <<"tcp", "22">> and ":22" is <<"", "22">>.     *)
(* Only the equality of strings and their first colon matter here.  The    *)
(* recursive closure visit is unrolled: stack holds the references whose   *)
(* activations have not returned, the running one last, and an activation  *)
(* of visit(r) keeps the dependency it is looking at in next[r].           *)
(***************************************************************************)
EXTENDS DependencyGraph, FiniteSets

CONSTANT Inputs       \* slices of N resources: [type, key, dependsOn]

Strings == Seq(STRING) \ {<<>>}   \* the segments of a string

ASSUME InputsAssumption ==
    Inputs \subseteq [Resources -> [type : STRING, key : Strings, dependsOn : Seq(Strings)]]

VARIABLES
    resources,        \* the argument
    pc,               \* "index", "resolve", "visit", "done"
    at,               \* resource the loop over resources is at
    index,            \* resources entered in index and refsByKey
    deps,             \* canonical dependencies resolved so far
    colour,           \* the map state: 0 unknown, 1 in progress, 2 finished
    next,             \* position of an activation in its dependency list
    stack,            \* activations of visit
    roots,            \* references "for ref := range byRef" has still to yield
    error,            \* "none", or why buildSchedule failed
    finish            \* history: rank in which visits finished, 0 if not yet

graphVars == <<colour, next, stack, roots, finish>>
vars == <<resources, pc, at, index, deps, graphVars, error>>

Ref(r) == <<resources[r].type>> \o resources[r].key

-----------------------------------------------------------------------------
(* Resolution of one depends-on entry.                                     *)

Errors == {"none", "duplicate", "invalid", "not found", "ambiguous", "cycle"}

\* strings.SplitN(dep, ":", 2) has an empty part.
HasEmptyPart(dep) == Head(dep) = "" \/ Tail(dep) = <<"">>

\* The resources a reference may stand for: with a colon it is a canonical
\* reference, otherwise a key.
Matches(dep) ==
    IF Len(dep) > 1
    THEN {r \in index : Ref(r) = dep}
    ELSE {r \in index : resources[r].key = dep}

\* Mutant: a key that several types have stands for one of them.
ResolutionError_AnyMatch(dep) ==
    IF Len(dep) > 1 /\ HasEmptyPart(dep) THEN "invalid"
    ELSE IF Matches(dep) = {} THEN "not found" ELSE "none"

ResolutionError(dep) ==
    CASE Len(dep) > 1 /\ HasEmptyPart(dep)                           -> "invalid"
      [] ~(Len(dep) > 1 /\ HasEmptyPart(dep)) /\ Matches(dep) = {}   -> "not found"
      [] Len(dep) = 1 /\ \E r, q \in Matches(dep) : r # q            -> "ambiguous"
      [] OTHER                                                       -> "none"

-----------------------------------------------------------------------------
Init ==
    /\ resources \in Inputs
    /\ pc = "index"
    /\ at = 1
    /\ index = {}
    /\ deps = [r \in Resources |-> <<>>]
    /\ colour = [r \in Resources |-> 0]
    /\ next = [r \in Resources |-> 1]
    /\ stack = <<>>
    /\ roots = Resources
    /\ error = "none"
    /\ finish = [r \in Resources |-> 0]

Fail(e) == pc' = "done" /\ error' = e /\ UNCHANGED at

\* One iteration of the loop that fills index and refsByKey.
IndexResource ==
    /\ pc = "index"
    /\ IF \E r \in index : Ref(r) = Ref(at)
       THEN Fail("duplicate") /\ UNCHANGED index
       ELSE /\ index' = index \cup {at}
            /\ at' = IF at = N THEN 1 ELSE at + 1
            /\ pc' = IF at = N THEN "resolve" ELSE "index"
            /\ UNCHANGED error
    /\ UNCHANGED <<resources, deps, graphVars>>

\* One depends-on entry of the resource the second loop is at.
ResolveDependency ==
    /\ pc = "resolve"
    /\ Len(deps[at]) < Len(resources[at].dependsOn)
    /\ LET dep == resources[at].dependsOn[Len(deps[at]) + 1]
           e   == ResolutionError(dep)
       IN  IF e # "none"
           THEN Fail(e) /\ UNCHANGED deps
           ELSE /\ deps' = [deps EXCEPT ![at] = Append(@, CHOOSE r \in Matches(dep) : TRUE)]
                /\ UNCHANGED <<pc, at, error>>
    /\ UNCHANGED <<resources, index, graphVars>>

\* All entries resolved: the resource is appended to the schedule.
NextResource ==
    /\ pc = "resolve"
    /\ Len(deps[at]) = Len(resources[at].dependsOn)
    /\ at' = IF at = N THEN at ELSE at + 1
    /\ pc' = IF at = N THEN "visit" ELSE "resolve"
    /\ UNCHANGED <<resources, index, deps, graphVars, error>>

-----------------------------------------------------------------------------
(* detectDependencyCycles.                                                 *)

Top == stack[Len(stack)]

\* Mutant: the loop of an activation does not move on.
Resume_SameDependency(rest) == stack' = rest /\ UNCHANGED next

\* The activations in "rest" go on: the loop of the last one takes its next
\* dependency, and without any it is the range over byRef that goes on.
Resume(rest) ==
    /\ stack' = rest
    /\ next' = IF rest = <<>> THEN next ELSE [next EXCEPT ![rest[Len(rest)]] = @ + 1]

\* Mutant: a reference in progress is passed over like a finished one.
Visit_NoCycleCheck(r) ==
    \/ /\ colour[r] = 0
       /\ colour' = [colour EXCEPT ![r] = 1]
       /\ stack' = Append(stack, r)
       /\ next' = [next EXCEPT ![r] = 1]
       /\ UNCHANGED <<pc, at, error>>
    \/ colour[r] # 0 /\ Resume(stack) /\ UNCHANGED <<pc, at, error, colour>>

\* visit(r), up to the start of its loop.
Visit(r) ==
    \/ /\ colour[r] = 0
       /\ colour' = [colour EXCEPT ![r] = 1]
       /\ stack' = Append(stack, r)
       /\ next' = [next EXCEPT ![r] = 1]
       /\ UNCHANGED <<pc, at, error>>
    \/ colour[r] = 1 /\ Fail("cycle") /\ UNCHANGED <<colour, next, stack>>
    \/ colour[r] = 2 /\ Resume(stack) /\ UNCHANGED <<pc, at, error, colour>>

\* The range over byRef yields its references in any order.
VisitRoot(r) ==
    /\ pc = "visit" /\ stack = <<>>
    /\ r \in roots
    /\ roots' = roots \ {r}
    /\ Visit(r)
    /\ UNCHANGED <<resources, index, deps, finish>>

\* One iteration of the loop over the dependencies of an activation.
VisitDependency ==
    /\ pc = "visit" /\ stack # <<>>
    /\ next[Top] <= Len(deps[Top])
    /\ Visit(deps[Top][next[Top]])
    /\ UNCHANGED <<resources, index, deps, roots, finish>>

Finished == {r \in Resources : colour[r] = 2}

\* Mutant: a finished reference stays in progress.
VisitReturn_Unmarked ==
    /\ pc = "visit" /\ stack # <<>>
    /\ next[Top] > Len(deps[Top])
    /\ Resume(SubSeq(stack, 1, Len(stack) - 1))
    /\ UNCHANGED <<resources, pc, at, index, deps, roots, error, colour, finish>>

\* state[ref] = 2 and return.
VisitReturn ==
    /\ pc = "visit" /\ stack # <<>>
    /\ next[Top] > Len(deps[Top])
    /\ colour' = [colour EXCEPT ![Top] = 2]
    /\ finish' = [finish EXCEPT ![Top] = Cardinality(Finished) + 1]
    /\ Resume(SubSeq(stack, 1, Len(stack) - 1))
    /\ UNCHANGED <<resources, pc, at, index, deps, roots, error>>

Accept ==
    /\ pc = "visit" /\ stack = <<>>
    /\ roots = {}
    /\ pc' = "done"
    /\ UNCHANGED <<resources, at, index, deps, graphVars, error>>

Returned == pc = "done" /\ UNCHANGED vars

Next ==
    \/ IndexResource
    \/ ResolveDependency
    \/ NextResource
    \/ \E r \in Resources : VisitRoot(r)
    \/ VisitDependency
    \/ VisitReturn
    \/ Accept
    \/ Returned

Spec == Init /\ [][Next]_vars

FairSpec == Spec /\ WF_vars(Next)

-----------------------------------------------------------------------------
(* Properties.                                                             *)

TypeOK ==
    /\ pc \in {"index", "resolve", "visit", "done"}
    /\ at \in Resources
    /\ index \subseteq Resources
    /\ deps \in [Resources -> Seq(Resources)]
    /\ colour \in [Resources -> {0, 1, 2}]
    /\ next \in [Resources -> Nat]
    /\ stack \in Seq(Resources)
    /\ roots \subseteq Resources
    /\ error \in Errors
    /\ finish \in [Resources -> 0..N]

Accepted == pc = "done" /\ error = "none"

\* The declarative counterpart, over all resources at once: a depends-on entry
\* is a key of the gossfile or type:key (docs/gossfile.md:1087).
StandsFor(dep, r) == resources[r].key = dep \/ Ref(r) = dep

\* An entry with a colon is only looked up as type:key, and not at all with
\* nothing before or after the colon.
Misread(dep) ==
    Len(dep) > 1 /\ \E r \in Resources : resources[r].key = dep \/ (HasEmptyPart(dep) /\ Ref(r) = dep)

AllRead == \A r \in Resources : \A i \in DOMAIN resources[r].dependsOn : ~Misread(resources[r].dependsOn[i])

WellFormed ==
    /\ \A r, q \in Resources : r # q => Ref(r) # Ref(q)
    /\ \A r \in Resources : \A i \in DOMAIN resources[r].dependsOn :
          \E q \in Resources : \A p \in Resources :
              StandsFor(resources[r].dependsOn[i], p) <=> p = q

Meant ==
    [r \in Resources |->
        [i \in DOMAIN resources[r].dependsOn |->
            CHOOSE q \in Resources : StandsFor(resources[r].dependsOn[i], q)]]

\* A gossfile without a key that holds a colon among its depends-on entries is
\* accepted exactly when its references are distinct, every depends-on entry
\* stands for one resource and the resulting graph has no cycle, whatever the
\* iteration order of byRef; and the schedule lists exactly the resources that
\* were meant.  With such a key the code may refuse what docs/gossfile.md:1087
\* allows ("References use the gossfile map key"), but an accepted schedule still
\* lists, entry by entry, a resource the entry stands for.
AcceptsExactly ==
    pc = "done" =>
        /\ AllRead => (error = "none" <=> (WellFormed /\ Acyclic(Meant)))
        /\ (AllRead /\ error = "none") => deps = Meant
        /\ error = "none" =>
               \A r \in Resources :
                   /\ Len(deps[r]) = Len(resources[r].dependsOn)
                   /\ \A i \in 1..Len(deps[r]) : StandsFor(resources[r].dependsOn[i], deps[r][i])

\* What an accepted schedule promises to the scheduler.
AcceptedIsAcyclic == Accepted => Acyclic(deps)

\* A reported cycle is one.
CycleIsReal == error = "cycle" => ~Acyclic(deps)

\* The depth-first search ends, cycles included.
Termination == <>(pc = "done")
=============================================================================
