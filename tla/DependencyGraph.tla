--------------------------- MODULE DependencyGraph ---------------------------
(***************************************************************************)
(* The vocabulary shared by buildSchedule, which produces canonical        *)
(* dependency lists, and by the scheduler, which runs them.  A resource is *)
(* its position in the slice of N resources.                               *)
(***************************************************************************)
EXTENDS Integers, Sequences

CONSTANT N            \* number of resources of the gossfile

ASSUME NAssumption == N \in Nat \ {0}

Resources == 1..N

\* One list of dependencies per resource; what can be ranked so that every
\* dependency ranks lower has no cycle.
Acyclic(d) ==
    \E rank \in [Resources -> Resources] :
        \A r \in Resources : \A i \in DOMAIN d[r] : rank[d[r][i]] < rank[r]
=============================================================================
