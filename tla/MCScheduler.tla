----------------------------- MODULE MCScheduler -----------------------------
(* Every acyclic schedule of N resources whose dependency lists have at     *)
(* most two entries, without repetition, in any order, and are not all      *)
(* empty (hasDependencies).                                                 *)
EXTENDS Scheduler

MCLists == {<<>>} \cup {<<a>> : a \in Resources}
                  \cup {<<a, b>> : a \in Resources, b \in Resources}

MCSchedules ==
    {d \in [Resources -> {l \in MCLists : Len(l) = 2 => l[1] # l[2]}] :
        Acyclic(d) /\ \E r \in Resources : d[r] # <<>>}
=============================================================================
