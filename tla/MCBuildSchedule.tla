--------------------------- MODULE MCBuildSchedule ---------------------------
(* Three resources of two types whose keys may coincide, or hold a colon as *)
(* the keys of ports ("tcp:22") and URLs do, and every way of giving them   *)
(* dependency lists of at most two entries over the references of the       *)
(* layout and a few that are wrong.  At least one list is not empty:        *)
(* runValidation only builds a schedule when hasDependencies.               *)
EXTENDS BuildSchedule

A == <<"a">>
B == <<"b">>
Tcp22 == <<"tcp", "22">>

\* (type, key) of the three resources: all distinct, a key in two types, a
\* duplicate reference, a type named like the first segment of a key.
Layouts == {
    << <<"file", A>>, <<"file", B>>, <<"port", Tcp22>> >>,
    << <<"file", A>>, <<"port", A>>, <<"file", B>> >>,
    << <<"file", A>>, <<"file", B>>, <<"file", A>> >>,
    << <<"tcp", <<"22">> >>, <<"port", Tcp22>>, <<"file", A>> >> }

Names(layout) ==
    {layout[i][2] : i \in 1..3} \cup {<<layout[i][1]>> \o layout[i][2] : i \in 1..3}

Lists(names) == {<<>>} \cup {<<n>> : n \in names}
Pairs(names) == {<<m, n>> : m \in names, n \in names}

Wrong == {<<"">>, <<"", "a">>, <<"file", "">>, <<"file", "none">>}

MCInputs ==
    UNION {{[i \in 1..3 |-> [type |-> l[i][1], key |-> l[i][2], dependsOn |-> d[i]]] :
                d \in {e \in (Lists(Names(l) \cup Wrong) \cup Pairs(Names(l)))
                               \X Lists(Names(l)) \X Lists(Names(l)) :
                          \E k \in 1..3 : e[k] # <<>>}} :
           l \in Layouts}
=============================================================================
