---------------------------- MODULE MCAlgorithms ----------------------------
EXTENDS Algorithms

SeqsUpTo2(S) == {<<>>} \cup {<<x>> : x \in S} \cup {<<x, y>> : x \in S, y \in S}

-----------------------------------------------------------------------------
(* Expectations: every simple matcher on its own; below the others a few   *)
(* that hold, do not hold, err and are not known.                          *)

Leaves == {Simple(m, s) : m \in Known \cup {"unknown"}, s \in {"yes", "no"}} \cup
          {Simple(m, "error") : m \in {"gt", "semver-constraint", "match-regexp", "have-patterns"}}
Few == {Simple("equal", "yes"), Simple("equal", "no"), Simple("gt", "yes")}
Faulty == {Simple("unknown", "yes"), EmptyMap}

PathsTo == {"number", "json", "object", "missing"}

Around(S, T) ==
    {Single(m, c) : m \in {"not", "contain-element", "have-key"}, c \in S} \cup
    {Several("and", <<c, d>>) : c \in S, d \in T} \cup {Several("or", <<c, d>>) : c \in T, d \in S} \cup
    {Several(m, <<c>>) : m \in ElementLists, c \in S} \cup
    {Several("list", <<c, d>>) : c \in S, d \in T} \cup
    {GjsonOf(<<Path(p, c)>>) : p \in PathsTo, c \in S} \cup
    {GjsonOf(<<Path(p, c), Path(q, d)>>) : p \in {"json", "missing"}, q \in {"number", "missing"}, c \in S, d \in T}

Depth1 == Around(Few \cup Faulty, Few) \cup {Several(m, <<>>) : m \in ElementLists \cup {"and", "or"}} \cup
          {GjsonOf(<<>>), Several("consist-of", <<Simple("gt", "yes"), Simple("equal", "yes")>>),
           Several("and", <<Simple("unknown", "yes"), EmptyMap>>)}
Depth2 == Around(Depth1, Few)
Depth3 == {Single("not", c) : c \in Depth2} \cup {GjsonOf(<<Path(p, c)>>) : p \in {"json", "missing"}, c \in Depth2}

MCExpectations == Leaves \cup Depth1 \cup Depth2 \cup Depth3

-----------------------------------------------------------------------------
(* Patterns: all of up to four of the characters that matter, but regular  *)
(* expressions with an escape in them; a few more, also in pairs.          *)

SeqsOf4(S) == UNION {[1..n -> S] : n \in 0..4}

SomePatterns ==
    {<<>>, <<"a">>, <<"b">>, <<"!", "a">>, <<"\\", "!", "a">>, <<"/", "a">>, <<"!", "/", "a">>, <<"/", "a", "/">>,
     <<"!", "/", "b", ".", "/">>, <<"/", ".", "/", "s">>, <<"/", "a", "/", "x">>, <<"/", "(", "/">>}

MCPatternLists ==
    SeqsUpTo2(SomePatterns) \cup
    {<<s>> : s \in {p \in SeqsOf4({"!", "\\", "/", "a", "."}) :
                      isRegexPattern(p) => "\\" \notin {p[i] : i \in DOMAIN p}}}

MCTexts == SeqsUpTo2({<<>>, <<"a">>, <<"b">>, <<"!", "a">>, <<"/", "a">>, <<"\\", "!", "a">>, <<"b", "a", "/">>, TooLong})

-----------------------------------------------------------------------------
(* A file has its own test and the common one, each set by its name.       *)

Tests(f) == [k \in {f, "common"} |-> f]
File(f, readable, includes) == [readable |-> readable, tests |-> Tests(f), includes |-> includes]
Include(skip, matches) == [skip |-> skip, matches |-> matches]

Others == {<<Include(FALSE, <<>>)>>, <<>>} \cup
          {<<Include(k, <<g>>)>> : k \in BOOLEAN, g \in {"root", "a", "b"}} \cup
          {<<Include(FALSE, <<"a", "b">>)>>}

\* Matches come sorted.
Roots == SeqsUpTo2({Include(FALSE, m) : m \in {<<>>, <<"a">>, <<"b">>, <<"a", "b">>, <<"root">>}} \cup {Include(TRUE, <<"a">>)})

MCFileTrees ==
    {[f \in {"root", "a", "b"} |-> CASE f = "root" -> File(f, TRUE, r)
                                     [] f = "a" -> File(f, TRUE, a)
                                     [] f = "b" -> File(f, readable, b)]
        : r \in Roots, a \in Others, b \in Others, readable \in BOOLEAN}
=============================================================================
