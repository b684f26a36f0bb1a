------------------------------ MODULE Includes ------------------------------
(***************************************************************************)
(* mergeJSONData: a gossfile with the gossfiles it includes, as a tree of  *)
(* maps merged into one.  files maps a file to its own tests and to its    *)
(* includes in the order of their keys; an include is skipped or not and   *)
(* matches some files, in order, or none.                                  *)
(***************************************************************************)
EXTENDS Naturals, Sequences
LOCAL INSTANCE TLC

CONSTANT MaxDepth   \* 50 in the code

ASSUME MaxDepthAssumption == MaxDepth \in Nat \ {0}

Merged(err, tests) == [err |-> err, tests |-> tests]
NoTests == [k \in {} |-> 0]

\* Mutant: the file merged first has the last word.
Merge_FirstWins(c, g2) == c @@ g2

\* A test of the second config overwrites one of the first, with a warning.
Merge(c, g2) == g2 @@ c

mergeGoss(g1, g2) == Merge(g1, g2)

RECURSIVE mergeJSONData(_, _, _), MergeMatches(_, _, _, _)

\* The files an include matches, merged one after another into ret.
MergeMatches(files, matches, depth, ret) ==
    IF ret.err \/ matches = <<>> THEN ret
    ELSE LET f == Head(matches)
             j == IF files[f].readable THEN mergeJSONData(files, f, depth) ELSE Merged(TRUE, NoTests)
         IN  MergeMatches(files, Tail(matches), depth,
                          IF j.err THEN Merged(TRUE, NoTests) ELSE Merged(FALSE, mergeGoss(ret.tests, j.tests)))

RECURSIVE MergeIncludes(_, _, _, _)

\* A skipped include is not looked at, one that matches nothing is an error.
MergeIncludes(files, includes, depth, ret) ==
    IF ret.err \/ includes = <<>> THEN ret
    ELSE LET g == Head(includes)
         IN  MergeIncludes(files, Tail(includes), depth,
                           IF g.skip THEN ret
                           ELSE IF g.matches = <<>> THEN Merged(TRUE, NoTests)
                           ELSE MergeMatches(files, g.matches, depth, ret))

mergeJSONData(files, f, depth) ==
    IF depth + 1 >= MaxDepth THEN Merged(TRUE, NoTests)
    ELSE MergeIncludes(files, files[f].includes, depth + 1, Merged(FALSE, mergeGoss(NoTests, files[f].tests)))

-----------------------------------------------------------------------------
(* The same by walks.  A walk is a sequence of steps <<include, match>>    *)
(* from the first file; walks come in the order of their steps, a walk     *)
(* after its prefixes.                                                     *)

Steps(files, f) ==
    {<<i, m>> \in (DOMAIN files[f].includes) \X (1..2) :
        ~files[f].includes[i].skip /\ m \in DOMAIN files[f].includes[i].matches}

Child(files, f, s) == files[f].includes[s[1]].matches[s[2]]

\* The walks of at most n steps with the file each leads to.
RECURSIVE Walks(_, _, _)
Walks(files, f, n) ==
    {<<<<>>, f>>} \cup
    IF n = 0 THEN {}
    ELSE UNION {{<<<<s>> \o w[1], w[2]>> : w \in Walks(files, Child(files, f, s), n - 1)} : s \in Steps(files, f)}

StepBefore(s, t) == s[1] < t[1] \/ (s[1] = t[1] /\ s[2] < t[2])

Before(w, x) ==
    \/ Len(w) < Len(x) /\ w = SubSeq(x, 1, Len(w))
    \/ \E i \in 1..Len(w) : /\ i <= Len(x) /\ SubSeq(w, 1, i - 1) = SubSeq(x, 1, i - 1)
                            /\ StepBefore(w[i], x[i])

Broken(files, f) ==
    ~files[f].readable \/ \E i \in DOMAIN files[f].includes : ~files[f].includes[i].skip /\ files[f].includes[i].matches = <<>>

\* Merging fails exactly when some walk is too long or meets a broken file;
\* otherwise every test is that of the last walk to a file that has it.
MergeByWalks(files, f) ==
    LET walks == Walks(files, f, MaxDepth - 1)
        having(k) == {w \in walks : k \in DOMAIN files[w[2]].tests}
        keys == UNION {DOMAIN files[w[2]].tests : w \in walks}
        last(k) == CHOOSE w \in having(k) : \A x \in having(k) : x = w \/ Before(x[1], w[1])
    IN  IF \E w \in walks : Len(w[1]) = MaxDepth - 1 \/ Broken(files, w[2]) THEN Merged(TRUE, NoTests)
        ELSE Merged(FALSE, [k \in keys |-> files[last(k)[2]].tests[k]])
=============================================================================
