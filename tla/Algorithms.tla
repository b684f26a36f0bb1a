----------------------------- MODULE Algorithms -----------------------------
(***************************************************************************)
(* The pure algorithms under one roof: each job is evaluated once, and the *)
(* properties compare the outcome with what it ought to be.                *)
(***************************************************************************)
EXTENDS Matchers, HavePatterns, Includes

Seqs == INSTANCE SequencesExt

CONSTANTS
    Expectations,   \* expected values, as matchers
    PatternLists,   \* lists of patterns
    Texts,          \* sequences of lines
    FileTrees       \* gossfiles by name; the first is "root"

VARIABLES job, out

Init ==
    /\ out = <<>>
    /\ \/ \E c \in Expectations, v \in Values : job = [is |-> "match", c |-> c, v |-> v]
       \/ \E r \in PatternLists, t \in Texts : job = [is |-> "patterns", strs |-> r, lines |-> t]
       \/ \E f \in FileTrees : job = [is |-> "merge", files |-> f]

Evaluate ==
    /\ out = <<>>
    /\ out' = CASE job.is = "match" -> <<Verdict(job.c, job.v)>>
                [] job.is = "patterns" -> <<HavePatternsMatch(job.strs, job.lines)>>
                [] job.is = "merge" -> <<mergeJSONData(job.files, "root", 0)>>
    /\ UNCHANGED job

Next == Evaluate \/ (out # <<>> /\ UNCHANGED <<job, out>>)

Spec == Init /\ [][Next]_<<job, out>>

Done(is) == job.is = is /\ out # <<>>

-----------------------------------------------------------------------------
(* Matchers.                                                               *)

ElementLists == {"list", "contain-elements", "consist-of"}

\* The matchers an expected value is made of.
Subs(c) ==
    CASE c.m \in ElementLists \cup {"and", "or"} -> c.subs
      [] c.m \in {"not", "contain-element", "have-key"} -> <<c.sub>>
      [] c.m = "gjson" -> [i \in DOMAIN c.paths |-> c.paths[i].sub]
      [] OTHER -> <<>>

\* Whether the expectation holds when everything that could not be decided is
\* taken to be b.
RECURSIVE Holds(_, _, _)
Holds(c, v, b) ==
    LET w == IF c.m \in {"contain-element", "contain-elements"} THEN ToArray(v) ELSE v
        each(f) == \A i \in DOMAIN c.subs : Holds(c.subs[i], Elements[w][f[i]], b)
    IN  CASE c.m = "not" -> ~Holds(c.sub, v, ~b)
          [] c.m = "and" -> \A i \in DOMAIN c.subs : Holds(c.subs[i], v, b)
          [] c.m = "or" -> \E i \in DOMAIN c.subs : Holds(c.subs[i], v, b)
          [] c.m = "gjson" -> \A i \in DOMAIN c.paths :
                IF Gjson(v, c.paths[i].found) = "error" THEN b ELSE Holds(c.paths[i].sub, c.paths[i].found, b)
          [] c.m \in ElementLists ->
                IF w \notin DOMAIN Elements THEN b
                ELSE /\ c.m = "consist-of" => Len(c.subs) = Len(Elements[w])
                     /\ \E f \in [DOMAIN c.subs -> DOMAIN Elements[w]] :
                           each(f) /\ \A i, j \in DOMAIN f : f[i] = f[j] => i = j
          [] c.m = "contain-element" ->
                IF w \notin DOMAIN Elements THEN b ELSE \E k \in DOMAIN Elements[w] : Holds(c.sub, Elements[w][k], b)
          [] c.m = "have-key" -> IF v # "object" THEN b ELSE Holds(c.sub, "word", b)
          [] c.m \in Known -> IF Leaf(c.m).to[v] \in Leaf(c.m).takes /\ c.says # "error" THEN c.says = "yes" ELSE b
          [] OTHER -> b

\* A list of matchers for elements below an odd number of nots.
RECURSIVE NegatedList(_, _)
NegatedList(c, negated) ==
    \/ negated /\ c.m \in ElementLists
    \/ \E i \in DOMAIN Subs(c) : NegatedList(Subs(c)[i], (c.m = "not") # negated)

\* What passes holds whatever the values were that could not be converted or
\* were not there: no error is turned into a pass by a not or an or around it,
\* unless gomega has made it a "no" before: a list of matchers takes an element
\* that cannot be tried for one that does not match, which below a not passes.
PassesWhateverErred ==
    (Done("match") /\ out[1] = "SUCCESS" /\ ~NegatedList(job.c, FALSE)) => Holds(job.c, job.v, FALSE)

\* An or below an odd number of nots, and an and (or another gjson, which is
\* one) right below a path of gjson: the only matchers whose report of a
\* failure may follow a nil.  negated and path say where c stands.
RECURSIVE Fragile(_, _, _)
Fragile(c, negated, path) ==
    CASE c.m = "not" -> Fragile(c.sub, ~negated, path)
      [] c.m = "and" -> (path /\ ~negated) \/ \E i \in DOMAIN c.subs : Fragile(c.subs[i], negated, FALSE)
      [] c.m = "or" -> negated \/ \E i \in DOMAIN c.subs : Fragile(c.subs[i], negated, FALSE)
      [] c.m = "gjson" -> (path /\ ~negated) \/ \E i \in DOMAIN c.paths : Fragile(c.paths[i].sub, negated, TRUE)
      [] OTHER -> FALSE

RECURSIVE Mentions(_, _)
Mentions(c, m) == c.m = m \/ \E i \in DOMAIN Subs(c) : Mentions(Subs(c)[i], m)

\* A failing test is reported and does not take the whole run down with a nil
\* dereference, unless its expectation has one of the fragile shapes or an empty
\* map where a matcher should be.
ReportsUnlessFragile ==
    (Done("match") /\ out[1] = "PANIC") => Fragile(job.c, FALSE, FALSE) \/ Mentions(job.c, "{}")

\* The same expectation with the paths of every gjson in another order: the
\* code ranges over a map.
RECURSIVE Turned(_)
Turned(c) ==
    CASE c.m \in {"not", "contain-element", "have-key"} -> Single(c.m, Turned(c.sub))
      [] c.m \in ElementLists \cup {"and", "or"} -> [c EXCEPT !.subs = [i \in DOMAIN c.subs |-> Turned(c.subs[i])]]
      [] c.m = "gjson" -> GjsonOf([i \in DOMAIN c.paths |->
            LET p == c.paths[Len(c.paths) + 1 - i] IN Path(p.found, Turned(p.sub))])
      [] OTHER -> c

RECURSIVE Unordered(_, _)
Unordered(c, under) ==
    \/ under /\ c.m = "gjson" /\ Len(c.paths) > 1
    \/ \E i \in DOMAIN Subs(c) :
          Unordered(Subs(c)[i], c.m \in {"not", "or"} \/ (under /\ c.m \notin ElementLists))

\* The order in which a gjson visits its paths does not decide whether the test
\* passes, unless the gjson is below a not or an or, where a path that cannot
\* be read hides what the next one says.  (A list of matchers in between does not
\* tell the two apart.)
OrderOfPathsIrrelevant ==
    (Done("match") /\ ~Unordered(job.c, FALSE)) => (out[1] = "SUCCESS") = (Verdict(Turned(job.c), job.v) = "SUCCESS")

\* testdata/out_matching_transformers_failing.1.documentation: a path that is
\* not found is reported as the error of the test.
MissingPathIsReported ==
    (/\ Done("match") /\ job.v = "json" /\ ~Mentions(job.c, "{}")
     /\ job.c.m = "gjson" /\ \E i \in DOMAIN job.c.paths : job.c.paths[i].found = "missing")
        => out[1] # "PANIC"

-----------------------------------------------------------------------------

\* The line by line search, which drops patterns and stops early, answers as if
\* every pattern of the documentation had been looked for in every line; a text
\* that begins with a character taken for an escape ("\\!foo" of
\* docs/gossfile.md:671 is one) may be found where it should not be, never the
\* reverse.  With a line it cannot read it passes only if no
\* content of the unread rest could change the answer.
PatternsFoundExactly ==
    Done("patterns") =>
        LET long == {i \in DOMAIN job.lines : job.lines[i] = TooLong}
            everything == Seqs!FlattenSeq([i \in DOMAIN job.strs |-> Documented(job.strs[i]).text])
            rest(line) == [i \in DOMAIN job.lines |-> IF \E l \in long : l <= i THEN line ELSE job.lines[i]]
            trimmed(inverse) ==
                \E i \in DOMAIN job.strs : Trimmed(job.strs[i]) /\ Documented(job.strs[i]).inverse = inverse
        IN  /\ (out[1] = "yes" /\ ~trimmed(FALSE)) =>
                   ~NotCompiling(job.strs) /\ \A line \in {<<>>, everything} : HasPatterns(job.strs, rest(line))
            /\ (HasPatterns(job.strs, job.lines) /\ long = {} /\ ~NotCompiling(job.strs) /\ ~trimmed(TRUE)) =>
                   out[1] = "yes"

\* Includes merge to what the last file to be read says of each test, and they
\* fail exactly when a walk through the includes is as long as the limit or
\* comes to an include that is broken: nothing loops, nothing is half merged.
MergesByWalks == Done("merge") => out[1] = MergeByWalks(job.files, "root")
=============================================================================
