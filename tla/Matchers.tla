------------------------------ MODULE Matchers ------------------------------
(***************************************************************************)
(* The matchers: how an expected value becomes a tree of matchers          *)
(* (resource/gomega.go), what the tree says of a value, and how a failure  *)
(* is reported from it (the matchers package).  A value is known by its    *)
(* kind, a simple matcher by its name and by what it says of a value it    *)
(* can be applied to.  gomega's own matchers, which the package embeds,    *)
(* are modelled from how it uses them.                                     *)
(***************************************************************************)
EXTENDS Naturals, Sequences

LOCAL INSTANCE Functions

\* A number, strings that parse as a number, a version, JSON or nothing, lists of
\* strings, and an object, which only a path into JSON gives.
Values == {"number", "numeral", "version", "word", "json", "list", "empty list", "object"}
Strings == {"numeral", "version", "word", "json"}

\* What is in a list, and the values of an object; the last four are the lists a
\* string of one line is split into.
Elements ==
    [v \in {"list", "empty list", "object", "[numeral]", "[version]", "[word]", "[json]"} |->
        CASE v = "list" -> <<"word", "numeral">>
          [] v = "empty list" -> <<>>
          [] v = "object" -> <<"number">>
          [] v = "[numeral]" -> <<"numeral">>
          [] v = "[version]" -> <<"version">>
          [] v = "[word]" -> <<"word">>
          [] v = "[json]" -> <<"json">>]

-----------------------------------------------------------------------------
(* The expected value, as the gossfile has it: a simple matcher, one that  *)
(* matches elements or keys, or one of not, and, or, and gjson, whose      *)
(* paths lead to a value or nowhere.                                       *)

\* says: "yes", "no", or "error" for an argument no value can be tried on.
Simple(m, says) == [m |-> m, says |-> says]
EmptyMap == [m |-> "{}"]
Several(m, cs) == [m |-> m, subs |-> cs]  \* "list", "contain-elements", "consist-of", "and", "or"
Single(m, c) == [m |-> m, sub |-> c]      \* "contain-element", "have-key", "not"
GjsonOf(paths) == [m |-> "gjson", paths |-> paths]
Path(found, c) == [found |-> found, sub |-> c]

ToNumeric(v) == IF v \in {"number", "numeral"} THEN "number" ELSE "error"
ToString(v) ==
    CASE v \in {"list", "empty list", "object"} -> "word" [] v = "number" -> "numeral" [] OTHER -> v
ToArray(v) == IF v \in Strings THEN "[" \o v \o "]" ELSE v
Gjson(v, path) == IF v = "json" /\ path # "missing" THEN path ELSE "error"

\* The simple matchers, each with its conversion: what they are tried on, and
\* which values they accept without an error.
BeNumerically == [to |-> [v \in Values |-> ToNumeric(v)], takes |-> {"number"}]
BeSemverConstraint == [to |-> [v \in Values |-> v], takes |-> {"version"}]
HaveLen == [to |-> [v \in Values |-> v], takes |-> Strings \cup {"list", "empty list", "object"}]
HavePrefix == [to |-> [v \in Values |-> ToString(v)], takes |-> Strings]
HaveSuffix == HavePrefix
ContainSubstring == HavePrefix
MatchRegexp == [to |-> [v \in Values |-> ToString(v)], takes |-> Strings]
HavePatterns == [to |-> [v \in Values |-> ToString(v)], takes |-> Strings]
Equal == [to |-> [v \in Values |-> v], takes |-> Values]

\* A bare string, number or bool is a matcher too.
Leaf(m) ==
    CASE m = "string" -> [Equal EXCEPT !.to = [v \in Values |-> ToString(v)]]
      [] m \in {"numeric", "gt"} -> BeNumerically
      [] m \in {"bool", "equal"} -> Equal
      [] m = "semver-constraint" -> BeSemverConstraint
      [] m = "have-len" -> HaveLen
      [] m = "have-patterns" -> HavePatterns
      [] m = "have-prefix" -> HavePrefix
      [] m = "have-suffix" -> HaveSuffix
      [] m = "contain-substring" -> ContainSubstring
      [] m = "match-regexp" -> MatchRegexp

Known == {"string", "numeric", "bool", "equal", "gt", "semver-constraint", "have-len", "have-patterns",
          "have-prefix", "have-suffix", "contain-substring", "match-regexp"}

-----------------------------------------------------------------------------
(* Building the tree.                                                      *)

SyntaxError == [op |-> "syntax error"]
Panic == [op |-> "panic"]
Faults == {SyntaxError, Panic}

WithSafeTransform(by, t) == [op |-> "with", by |-> by, sub |-> t]
And(ts) == [op |-> "and", subs |-> ts]
Or(ts) == [op |-> "or", subs |-> ts]
Not(t) == [op |-> "not", sub |-> t]
ContainElements(ts) == [op |-> "contain-elements", subs |-> ts]
ConsistOf(ts) == [op |-> "consist-of", subs |-> ts]
ContainElement(t) == [op |-> "contain-element", sub |-> t]
HaveKey(t) == [op |-> "have-key", sub |-> t]

RECURSIVE matcherToGomegaMatcher(_)

\* The first faulty element makes the whole expectation one.
sliceToGomega(cs) == [i \in DOMAIN cs |-> matcherToGomegaMatcher(cs[i])]
First(S) == CHOOSE i \in S : \A j \in S : i <= j
OrFault(ts, t) ==
    LET faulty == {i \in DOMAIN ts : ts[i] \in Faults} IN IF faulty = {} THEN t ELSE ts[First(faulty)]

matcherToGomegaMatcher(c) ==
    LET t == matcherToGomegaMatcher(c.sub)
        ts == sliceToGomega(c.subs)
        paths == sliceToGomega([i \in DOMAIN c.paths |-> c.paths[i].sub])
    IN  CASE c.m = "not" -> OrFault(<<t>>, Not(t))
          [] c.m = "and" -> OrFault(ts, And(ts))
          [] c.m = "or" -> OrFault(ts, Or(ts))
          [] c.m = "list" -> OrFault(ts, ContainElements(ts))
          [] c.m = "contain-elements" -> OrFault(ts, WithSafeTransform("to array", ContainElements(ts)))
          [] c.m = "consist-of" -> OrFault(ts, ConsistOf(ts))
          [] c.m = "contain-element" /\ c.sub.m \in {"list", "bool"} -> SyntaxError
          [] c.m = "contain-element" /\ c.sub.m \notin {"list", "bool"} ->
                OrFault(<<t>>, WithSafeTransform("to array", ContainElement(t)))
          [] c.m = "have-key" -> OrFault(<<t>>, HaveKey(t))
          [] c.m = "gjson" ->
                OrFault(paths, And([i \in DOMAIN paths |-> WithSafeTransform(c.paths[i].found, paths[i])]))
          [] c.m = "{}" -> Panic
          [] c.m \in Known -> [op |-> "leaf", m |-> c.m, says |-> c.says]
          [] OTHER -> SyntaxError

-----------------------------------------------------------------------------
(* Match: "yes", "no", or an error.                                        *)

RECURSIVE Match(_, _)

\* Indices of the sub-matchers with one of the given answers.
Saying(t, v, answers) == {i \in DOMAIN t.subs : Match(t.subs[i], v) \in answers}

LeafMatch(t, v) ==
    LET to == Leaf(t.m).to[v] IN IF to \notin Leaf(t.m).takes THEN "error" ELSE t.says

\* Mutant: the last one decides.
AndMatch_LastDecides(t, v) == IF t.subs = <<>> THEN "yes" ELSE Match(t.subs[Len(t.subs)], v)

\* The first that does not say yes decides.
AndMatch(t, v) ==
    LET failed == Saying(t, v, {"no", "error"}) IN IF failed = {} THEN "yes" ELSE Match(t.subs[First(failed)], v)

\* The first that does not say no decides.
OrMatch(t, v) ==
    LET decided == Saying(t, v, {"yes", "error"}) IN IF decided = {} THEN "no" ELSE Match(t.subs[First(decided)], v)

\* Mutant: what could not be decided is negated as if it did not hold.
NotMatch_ErrorIsNo(t, v) == IF Match(t.sub, v) = "yes" THEN "no" ELSE "yes"

NotMatch(t, v) == LET r == Match(t.sub, v) IN IF r = "error" THEN r ELSE IF r = "yes" THEN "no" ELSE "yes"

Transform(by, v) == IF by = "to array" THEN ToArray(v) ELSE Gjson(v, by)
WithMatch(t, v) == LET w == Transform(t.by, v) IN IF w = "error" THEN w ELSE Match(t.sub, w)

\* Every matcher has an element of its own that it says yes to: an element it
\* cannot be tried on is one it does not match.
Assigned(t, es) ==
    \E f \in Injection(DOMAIN t.subs, DOMAIN es) : \A i \in DOMAIN t.subs : Match(t.subs[i], es[f[i]]) = "yes"

ContainElementsMatch(t, v) ==
    IF v \notin DOMAIN Elements THEN "error" ELSE IF Assigned(t, Elements[v]) THEN "yes" ELSE "no"
ConsistOfMatch(t, v) ==
    IF v \notin DOMAIN Elements THEN "error"
    ELSE IF Len(t.subs) = Len(Elements[v]) /\ Assigned(t, Elements[v]) THEN "yes" ELSE "no"

\* Here an error counts if no element matches.
ContainElementMatch(t, v) ==
    IF v \notin DOMAIN Elements THEN "error"
    ELSE LET answers == {Match(t.sub, Elements[v][i]) : i \in DOMAIN Elements[v]}
         IN  IF "yes" \in answers THEN "yes" ELSE IF "error" \in answers THEN "error" ELSE "no"

\* The object has one key, a word.
HaveKeyMatch(t, v) == IF v = "object" THEN Match(t.sub, "word") ELSE "error"

Match(t, v) ==
    CASE t.op = "leaf" -> LeafMatch(t, v)
      [] t.op = "and" -> AndMatch(t, v)
      [] t.op = "or" -> OrMatch(t, v)
      [] t.op = "not" -> NotMatch(t, v)
      [] t.op = "with" -> WithMatch(t, v)
      [] t.op = "contain-elements" -> ContainElementsMatch(t, v)
      [] t.op = "consist-of" -> ConsistOfMatch(t, v)
      [] t.op = "contain-element" -> ContainElementMatch(t, v)
      [] t.op = "have-key" -> HaveKeyMatch(t, v)

-----------------------------------------------------------------------------
(* Reporting a failure.  tried: Match of this matcher was called, on v;    *)
(* until then And has no first failed matcher, and Or has a first          *)
(* successful one only after a success.  TRUE: the nil is dereferenced.    *)
(* The matchers of elements and keys report without asking the ones they   *)
(* were given.                                                             *)

RECURSIVE FailureResult(_, _, _), NegatedFailureResult(_, _, _)

\* Mutant: an error is returned without noting whose it was.
AndFailureResult_ErrorNotNoted(t, v, tried) ==
    LET failed == Saying(t, v, {"no", "error"})
    IN  ~tried \/ failed = {} \/ Match(t, v) = "error" \/ FailureResult(t.subs[First(failed)], v, TRUE)

AndFailureResult(t, v, tried) ==
    LET failed == Saying(t, v, {"no", "error"})
    IN  ~tried \/ failed = {} \/ FailureResult(t.subs[First(failed)], v, TRUE)

OrNegatedFailureResult(t, v, tried) ==
    LET decided == Saying(t, v, {"yes", "error"})
    IN  ~tried \/ Match(t, v) # "yes" \/ NegatedFailureResult(t.subs[First(decided)], v, TRUE)

FailureResult(t, v, tried) ==
    CASE t.op = "and" -> AndFailureResult(t, v, tried)
      [] t.op = "not" -> NegatedFailureResult(t.sub, v, tried)
      [] t.op = "with" -> LET w == Transform(t.by, v) IN FailureResult(t.sub, w, tried /\ w # "error")
      [] OTHER -> FALSE

NegatedFailureResult(t, v, tried) ==
    CASE t.op = "or" -> OrNegatedFailureResult(t, v, tried)
      [] t.op = "not" -> FailureResult(t.sub, v, tried)
      [] t.op = "with" -> LET w == Transform(t.by, v) IN NegatedFailureResult(t.sub, w, tried /\ w # "error")
      [] OTHER -> FALSE

\* ValidateGomegaValue once the value has been read.
Verdict(c, v) ==
    LET t == matcherToGomegaMatcher(c)
    IN  CASE t = SyntaxError -> "FAIL"
          [] t = Panic -> "PANIC"
          [] t \notin Faults -> IF Match(t, v) = "yes" THEN "SUCCESS"
                             ELSE IF FailureResult(t, v, TRUE) THEN "PANIC" ELSE "FAIL"
=============================================================================
