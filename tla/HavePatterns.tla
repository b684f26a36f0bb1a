---------------------------- MODULE HavePatterns ----------------------------
(***************************************************************************)
(* The have-patterns matcher: patterns are looked for line by line, and a  *)
(* pattern that has been seen is not looked for again.  A pattern and a    *)
(* line are sequences of characters, of which only those with a meaning to *)
(* the matcher are told apart; "." stands for a regular expression that    *)
(* matches any character, and "(" for one that does not compile.           *)
(***************************************************************************)
EXTENDS Naturals, Sequences

TooLong == <<"a line too long for the scanner">>
Flags == {"s"}

StartsWith(s, prefix) == Len(prefix) <= Len(s) /\ SubSeq(s, 1, Len(prefix)) = prefix
TrimPrefix(s, prefix) == IF StartsWith(s, prefix) THEN SubSeq(s, Len(prefix) + 1, Len(s)) ELSE s
TrimLeft(s, cutset) ==
    LET from == CHOOSE k \in 1..(Len(s) + 1) : /\ \A i \in 1..(k - 1) : s[i] \in cutset
                                               /\ k > Len(s) \/ s[k] \notin cutset
    IN  SubSeq(s, from, Len(s))
LastIndex(s, c) == LET at == {i \in DOMAIN s : s[i] = c} IN IF at = {} THEN 0 ELSE CHOOSE i \in at : \A j \in at : j <= i

isRegexPattern(str) ==
    LET core == TrimPrefix(str, <<"!">>)
        rest == Tail(core)
        closing == LastIndex(rest, "/")
    IN  StartsWith(core, <<"/">>) /\ closing > 0 /\ \A i \in (closing + 1)..Len(rest) : rest[i] \in Flags

Pattern(str, text, regex) ==
    [text |-> text, regex |-> regex, inverse |-> StartsWith(str, <<"!">>), empty |-> str = <<>>]

newStringPattern(str) == Pattern(str, TrimLeft(str, {"\\", "/", "!"}), FALSE)

\* What is between the slashes.
newRegexPattern(str) ==
    LET clean == TrimPrefix(TrimPrefix(str, <<"!">>), <<"/">>)
    IN  Pattern(str, SubSeq(clean, 1, LastIndex(clean, "/") - 1), TRUE)

sliceToPatterns(strs) ==
    [i \in DOMAIN strs |-> IF isRegexPattern(strs[i]) THEN newRegexPattern(strs[i]) ELSE newStringPattern(strs[i])]
NotCompiling(strs) ==
    \E i \in DOMAIN strs : isRegexPattern(strs[i]) /\ LastIndex(newRegexPattern(strs[i]).text, "(") > 0

\* The text, or for a regular expression one of the texts it describes, is in the
\* line.
Contains(line, p) ==
    \E k \in 0..Len(line) :
        /\ k + Len(p.text) <= Len(line)
        /\ \A j \in DOMAIN p.text : p.text[j] = line[k + j] \/ (p.regex /\ p.text[j] = ".")

RECURSIVE Scan(_, _, _)

\* Mutant: an unwanted pattern counts as found when it turns up.
Scan_InverseFound(lines, notfound, found) ==
    IF lines = <<>> \/ notfound = {} THEN [err |-> FALSE, notfound |-> notfound, found |-> found]
    ELSE IF Head(lines) = TooLong THEN [err |-> TRUE, notfound |-> notfound, found |-> found]
    ELSE LET hit == {p \in notfound : Contains(Head(lines), p[2])}
         IN  Scan(Tail(lines), notfound \ hit, found \cup hit)

\* The loop over the lines.  Patterns carry their position, since the same one
\* may be given twice.
Scan(lines, notfound, found) ==
    IF lines = <<>> \/ notfound = {} THEN [err |-> FALSE, notfound |-> notfound, found |-> found]
    ELSE IF Head(lines) = TooLong THEN [err |-> TRUE, notfound |-> notfound, found |-> found]
    ELSE LET hit == {p \in notfound : Contains(Head(lines), p[2])}
         IN  Scan(Tail(lines), notfound \ hit, found \cup {p \in hit : ~p[2].inverse})

HavePatternsMatch(strs, lines) ==
    LET pats == sliceToPatterns(strs)
        all == {<<i, pats[i]>> : i \in DOMAIN pats}
        end == Scan(lines, all, {})
        found == end.found \cup {p \in end.notfound : p[2].inverse \/ p[2].empty}
    IN  IF NotCompiling(strs) \/ end.err THEN "error" ELSE IF found = all THEN "yes" ELSE "no"

-----------------------------------------------------------------------------
(* The five forms of docs/gossfile.md:669-673, with the flags the tests    *)
(* allow after a regular expression; any other text stands for itself.     *)

Delimited(s, j) ==
    j \in 2..Len(s) /\ s[1] = "/" /\ s[j] = "/" /\ \A k \in (j + 1)..Len(s) : s[k] \in Flags

Documented(str) ==
    LET rest == IF str # <<>> /\ Head(str) = "!" THEN Tail(str) ELSE str
        regex == \E j \in DOMAIN rest : Delimited(rest, j)
    IN  [regex |-> regex,
         inverse |-> rest # str,
         text |-> IF regex THEN SubSeq(rest, 2, (CHOOSE j \in DOMAIN rest : Delimited(rest, j)) - 1)
                  ELSE IF Len(str) > 1 /\ str[1] = "\\" /\ str[2] = "!" THEN Tail(str) ELSE rest]

\* Every pattern is in some line, or in none if it is an unwanted one; the empty
\* pattern asks for nothing.
HasPatterns(strs, lines) ==
    \A i \in DOMAIN strs :
        LET p == Documented(strs[i])
        IN  strs[i] = <<>> \/ (p.inverse # \E l \in DOMAIN lines : Contains(lines[l], p))

\* The text to look for begins with a character that the code takes for an escape.
Trimmed(str) ==
    LET p == Documented(str) IN ~p.regex /\ p.text # <<>> /\ Head(p.text) \in {"\\", "/", "!"}
=============================================================================
