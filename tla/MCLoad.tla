------------------------------- MODULE MCLoad -------------------------------
(* Two registers, two workers.  Discovery sections of up to two entries, with *)
(* a missing and a repeated register among them, gates over one or both       *)
(* registers, a --discover file or none, variables that define a register or  *)
(* none, from files and inline.                                               *)
EXTENDS Load

MCRegisters == {"a", "b"}

Sections == {<<>>, <<"a">>, <<"a", "b">>, <<"a", "a">>, <<"a", Missing>>}

MainFiles ==
    [discovery : {<<>>, <<"b">>, <<"a", "b">>, <<"a", Missing>>},
     gates : {{}, {"a"}, {"a", "b"}}, always : BOOLEAN]

DiscoverFiles == [discovery : Sections, gates : {{}}, always : {FALSE, TRUE}]

FileVars == {NoTable, [g \in {"a"} |-> TRUE]}
InlineVars == {[g \in {"a"} |-> FALSE]}

Regular ==
    [format : {"discovery", "json"}, hasDiscover : {FALSE}, discover : {NoFile},
     main : MainFiles, piped : {FALSE}, vars : FileVars, varsPiped : {FALSE},
     hasInline : {FALSE}, inline : {NoTable}]

WithDiscover ==
    [format : {"json"}, hasDiscover : {TRUE}, discover : DiscoverFiles,
     main : MainFiles, piped : {FALSE}, vars : {NoTable}, varsPiped : {FALSE},
     hasInline : {FALSE}, inline : {NoTable}]

\* Pipes and inline variables.
Special ==
    [format : {"json"}, hasDiscover : {FALSE}, discover : {NoFile},
     main : MainFiles, piped : BOOLEAN, vars : FileVars, varsPiped : BOOLEAN,
     hasInline : BOOLEAN, inline : InlineVars]

MCInputs == Regular \cup WithDiscover \cup Special
=============================================================================
