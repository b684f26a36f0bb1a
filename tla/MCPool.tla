------------------------------- MODULE MCPool -------------------------------
(* Suites in which two tests meet at one snapshot, and timed calls overlap. *)
EXTENDS Pool

MCSuites == {<<"process", "process", "port">>, <<"port", "port", "skip">>,
             <<"command", "mount", "skip">>, <<"dns", "skip", "process">>}
=============================================================================
