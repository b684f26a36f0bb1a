------------------------------- MODULE TestRun -------------------------------
(***************************************************************************)
(* What a validation run promises to whoever ranges over its result        *)
(* channel (outputs, the serve handler, callers of ValidateResults): every *)
(* resource of the gossfile hands over its group of results exactly once,  *)
(* and the channel is closed after the last group and not before.  The     *)
(* process may die in the middle (a Go runtime fatal error); then nothing  *)
(* more happens.                                                           *)
(***************************************************************************)
EXTENDS Naturals, Sequences

CONSTANTS Resources,   \* the resources of the run
          Groups       \* what a group of results can be

VARIABLES sent,        \* sent[r]: the groups of r received from the channel
          closed,      \* the channel is closed
          crashed      \* the process died

vars == <<sent, closed, crashed>>

TypeOK ==
    /\ sent \in [Resources -> Seq(Groups)]
    /\ closed \in BOOLEAN
    /\ crashed \in BOOLEAN

Init ==
    /\ sent = [r \in Resources |-> <<>>]
    /\ closed = FALSE
    /\ crashed = FALSE

Running == ~closed /\ ~crashed

Deliver(r, g) ==
    /\ Running
    /\ sent[r] = <<>>
    /\ sent' = [sent EXCEPT ![r] = <<g>>]
    /\ UNCHANGED <<closed, crashed>>

Close ==
    /\ Running
    /\ \A r \in Resources : sent[r] # <<>>
    /\ closed' = TRUE
    /\ UNCHANGED <<sent, crashed>>

Die ==
    /\ Running
    /\ crashed' = TRUE
    /\ UNCHANGED <<sent, closed>>

Next ==
    \/ \E r \in Resources, g \in Groups : Deliver(r, g)
    \/ Close
    \/ Die

Spec == Init /\ [][Next]_vars
=============================================================================
