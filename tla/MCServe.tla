------------------------------- MODULE MCServe -------------------------------
(* Three requests, enough for two overlapping runs and a reader of what the *)
(* later writer left; a cache time shorter than the clock's bound, so that  *)
(* the item expires; Accept headers with a good and a bad last candidate.   *)
EXTENDS Serve

CONSTANTS r1, r2, r3

MCRequests == {r1, r2, r3}
MCAccepts == {<<"bogus", "nagios">>, <<"nagios", "bogus">>}
MCWorlds == {<< <<SUCCESS>>, <<SKIP>> >>, << <<SUCCESS>>, <<FAIL>> >>}
MCFormats == {"structured"}
=============================================================================
