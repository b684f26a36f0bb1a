------------------------------- MODULE MCRetry -------------------------------
(* Two resources; the first has two results or, once, none to check.          *)
(* Timeouts of none, one that is shorter than the sleep and one that leaves   *)
(* room for a few attempts.                                                   *)
EXTENDS Retry

MCOptions ==
    [format : {"rspecish", "nagios", "structured", "prometheus"}, retryTimeout : {0, 1, 5},
     sleep : {0, 2}, scheduleOK : {TRUE}]
    \cup [format : {"rspecish"}, retryTimeout : {0, 5}, sleep : {2}, scheduleOK : {FALSE}]

MCWorlds == {
    << <<SUCCESS, SUCCESS>>, <<SUCCESS>> >>,
    << <<SUCCESS, FAIL>>, <<SUCCESS>> >>,
    << <<SKIP, SKIP>>, <<FAIL>> >>,
    << <<FAIL, SKIP>>, <<SKIP>> >>,
    << <<>>, <<FAIL>> >> }
=============================================================================
