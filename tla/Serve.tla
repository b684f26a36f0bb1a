-------------------------------- MODULE Serve --------------------------------
(***************************************************************************)
(* The health endpoint of "goss serve" (serve.go): every request runs in a *)
(* goroutine of its own, looks for the results in a cache with an expiry,  *)
(* and runs all tests itself when it finds none.  Nothing serializes the   *)
(* requests: gossMu is never locked, and the handler is copied for each    *)
(* call, so each run has its own system.System.                            *)
(*                                                                         *)
(* Time is counted in ticks.  What the tests find may differ from run to   *)
(* run.                                                                    *)
(***************************************************************************)
EXTENDS Outputs

CONSTANTS
    Requests,        \* the requests
    Accepts,         \* Accept headers: sequences of candidates
    OutputFormats,   \* --format
    Cache,           \* --cache, in ticks
    Worlds,          \* sequences of groups: what the tests can find
    MaxRun,          \* a run of the tests takes at most MaxRun ticks
    MaxTime          \* bound on the clock

ASSUME ServeAssumption ==
    /\ Cache \in Nat /\ MaxRun \in Nat \ {0} /\ MaxTime \in Nat
    /\ OutputFormats \subseteq Formats
    /\ Worlds \subseteq Seq(Seq(Results))

VARIABLES
    outputFormat,    \* --format
    scheduleOK,      \* whether buildSchedule accepts the gossfile
    now,             \* the clock
    cache,           \* the item "res": <<>> or <<[tra, expires, readAt]>>
    pc,              \* request: "idle", "get", "run", "set", "respond", "done"
    format,          \* the outputer of a request
    begun,           \* when a request began the run it is in, otherwise 0
    readAt,          \* history: when that run read the system, otherwise 0
    tra,             \* the results a request answers with
    age,             \* history: how old these were when it had them, until it answers
    status           \* the HTTP status of the answer

reqVars == <<pc, format, begun, readAt, tra, age, status>>
vars == <<outputFormat, scheduleOK, now, cache, reqVars>>

Never == MaxTime + 1   \* go-cache: an expiration of 0 means no expiration

Init ==
    /\ outputFormat \in OutputFormats
    /\ scheduleOK \in BOOLEAN
    /\ now = 0
    /\ cache = <<>>
    /\ pc = [r \in Requests |-> "idle"]
    /\ format = [r \in Requests |-> outputFormat]
    /\ begun = [r \in Requests |-> 0]
    /\ readAt = [r \in Requests |-> 0]
    /\ tra = [r \in Requests |-> <<>>]
    /\ age = [r \in Requests |-> 0]
    /\ status = [r \in Requests |-> 0]

Running(r) == pc[r] \in {"run", "set"}

Tick ==
    /\ now < MaxTime
    /\ \A r \in Requests : Running(r) => now - begun[r] < MaxRun
    /\ now' = now + 1
    /\ UNCHANGED <<outputFormat, scheduleOK, cache, reqVars>>

\* Each candidate replaces the choice of the one before it, a bad one by no
\* outputer at all; without an outputer the process-level format is used.
negotiateResponseContentType(accept) ==
    IF accept # <<>> /\ Last(accept) \in Formats THEN Last(accept) ELSE outputFormat

Arrive(r, accept) ==
    /\ pc[r] = "idle"
    /\ format' = [format EXCEPT ![r] = negotiateResponseContentType(accept)]
    /\ pc' = [pc EXCEPT ![r] = "get"]
    /\ UNCHANGED <<outputFormat, scheduleOK, now, cache, begun, readAt, tra, age, status>>

\* Mutant: an expired item is still found.
Found_NoExpiry == cache # <<>>

\* h.cache.Get: an item whose time has come is as good as none.
Found == cache # <<>> /\ now <= cache[1].expires

Hit(r) ==
    /\ pc[r] = "get" /\ Found
    /\ tra' = [tra EXCEPT ![r] = cache[1].tra]
    /\ age' = [age EXCEPT ![r] = now - cache[1].readAt]
    /\ pc' = [pc EXCEPT ![r] = "respond"]
    /\ UNCHANGED <<outputFormat, scheduleOK, now, cache, format, begun, readAt, status>>

\* Mutant: gossMu is locked for the run and never unlocked.
Miss_LockKept(r) ==
    /\ pc[r] = "get" /\ ~Found
    /\ cache = <<>> /\ \A q \in Requests : ~Running(q)
    /\ begun' = [begun EXCEPT ![r] = now]
    /\ pc' = [pc EXCEPT ![r] = "run"]
    /\ UNCHANGED <<outputFormat, scheduleOK, now, cache, format, readAt, tra, age, status>>

Miss(r) ==
    /\ pc[r] = "get" /\ ~Found
    /\ begun' = [begun EXCEPT ![r] = now]
    /\ pc' = [pc EXCEPT ![r] = "run"]
    /\ UNCHANGED <<outputFormat, scheduleOK, now, cache, format, readAt, tra, age, status>>

\* The run reads the state of the system and collects its groups; one that cannot be
\* scheduled leaves the results empty.
validate(r, found) ==
    /\ pc[r] = "run"
    /\ tra' = [tra EXCEPT ![r] = IF scheduleOK THEN found ELSE <<>>]
    /\ readAt' = [readAt EXCEPT ![r] = now]
    /\ pc' = [pc EXCEPT ![r] = "set"]
    /\ UNCHANGED <<outputFormat, scheduleOK, now, cache, format, begun, age, status>>

\* h.cache.SetDefault, over whatever another request has put there meanwhile.
SetDefault(r) ==
    /\ pc[r] = "set"
    /\ cache' = <<[tra |-> tra[r], readAt |-> readAt[r],
                   expires |-> IF Cache = 0 THEN Never ELSE now + Cache]>>
    /\ age' = [age EXCEPT ![r] = now - readAt[r]]
    /\ begun' = [begun EXCEPT ![r] = 0]
    /\ readAt' = [readAt EXCEPT ![r] = 0]
    /\ pc' = [pc EXCEPT ![r] = "respond"]
    /\ UNCHANGED <<outputFormat, scheduleOK, now, format, tra, status>>

\* Mutant: only the exit code 1 stands for a failure.
Respond_OnlyOne(r) ==
    /\ pc[r] = "respond"
    /\ \E exitCode \in ExitCodes(format[r], tra[r]) :
          status' = [status EXCEPT ![r] = IF exitCode = 1 THEN 503 ELSE 200]
    /\ age' = [age EXCEPT ![r] = 0]
    /\ pc' = [pc EXCEPT ![r] = "done"]
    /\ UNCHANGED <<outputFormat, scheduleOK, now, cache, format, begun, readAt, tra>>

\* output: the body is written with status 200 or 503.
Respond(r) ==
    /\ pc[r] = "respond"
    /\ \E exitCode \in ExitCodes(format[r], tra[r]) :
          status' = [status EXCEPT ![r] = IF exitCode = 0 THEN 200 ELSE 503]
    /\ age' = [age EXCEPT ![r] = 0]
    /\ pc' = [pc EXCEPT ![r] = "done"]
    /\ UNCHANGED <<outputFormat, scheduleOK, now, cache, format, begun, readAt, tra>>

Handle(r) == Hit(r) \/ Miss(r) \/ (\E found \in Worlds : validate(r, found)) \/ SetDefault(r) \/ Respond(r)

Next ==
    \/ Tick
    \/ \E r \in Requests : Handle(r) \/ \E accept \in Accepts : Arrive(r, accept)

\* The goroutine of a request that has arrived goes on.
Spec == Init /\ [][Next]_vars /\ \A r \in Requests : WF_vars(Handle(r))

-----------------------------------------------------------------------------
(* Properties.                                                             *)

\* With a cache time above zero no answer is based on results that were read
\* more than --cache plus the length of a run before, although requests that
\* miss at the same time all run the tests and overwrite each other's results,
\* an older run possibly those of a newer one.
BoundedStaleness ==
    Cache > 0 => \A r \in Requests : pc[r] = "respond" => age[r] <= Cache + MaxRun

\* An answer in a counting format is 503 exactly when a test of the results it
\* is based on failed, cached results and another request's results included.
StatusMatchesResults ==
    \A r \in Requests : (pc[r] = "done" /\ format[r] \in CountingFormats) =>
        (status[r] = 503 <=> SomeFailed(tra[r]))

\* Every request that has arrived is answered: no request waits for another.
EveryRequestAnswered == \A r \in Requests : (pc[r] = "get") ~> (pc[r] = "done")
=============================================================================
