-------------------------------- MODULE Pool --------------------------------
(***************************************************************************)
(* The pool of validate.go together with the System its workers share.     *)
(* What Parallel leaves open, how a Validate gets its answer, is modelled  *)
(* here: the two snapshots behind a sync.Once (processes and ports) and    *)
(* the calls that run in a goroutine of their own against a timer          *)
(* (commands, mounts and DNS lookups).  Such a goroutine outlives a caller *)
(* that has stopped waiting for it.                                        *)
(***************************************************************************)
EXTENDS Parallel

CONSTANT Suites      \* the gossfiles: which kind of test each resource is

Snapshots == {"process", "port"}
TimedCalls == {"command", "mount", "dns"}
Kinds == Snapshots \cup TimedCalls \cup {"skip"}

ASSUME SuitesAssumption == Suites \subseteq [Resources -> Kinds]

DNSTries == 3

VARIABLES
    kind,      \* the gossfile of this run
    want,      \* expected: present / exit status 0 (TRUE), or not
    once,      \* the sync.Once of each snapshot and the worker inside it
    call,      \* the goroutine of a timed call, its channels and its result
    answer     \* what the getter gave a worker's Validate: none yet, yes, no, error

qvars == <<kind, want, once, call, answer>>

\* What the operation itself came to; "nostart" is a shell that is not there.
Returns(k) ==
    CASE k = "command" -> {"zero", "exit", "nostart"}
      [] k = "mount"   -> {"mounted", "notfound"}
      [] k = "dns"     -> {"addrs", "empty", "nxdomain", "neterr"}
Errors == {"exit", "nostart", "notfound", "nxdomain", "neterr"}

\* go: the goroutine runs, has erred or is done; c1 and e1: there is something to
\* receive; tries: the lookups of a name so far.
NoCall == [go |-> "off", res |-> "none", c1 |-> FALSE, e1 |-> FALSE,
           tries |-> 0, err |-> FALSE, timedOut |-> FALSE]

PoolInit ==
    /\ Init
    /\ kind \in Suites /\ want \in [Resources -> BOOLEAN]
    /\ once = [q \in Snapshots |-> [state |-> "new", by |-> 0]]
    /\ call = [r \in Resources |-> NoCall]
    /\ answer = [w \in Workers |-> "none"]

Asking(w, k) == wpc[w] = "validate" /\ answer[w] = "none" /\ kind[item[w]] = k

-----------------------------------------------------------------------------
(* sync.Once: the first caller reads, the others wait until it is done.    *)

EnterOnce(w, q) ==
    /\ Asking(w, q) /\ once[q].state = "new"
    /\ once' = [once EXCEPT ![q] = [state |-> "busy", by |-> w]]
    /\ UNCHANGED <<vars, kind, want, call, answer>>

\* GetProcs skips processes it cannot read; only the listing itself can fail.
GetProcs == {"ok", "failed"}

\* One failing table of the four is an error of the whole, after all are read.
GetPorts(tables) == IF \E t \in DOMAIN tables : ~tables[t] THEN "failed" ELSE "ok"

PortTables == [{"tcp4", "tcp6", "udp4", "udp6"} -> BOOLEAN]

\* Mutant: a listing that fails half way leaves what it has read in the map.
ProcMap_PartialMap(state, first) ==
    IF state = "ok" \/ ~first THEN {"yes", "no"} ELSE {"error"}

\* The error of the process list is a local of the caller: later callers read
\* the empty map and no error.
ProcMap(state, first) ==
    IF state = "ok" THEN {"yes", "no"} ELSE IF first THEN {"error"} ELSE {"no"}

\* Mutant: the error of the ports is as local as that of the processes.
Ports_LocalError(state) == IF state = "ok" THEN {"yes", "no"} ELSE {"error", "no"}

\* The error of the ports is kept beside them.
Ports(state) == IF state = "ok" THEN {"yes", "no"} ELSE {"error"}

LeaveOnce(w, q) ==
    /\ once[q].state = "busy" /\ once[q].by = w
    /\ \E s \in IF q = "process" THEN GetProcs ELSE {GetPorts(t) : t \in PortTables} :
          /\ once' = [once EXCEPT ![q].state = s]
          /\ \E a \in IF q = "process" THEN ProcMap(s, TRUE) ELSE Ports(s) :
                answer' = [answer EXCEPT ![w] = a]
    /\ UNCHANGED <<vars, kind, want, call>>

PassOnce(w, q) ==
    /\ Asking(w, q) /\ once[q].state \in {"ok", "failed"}
    /\ \E a \in IF q = "process" THEN ProcMap(once[q].state, FALSE) ELSE Ports(once[q].state) :
          answer' = [answer EXCEPT ![w] = a]
    /\ UNCHANGED <<vars, kind, want, once, call>>

-----------------------------------------------------------------------------
(* runCommand, getMount, DNSlookup: a goroutine, two buffered channels and *)
(* a timer.                                                                *)

\* DefDNS.setup calls up to three times, the others once.
Call(w) ==
    /\ \E k \in TimedCalls : Asking(w, k)
    /\ call[item[w]].go = "off"
    /\ call' = [call EXCEPT ![item[w]].go = "run", ![item[w]].tries = @ + 1]
    /\ UNCHANGED <<vars, kind, want, once, answer>>

\* The operation ends, in time or late.  After an error the goroutines of a
\* command and of a lookup go on to the other channel, that of a mount ends.
Return(r, res) ==
    /\ call[r].go = "run" /\ res \in Returns(kind[r])
    /\ call' = [call EXCEPT ![r].res = res, ![r].e1 = res \in Errors, ![r].c1 = res \notin Errors,
                            ![r].go = IF res \in Errors /\ kind[r] # "mount" THEN "erred" ELSE "done"]
    /\ UNCHANGED <<vars, kind, want, once, answer>>

SendAfterError(r) ==
    /\ call[r].go = "erred"
    /\ call' = [call EXCEPT ![r].c1 = TRUE, ![r].go = "done"]
    /\ UNCHANGED <<vars, kind, want, once, answer>>

Waiting(w, k) == Asking(w, k) /\ call[item[w]].go # "off"

\* Mutant: no timer is armed.
Ready_NoTimer(c) == (IF c.c1 THEN {"c1"} ELSE {}) \cup (IF c.e1 THEN {"e1"} ELSE {})

\* The cases of the select that are ready; with several, Go picks any.
Ready(c) == {"timeout"} \cup (IF c.c1 THEN {"c1"} ELSE {}) \cup (IF c.e1 THEN {"e1"} ELSE {})

\* Mutant: a timed out command is judged by the status it has so far.
runCommand_TimeoutIsNil(c, ch) ==
    IF ch = "e1" /\ c.res = "nostart" THEN "error" ELSE IF c.res = "exit" THEN "no" ELSE "yes"

\* The ExitError is dropped in favour of the status, which is 0 until the
\* command has been waited for.
runCommand(c, ch) ==
    CASE ch = "timeout" \/ (ch = "e1" /\ c.res = "nostart") -> "error"
      [] OTHER -> IF c.res = "exit" THEN "no" ELSE "yes"

\* An absent mount point is an error too, and so is a failing statfs, which
\* follows outside the timer and is taken to return.
getMount(ch) == IF ch = "c1" THEN {"yes", "error"} ELSE {"error"}

SelectOnce(w, ch) ==
    /\ Waiting(w, "command") \/ Waiting(w, "mount")
    /\ ch \in Ready(call[item[w]])
    /\ \E a \in IF kind[item[w]] = "mount" THEN getMount(ch) ELSE {runCommand(call[item[w]], ch)} :
          answer' = [answer EXCEPT ![w] = a]
    /\ call' = [call EXCEPT ![item[w]].timedOut = ch = "timeout"]
    /\ UNCHANGED <<vars, kind, want, once>>

\* A DNSError ends the attempts as "not resolvable"; any other error and an
\* empty answer are tried again, and the last of them is the result.
SelectDNS(w, ch) ==
    LET c == call[item[w]]
        failed == ch = "timeout" \/ ch = "e1"
    IN  /\ Waiting(w, "dns") /\ ch \in Ready(c)
        /\ \/ /\ ch = "c1" /\ c.res = "addrs"
              /\ answer' = [answer EXCEPT ![w] = "yes"]
              /\ call' = [call EXCEPT ![item[w]].err = FALSE]
           \/ /\ ch = "e1" /\ c.res = "nxdomain"
              /\ answer' = [answer EXCEPT ![w] = "no"]
              /\ UNCHANGED call
           \/ /\ ~(ch = "c1" /\ c.res = "addrs") /\ ~(ch = "e1" /\ c.res = "nxdomain")
              /\ IF c.tries < DNSTries
                 THEN /\ call' = [call EXCEPT ![item[w]] = [NoCall EXCEPT !.tries = c.tries, !.err = failed]]
                      /\ UNCHANGED answer
                 ELSE /\ call' = [call EXCEPT ![item[w]].err = failed]
                      /\ answer' = [answer EXCEPT ![w] = IF failed THEN "error" ELSE "no"]
        /\ UNCHANGED <<vars, kind, want, once>>

-----------------------------------------------------------------------------

\* ValidateValue: an error fails the test, whatever was expected.
ResultOf(a, expected) ==
    IF a # "error" /\ (a = "yes") = expected THEN "pass" ELSE "fail"

Finish(w) ==
    /\ answer[w] # "none"
    /\ Validate(w, ResultOf(answer[w], want[item[w]]))
    /\ answer' = [answer EXCEPT ![w] = "none"]
    /\ UNCHANGED <<kind, want, once, call>>

Skip(w) ==
    /\ Asking(w, "skip") /\ Validate(w, "skipped")
    /\ UNCHANGED qvars

PoolWorker(w) ==
    \/ (Receive(w) \/ Send(w) \/ Exit(w)) /\ UNCHANGED qvars
    \/ \E q \in Snapshots : EnterOnce(w, q) \/ LeaveOnce(w, q) \/ PassOnce(w, q)
    \/ Call(w)
    \/ \E ch \in {"c1", "e1", "timeout"} : SelectOnce(w, ch) \/ SelectDNS(w, ch)
    \/ Finish(w) \/ Skip(w)

PoolNext ==
    \/ (CloseIn \/ CloseOut \/ Stopped) /\ UNCHANGED qvars
    \/ \E w \in Workers : PoolWorker(w)
    \/ \E r \in Resources :
          SendAfterError(r) \/ \E res \in Errors \cup {"zero", "mounted", "addrs", "empty"} : Return(r, res)

PoolSpec == PoolInit /\ [][PoolNext]_<<vars, qvars>>

\* Nothing makes a command, a mount table or a DNS server answer; the timers
\* and the goroutines of the pool are all that is relied on.
PoolFairSpec ==
    /\ PoolSpec
    /\ WF_vars(CloseIn /\ UNCHANGED qvars)
    /\ WF_vars(CloseOut /\ UNCHANGED qvars)
    /\ \A w \in Workers : WF_<<vars, qvars>>(PoolWorker(w))

-----------------------------------------------------------------------------
(* Properties.                                                             *)

\* A command or mount that has hit its timeout fails, even if its goroutine
\* delivers what was expected before the result is sent.
TimedOutFails == \A r \in Resources : call[r].timedOut => sent[r] \in {<<>>, <<"fail">>}

\* When the ports could not be read, every port test of the run fails and not
\* only the one whose worker came first.
PortsErrorReachesAll ==
    once["port"].state = "failed" =>
        \A r \in Resources : kind[r] = "port" => sent[r] \in {<<>>, <<"fail">>}

\* A snapshot that could not be taken never shows a process running or a port
\* listening.
NoPresenceWithoutSnapshot ==
    \A r \in Resources : (kind[r] \in Snapshots /\ want[r] /\ once[kind[r]].state = "failed")
        => sent[r] # <<"pass">>
=============================================================================
