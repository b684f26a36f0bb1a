---------------------------- MODULE ServeProofs -----------------------------
(***************************************************************************)
(* Proofs about the health endpoint for any number of requests, any cache  *)
(* time, any length of a run and any results of the tests.                 *)
(***************************************************************************)
EXTENDS Serve, OutputsProofs

Runs == Seq(Seq(Results))

CacheItems == [tra : Runs, readAt : Nat, expires : Nat]

\* The types of the variables.
ServeTypeOK ==
    /\ outputFormat \in Formats
    /\ scheduleOK \in BOOLEAN
    /\ now \in Nat
    /\ cache # <<>> => \E c \in CacheItems : cache = <<c>>
    /\ pc \in [Requests -> {"idle", "get", "run", "set", "respond", "done"}]
    /\ format \in [Requests -> Formats]
    /\ begun \in [Requests -> Nat]
    /\ readAt \in [Requests -> Nat]
    /\ tra \in [Requests -> Runs]
    /\ age \in [Requests -> Int]
    /\ status \in [Requests -> Nat]

\* A request that runs the tests began to no longer ago than a run may take.
RunsAreShort == \A r \in Requests : Running(r) => begun[r] <= now /\ now <= begun[r] + MaxRun

\* What a run has read it has read while it ran.
ReadDuringRun == \A r \in Requests : pc[r] = "set" => begun[r] <= readAt[r] /\ readAt[r] <= now

\* The item in the cache was read in the past, and the end of its life counts from
\* when it was stored, which was before the run that read it could be over.
CachedNotTooLong ==
    cache # <<>> => /\ cache[1].readAt <= now
                    /\ Cache > 0 => cache[1].expires <= cache[1].readAt + MaxRun + Cache

\* The inductive invariant of the endpoint.
ServeInv ==
    /\ ServeTypeOK
    /\ RunsAreShort
    /\ ReadDuringRun
    /\ CachedNotTooLong
    /\ BoundedStaleness
    /\ StatusMatchesResults

\* The initial states satisfy the invariant.
LEMMA ServeInitial == Init => ServeInv
<1> SUFFICES ASSUME Init PROVE ServeInv
  OBVIOUS
<1>1. ServeTypeOK
  <2>1. <<>> \in Runs
    BY DEF Runs
  <2> QED
    BY <2>1, ServeAssumption DEF Init, ServeTypeOK
<1>2. \A r \in Requests : pc[r] = "idle"
  BY DEF Init
<1>3. cache = <<>>
  BY DEF Init
<1> QED
  BY <1>1, <1>2, <1>3
     DEF ServeInv, RunsAreShort, Running, ReadDuringRun, CachedNotTooLong, BoundedStaleness,
         StatusMatchesResults

\* A tick of the clock: no run outlasts MaxRun.
LEMMA TickKeeps == ServeInv /\ Tick => ServeInv'
<1> SUFFICES ASSUME ServeInv, Tick PROVE ServeInv'
  OBVIOUS
<1> USE DEF Tick, reqVars
<1>1. ServeTypeOK'
  BY DEF ServeInv, ServeTypeOK
<1>2. RunsAreShort'
  BY ServeAssumption DEF ServeInv, ServeTypeOK, RunsAreShort, Running
<1>3. ReadDuringRun'
  BY DEF ServeInv, ServeTypeOK, ReadDuringRun
<1>4. CachedNotTooLong'
  <2> SUFFICES ASSUME cache # <<>> PROVE CachedNotTooLong'
    BY DEF CachedNotTooLong
  <2>1. PICK c \in CacheItems : cache = <<c>>
    BY DEF ServeInv, ServeTypeOK
  <2>2. cache[1] = c /\ c.readAt \in Nat
    BY <2>1 DEF CacheItems
  <2> QED
    BY <2>2 DEF ServeInv, ServeTypeOK, CachedNotTooLong
<1>5. BoundedStaleness'
  BY DEF ServeInv, BoundedStaleness
<1>6. StatusMatchesResults'
  BY DEF ServeInv, StatusMatchesResults
<1> QED
  BY <1>1, <1>2, <1>3, <1>4, <1>5, <1>6 DEF ServeInv

\* A request arrives and chooses an outputer.
LEMMA ArriveKeeps == ASSUME NEW r \in Requests, NEW accept, ServeInv, Arrive(r, accept)
                     PROVE  ServeInv'
<1> USE DEF Arrive
<1>1. negotiateResponseContentType(accept) \in Formats
  BY DEF ServeInv, ServeTypeOK, negotiateResponseContentType
<1>2. ServeTypeOK'
  BY <1>1 DEF ServeInv, ServeTypeOK
<1>3. RunsAreShort' /\ ReadDuringRun'
  BY DEF ServeInv, ServeTypeOK, RunsAreShort, ReadDuringRun, Running
<1>4. CachedNotTooLong'
  BY DEF ServeInv, CachedNotTooLong
<1>5. BoundedStaleness' /\ StatusMatchesResults'
  BY DEF ServeInv, ServeTypeOK, BoundedStaleness, StatusMatchesResults
<1> QED
  BY <1>2, <1>3, <1>4, <1>5 DEF ServeInv

\* A request finds an item that has not expired.
LEMMA HitKeeps == ASSUME NEW r \in Requests, ServeInv, Hit(r)
                  PROVE  ServeInv'
<1> USE DEF Hit
<1>1. PICK c \in CacheItems : cache = <<c>>
  BY DEF Found, ServeInv, ServeTypeOK
<1>2. cache[1] = c /\ c.tra \in Runs /\ c.readAt \in Nat /\ c.expires \in Nat
  BY <1>1 DEF CacheItems
<1>3. ServeTypeOK'
  BY <1>2 DEF ServeInv, ServeTypeOK
<1>4. RunsAreShort' /\ ReadDuringRun'
  BY DEF ServeInv, ServeTypeOK, RunsAreShort, ReadDuringRun, Running
<1>5. CachedNotTooLong'
  BY DEF ServeInv, CachedNotTooLong
<1>6. BoundedStaleness'
  <2>1. Cache > 0 => now - c.readAt <= Cache + MaxRun
    BY <1>1, <1>2, ServeAssumption DEF Found, ServeInv, ServeTypeOK, CachedNotTooLong
  <2> QED
    BY <1>2, <2>1 DEF ServeInv, ServeTypeOK, BoundedStaleness
<1>7. StatusMatchesResults'
  BY DEF ServeInv, ServeTypeOK, StatusMatchesResults
<1> QED
  BY <1>3, <1>4, <1>5, <1>6, <1>7 DEF ServeInv

\* A request finds no item and begins a run.
LEMMA MissKeeps == ASSUME NEW r \in Requests, ServeInv, Miss(r)
                   PROVE  ServeInv'
<1> USE DEF Miss
<1>1. ServeTypeOK'
  BY DEF ServeInv, ServeTypeOK
<1>2. RunsAreShort'
  BY ServeAssumption DEF ServeInv, ServeTypeOK, RunsAreShort, Running
<1>3. ReadDuringRun' /\ BoundedStaleness' /\ StatusMatchesResults'
  BY DEF ServeInv, ServeTypeOK, ReadDuringRun, BoundedStaleness, StatusMatchesResults
<1>4. CachedNotTooLong'
  BY DEF ServeInv, CachedNotTooLong
<1> QED
  BY <1>1, <1>2, <1>3, <1>4 DEF ServeInv

\* The run of a request reads the system.
LEMMA validateKeeps == ASSUME NEW r \in Requests, NEW found \in Worlds, ServeInv, validate(r, found)
                       PROVE  ServeInv'
<1> USE DEF validate
<1>1. ServeTypeOK'
  <2>1. (IF scheduleOK THEN found ELSE <<>>) \in Runs
    BY ServeAssumption DEF Runs
  <2> QED
    BY <2>1 DEF ServeInv, ServeTypeOK
<1>2. RunsAreShort'
  BY DEF ServeInv, ServeTypeOK, RunsAreShort, Running
<1>3. ReadDuringRun'
  BY DEF ServeInv, ServeTypeOK, RunsAreShort, ReadDuringRun, Running
<1>4. BoundedStaleness' /\ StatusMatchesResults'
  BY DEF ServeInv, ServeTypeOK, BoundedStaleness, StatusMatchesResults
<1>5. CachedNotTooLong'
  BY DEF ServeInv, CachedNotTooLong
<1> QED
  BY <1>1, <1>2, <1>3, <1>4, <1>5 DEF ServeInv

\* A request puts its results in the cache, over newer ones perhaps.
LEMMA SetDefaultKeeps == ASSUME NEW r \in Requests, ServeInv, SetDefault(r)
                         PROVE  ServeInv'
<1> USE DEF SetDefault
<1> DEFINE c == [tra |-> tra[r], readAt |-> readAt[r],
                 expires |-> IF Cache = 0 THEN Never ELSE now + Cache]
<1>1. c \in CacheItems /\ cache' = <<c>>
  BY ServeAssumption DEF ServeInv, ServeTypeOK, CacheItems, Never
<1>2. ServeTypeOK'
  <2>1. now - readAt[r] \in Int
    BY DEF ServeInv, ServeTypeOK
  <2> HIDE DEF c
  <2> QED
    BY <1>1, <2>1 DEF ServeInv, ServeTypeOK
<1>3. RunsAreShort' /\ ReadDuringRun'
  BY DEF ServeInv, ServeTypeOK, RunsAreShort, ReadDuringRun, Running
<1>4. readAt[r] <= now /\ now <= readAt[r] + MaxRun
  BY ServeAssumption DEF ServeInv, ServeTypeOK, RunsAreShort, ReadDuringRun, Running
<1>5. CachedNotTooLong'
  <2>1. cache'[1] = c
    BY <1>1
  <2> QED
    BY <2>1, <1>4, ServeAssumption DEF ServeInv, ServeTypeOK, CachedNotTooLong
<1>6. BoundedStaleness'
  BY <1>4, ServeAssumption DEF ServeInv, ServeTypeOK, BoundedStaleness
<1>7. StatusMatchesResults'
  BY DEF ServeInv, ServeTypeOK, StatusMatchesResults
<1> QED
  BY <1>2, <1>3, <1>5, <1>6, <1>7 DEF ServeInv

\* A request answers.
LEMMA RespondKeeps == ASSUME NEW r \in Requests, ServeInv, Respond(r)
                      PROVE  ServeInv'
<1> USE DEF Respond
<1>1. PICK exitCode \in ExitCodes(format[r], tra[r]) :
          status' = [status EXCEPT ![r] = IF exitCode = 0 THEN 200 ELSE 503]
  OBVIOUS
<1>2. ServeTypeOK'
  BY <1>1 DEF ServeInv, ServeTypeOK
<1>3. RunsAreShort' /\ ReadDuringRun' /\ BoundedStaleness'
  BY DEF ServeInv, ServeTypeOK, RunsAreShort, ReadDuringRun, BoundedStaleness, Running
<1>4. CachedNotTooLong'
  BY DEF ServeInv, CachedNotTooLong
<1>5. StatusMatchesResults'
  <2>1. format[r] \in CountingFormats => (exitCode = 0 <=> ~SomeFailed(tra[r]))
    BY ExitCodeCountsFailures DEF ServeInv, ServeTypeOK, Runs
  <2>2. status'[r] = 503 <=> exitCode # 0
    BY <1>1 DEF ServeInv, ServeTypeOK
  <2>3. \A q \in Requests : q # r => status'[q] = status[q] /\ pc'[q] = pc[q]
    BY <1>1 DEF ServeInv, ServeTypeOK
  <2>4. UNCHANGED <<format, tra>>
    OBVIOUS
  <2> QED
    BY <2>1, <2>2, <2>3, <2>4 DEF ServeInv, StatusMatchesResults
<1> QED
  BY <1>2, <1>3, <1>4, <1>5 DEF ServeInv

\* The invariant is inductive.
LEMMA ServeInductive == ServeInv /\ [Next]_vars => ServeInv'
<1> SUFFICES ASSUME ServeInv, [Next]_vars PROVE ServeInv'
  OBVIOUS
<1>1. CASE Tick
  BY <1>1, TickKeeps
<1>2. CASE \E r \in Requests : Handle(r)
  BY <1>2, HitKeeps, MissKeeps, validateKeeps, SetDefaultKeeps, RespondKeeps DEF Handle
<1>3. CASE \E r \in Requests : \E accept \in Accepts : Arrive(r, accept)
  BY <1>3, ArriveKeeps
<1>4. CASE UNCHANGED vars
  BY <1>4 DEF vars, reqVars, ServeInv, ServeTypeOK, RunsAreShort, ReadDuringRun, Running,
              CachedNotTooLong, BoundedStaleness, StatusMatchesResults
<1> QED
  BY <1>1, <1>2, <1>3, <1>4 DEF Next

\* The invariant holds in every state of the endpoint (serve.go).
THEOREM ServeInvariant == Spec => []ServeInv
<1>1. Init /\ [][Next]_vars => []ServeInv
  BY ServeInitial, ServeInductive, PTL
<1> QED
  BY <1>1, PTL DEF Spec

\* However many requests miss the cache at once and overwrite each other's
\* results, no answer of healthHandler.ServeHTTP is based on results that are
\* older than --cache and the longest run together.
THEOREM ServeBoundedStaleness == Spec => []BoundedStaleness
<1>1. ServeInv => BoundedStaleness
  BY DEF ServeInv
<1> QED
  BY <1>1, ServeInvariant, PTL

\* The status that healthHandler.ServeHTTP answers with says whether the results
\* behind it have a failure, whichever request they come from, in every format
\* that counts.
THEOREM ServeStatusMatchesResults == Spec => []StatusMatchesResults
<1>1. ServeInv => StatusMatchesResults
  BY DEF ServeInv
<1> QED
  BY <1>1, ServeInvariant, PTL
=============================================================================
