----------------------------- MODULE PoolProofs -----------------------------
(***************************************************************************)
(* The worker pool of validateParallel keeps the contract of a test run,   *)
(* for every number of resources and every positive worker count.  The     *)
(* pool whose workers share a System implements it, and its snapshots and  *)
(* timers give every test the result they should.                          *)
(***************************************************************************)
EXTENDS Pool, TLAPS

-----------------------------------------------------------------------------
(* The pool by itself.                                                     *)

Busy(w) == wpc[w] \in {"validate", "send"}

\* in is closed after the last resource, a worker leaves after that, and out is
\* closed after the last worker.
Order ==
    /\ inClosed => fed = N
    /\ \A w \in Workers : wpc[w] = "exit" => inClosed
    /\ closed => \A w \in Workers : wpc[w] = "exit"

\* A busy worker is the only one to hold its resource, which has delivered
\* nothing yet.
Holding ==
    /\ \A w \in Workers : Busy(w) => item[w] \in 1..fed /\ sent[item[w]] = <<>>
    /\ \A v, w \in Workers : Busy(v) /\ Busy(w) /\ item[v] = item[w] => v = w

\* What has not been delivered is still to be fed or is held by a worker.
Undelivered ==
    \A r \in Resources :
        /\ r > fed => sent[r] = <<>>
        /\ (r <= fed /\ sent[r] = <<>>) => \E w \in Workers : Busy(w) /\ item[w] = r

IInv == TypeOK /\ Order /\ Holding /\ Undelivered

\* The invariant holds before the first resource is fed.
LEMMA InitInv == Init => IInv
<1> SUFFICES ASSUME Init PROVE IInv
  OBVIOUS
<1>1. \A w \in Workers : ~Busy(w) /\ wpc[w] # "exit"
  BY DEF Init, Busy
<1>2. \A r \in Resources : sent[r] = <<>> /\ ~(r <= fed)
  BY PoolAssumption DEF Init, Resources
<1>3. TypeOK
  <2>1. sent \in [Resources -> Seq(Outcomes)]
    BY DEF Init
  <2>2. 0 \in 0..N
    BY PoolAssumption
  <2> QED
    BY <2>1, <2>2 DEF Init, TypeOK, Outcomes
<1>4. Order
  BY <1>1 DEF Init, Order
<1>5. Holding
  BY <1>1 DEF Holding
<1>6. Undelivered
  BY <1>2 DEF Undelivered
<1> QED
  BY <1>3, <1>4, <1>5, <1>6 DEF IInv

\* A worker that receives a resource becomes its only holder.
LEMMA ReceiveInv == ASSUME NEW w \in Workers, IInv, Receive(w) PROVE IInv'
<1>1. /\ wpc[w] = "recv" /\ fed \in 0..N /\ fed # N /\ fed + 1 \in 1..N
      /\ fed' = fed + 1
      /\ item' = [item EXCEPT ![w] = fed + 1]
      /\ wpc' = [wpc EXCEPT ![w] = "validate"]
      /\ UNCHANGED <<inClosed, results, sent, closed>>
  BY PoolAssumption DEF Receive, IInv, TypeOK
<1>2. \A v \in Workers :
         /\ Busy(v)' <=> (v = w \/ Busy(v))
         /\ item'[v] = IF v = w THEN fed + 1 ELSE item[v]
         /\ wpc'[v] = "exit" <=> wpc[v] = "exit"
  BY <1>1 DEF IInv, TypeOK, Busy
<1>3. TypeOK'
  BY <1>1, PoolAssumption DEF IInv, TypeOK
<1>4. Order'
  BY <1>1, <1>2, PoolAssumption DEF IInv, Order, Receive
<1>5. Holding'
  BY <1>1, <1>2, PoolAssumption DEF IInv, Holding, Undelivered, Resources
<1>6. Undelivered'
  <2>1. ASSUME NEW r \in Resources, r > fed + 1 PROVE sent[r] = <<>>
    <3>1. r > fed
      BY <1>1, <2>1 DEF Resources
    <3> QED
      BY <3>1 DEF IInv, Undelivered
  <2>2. ASSUME NEW r \in Resources, r <= fed + 1, sent[r] = <<>>
        PROVE  \E v \in Workers : Busy(v)' /\ item'[v] = r
    <3>1. CASE r = fed + 1
      BY <1>2, <3>1
    <3>2. CASE r # fed + 1
      <4>1. r <= fed
        BY <1>1, <2>2, <3>2 DEF Resources
      <4>2. PICK v \in Workers : Busy(v) /\ item[v] = r
        BY <2>2, <4>1 DEF IInv, Undelivered
      <4>3. v # w
        BY <1>1, <4>2 DEF Busy
      <4> QED
        BY <1>2, <4>2, <4>3
    <3> QED
      BY <3>1, <3>2
  <2> QED
    BY <1>1, <2>1, <2>2 DEF Undelivered
<1> QED
  BY <1>3, <1>4, <1>5, <1>6 DEF IInv

\* Validating changes nothing that others see.
LEMMA ValidateInv ==
    ASSUME NEW w \in Workers, NEW outcome \in Outcomes, IInv, Validate(w, outcome) PROVE IInv'
<1>1. /\ wpc[w] = "validate"
      /\ results' = [results EXCEPT ![w] = outcome]
      /\ wpc' = [wpc EXCEPT ![w] = "send"]
      /\ UNCHANGED <<fed, inClosed, item, sent, closed>>
  BY DEF Validate
<1>2. \A v \in Workers : (Busy(v)' <=> Busy(v)) /\ (wpc'[v] = "exit" <=> wpc[v] = "exit")
  BY <1>1 DEF IInv, TypeOK, Busy
<1>3. TypeOK'
  BY <1>1 DEF IInv, TypeOK
<1>4. Order' /\ Holding' /\ Undelivered'
  BY <1>1, <1>2 DEF IInv, Order, Holding, Undelivered
<1> QED
  BY <1>3, <1>4 DEF IInv

\* A worker delivers what only it holds.
LEMMA SendInv == ASSUME NEW w \in Workers, IInv, Send(w)
                 PROVE  /\ IInv'
                        /\ item[w] \in Resources /\ sent[item[w]] = <<>>
                        /\ sent' = [sent EXCEPT ![item[w]] = <<results[w]>>]
<1>1. /\ wpc[w] = "send"
      /\ sent' = [sent EXCEPT ![item[w]] = Append(sent[item[w]], results[w])]
      /\ wpc' = [wpc EXCEPT ![w] = "recv"]
      /\ UNCHANGED <<fed, inClosed, item, results, closed>>
  BY DEF Send
<1>2. item[w] \in Resources /\ sent[item[w]] = <<>> /\ results[w] \in Outcomes
  BY <1>1, PoolAssumption DEF IInv, TypeOK, Holding, Busy, Resources
<1>3. Append(<<>>, results[w]) = <<results[w]>> /\ <<results[w]>> # <<>>
  OBVIOUS
<1>4. sent' = [sent EXCEPT ![item[w]] = <<results[w]>>]
  BY <1>1, <1>2, <1>3
<1>5. /\ \A v \in Workers : /\ Busy(v)' <=> (v # w /\ Busy(v))
                            /\ wpc'[v] = "exit" <=> wpc[v] = "exit"
      /\ Busy(w)
  BY <1>1 DEF IInv, TypeOK, Busy
<1>6. \A r \in Resources : sent'[r] = IF r = item[w] THEN <<results[w]>> ELSE sent[r]
  BY <1>2, <1>4 DEF IInv, TypeOK
<1>7. TypeOK'
  <2>1. sent' \in [Resources -> Seq(Outcomes)]
    BY <1>2, <1>4 DEF IInv, TypeOK
  <2> QED
    BY <1>1, <2>1 DEF IInv, TypeOK
<1>8. Order'
  BY <1>1, <1>5 DEF IInv, Order
<1>9. Holding'
  <2>1. ASSUME NEW v \in Workers, Busy(v)' PROVE item[v] \in 1..fed /\ sent'[item[v]] = <<>>
    <3>1. v # w /\ Busy(v) /\ item[v] # item[w] /\ item[v] \in 1..fed /\ sent[item[v]] = <<>>
      BY <1>5, <2>1 DEF IInv, Holding
    <3>2. item[v] \in Resources
      BY <3>1, PoolAssumption DEF IInv, TypeOK, Resources
    <3> QED
      BY <1>6, <3>1, <3>2
  <2> QED
    BY <1>1, <1>5, <2>1 DEF IInv, Holding
<1>10. Undelivered'
  <2>1. ASSUME NEW r \in Resources
        PROVE  /\ r > fed => sent'[r] = <<>>
               /\ (r <= fed /\ sent'[r] = <<>>) => \E v \in Workers : Busy(v)' /\ item[v] = r
    <3>1. CASE r = item[w]
      <4>1. item[w] \in 1..fed
        BY <1>5 DEF IInv, Holding
      <4>2. ~(r > fed)
        BY <3>1, <4>1 DEF IInv, TypeOK
      <4> QED
        BY <1>3, <1>6, <3>1, <4>2
    <3>2. CASE r # item[w]
      BY <1>5, <1>6, <3>2 DEF IInv, Undelivered
    <3> QED
      BY <3>1, <3>2
  <2> QED
    BY <1>1, <2>1 DEF Undelivered
<1> QED
  BY <1>2, <1>4, <1>7, <1>8, <1>9, <1>10 DEF IInv

\* The end of a worker, and of either channel.
LEMMA EndInv == ASSUME IInv, CloseIn \/ CloseOut \/ Stopped \/ (\E w \in Workers : Exit(w))
                PROVE  IInv'
<1>1. CASE CloseIn
  BY <1>1 DEF CloseIn, IInv, TypeOK, Order, Holding, Undelivered, Busy
<1>2. CASE CloseOut
  BY <1>2 DEF CloseOut, IInv, TypeOK, Order, Holding, Undelivered, Busy
<1>3. CASE Stopped
  BY <1>3 DEF Stopped, vars, IInv, TypeOK, Order, Holding, Undelivered, Busy
<1>4. ASSUME NEW w \in Workers, Exit(w) PROVE IInv'
  <2>1. /\ wpc[w] = "recv" /\ inClosed /\ wpc' = [wpc EXCEPT ![w] = "exit"]
        /\ UNCHANGED <<fed, inClosed, item, results, sent, closed>>
    BY <1>4 DEF Exit
  <2>2. \A v \in Workers : /\ Busy(v)' <=> Busy(v)
                           /\ wpc'[v] = IF v = w THEN "exit" ELSE wpc[v]
    BY <2>1 DEF IInv, TypeOK, Busy
  <2>3. TypeOK'
    BY <2>1 DEF IInv, TypeOK
  <2>4. Order' /\ Holding' /\ Undelivered'
    BY <2>1, <2>2 DEF IInv, Order, Holding, Undelivered
  <2> QED
    BY <2>3, <2>4 DEF IInv
<1> QED
  BY <1>1, <1>2, <1>3, <1>4

\* Every step keeps the invariant.
LEMMA NextInv == IInv /\ [Next]_vars => IInv'
<1> SUFFICES ASSUME IInv, [Next]_vars PROVE IInv'
  OBVIOUS
<1>1. CASE UNCHANGED vars
  BY <1>1 DEF vars, IInv, TypeOK, Order, Holding, Undelivered, Busy
<1>2. CASE Next
  BY <1>2, ReceiveInv, ValidateInv, SendInv, EndInv DEF Next, Worker
<1> QED
  BY <1>1, <1>2

\* The invariant holds throughout a run.
THEOREM Invariance == Spec => []IInv
  BY InitInv, NextInv, PTL DEF Spec

\* With at least one worker, out is closed only after the last delivery.
LEMMA ClosingMeansDelivered ==
    ASSUME IInv, WorkerCount >= 1, \A w \in Workers : wpc[w] = "exit"
    PROVE  /\ inClosed /\ fed = N
           /\ \A r \in Resources : sent[r] # <<>>
<1>1. 1 \in Workers
  BY PoolAssumption DEF Workers, WorkerCount
<1>2. inClosed /\ fed = N
  BY <1>1 DEF IInv, Order
<1>3. \A w \in Workers : ~Busy(w)
  BY DEF Busy
<1>4. \A r \in Resources : r <= fed
  BY <1>2, PoolAssumption DEF Resources
<1> QED
  BY <1>2, <1>3, <1>4 DEF IInv, Undelivered

\* validateParallel implements the contract of a test run whenever it starts a
\* worker: every resource delivers exactly one group of results, and out is
\* closed after the last one.
THEOREM PoolImplementsTestRun == ASSUME WorkerCount >= 1 PROVE Spec => RunContract
<1>1. Init => TR!Init
  BY DEF Init, TR!Init
<1>2. IInv /\ [Next]_vars => [TR!Next]_(TR!vars)
  <2> SUFFICES ASSUME IInv, [Next]_vars, ~(UNCHANGED TR!vars) PROVE TR!Next
    OBVIOUS
  <2>1. ASSUME NEW w \in Workers, Send(w) PROVE TR!Next
    <3>1. /\ item[w] \in Resources /\ sent[item[w]] = <<>>
          /\ sent' = [sent EXCEPT ![item[w]] = <<results[w]>>]
          /\ closed' = closed /\ results[w] \in Outcomes
      BY <2>1, SendInv DEF Send, IInv, TypeOK
    <3>2. ~closed
      BY <2>1 DEF Send, IInv, Order
    <3>3. TR!Deliver(item[w], results[w])
      BY <3>1, <3>2 DEF TR!Deliver, TR!Running
    <3> QED
      BY <3>1, <3>3 DEF TR!Next
  <2>2. CASE CloseOut
    <3>1. \A r \in Resources : sent[r] # <<>>
      BY <2>2, ClosingMeansDelivered DEF CloseOut
    <3>2. TR!Close
      BY <2>2, <3>1 DEF CloseOut, TR!Close, TR!Running
    <3> QED
      BY <3>2 DEF TR!Next
  <2>3. CASE CloseIn \/ Stopped \/ UNCHANGED vars
    BY <2>3 DEF CloseIn, Stopped, vars, TR!vars
  <2>4. ASSUME NEW w \in Workers, Receive(w) \/ Exit(w) \/ \E outcome \in Outcomes : Validate(w, outcome)
        PROVE  FALSE
    BY <2>4 DEF Receive, Exit, Validate, TR!vars
  <2> QED
    BY <2>1, <2>2, <2>3, <2>4 DEF Next, Worker
<1> QED
  BY <1>1, <1>2, Invariance, PTL DEF Spec, RunContract, TR!Spec

\* validateParallel leaves no feeder behind once it has a worker.
THEOREM FeederAlwaysEnds == Spec => []NoFeederLeft
<1>1. IInv => NoFeederLeft
  BY ClosingMeansDelivered DEF NoFeederLeft, IInv, Order
<1> QED
  BY <1>1, Invariance, PTL

-----------------------------------------------------------------------------
(* The pool with the System of its workers.                                *)

CallRecords ==
    [go : {"off", "run", "erred", "done"},
     res : Errors \cup {"none", "zero", "mounted", "addrs", "empty"},
     c1 : BOOLEAN, e1 : BOOLEAN, tries : Nat, err : BOOLEAN, timedOut : BOOLEAN]

\* The types of the variables that the System adds.
SystemTypeOK ==
    /\ kind \in [Resources -> Kinds]
    /\ want \in [Resources -> BOOLEAN]
    /\ once \in [Snapshots -> [state : {"new", "busy", "ok", "failed"}, by : Workers \cup {0}]]
    /\ call \in [Resources -> CallRecords]
    /\ answer \in [Workers -> {"none", "yes", "no", "error"}]

\* Only a worker inside Validate has an answer.
AnswersInside == \A w \in Workers : answer[w] # "none" => wpc[w] = "validate"

\* The worker inside a sync.Once came to read and has no answer yet.
ReaderAsks == \A q \in Snapshots : once[q].state = "busy" =>
                  once[q].by \in Workers /\ Asking(once[q].by, q)

\* Until a snapshot has been read no test of its kind has an answer or a result.
UnreadUnanswered ==
    \A q \in Snapshots : once[q].state \in {"new", "busy"} =>
        /\ \A w \in Workers : (wpc[w] = "validate" /\ kind[item[w]] = q) => answer[w] = "none"
        /\ \A w \in Workers : wpc[w] = "send" => kind[item[w]] # q
        /\ \A r \in Resources : kind[r] = q => sent[r] = <<>>

\* No call is made for a resource that no worker has received.
UnfedUncalled == \A r \in Resources : r > fed => ~call[r].timedOut

\* The answers that the getter of r may have given.
Allows(r, a) ==
    /\ call[r].timedOut => a = "error"
    /\ (kind[r] = "port" /\ once["port"].state = "failed") => a \in {"none", "error"}
    /\ (kind[r] \in Snapshots /\ once[kind[r]].state = "failed") => a # "yes"

\* The results that r may have.
Judges(r, outcome) ==
    /\ call[r].timedOut => outcome = "fail"
    /\ (kind[r] = "port" /\ once["port"].state = "failed") => outcome = "fail"
    /\ (kind[r] \in Snapshots /\ want[r] /\ once[kind[r]].state = "failed") => outcome # "pass"

Answered == \A w \in Workers : wpc[w] = "validate" => Allows(item[w], answer[w])
Judged == \A w \in Workers : wpc[w] = "send" => Judges(item[w], results[w])
Delivered == \A r \in Resources : sent[r] # <<>> => \E o \in Outcomes : sent[r] = <<o>> /\ Judges(r, o)

\* The inductive invariant of the pool with its System.
PoolInv ==
    /\ IInv
    /\ SystemTypeOK /\ AnswersInside /\ ReaderAsks /\ UnreadUnanswered /\ UnfedUncalled
    /\ Answered /\ Judged /\ Delivered

\* A result of a test is pass or fail.
LEMMA ResultOfType == ASSUME NEW a, NEW expected PROVE ResultOf(a, expected) \in Outcomes
BY DEF ResultOf, Outcomes

\* To the pool, a step of the pool with its System is a step of the pool or none.
LEMMA PoolStep == ASSUME [PoolNext]_<<vars, qvars>> PROVE [Next]_vars
<1>1. CASE UNCHANGED <<vars, qvars>>
  BY <1>1
<1>2. ASSUME NEW w \in Workers, Finish(w) PROVE Next
  BY <1>2, ResultOfType DEF Finish, Next, Worker
<1>3. ASSUME NEW w \in Workers, Skip(w) PROVE Next
  <2>1. "skipped" \in Outcomes
    BY DEF Outcomes
  <2> QED
    BY <1>3, <2>1 DEF Skip, Next, Worker
<1>4. ASSUME NEW w \in Workers, Receive(w) \/ Send(w) \/ Exit(w) PROVE Next
  BY <1>4 DEF Next, Worker
<1>5. ASSUME NEW w \in Workers,
             \/ \E q \in Snapshots : EnterOnce(w, q) \/ LeaveOnce(w, q) \/ PassOnce(w, q)
             \/ Call(w)
             \/ \E ch \in {"c1", "e1", "timeout"} : SelectOnce(w, ch) \/ SelectDNS(w, ch)
      PROVE  UNCHANGED vars
  BY <1>5 DEF EnterOnce, LeaveOnce, PassOnce, Call, SelectOnce, SelectDNS
<1>6. ASSUME NEW w \in Workers, PoolWorker(w) PROVE [Next]_vars
  BY <1>2, <1>3, <1>4, <1>5, <1>6 DEF PoolWorker
<1>7. ASSUME NEW r \in Resources, SendAfterError(r) \/ \E res : Return(r, res) PROVE UNCHANGED vars
  BY <1>7 DEF SendAfterError, Return
<1>8. CASE CloseIn \/ CloseOut \/ Stopped
  BY <1>8 DEF Next
<1> QED
  BY <1>1, <1>6, <1>7, <1>8 DEF PoolNext

\* What the workers share, the snapshots and the timed calls, leaves the pool as
\* it was: its runs are runs of Parallel.
THEOREM PoolImplementsParallel == PoolSpec => Spec
<1>1. PoolInit => Init
  BY DEF PoolInit
<1> QED
  BY <1>1, PoolStep, PTL DEF PoolSpec, Spec

\* Nothing has been read, called or answered at first.
LEMMA PoolInitial == PoolInit => PoolInv
<1> SUFFICES ASSUME PoolInit PROVE PoolInv
  OBVIOUS
<1>1. IInv
  BY InitInv DEF PoolInit
<1>2. NoCall \in CallRecords /\ ~NoCall.timedOut
  BY DEF NoCall, CallRecords
<1>3. SystemTypeOK
  <2>1. kind \in [Resources -> Kinds]
    BY SuitesAssumption DEF PoolInit
  <2> QED
    BY <1>2, <2>1 DEF PoolInit, SystemTypeOK
<1>4. /\ \A w \in Workers : answer[w] = "none" /\ wpc[w] = "recv"
      /\ \A q \in Snapshots : once[q].state = "new"
      /\ \A r \in Resources : sent[r] = <<>> /\ ~call[r].timedOut
  BY <1>2 DEF PoolInit, Init
<1> QED
  BY <1>1, <1>3, <1>4 DEF PoolInv, AnswersInside, ReaderAsks, UnreadUnanswered, UnfedUncalled,
                          Answered, Judged, Delivered

\* A busy worker holds a resource that was fed and has delivered nothing.
LEMMA HeldItem == ASSUME IInv, NEW w \in Workers, Busy(w)
                  PROVE  /\ item[w] \in Resources /\ ~(item[w] > fed) /\ sent[item[w]] = <<>>
                         /\ \A v \in Workers : Busy(v) /\ item[v] = item[w] => v = w
<1>1. item[w] \in 1..fed /\ fed \in 0..N
  BY DEF IInv, Holding, TypeOK
<1> QED
  BY <1>1, PoolAssumption DEF IInv, Holding, Resources

\* A timed call goes on, and no answer comes of it yet.
LEMMA CallGoesOn ==
    ASSUME PoolInv, UNCHANGED <<vars, kind, want, once, answer>>,
           call' \in [Resources -> CallRecords],
           \A r \in Resources : call'[r].timedOut = call[r].timedOut
    PROVE  PoolInv'
<1>1. IInv'
  BY NextInv DEF PoolInv
<1>2. SystemTypeOK'
  BY DEF PoolInv, SystemTypeOK
<1>3. AnswersInside' /\ ReaderAsks' /\ UnreadUnanswered' /\ UnfedUncalled'
  BY DEF vars, PoolInv, AnswersInside, ReaderAsks, UnreadUnanswered, UnfedUncalled, Asking
<1>4. \A r \in Resources : \A x : (Allows(r, x)' <=> Allows(r, x)) /\ (Judges(r, x)' <=> Judges(r, x))
  BY DEF Allows, Judges
<1>5. Answered' /\ Judged' /\ Delivered'
  <2>1. \A w \in Workers : Busy(w) => item[w] \in Resources
    BY HeldItem DEF PoolInv
  <2> QED
    BY <1>4, <2>1 DEF vars, PoolInv, Answered, Judged, Delivered, Busy
<1> QED
  BY <1>1, <1>2, <1>3, <1>5 DEF PoolInv

\* A worker gets its answer from a snapshot that has been read, or from a call.
LEMMA AnswerComes ==
    ASSUME PoolInv, NEW w \in Workers, wpc[w] = "validate", NEW a \in {"yes", "no", "error"},
           answer' = [answer EXCEPT ![w] = a],
           UNCHANGED <<vars, kind, want, once>>,
           call' \in [Resources -> CallRecords],
           \A r \in Resources : r # item[w] => call'[r].timedOut = call[r].timedOut,
           kind[item[w]] \in Snapshots => once[kind[item[w]]].state \in {"ok", "failed"},
           Allows(item[w], a)'
    PROVE  PoolInv'
<1>1. IInv'
  BY NextInv DEF PoolInv
<1>2. SystemTypeOK'
  BY DEF PoolInv, SystemTypeOK
<1>3. \A v \in Workers : answer'[v] = IF v = w THEN a ELSE answer[v]
  BY DEF PoolInv, SystemTypeOK
<1>4. /\ item[w] \in Resources /\ ~(item[w] > fed) /\ sent[item[w]] = <<>>
      /\ \A v \in Workers : Busy(v) => /\ item[v] \in Resources
                                       /\ v # w => item[v] # item[w]
  BY HeldItem DEF PoolInv, Busy
<1>5. UNCHANGED <<wpc, item, results, sent, fed>>
  BY DEF vars
<1>6. AnswersInside'
  BY <1>3, <1>5 DEF PoolInv, AnswersInside
<1>7. ReaderAsks'
  <2> SUFFICES ASSUME NEW q \in Snapshots, once[q].state = "busy"
               PROVE  once[q].by \in Workers /\ Asking(once[q].by, q)'
    BY DEF ReaderAsks
  <2>1. once[q].by \in Workers /\ Asking(once[q].by, q)
    BY DEF PoolInv, ReaderAsks
  <2>2. once[q].by # w
    BY <2>1 DEF Asking
  <2> QED
    BY <1>3, <1>5, <2>1, <2>2 DEF Asking
<1>8. UnreadUnanswered'
  <2> SUFFICES ASSUME NEW q \in Snapshots, once[q].state \in {"new", "busy"}
               PROVE  /\ \A v \in Workers : (wpc[v] = "validate" /\ kind[item[v]] = q) => answer'[v] = "none"
                      /\ \A v \in Workers : wpc[v] = "send" => kind[item[v]] # q
                      /\ \A r \in Resources : kind[r] = q => sent[r] = <<>>
    BY <1>5 DEF UnreadUnanswered
  <2>1. kind[item[w]] # q
    OBVIOUS
  <2> QED
    BY <1>3, <2>1 DEF PoolInv, UnreadUnanswered
<1>9. UnfedUncalled'
  BY <1>4, <1>5 DEF PoolInv, UnfedUncalled
<1>10. \A r \in Resources : r # item[w] =>
          \A x : (Allows(r, x)' <=> Allows(r, x)) /\ (Judges(r, x)' <=> Judges(r, x))
  BY DEF Allows, Judges
<1>11. Answered'
  BY <1>3, <1>4, <1>5, <1>10 DEF PoolInv, Answered, Busy
<1>12. Judged'
  BY <1>4, <1>5, <1>10 DEF PoolInv, Judged, Busy
<1>13. Delivered'
  BY <1>4, <1>5, <1>10 DEF PoolInv, Delivered
<1> QED
  BY <1>1, <1>2, <1>6, <1>7, <1>8, <1>9, <1>11, <1>12, <1>13 DEF PoolInv

\* A worker that asks has not hit a timeout.
LEMMA AskingNotTimedOut ==
    ASSUME PoolInv, NEW w \in Workers, NEW k, Asking(w, k)
    PROVE  /\ item[w] \in Resources /\ ~call[item[w]].timedOut /\ Busy(w)
           /\ call[item[w]] \in CallRecords
<1>1. Busy(w) /\ item[w] \in Resources
  BY HeldItem DEF PoolInv, Asking, Busy
<1> QED
  BY <1>1 DEF PoolInv, SystemTypeOK, Answered, Allows, Asking

\* The first worker enters the sync.Once.
LEMMA EnterOnceKeeps ==
    ASSUME PoolInv, NEW w \in Workers, NEW q \in Snapshots, EnterOnce(w, q) PROVE PoolInv'
<1>1. IInv'
  BY NextInv DEF PoolInv, EnterOnce
<1>2. /\ once' = [once EXCEPT ![q] = [state |-> "busy", by |-> w]]
      /\ Asking(w, q) /\ once[q].state = "new"
      /\ UNCHANGED <<wpc, item, results, sent, fed, kind, want, call, answer>>
  BY DEF EnterOnce, vars
<1>3. \A p \in Snapshots : once'[p] = IF p = q THEN [state |-> "busy", by |-> w] ELSE once[p]
  BY <1>2 DEF PoolInv, SystemTypeOK
<1>4. SystemTypeOK'
  BY <1>2 DEF PoolInv, SystemTypeOK
<1>5. AnswersInside' /\ UnfedUncalled'
  BY <1>2 DEF PoolInv, AnswersInside, UnfedUncalled
<1>6. ReaderAsks'
  BY <1>2, <1>3 DEF PoolInv, ReaderAsks, Asking
<1>7. UnreadUnanswered'
  BY <1>2, <1>3 DEF PoolInv, UnreadUnanswered
<1>8. \A r \in Resources : \A x : (Allows(r, x)' <=> Allows(r, x)) /\ (Judges(r, x)' <=> Judges(r, x))
  <2>1. \A p \in Snapshots : once'[p].state = "failed" <=> once[p].state = "failed"
    BY <1>2, <1>3
  <2>2. "port" \in Snapshots
    BY DEF Snapshots
  <2> QED
    BY <1>2, <2>1, <2>2 DEF Allows, Judges
<1>9. Answered' /\ Judged' /\ Delivered'
  <2>1. \A v \in Workers : Busy(v) => item[v] \in Resources
    BY HeldItem DEF PoolInv
  <2> QED
    BY <1>2, <1>8, <2>1 DEF PoolInv, Answered, Judged, Delivered, Busy
<1> QED
  BY <1>1, <1>4, <1>5, <1>6, <1>7, <1>9 DEF PoolInv

\* What reading a snapshot answers: never a presence when it failed, and only the
\* error when it is the ports that failed or the reader itself that asks.
LEMMA SnapshotAnswers ==
    ASSUME NEW q \in Snapshots, NEW s \in {"ok", "failed"}, NEW first \in BOOLEAN,
           NEW a \in IF q = "process" THEN ProcMap(s, first) ELSE Ports(s)
    PROVE  /\ a \in {"yes", "no", "error"}
           /\ s = "failed" => a # "yes"
           /\ s = "failed" /\ (q = "port" \/ first) => a = "error"
BY DEF Snapshots, ProcMap, Ports

\* The worker inside the sync.Once has read the snapshot.
LEMMA LeaveOnceKeeps ==
    ASSUME PoolInv, NEW w \in Workers, NEW q \in Snapshots, LeaveOnce(w, q) PROVE PoolInv'
<1>1. IInv'
  BY NextInv DEF PoolInv, LeaveOnce
<1>2. /\ once[q].state = "busy" /\ once[q].by = w
      /\ UNCHANGED <<wpc, item, results, sent, fed, kind, want, call>>
  BY DEF LeaveOnce, vars
<1>3. PICK s \in {"ok", "failed"} :
          /\ once' = [once EXCEPT ![q].state = s]
          /\ \E a \in IF q = "process" THEN ProcMap(s, TRUE) ELSE Ports(s) :
                answer' = [answer EXCEPT ![w] = a]
  BY DEF LeaveOnce, GetProcs, GetPorts
<1>4. PICK a \in {"yes", "no", "error"} :
          /\ answer' = [answer EXCEPT ![w] = a]
          /\ s = "failed" => a = "error"
  <2>1. PICK a \in IF q = "process" THEN ProcMap(s, TRUE) ELSE Ports(s) :
            answer' = [answer EXCEPT ![w] = a]
    BY <1>3
  <2>2. a \in {"yes", "no", "error"} /\ (s = "failed" => a = "error")
    BY SnapshotAnswers
  <2> QED
    BY <2>1, <2>2
<1>5. \A p \in Snapshots : /\ once'[p].state = IF p = q THEN s ELSE once[p].state
                           /\ once'[p].by = once[p].by
  BY <1>3 DEF PoolInv, SystemTypeOK
<1>6. \A v \in Workers : answer'[v] = IF v = w THEN a ELSE answer[v]
  BY <1>4 DEF PoolInv, SystemTypeOK
<1>7. Asking(w, q) /\ ~call[item[w]].timedOut
  BY <1>2, AskingNotTimedOut DEF PoolInv, ReaderAsks
<1>8. SystemTypeOK'
  BY <1>2, <1>3, <1>4 DEF PoolInv, SystemTypeOK
<1>9. AnswersInside' /\ UnfedUncalled'
  BY <1>2, <1>6, <1>7 DEF PoolInv, AnswersInside, UnfedUncalled, Asking
<1>10. ReaderAsks'
  <2> SUFFICES ASSUME NEW p \in Snapshots, once'[p].state = "busy"
               PROVE  (once[p].by \in Workers /\ Asking(once[p].by, p))'
    BY DEF ReaderAsks
  <2>1. p # q /\ once[p].state = "busy"
    BY <1>5
  <2>2. once'[p].by = once[p].by /\ once[p].by \in Workers /\ Asking(once[p].by, p)
    BY <1>5, <2>1 DEF PoolInv, ReaderAsks
  <2>3. once[p].by # w
    BY <1>7, <2>1, <2>2 DEF Asking
  <2> QED
    BY <1>2, <1>6, <2>2, <2>3 DEF Asking
<1>11. UnreadUnanswered'
  <2> SUFFICES ASSUME NEW p \in Snapshots, once'[p].state \in {"new", "busy"}
               PROVE  /\ \A v \in Workers : (wpc[v] = "validate" /\ kind[item[v]] = p) => answer'[v] = "none"
                      /\ \A v \in Workers : wpc[v] = "send" => kind[item[v]] # p
                      /\ \A r \in Resources : kind[r] = p => sent[r] = <<>>
    BY <1>2 DEF UnreadUnanswered
  <2>1. p # q /\ once[p].state \in {"new", "busy"}
    BY <1>5
  <2>2. kind[item[w]] # p
    BY <1>7, <2>1 DEF Asking
  <2> QED
    BY <1>6, <2>1, <2>2 DEF PoolInv, UnreadUnanswered
<1>12. \A r \in Resources : kind[r] # q =>
          \A x : (Allows(r, x)' <=> Allows(r, x)) /\ (Judges(r, x)' <=> Judges(r, x))
  BY <1>2, <1>5 DEF Allows, Judges, Snapshots
<1>13. \A v \in Workers : Busy(v) => item[v] \in Resources
  BY HeldItem DEF PoolInv
<1>14. Answered'
  <2> SUFFICES ASSUME NEW v \in Workers, wpc[v] = "validate" PROVE Allows(item[v], answer[v])'
    BY <1>2 DEF Answered
  <2>1. CASE kind[item[v]] # q
    <3>1. v # w
      BY <1>7, <2>1 DEF Asking
    <3> QED
      BY <1>2, <1>6, <1>12, <1>13, <2>1, <3>1 DEF PoolInv, Answered, Busy
  <2>2. CASE kind[item[v]] = q /\ v # w
    <3>1. answer'[v] = "none" /\ answer[v] = "none"
      BY <1>2, <1>6, <2>2 DEF PoolInv, UnreadUnanswered
    <3>2. ~call[item[v]].timedOut
      BY <3>1 DEF PoolInv, Answered, Allows
    <3> QED
      BY <1>2, <3>1, <3>2 DEF Allows
  <2>3. CASE v = w
    <3>1. answer'[v] = a /\ kind[item[v]] = q
      BY <1>6, <1>7, <2>3 DEF Asking
    <3> QED
      BY <1>2, <1>4, <1>5, <1>7, <2>3, <3>1 DEF Allows, Snapshots
  <2> QED
    BY <2>1, <2>2, <2>3
<1>15. Judged'
  <2>1. \A v \in Workers : wpc[v] = "send" => kind[item[v]] # q
    BY <1>2 DEF PoolInv, UnreadUnanswered
  <2> QED
    BY <1>2, <1>12, <1>13, <2>1 DEF PoolInv, Judged, Busy
<1>16. Delivered'
  <2>1. \A r \in Resources : sent[r] # <<>> => kind[r] # q
    BY <1>2 DEF PoolInv, UnreadUnanswered
  <2> QED
    BY <1>2, <1>12, <2>1 DEF PoolInv, Delivered
<1> QED
  BY <1>1, <1>8, <1>9, <1>10, <1>11, <1>14, <1>15, <1>16 DEF PoolInv

\* A later worker finds the snapshot read.
LEMMA PassOnceKeeps ==
    ASSUME PoolInv, NEW w \in Workers, NEW q \in Snapshots, PassOnce(w, q) PROVE PoolInv'
<1>1. /\ Asking(w, q) /\ once[q].state \in {"ok", "failed"}
      /\ UNCHANGED <<vars, kind, want, once, call>>
  BY DEF PassOnce
<1>2. PICK a \in IF q = "process" THEN ProcMap(once[q].state, FALSE) ELSE Ports(once[q].state) :
          answer' = [answer EXCEPT ![w] = a]
  BY DEF PassOnce
<1>3. /\ a \in {"yes", "no", "error"}
      /\ once[q].state = "failed" => a # "yes"
      /\ once[q].state = "failed" /\ q = "port" => a = "error"
  BY <1>1, SnapshotAnswers
<1>4. wpc[w] = "validate" /\ kind[item[w]] = q /\ ~call[item[w]].timedOut
  BY <1>1, AskingNotTimedOut DEF Asking
<1>5. Allows(item[w], a)'
  BY <1>1, <1>3, <1>4 DEF Allows, vars
<1>6. call' \in [Resources -> CallRecords] /\ \A r \in Resources : call'[r].timedOut = call[r].timedOut
  BY <1>1 DEF PoolInv, SystemTypeOK
<1> QED
  BY <1>1, <1>2, <1>3, <1>4, <1>5, <1>6, AnswerComes

\* Starting a call leaves it a call that has timed out or not as before.
LEMMA CallStarted ==
    ASSUME NEW c \in CallRecords, NEW tries \in Nat
    PROVE  /\ [[c EXCEPT !.go = "run"] EXCEPT !.tries = tries] \in CallRecords
           /\ [[c EXCEPT !.go = "run"] EXCEPT !.tries = tries].timedOut = c.timedOut
BY DEF CallRecords

\* A worker starts the goroutine of a timed call.
LEMMA CallKeeps == ASSUME PoolInv, NEW w \in Workers, Call(w) PROVE PoolInv'
<1>1. /\ item[w] \in Resources /\ call[item[w]] \in CallRecords
      /\ call' = [call EXCEPT ![item[w]].go = "run", ![item[w]].tries = call[item[w]].tries + 1]
      /\ UNCHANGED <<vars, kind, want, once, answer>>
  BY AskingNotTimedOut DEF Call
<1> DEFINE c == [[call[item[w]] EXCEPT !.go = "run"] EXCEPT !.tries = call[item[w]].tries + 1]
<1>2. call' = [call EXCEPT ![item[w]] = c]
  BY <1>1
<1>3. c \in CallRecords /\ c.timedOut = call[item[w]].timedOut
  <2>1. call[item[w]].tries + 1 \in Nat
    BY <1>1 DEF CallRecords
  <2> QED
    BY <1>1, <2>1, CallStarted
<1> HIDE DEF c
<1>4. call \in [Resources -> CallRecords]
  BY DEF PoolInv, SystemTypeOK
<1> QED
  BY <1>1, <1>2, <1>3, <1>4, CallGoesOn

\* The operation behind a timed call ends.
LEMMA ReturnKeeps ==
    ASSUME PoolInv, NEW r \in Resources,
           NEW res \in Errors \cup {"zero", "mounted", "addrs", "empty"}, Return(r, res)
    PROVE  PoolInv'
<1> DEFINE g == IF res \in Errors /\ kind[r] # "mount" THEN "erred" ELSE "done"
           c == [[[[call[r] EXCEPT !.res = res] EXCEPT !.e1 = (res \in Errors)]
                     EXCEPT !.c1 = (res \notin Errors)] EXCEPT !.go = g]
<1>1. call \in [Resources -> CallRecords] /\ call[r] \in CallRecords
  BY DEF PoolInv, SystemTypeOK
<1>2. call' = [call EXCEPT ![r] = c] /\ UNCHANGED <<vars, kind, want, once, answer>>
  BY <1>1 DEF Return
<1>3. c \in CallRecords /\ c.timedOut = call[r].timedOut
  <2>1. g \in {"erred", "done"}
    OBVIOUS
  <2> HIDE DEF g
  <2>2. CASE res \in Errors
    <3>1. c = [[[[call[r] EXCEPT !.res = res] EXCEPT !.e1 = TRUE] EXCEPT !.c1 = FALSE] EXCEPT !.go = g]
      BY <2>2, Zenon
    <3> HIDE DEF c
    <3> QED
      BY <1>1, <2>1, <3>1 DEF CallRecords
  <2>3. CASE res \notin Errors
    <3>1. (res \in Errors) = FALSE /\ (res \notin Errors) = TRUE
      BY <2>3
    <3>2. c = [[[[call[r] EXCEPT !.res = res] EXCEPT !.e1 = FALSE] EXCEPT !.c1 = TRUE] EXCEPT !.go = g]
      BY <3>1, Zenon
    <3> HIDE DEF c
    <3> QED
      BY <1>1, <2>1, <3>2 DEF CallRecords
  <2> QED
    BY <2>2, <2>3
<1> HIDE DEF c
<1> QED
  BY <1>1, <1>2, <1>3, CallGoesOn

\* The goroutine of a call that erred sends on the other channel too.
LEMMA SendAfterErrorKeeps == ASSUME PoolInv, NEW r \in Resources, SendAfterError(r) PROVE PoolInv'
<1> DEFINE c == [[call[r] EXCEPT !.c1 = TRUE] EXCEPT !.go = "done"]
<1>1. call \in [Resources -> CallRecords]
  BY DEF PoolInv, SystemTypeOK
<1>2. call' = [call EXCEPT ![r] = c] /\ UNCHANGED <<vars, kind, want, once, answer>>
  BY <1>1 DEF SendAfterError
<1>3. c \in CallRecords /\ c.timedOut = call[r].timedOut
  BY <1>1 DEF CallRecords
<1> HIDE DEF c
<1> QED
  BY <1>1, <1>2, <1>3, CallGoesOn

\* A command or a mount gives an answer; the timer gives an error.
LEMMA SelectOnceKeeps ==
    ASSUME PoolInv, NEW w \in Workers, NEW ch \in {"c1", "e1", "timeout"}, SelectOnce(w, ch)
    PROVE  PoolInv'
<1>1. PICK k \in {"command", "mount"} : Waiting(w, k)
  BY DEF SelectOnce
<1>2. /\ wpc[w] = "validate" /\ item[w] \in Resources /\ call[item[w]] \in CallRecords
      /\ kind[item[w]] = k
  BY <1>1, AskingNotTimedOut DEF Waiting, Asking
<1>3. call \in [Resources -> CallRecords]
  BY DEF PoolInv, SystemTypeOK
<1> DEFINE c == [call[item[w]] EXCEPT !.timedOut = (ch = "timeout")]
<1>4. call' = [call EXCEPT ![item[w]] = c] /\ UNCHANGED <<vars, kind, want, once>>
  BY <1>3 DEF SelectOnce
<1>5. c \in CallRecords /\ (c.timedOut <=> ch = "timeout")
  BY <1>2 DEF CallRecords
<1>6. PICK a \in IF kind[item[w]] = "mount" THEN getMount(ch) ELSE {runCommand(call[item[w]], ch)} :
          answer' = [answer EXCEPT ![w] = a]
  BY DEF SelectOnce
<1>7. a \in {"yes", "no", "error"} /\ (ch = "timeout" => a = "error")
  <2>1. runCommand(call[item[w]], ch) \in {"yes", "no", "error"}
    BY DEF runCommand
  <2>2. ch = "timeout" => runCommand(call[item[w]], ch) = "error"
    BY DEF runCommand
  <2> QED
    BY <1>6, <2>1, <2>2 DEF getMount
<1> HIDE DEF c
<1>8. kind[item[w]] \notin Snapshots
  BY <1>2 DEF Snapshots
<1>9. call' \in [Resources -> CallRecords] /\ call'[item[w]] = c
  BY <1>2, <1>3, <1>4, <1>5
<1>10. Allows(item[w], a)'
  <2>1. UNCHANGED <<item, kind>>
    BY <1>4 DEF vars
  <2> QED
    BY <1>2, <1>5, <1>7, <1>8, <1>9, <2>1 DEF Allows
<1>11. \A r \in Resources : r # item[w] => call'[r].timedOut = call[r].timedOut
  BY <1>3, <1>4
<1> QED
  BY <1>2, <1>4, <1>6, <1>7, <1>8, <1>9, <1>10, <1>11, AnswerComes

\* A lookup gives an answer or is tried again; its timeouts are not remembered.
LEMMA SelectDNSKeeps ==
    ASSUME PoolInv, NEW w \in Workers, NEW ch \in {"c1", "e1", "timeout"}, SelectDNS(w, ch)
    PROVE  PoolInv'
<1> DEFINE lost == ch = "timeout" \/ ch = "e1"
           c == call[item[w]]
<1>1. /\ wpc[w] = "validate" /\ item[w] \in Resources /\ c \in CallRecords /\ ~c.timedOut
      /\ kind[item[w]] = "dns"
  BY AskingNotTimedOut DEF SelectDNS, Waiting, Asking
<1>2. call \in [Resources -> CallRecords] /\ UNCHANGED <<vars, kind, want, once>>
  BY DEF PoolInv, SystemTypeOK, SelectDNS
<1>3. kind[item[w]] \notin Snapshots /\ UNCHANGED <<item, kind>>
  BY <1>1, <1>2 DEF Snapshots, vars
<1>4. ASSUME NEW d \in CallRecords, ~d.timedOut, call' = [call EXCEPT ![item[w]] = d],
             NEW a \in {"yes", "no", "error"}, answer' = [answer EXCEPT ![w] = a]
      PROVE  PoolInv'
  <2>1. call' \in [Resources -> CallRecords] /\ call'[item[w]] = d
    BY <1>1, <1>2, <1>4
  <2>2. \A r \in Resources : r # item[w] => call'[r].timedOut = call[r].timedOut
    BY <1>2, <1>4
  <2>3. Allows(item[w], a)'
    BY <1>1, <1>3, <1>4, <2>1 DEF Allows
  <2> QED
    BY <1>1, <1>2, <1>3, <1>4, <2>1, <2>2, <2>3, AnswerComes
<1>5. CASE answer' = [answer EXCEPT ![w] = "yes"] /\ call' = [call EXCEPT ![item[w]].err = FALSE]
  <2>1. [c EXCEPT !.err = FALSE] \in CallRecords /\ ~[c EXCEPT !.err = FALSE].timedOut
    BY <1>1 DEF CallRecords
  <2>2. call' = [call EXCEPT ![item[w]] = [c EXCEPT !.err = FALSE]]
    BY <1>2, <1>5
  <2> QED
    BY <1>4, <1>5, <2>1, <2>2
<1>6. CASE answer' = [answer EXCEPT ![w] = "no"] /\ UNCHANGED call
  <2>1. call' = [call EXCEPT ![item[w]] = c]
    BY <1>1, <1>2, <1>6
  <2> QED
    BY <1>1, <1>4, <1>6, <2>1
<1>7. CASE /\ call' = [call EXCEPT ![item[w]] = [NoCall EXCEPT !.tries = c.tries, !.err = lost]]
           /\ UNCHANGED answer
  <2>1. PICK e \in BOOLEAN : e = lost
    OBVIOUS
  <2> HIDE DEF lost
  <2>2. /\ [NoCall EXCEPT !.tries = c.tries, !.err = e] \in CallRecords
        /\ [NoCall EXCEPT !.tries = c.tries, !.err = e].timedOut = FALSE
    BY <1>1 DEF NoCall, CallRecords
  <2>3. call' = [call EXCEPT ![item[w]] = [NoCall EXCEPT !.tries = c.tries, !.err = e]]
    BY <1>7, <2>1
  <2>4. c.timedOut = FALSE
    BY <1>1 DEF CallRecords
  <2> DEFINE d == [NoCall EXCEPT !.tries = c.tries, !.err = e]
  <2>5. d \in CallRecords /\ d.timedOut = c.timedOut /\ call' = [call EXCEPT ![item[w]] = d]
    BY <2>2, <2>3, <2>4
  <2> HIDE DEF d
  <2>6. call' \in [Resources -> CallRecords] /\ \A r \in Resources : call'[r].timedOut = call[r].timedOut
    BY <1>1, <1>2, <2>5
  <2> QED
    BY <1>2, <1>7, <2>6, CallGoesOn
<1>8. CASE /\ call' = [call EXCEPT ![item[w]].err = lost]
           /\ answer' = [answer EXCEPT ![w] = IF lost THEN "error" ELSE "no"]
  <2>1. PICK e \in BOOLEAN : e = lost
    OBVIOUS
  <2>2. PICK a \in {"no", "error"} : a = IF lost THEN "error" ELSE "no"
    OBVIOUS
  <2> HIDE DEF lost
  <2>3. [c EXCEPT !.err = e] \in CallRecords /\ ~[c EXCEPT !.err = e].timedOut
    BY <1>1 DEF CallRecords
  <2>4. call' = [call EXCEPT ![item[w]].err = e]
    BY <1>8, <2>1
  <2>5. call' = [call EXCEPT ![item[w]] = [c EXCEPT !.err = e]]
    BY <1>2, <2>4
  <2> QED
    BY <1>4, <1>8, <2>2, <2>3, <2>5
<1> QED
  BY <1>5, <1>6, <1>7, <1>8 DEF SelectDNS

\* What ValidateValue makes of an answer that the getter may have given is a
\* result that the test may have.
LEMMA ResultAllowed ==
    ASSUME NEW r \in Resources, NEW a \in {"yes", "no", "error"}, want[r] \in BOOLEAN, Allows(r, a)
    PROVE  Judges(r, ResultOf(a, want[r]))
<1>1. a = "error" => ResultOf(a, want[r]) = "fail"
  BY DEF ResultOf
<1>2. a # "yes" /\ want[r] => ResultOf(a, want[r]) # "pass"
  <2> SUFFICES ASSUME a # "yes", want[r] PROVE ~((a = "yes") = want[r])
    BY DEF ResultOf
  <2>1. want[r] = TRUE /\ (a = "yes") = FALSE
    BY Zenon
  <2> QED
    BY <2>1
<1> QED
  BY <1>1, <1>2 DEF Allows, Judges

\* A worker leaves Validate with a result that its test may have.
LEMMA ValidateDone ==
    ASSUME PoolInv, NEW w \in Workers, NEW outcome \in Outcomes, Validate(w, outcome),
           UNCHANGED <<kind, want, once, call>>,
           answer' = [answer EXCEPT ![w] = "none"],
           Judges(item[w], outcome),
           kind[item[w]] \in Snapshots => once[kind[item[w]]].state \in {"ok", "failed"}
    PROVE  PoolInv'
<1>1. IInv'
  BY ValidateInv DEF PoolInv
<1>2. /\ wpc[w] = "validate"
      /\ results' = [results EXCEPT ![w] = outcome]
      /\ wpc' = [wpc EXCEPT ![w] = "send"]
      /\ UNCHANGED <<fed, item, sent>>
  BY DEF Validate
<1>3. \A v \in Workers : /\ answer'[v] = IF v = w THEN "none" ELSE answer[v]
                         /\ wpc'[v] = IF v = w THEN "send" ELSE wpc[v]
                         /\ results'[v] = IF v = w THEN outcome ELSE results[v]
  BY <1>2 DEF PoolInv, SystemTypeOK, IInv, TypeOK
<1>4. SystemTypeOK' /\ UnfedUncalled'
  BY <1>2 DEF PoolInv, SystemTypeOK, UnfedUncalled
<1>5. AnswersInside'
  BY <1>3 DEF PoolInv, AnswersInside
<1>6. ReaderAsks'
  <2> SUFFICES ASSUME NEW q \in Snapshots, once[q].state = "busy"
               PROVE  once[q].by \in Workers /\ Asking(once[q].by, q)'
    BY DEF ReaderAsks
  <2>1. once[q].by \in Workers /\ Asking(once[q].by, q)
    BY DEF PoolInv, ReaderAsks
  <2>2. once[q].by # w
    BY <2>1 DEF Asking
  <2> QED
    BY <1>2, <1>3, <2>1, <2>2 DEF Asking
<1>7. UnreadUnanswered'
  <2> SUFFICES ASSUME NEW q \in Snapshots, once[q].state \in {"new", "busy"}
               PROVE  /\ \A v \in Workers : (wpc'[v] = "validate" /\ kind[item[v]] = q) => answer'[v] = "none"
                      /\ \A v \in Workers : wpc'[v] = "send" => kind[item[v]] # q
                      /\ \A r \in Resources : kind[r] = q => sent[r] = <<>>
    BY <1>2 DEF UnreadUnanswered
  <2>1. kind[item[w]] # q
    OBVIOUS
  <2> QED
    BY <1>3, <2>1 DEF PoolInv, UnreadUnanswered
<1>8. \A r, x : (Allows(r, x)' <=> Allows(r, x)) /\ (Judges(r, x)' <=> Judges(r, x))
  BY DEF Allows, Judges
<1>9. Answered' /\ Judged' /\ Delivered'
  BY <1>2, <1>3, <1>8 DEF PoolInv, Answered, Judged, Delivered
<1> QED
  BY <1>1, <1>4, <1>5, <1>6, <1>7, <1>9 DEF PoolInv

\* A worker judges its answer.
LEMMA FinishKeeps == ASSUME PoolInv, NEW w \in Workers, Finish(w) PROVE PoolInv'
<1> DEFINE outcome == ResultOf(answer[w], want[item[w]])
<1>1. /\ answer[w] # "none" /\ Validate(w, outcome) /\ wpc[w] = "validate"
      /\ answer' = [answer EXCEPT ![w] = "none"] /\ UNCHANGED <<kind, want, once, call>>
  BY DEF Finish, Validate
<1>2. item[w] \in Resources
  BY <1>1, HeldItem DEF PoolInv, Busy
<1>3. answer[w] \in {"yes", "no", "error"} /\ want[item[w]] \in BOOLEAN
  BY <1>1, <1>2 DEF PoolInv, SystemTypeOK
<1>4. Judges(item[w], outcome)
  BY <1>1, <1>2, <1>3, ResultAllowed DEF PoolInv, Answered
<1>5. kind[item[w]] \in Snapshots => once[kind[item[w]]].state \in {"ok", "failed"}
  BY <1>1 DEF PoolInv, SystemTypeOK, UnreadUnanswered
<1>6. outcome \in Outcomes
  BY ResultOfType
<1> HIDE DEF outcome
<1> QED
  BY <1>1, <1>4, <1>5, <1>6, ValidateDone

\* A worker skips its test without asking.
LEMMA SkipKeeps == ASSUME PoolInv, NEW w \in Workers, Skip(w) PROVE PoolInv'
<1>1. Asking(w, "skip") /\ Validate(w, "skipped") /\ UNCHANGED <<kind, want, once, call, answer>>
  BY DEF Skip, qvars
<1>2. ~call[item[w]].timedOut /\ kind[item[w]] = "skip"
  BY <1>1, AskingNotTimedOut DEF Asking
<1>3. Judges(item[w], "skipped") /\ kind[item[w]] \notin Snapshots
  BY <1>2 DEF Judges, Snapshots
<1>4. answer' = [answer EXCEPT ![w] = "none"]
  BY <1>1 DEF Asking, PoolInv, SystemTypeOK
<1>5. "skipped" \in Outcomes
  BY DEF Outcomes
<1> QED
  BY <1>1, <1>3, <1>4, <1>5, ValidateDone

\* What the results and answers must fit does not change with the pool.
LEMMA SystemUnchanged == ASSUME UNCHANGED qvars
                         PROVE  \A r, x : (Allows(r, x)' <=> Allows(r, x)) /\ (Judges(r, x)' <=> Judges(r, x))
BY DEF qvars, Allows, Judges

\* A worker receives a resource for which nothing was called.
LEMMA ReceiveKeeps == ASSUME PoolInv, NEW w \in Workers, Receive(w), UNCHANGED qvars PROVE PoolInv'
<1>1. IInv'
  BY ReceiveInv DEF PoolInv
<1>2. /\ wpc[w] = "recv" /\ fed \in 0..N /\ fed + 1 \in Resources /\ fed + 1 > fed
      /\ fed' = fed + 1
      /\ item' = [item EXCEPT ![w] = fed + 1]
      /\ wpc' = [wpc EXCEPT ![w] = "validate"]
      /\ UNCHANGED <<results, sent, kind, want, once, call, answer>>
  BY PoolAssumption DEF Receive, qvars, PoolInv, IInv, TypeOK, Resources
<1>3. \A v \in Workers : /\ item'[v] = IF v = w THEN fed + 1 ELSE item[v]
                         /\ wpc'[v] = IF v = w THEN "validate" ELSE wpc[v]
  BY <1>2 DEF PoolInv, IInv, TypeOK
<1>4. answer[w] = "none"
  BY <1>2 DEF PoolInv, AnswersInside
<1>5. SystemTypeOK'
  BY <1>2 DEF PoolInv, SystemTypeOK
<1>6. UnfedUncalled'
  <2> SUFFICES ASSUME NEW r \in Resources, r > fed + 1 PROVE ~call[r].timedOut
    BY <1>2 DEF UnfedUncalled
  <2>1. r > fed
    BY <1>2 DEF Resources
  <2> QED
    BY <2>1 DEF PoolInv, UnfedUncalled
<1>7. AnswersInside'
  BY <1>2, <1>3 DEF PoolInv, AnswersInside
<1>8. ReaderAsks'
  <2> SUFFICES ASSUME NEW q \in Snapshots, once[q].state = "busy"
               PROVE  once[q].by \in Workers /\ Asking(once[q].by, q)'
    BY <1>2 DEF ReaderAsks
  <2>1. once[q].by \in Workers /\ Asking(once[q].by, q)
    BY DEF PoolInv, ReaderAsks
  <2>2. once[q].by # w
    BY <1>2, <2>1 DEF Asking
  <2> QED
    BY <1>2, <1>3, <2>1, <2>2 DEF Asking
<1>9. UnreadUnanswered'
  <2> SUFFICES ASSUME NEW q \in Snapshots, once[q].state \in {"new", "busy"}
               PROVE  /\ \A v \in Workers : (wpc'[v] = "validate" /\ kind[item'[v]] = q) => answer[v] = "none"
                      /\ \A v \in Workers : wpc'[v] = "send" => kind[item'[v]] # q
                      /\ \A r \in Resources : kind[r] = q => sent[r] = <<>>
    BY <1>2 DEF UnreadUnanswered
  <2> QED
    BY <1>3, <1>4 DEF PoolInv, UnreadUnanswered
<1>10. Answered'
  <2> SUFFICES ASSUME NEW v \in Workers, wpc'[v] = "validate" PROVE Allows(item'[v], answer[v])
    BY <1>2, SystemUnchanged DEF Answered
  <2>1. CASE v = w
    <3>1. ~call[fed + 1].timedOut
      BY <1>2 DEF PoolInv, UnfedUncalled
    <3> QED
      BY <1>3, <1>4, <2>1, <3>1 DEF Allows
  <2>2. CASE v # w
    BY <1>3, <2>2 DEF PoolInv, Answered
  <2> QED
    BY <2>1, <2>2
<1>11. Judged' /\ Delivered'
  BY <1>2, <1>3, SystemUnchanged DEF PoolInv, Judged, Delivered
<1> QED
  BY <1>1, <1>5, <1>6, <1>7, <1>8, <1>9, <1>10, <1>11 DEF PoolInv

\* A worker delivers a result that its test may have.
LEMMA SendKeeps == ASSUME PoolInv, NEW w \in Workers, Send(w), UNCHANGED qvars PROVE PoolInv'
<1>1. /\ IInv'
      /\ item[w] \in Resources
      /\ sent' = [sent EXCEPT ![item[w]] = <<results[w]>>]
  BY SendInv DEF PoolInv
<1>2. /\ wpc[w] = "send" /\ wpc' = [wpc EXCEPT ![w] = "recv"]
      /\ UNCHANGED <<fed, item, results, kind, want, once, call, answer>>
  BY DEF Send, qvars
<1>3. \A v \in Workers : wpc'[v] = IF v = w THEN "recv" ELSE wpc[v]
  BY <1>2 DEF PoolInv, IInv, TypeOK
<1>4. \A r \in Resources : sent'[r] = IF r = item[w] THEN <<results[w]>> ELSE sent[r]
  BY <1>1 DEF PoolInv, IInv, TypeOK
<1>5. SystemTypeOK' /\ UnfedUncalled'
  BY <1>2 DEF PoolInv, SystemTypeOK, UnfedUncalled
<1>6. AnswersInside'
  BY <1>2, <1>3 DEF PoolInv, AnswersInside
<1>7. ReaderAsks'
  <2> SUFFICES ASSUME NEW q \in Snapshots, once[q].state = "busy"
               PROVE  once[q].by \in Workers /\ Asking(once[q].by, q)'
    BY <1>2 DEF ReaderAsks
  <2>1. once[q].by \in Workers /\ Asking(once[q].by, q)
    BY DEF PoolInv, ReaderAsks
  <2> QED
    BY <1>2, <1>3, <2>1 DEF Asking
<1>8. UnreadUnanswered'
  <2> SUFFICES ASSUME NEW q \in Snapshots, once[q].state \in {"new", "busy"}
               PROVE  /\ \A v \in Workers : (wpc'[v] = "validate" /\ kind[item[v]] = q) => answer[v] = "none"
                      /\ \A v \in Workers : wpc'[v] = "send" => kind[item[v]] # q
                      /\ \A r \in Resources : kind[r] = q => sent'[r] = <<>>
    BY <1>2 DEF UnreadUnanswered
  <2>1. kind[item[w]] # q
    BY <1>2 DEF PoolInv, UnreadUnanswered
  <2> QED
    BY <1>3, <1>4, <2>1 DEF PoolInv, UnreadUnanswered
<1>9. Answered' /\ Judged'
  BY <1>2, <1>3, SystemUnchanged DEF PoolInv, Answered, Judged
<1>10. Delivered'
  <2>1. results[w] \in Outcomes /\ Judges(item[w], results[w])
    BY <1>2 DEF PoolInv, IInv, TypeOK, Judged
  <2> QED
    BY <1>4, <2>1, SystemUnchanged DEF PoolInv, Delivered
<1> QED
  BY <1>1, <1>5, <1>6, <1>7, <1>8, <1>9, <1>10 DEF PoolInv

\* The end of a worker, and of either channel.
LEMMA EndKeeps ==
    ASSUME PoolInv, CloseIn \/ CloseOut \/ Stopped \/ UNCHANGED vars \/ (\E w \in Workers : Exit(w)),
           UNCHANGED qvars
    PROVE  PoolInv'
<1>1. IInv'
  BY EndInv, NextInv DEF PoolInv
<1>2. UNCHANGED <<fed, item, results, sent, kind, want, once, call, answer>>
  BY DEF CloseIn, CloseOut, Stopped, vars, Exit, qvars
<1>3. \A v \in Workers : /\ wpc'[v] = "validate" <=> wpc[v] = "validate"
                         /\ wpc'[v] = "send" <=> wpc[v] = "send"
  BY DEF CloseIn, CloseOut, Stopped, vars, Exit, PoolInv, IInv, TypeOK
<1>4. SystemTypeOK' /\ UnfedUncalled'
  BY <1>2 DEF PoolInv, SystemTypeOK, UnfedUncalled
<1>5. AnswersInside' /\ UnreadUnanswered'
  BY <1>2, <1>3 DEF PoolInv, AnswersInside, UnreadUnanswered
<1>6. ReaderAsks'
  BY <1>2, <1>3 DEF PoolInv, ReaderAsks, Asking
<1>7. Answered' /\ Judged' /\ Delivered'
  BY <1>2, <1>3, SystemUnchanged DEF PoolInv, Answered, Judged, Delivered
<1> QED
  BY <1>1, <1>4, <1>5, <1>6, <1>7 DEF PoolInv

\* Every step of the pool with its System keeps the invariant.
LEMMA PoolInductive == PoolInv /\ [PoolNext]_<<vars, qvars>> => PoolInv'
<1> SUFFICES ASSUME PoolInv, [PoolNext]_<<vars, qvars>> PROVE PoolInv'
  OBVIOUS
<1>1. CASE UNCHANGED <<vars, qvars>>
  BY <1>1, EndKeeps
<1>2. CASE (CloseIn \/ CloseOut \/ Stopped) /\ UNCHANGED qvars
  BY <1>2, EndKeeps
<1>3. ASSUME NEW w \in Workers, PoolWorker(w) PROVE PoolInv'
  <2>1. CASE (Receive(w) \/ Send(w) \/ Exit(w)) /\ UNCHANGED qvars
    BY <2>1, ReceiveKeeps, SendKeeps, EndKeeps
  <2>2. CASE \E q \in Snapshots : EnterOnce(w, q) \/ LeaveOnce(w, q) \/ PassOnce(w, q)
    BY <2>2, EnterOnceKeeps, LeaveOnceKeeps, PassOnceKeeps
  <2>3. CASE \E ch \in {"c1", "e1", "timeout"} : SelectOnce(w, ch) \/ SelectDNS(w, ch)
    BY <2>3, SelectOnceKeeps, SelectDNSKeeps
  <2>4. CASE Call(w) \/ Finish(w) \/ Skip(w)
    BY <2>4, CallKeeps, FinishKeeps, SkipKeeps
  <2> QED
    BY <1>3, <2>1, <2>2, <2>3, <2>4 DEF PoolWorker
<1>4. ASSUME NEW r \in Resources,
             \/ SendAfterError(r)
             \/ \E res \in Errors \cup {"zero", "mounted", "addrs", "empty"} : Return(r, res)
      PROVE  PoolInv'
  BY <1>4, SendAfterErrorKeeps, ReturnKeeps
<1> QED
  BY <1>1, <1>2, <1>3, <1>4 DEF PoolNext

\* The invariant holds throughout a run of the pool with its System.
THEOREM PoolInvariance == PoolSpec => []PoolInv
  BY PoolInitial, PoolInductive, PTL DEF PoolSpec

\* With at least one worker, whatever its workers wait for and however their
\* calls end, the pool delivers one group per resource and closes out after it.
THEOREM SystemPoolImplementsTestRun == ASSUME WorkerCount >= 1 PROVE PoolSpec => RunContract
  BY PoolImplementsParallel, PoolImplementsTestRun, PTL

\* validateParallel leaves no feeder behind, whatever its workers wait for.
THEOREM SystemPoolFeederEnds == PoolSpec => []NoFeederLeft
  BY PoolImplementsParallel, FeederAlwaysEnds, PTL

\* What has been delivered is a result that the test may have.
LEMMA DeliveredIsJudged ==
    ASSUME PoolInv, NEW r \in Resources, sent[r] # <<>>
    PROVE  \E o \in Outcomes : sent[r] = <<o>> /\ Judges(r, o)
BY DEF PoolInv, Delivered

\* A command or mount that hit its timeout fails, however late the goroutine of
\* runCommand or getMount delivers what was expected.
THEOREM TimedOutAlwaysFails == PoolSpec => []TimedOutFails
<1>1. PoolInv => TimedOutFails
  BY DeliveredIsJudged DEF TimedOutFails, Judges
<1> QED
  BY <1>1, PoolInvariance, PTL

\* The error of GetPorts reaches every port test of the run, for any number of
\* port tests and of workers that meet at its sync.Once.
THEOREM PortsErrorAlwaysReachesAll == PoolSpec => []PortsErrorReachesAll
<1>1. PoolInv => PortsErrorReachesAll
  BY DeliveredIsJudged DEF PortsErrorReachesAll, Judges
<1> QED
  BY <1>1, PoolInvariance, PTL

\* A snapshot that could not be taken never lets a test for presence pass.
THEOREM NeverPresentWithoutSnapshot == PoolSpec => []NoPresenceWithoutSnapshot
<1>1. PoolInv => NoPresenceWithoutSnapshot
  <2> SUFFICES ASSUME PoolInv, NEW r \in Resources, kind[r] \in Snapshots, want[r],
                      once[kind[r]].state = "failed", sent[r] = <<"pass">>
               PROVE  FALSE
    BY DEF NoPresenceWithoutSnapshot
  <2>1. <<"pass">> # <<>>
    OBVIOUS
  <2>2. PICK o \in Outcomes : sent[r] = <<o>> /\ Judges(r, o)
    BY <2>1, DeliveredIsJudged
  <2>3. o = "pass"
    BY <2>2
  <2> QED
    BY <2>2, <2>3 DEF Judges
<1> QED
  BY <1>1, PoolInvariance, PTL
=============================================================================
