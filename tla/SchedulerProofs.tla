--------------------------- MODULE SchedulerProofs ---------------------------
(***************************************************************************)
(* Proofs about the dependency scheduler, for every number of resources,   *)
(* every worker count and every acyclic schedule.                          *)
(***************************************************************************)
EXTENDS Scheduler, NaturalsInduction, WellFoundedInduction, TLAPS

(***************************************************************************)
(* The inductive invariant.  A resource is at any moment waiting in one of *)
(* the slices, held by one worker, or delivered; the maps are only         *)
(* trustworthy while no two assignments have overlapped.                   *)
(***************************************************************************)
Active(w) == wpc[w] \in {"validate", "status", "completed", "send"}

Waiting(r) ==
    \/ r \in toScan
    \/ r \in nextPending
    \/ r \in feed
    \/ pc = "scan" /\ r \in runnable

Held(r) == \E w \in Workers : Active(w) /\ item[w] = r

\* Which slices are in use in which phase of the loop.
Control ==
    /\ pc # "wait" => feed = {} /\ \A w \in Workers : wpc[w] = "exit"
    /\ pc = "wait" => \A w \in Workers : wpc[w] = "exit" => workClosed
    /\ pc # "scan" => toScan = {}
    /\ pc \in {"giveup", "done"} => runnable = {}
    /\ pc = "done" => nextPending = {}
    /\ closed <=> pc = "done"
    /\ feed \subseteq runnable
    /\ workClosed => feed = {}

\* No resource is in two places.
Places ==
    /\ toScan \cap nextPending = {}
    /\ toScan \cap runnable = {}
    /\ nextPending \cap runnable = {}
    /\ \A w \in Workers : Active(w) => item[w] \in runnable /\ item[w] \notin feed
    /\ \A w, v \in Workers : Active(w) /\ Active(v) /\ item[w] = item[v] => w = v

\* Nothing has been done for a resource that waits.
WaitingInv ==
    \A r \in Resources : Waiting(r) =>
        sent[r] = <<>> /\ results[r] = "none" /\ ~completed[r]

\* A worker delivers what it holds last.
HeldInv ==
    \A w \in Workers : Active(w) =>
        /\ sent[item[w]] = <<>>
        /\ wpc[w] = "validate" <=> results[item[w]] = "none"
        /\ wpc[w] # "send" => ~completed[item[w]]

\* What is neither waiting nor held has been delivered exactly once.
DeliveredInv ==
    \A r \in Resources : (~Waiting(r) /\ ~Held(r)) =>
        \/ results[r] # "none" /\ sent[r] = <<results[r]>>
        \/ results[r] = "none" /\ sent[r] = <<DependencyFailed>>
        \/ results[r] = "none" /\ sent[r] = <<Unsatisfied>> /\ pc \in {"giveup", "done"}

\* Without a race the maps tell the truth about what was delivered.
MapsInv ==
    ~raced =>
        /\ \A w \in Workers : ~dirty[w]
        /\ \A w \in Workers :
              /\ wpc[w] \in {"completed", "send"} =>
                     status[item[w]] = StatusOf(results[item[w]])
              /\ wpc[w] = "send" => completed[item[w]]
        /\ \A r \in Resources :
              /\ (results[r] # "none" /\ sent[r] = <<results[r]>>) =>
                     completed[r] /\ status[r] = StatusOf(results[r])
              /\ sent[r] = <<DependencyFailed>> => completed[r] /\ status[r] = SKIP
              /\ sent[r] = <<Unsatisfied>> => ~completed[r]

\* Why the scheduler skips: the prerequisite that made it skip failed or was
\* skipped itself, ...
SkippedInv ==
    ~raced => \A r \in Resources : sent[r] = <<DependencyFailed>> =>
                  \E d \in Prerequisites(r) : sent[d] = <<"fail">> \/ sent[d] = <<DependencyFailed>>

\* ... what blocks a resource of this scan is still to be settled or was
\* skipped later in the scan, ...
BlockedInv ==
    (~raced /\ pc = "scan") => \A r \in nextPending :
        \E d \in Prerequisites(r) :
            d \in toScan \/ d \in nextPending \/ d \in runnable \/ sent[d] = <<DependencyFailed>>

\* ... so what is given up waits for something skipped or given up as well.
GivenUpInv ==
    (~raced /\ pc \in {"giveup", "done"}) =>
        \A r \in Resources : (r \in nextPending \/ sent[r] = <<Unsatisfied>>) =>
            \E d \in Prerequisites(r) :
                d \in nextPending \/ sent[d] = <<DependencyFailed>> \/ sent[d] = <<Unsatisfied>>

IInv ==
    /\ TypeOK
    /\ deps \in Schedules
    /\ Control
    /\ Places
    /\ WaitingInv
    /\ HeldInv
    /\ DeliveredInv
    /\ MapsInv
    /\ PrerequisitesFirst
    /\ SkippedInv
    /\ BlockedInv
    /\ GivenUpInv

-----------------------------------------------------------------------------
(* Facts about the operators.                                              *)

\* The order on Nat as the set of pairs the library's theorems are about.
LEMMA LessThan == OpToRel(<, Nat) = {ss \in Nat \X Nat : ss[1] < ss[2]}
BY Zenon DEF OpToRel

\* A non-empty set of natural numbers has a smallest element.
LEMMA SmallestElement == ASSUME NEW S \in SUBSET Nat, S # {}
                         PROVE  \E m \in S : \A q \in S : m <= q
<1>1. PICK m \in S : \A q \in S : ~(<<q, m>> \in OpToRel(<, Nat))
  BY WFMin, NatLessThanWellFounded
<1>2. ASSUME NEW q \in S, q < m PROVE FALSE
  <2>1. <<q, m>> \in Nat \X Nat
    OBVIOUS
  <2>2. <<q, m>>[1] < <<q, m>>[2]
    BY <1>2
  <2> QED
    BY <1>1, <2>1, <2>2, LessThan
<1> QED
  BY <1>2

\* A non-empty slice has a first element: the scan, the feeder and the way out
\* always find the item they take next.
LEMMA FirstIn == ASSUME NEW S \in SUBSET Resources, S # {}
                 PROVE  First(S) \in S
<1>1. S \in SUBSET Nat
  BY NAssumption DEF Resources
<1>2. \E m \in S : \A q \in S : m <= q
  BY <1>1, SmallestElement
<1> QED
  BY <1>2 DEF First

\* A group sent to a consumer that had none is the only one it has.
LEMMA AppendFirst == ASSUME NEW g PROVE Append(<<>>, g) = <<g>>
OBVIOUS

\* One-element sequences differ from the empty one, and agree when their
\* elements do.
LEMMA Singletons == ASSUME NEW g, NEW h
                    PROVE  <<g>> # <<>> /\ (<<g>> = <<h>> <=> g = h)
<1>1. <<g>>[1] = g /\ <<h>>[1] = h
  OBVIOUS
<1>2. Len(<<g>>) = 1 /\ Len(<<>>) = 0
  OBVIOUS
<1> QED
  BY <1>1, <1>2

\* The dependency lists do not change during a run.
LEMMA SamePrerequisites == deps' = deps => \A r : Prerequisites(r)' = Prerequisites(r)
BY DEF Prerequisites

\* A wave has at least one worker, also when --max-concurrent is zero or
\* negative.
LEMMA SomeWorker == 1 \in Workers /\ Workers \subseteq Nat
<1>1. WorkerCount \in Nat \ {0}
  BY CPUAssumption DEF WorkerCount
<1> QED
  BY <1>1 DEF Workers

-----------------------------------------------------------------------------
(* The initial states.                                                     *)

\* The invariant holds when the goroutine starts: every resource waits for
\* its first scan and both maps are empty.
LEMMA InitInv == Init => IInv
<1> SUFFICES ASSUME Init PROVE IInv
  OBVIOUS
<1> USE DEF Init
<1>1. TypeOK /\ deps \in Schedules
  <2>1. 1 \in Resources
    BY NAssumption DEF Resources
  <2>2. sent \in [Resources -> Seq(Groups)]
    OBVIOUS
  <2>3. deps \in [Resources -> Seq(Resources)]
    BY SchedulesAssumption
  <2> QED
    BY <2>1, <2>2, <2>3 DEF TypeOK, SUCCESS
<1>2. Control /\ Places
  BY DEF Control, Places, Active
<1>3. WaitingInv /\ HeldInv
  BY DEF WaitingInv, HeldInv, Active
<1>4. DeliveredInv
  BY DEF DeliveredInv, Waiting
<1>5. MapsInv
  BY Singletons DEF MapsInv
<1>6. PrerequisitesFirst
  BY DEF PrerequisitesFirst, Started
<1>7. SkippedInv /\ BlockedInv /\ GivenUpInv
  BY Singletons DEF SkippedInv, BlockedInv, GivenUpInv
<1> QED
  BY <1>1, <1>2, <1>3, <1>4, <1>5, <1>6, <1>7 DEF IInv


-----------------------------------------------------------------------------
(* Type correctness.                                                       *)

\* Every step of the scheduler keeps the types of its state; that a worker
\* that has validated something holds its results is needed for what it sends.
LEMMA TypeStep == TypeOK /\ HeldInv /\ [Next]_vars => TypeOK'
<1> SUFFICES ASSUME TypeOK, HeldInv, [Next]_vars PROVE TypeOK'
  OBVIOUS
<1> USE DEF TypeOK
<1>1. CASE ScanItem
  <2> DEFINE r == First(toScan)
  <2>1. r \in Resources
    BY <1>1, FirstIn DEF ScanItem
  <2>2. sent' \in [Resources -> Seq(Groups)]
    BY <1>1, <2>1 DEF ScanItem, Groups
  <2> QED
    BY <1>1, <2>1, <2>2 DEF ScanItem, feedVars, workerVars, SKIP
<1>2. CASE NothingRunnable
  BY <1>2 DEF NothingRunnable, feedVars, workerVars, mapVars, outVars
<1>3. CASE GiveUp
  <2>1. First(nextPending) \in Resources
    BY <1>3, FirstIn DEF GiveUp
  <2>2. sent' \in [Resources -> Seq(Groups)]
    BY <1>3, <2>1 DEF GiveUp, Groups
  <2> QED
    BY <1>3, <2>1, <2>2 DEF GiveUp, feedVars, workerVars, mapVars
<1>4. CASE Return
  BY <1>4 DEF Return, feedVars, workerVars, mapVars
<1>5. CASE StartWave
  BY <1>5 DEF StartWave, mapVars, outVars
<1>6. CASE EndWave
  BY <1>6 DEF EndWave, feedVars, workerVars, mapVars
<1>7. CASE CloseWork
  BY <1>7 DEF CloseWork, mainVars, workerVars, mapVars, outVars
<1>8. ASSUME NEW w \in Workers, Receive(w) PROVE TypeOK'
  <2>1. First(feed) \in Resources
    BY <1>8, FirstIn DEF Receive
  <2> QED
    BY <1>8, <2>1 DEF Receive, mainVars, mapVars, outVars
<1>9. ASSUME NEW w \in Workers, Exit(w) PROVE TypeOK'
  BY <1>9 DEF Exit, mainVars, feedVars, mapVars, outVars
<1>10. ASSUME NEW w \in Workers, NEW o \in Outcomes, Validate(w, o) PROVE TypeOK'
  BY <1>10 DEF Validate, OpenWindow, mainVars, feedVars, mapVars, outVars
<1>11. ASSUME NEW w \in Workers, WriteStatus(w) PROVE TypeOK'
  BY <1>11 DEF WriteStatus, Assign, StatusOf, OpenWindow, mainVars, feedVars, outVars
<1>12. ASSUME NEW w \in Workers, WriteCompleted(w) PROVE TypeOK'
  BY <1>12 DEF WriteCompleted, Assign, mainVars, feedVars, outVars
<1>13. ASSUME NEW w \in Workers, Send(w) PROVE TypeOK'
  <2>1. results[item[w]] \in Outcomes
    BY <1>13 DEF Send, HeldInv, Active
  <2>2. sent' \in [Resources -> Seq(Groups)]
    BY <1>13, <2>1 DEF Send, Groups
  <2> QED
    BY <1>13, <2>2 DEF Send, mainVars, feedVars, mapVars
<1>14. ASSUME NEW w \in Workers, Fatal(w) PROVE TypeOK'
  BY <1>14 DEF Fatal, mainVars, feedVars, workerVars, mapVars, outVars
<1>15. CASE UNCHANGED vars
  BY <1>15 DEF vars, mainVars, feedVars, workerVars, mapVars, outVars
<1> QED
  BY <1>1, <1>2, <1>3, <1>4, <1>5, <1>6, <1>7, <1>8, <1>9, <1>10, <1>11, <1>12, <1>13,
     <1>14, <1>15 DEF Next, Main, Worker, Stopped


-----------------------------------------------------------------------------
(* Consequences of the invariant.                                          *)

\* The groups the model tells apart are pairwise different.
LEMMA GroupFacts ==
    ASSUME TypeOK, NEW r \in Resources
    PROVE  /\ <<results[r]>> # <<>>
           /\ <<DependencyFailed>> # <<>>
           /\ <<Unsatisfied>> # <<>>
           /\ <<DependencyFailed>> # <<Unsatisfied>>
           /\ <<results[r]>> # <<DependencyFailed>>
           /\ <<results[r]>> # <<Unsatisfied>>
<1>1. results[r] \in {"pass", "fail", "skipped", "none"}
  BY DEF TypeOK, Outcomes
<1>2. results[r] # DependencyFailed /\ results[r] # Unsatisfied /\ DependencyFailed # Unsatisfied
  BY <1>1 DEF DependencyFailed, Unsatisfied
<1> QED
  BY <1>2, Singletons

\* What a resource has sent says where it is.
LEMMA Delivery ==
    ASSUME IInv, NEW r \in Resources
    PROVE  /\ sent[r] = <<>> <=> (Waiting(r) \/ Held(r))
           /\ sent[r] = <<DependencyFailed>> => results[r] = "none"
           /\ sent[r] = <<Unsatisfied>> => results[r] = "none" /\ pc \in {"giveup", "done"}
           /\ \A o \in Outcomes : sent[r] = <<o>> => results[r] = o
<1>1. CASE Waiting(r)
  BY <1>1, GroupFacts, Singletons DEF IInv, WaitingInv
<1>2. CASE Held(r)
  BY <1>2, GroupFacts, Singletons DEF IInv, HeldInv, Held
<1>3. CASE ~Waiting(r) /\ ~Held(r)
  <2>1. \/ results[r] # "none" /\ sent[r] = <<results[r]>>
        \/ results[r] = "none" /\ sent[r] = <<DependencyFailed>>
        \/ results[r] = "none" /\ sent[r] = <<Unsatisfied>> /\ pc \in {"giveup", "done"}
    BY <1>3 DEF IInv, DeliveredInv
  <2>2. \A o \in Outcomes : <<o>> # <<DependencyFailed>> /\ <<o>> # <<Unsatisfied>>
    BY Singletons DEF Outcomes, DependencyFailed, Unsatisfied
  <2> QED
    BY <1>3, <2>1, <2>2, GroupFacts, Singletons DEF IInv
<1> QED
  BY <1>1, <1>2, <1>3

\* Between two waves, and without a race, what is completed was delivered:
\* with a success or by its own skip, with a failure, or skipped for a
\* prerequisite; what is not completed is in one of the slices.
LEMMA CompletedMeans ==
    ASSUME IInv, ~raced, pc = "scan", NEW d \in Resources
    PROVE  /\ completed[d] /\ status[d] \notin {FAIL, SKIP} =>
                  sent[d] = <<"pass">> \/ sent[d] = <<"skipped">>
           /\ completed[d] /\ status[d] \in {FAIL, SKIP} =>
                  sent[d] = <<"fail">> \/ sent[d] = <<DependencyFailed>>
           /\ ~completed[d] => d \in toScan \/ d \in nextPending \/ d \in runnable
<1>1. ~Held(d)
  BY DEF IInv, Control, Held, Active
<1>2. CASE Waiting(d)
  BY <1>2 DEF IInv, WaitingInv, Waiting, Control
<1>3. CASE ~Waiting(d)
  <2>1. \/ results[d] # "none" /\ sent[d] = <<results[d]>>
        \/ results[d] = "none" /\ sent[d] = <<DependencyFailed>>
    BY <1>1, <1>3 DEF IInv, DeliveredInv
  <2>2. CASE results[d] # "none" /\ sent[d] = <<results[d]>>
    <3>1. completed[d] /\ status[d] = StatusOf(results[d])
      BY <2>2 DEF IInv, MapsInv
    <3>2. results[d] \in {"pass", "fail", "skipped"}
      BY <2>2 DEF IInv, TypeOK, Outcomes
    <3> QED
      BY <2>2, <3>1, <3>2 DEF StatusOf, SUCCESS, FAIL, SKIP
  <2>3. CASE sent[d] = <<DependencyFailed>>
    BY <2>3 DEF IInv, MapsInv, SUCCESS, FAIL, SKIP
  <2> QED
    BY <2>1, <2>2, <2>3
<1> QED
  BY <1>2, <1>3

-----------------------------------------------------------------------------
(* Each action preserves the invariant.                                    *)

\* Deciding to give up (no runnable resource) moves no resource.
LEMMA NothingRunnableInv == ASSUME IInv, NothingRunnable, TypeOK' PROVE IInv'
<1> USE DEF NothingRunnable, feedVars, workerVars, mapVars, outVars
<1>0. TypeOK' /\ deps' \in Schedules
  BY DEF IInv
<1>1. Control'
  BY SomeWorker DEF IInv, TypeOK, Control
<1>2. Places'
  BY DEF IInv, TypeOK, Control, Places, Active
<1>3. WaitingInv'
  BY DEF IInv, TypeOK, Control, Places, WaitingInv, Waiting
<1>4. HeldInv'
  BY DEF IInv, TypeOK, Control, Places, HeldInv, Active
<1>5. DeliveredInv'
  BY DEF IInv, TypeOK, Control, DeliveredInv, Waiting, Held, Active
<1>6. MapsInv'
  BY DEF IInv, TypeOK, Control, MapsInv
<1>7. PrerequisitesFirst'
  BY SamePrerequisites DEF IInv, TypeOK, PrerequisitesFirst, Started
<1>8. SkippedInv'
  BY SamePrerequisites DEF IInv, SkippedInv
<1>9. BlockedInv'
  BY SamePrerequisites DEF IInv, BlockedInv
<1>10. GivenUpInv'
  BY Delivery, SamePrerequisites DEF IInv, GivenUpInv, BlockedInv
<1> QED
  BY <1>0, <1>1, <1>2, <1>3, <1>4, <1>5, <1>6, <1>7, <1>8, <1>9, <1>10 DEF IInv

\* The goroutine returns with nothing left to give up, and closes out.
LEMMA ReturnInv == ASSUME IInv, Return, TypeOK' PROVE IInv'
<1> USE DEF Return, feedVars, workerVars, mapVars
<1>0. TypeOK' /\ deps' \in Schedules
  BY DEF IInv
<1>1. Control'
  BY SomeWorker DEF IInv, TypeOK, Control
<1>2. Places'
  BY DEF IInv, TypeOK, Control, Places, Active
<1>3. WaitingInv'
  BY DEF IInv, TypeOK, Control, Places, WaitingInv, Waiting
<1>4. HeldInv'
  BY DEF IInv, TypeOK, Control, Places, HeldInv, Active
<1>5. DeliveredInv'
  BY DEF IInv, TypeOK, Control, DeliveredInv, Waiting, Held, Active
<1>6. MapsInv'
  BY DEF IInv, TypeOK, Control, MapsInv
<1>7. PrerequisitesFirst'
  BY SamePrerequisites DEF IInv, TypeOK, PrerequisitesFirst, Started
<1>8. SkippedInv'
  BY SamePrerequisites DEF IInv, SkippedInv
<1>9. BlockedInv'
  BY SamePrerequisites DEF IInv, BlockedInv
<1>10. GivenUpInv'
  BY SamePrerequisites DEF IInv, GivenUpInv, BlockedInv
<1> QED
  BY <1>0, <1>1, <1>2, <1>3, <1>4, <1>5, <1>6, <1>7, <1>8, <1>9, <1>10 DEF IInv

\* Starting the workers hands exactly the runnable resources to the feeder.
LEMMA StartWaveInv == ASSUME IInv, StartWave, TypeOK' PROVE IInv'
<1> USE DEF StartWave, mapVars, outVars
<1>0. TypeOK' /\ deps' \in Schedules
  BY DEF IInv
<1>1. Control'
  BY SomeWorker DEF IInv, TypeOK, Control
<1>2. Places'
  BY DEF IInv, TypeOK, Control, Places, Active
<1>3. WaitingInv'
  BY DEF IInv, TypeOK, Control, Places, WaitingInv, Waiting
<1>4. HeldInv'
  BY DEF IInv, TypeOK, Control, Places, HeldInv, Active
<1>5. DeliveredInv'
  BY DEF IInv, TypeOK, Control, DeliveredInv, Waiting, Held, Active
<1>6. MapsInv'
  BY DEF IInv, TypeOK, Control, MapsInv
<1>7. PrerequisitesFirst'
  BY SamePrerequisites DEF IInv, TypeOK, PrerequisitesFirst, Started
<1>8. SkippedInv'
  BY SamePrerequisites DEF IInv, SkippedInv
<1>9. BlockedInv'
  BY SamePrerequisites DEF IInv, BlockedInv
<1>10. GivenUpInv'
  BY SamePrerequisites DEF IInv, GivenUpInv, BlockedInv
<1> QED
  BY <1>0, <1>1, <1>2, <1>3, <1>4, <1>5, <1>6, <1>7, <1>8, <1>9, <1>10 DEF IInv

\* wg.Wait() returns when no worker holds a resource, so all of the wave has
\* been delivered, and what was blocked becomes pending.
LEMMA EndWaveInv == ASSUME IInv, EndWave, TypeOK' PROVE IInv'
<1> USE DEF EndWave, feedVars, workerVars, mapVars
<1>0. TypeOK' /\ deps' \in Schedules
  BY DEF IInv
<1>1. Control'
  BY SomeWorker DEF IInv, TypeOK, Control
<1>2. Places'
  BY DEF IInv, TypeOK, Control, Places, Active
<1>3. WaitingInv'
  BY DEF IInv, TypeOK, Control, Places, WaitingInv, Waiting
<1>4. HeldInv'
  BY DEF IInv, TypeOK, Control, Places, HeldInv, Active
<1>5. DeliveredInv'
  BY DEF IInv, TypeOK, Control, DeliveredInv, Waiting, Held, Active
<1>6. MapsInv'
  BY DEF IInv, TypeOK, Control, MapsInv
<1>7. PrerequisitesFirst'
  BY SamePrerequisites DEF IInv, TypeOK, PrerequisitesFirst, Started
<1>8. SkippedInv'
  BY SamePrerequisites DEF IInv, SkippedInv
<1>9. BlockedInv'
  BY SamePrerequisites DEF IInv, BlockedInv
<1>10. GivenUpInv'
  BY Delivery, SamePrerequisites DEF IInv, GivenUpInv, BlockedInv
<1> QED
  BY <1>0, <1>1, <1>2, <1>3, <1>4, <1>5, <1>6, <1>7, <1>8, <1>9, <1>10 DEF IInv

\* The feeder closes work only when it has nothing left to send.
LEMMA CloseWorkInv == ASSUME IInv, CloseWork, TypeOK' PROVE IInv'
<1> USE DEF CloseWork, mainVars, workerVars, mapVars, outVars
<1>0. TypeOK' /\ deps' \in Schedules
  BY DEF IInv
<1>1. Control'
  BY SomeWorker DEF IInv, TypeOK, Control
<1>2. Places'
  BY DEF IInv, TypeOK, Control, Places, Active
<1>3. WaitingInv'
  BY DEF IInv, TypeOK, Control, Places, WaitingInv, Waiting
<1>4. HeldInv'
  BY DEF IInv, TypeOK, Control, Places, HeldInv, Active
<1>5. DeliveredInv'
  BY DEF IInv, TypeOK, Control, DeliveredInv, Waiting, Held, Active
<1>6. MapsInv'
  BY DEF IInv, TypeOK, Control, MapsInv
<1>7. PrerequisitesFirst'
  BY SamePrerequisites DEF IInv, TypeOK, PrerequisitesFirst, Started
<1>8. SkippedInv'
  BY SamePrerequisites DEF IInv, SkippedInv
<1>9. BlockedInv'
  BY SamePrerequisites DEF IInv, BlockedInv
<1>10. GivenUpInv'
  BY SamePrerequisites DEF IInv, GivenUpInv, BlockedInv
<1> QED
  BY <1>0, <1>1, <1>2, <1>3, <1>4, <1>5, <1>6, <1>7, <1>8, <1>9, <1>10 DEF IInv

\* A worker that sees work closed holds no resource.
LEMMA ExitInv == ASSUME NEW w \in Workers, IInv, Exit(w), TypeOK' PROVE IInv'
<1> USE DEF Exit, mainVars, feedVars, mapVars, outVars
<1>0. TypeOK' /\ deps' \in Schedules
  BY DEF IInv
<1>1. Control'
  BY SomeWorker DEF IInv, TypeOK, Control
<1>2. Places'
  BY DEF IInv, TypeOK, Control, Places, Active
<1>3. WaitingInv'
  BY DEF IInv, TypeOK, Control, Places, WaitingInv, Waiting
<1>4. HeldInv'
  BY DEF IInv, TypeOK, Control, Places, HeldInv, Active
<1>5. DeliveredInv'
  BY DEF IInv, TypeOK, Control, DeliveredInv, Waiting, Held, Active
<1>6. MapsInv'
  BY DEF IInv, TypeOK, Control, MapsInv
<1>7. PrerequisitesFirst'
  BY SamePrerequisites DEF IInv, TypeOK, PrerequisitesFirst, Started
<1>8. SkippedInv'
  BY SamePrerequisites DEF IInv, SkippedInv
<1>9. BlockedInv'
  BY SamePrerequisites DEF IInv, BlockedInv
<1>10. GivenUpInv'
  BY SamePrerequisites DEF IInv, GivenUpInv, BlockedInv
<1> QED
  BY <1>0, <1>1, <1>2, <1>3, <1>4, <1>5, <1>6, <1>7, <1>8, <1>9, <1>10 DEF IInv

\* The runtime's fatal error changes nothing but that the process is dead.
LEMMA FatalInv == ASSUME NEW w \in Workers, IInv, Fatal(w), TypeOK' PROVE IInv'
<1> USE DEF Fatal, mainVars, feedVars, workerVars, mapVars, outVars
<1>0. TypeOK' /\ deps' \in Schedules
  BY DEF IInv
<1>1. Control'
  BY SomeWorker DEF IInv, TypeOK, Control
<1>2. Places'
  BY DEF IInv, TypeOK, Control, Places, Active
<1>3. WaitingInv'
  BY DEF IInv, TypeOK, Control, Places, WaitingInv, Waiting
<1>4. HeldInv'
  BY DEF IInv, TypeOK, Control, Places, HeldInv, Active
<1>5. DeliveredInv'
  BY DEF IInv, TypeOK, Control, DeliveredInv, Waiting, Held, Active
<1>6. MapsInv'
  BY DEF IInv, TypeOK, Control, MapsInv
<1>7. PrerequisitesFirst'
  BY SamePrerequisites DEF IInv, TypeOK, PrerequisitesFirst, Started
<1>8. SkippedInv'
  BY SamePrerequisites DEF IInv, SkippedInv
<1>9. BlockedInv'
  BY SamePrerequisites DEF IInv, BlockedInv
<1>10. GivenUpInv'
  BY SamePrerequisites DEF IInv, GivenUpInv, BlockedInv
<1> QED
  BY <1>0, <1>1, <1>2, <1>3, <1>4, <1>5, <1>6, <1>7, <1>8, <1>9, <1>10 DEF IInv

\* Dependencies are references of the schedule, and the list of them is read
\* from its first entry to its last.
LEMMA PrerequisiteFacts ==
    ASSUME TypeOK, NEW r \in Resources
    PROVE  /\ Prerequisites(r) \subseteq Resources
           /\ \A i \in DOMAIN deps[r] : i \in 1..i /\ 1..i \subseteq DOMAIN deps[r]
<1>1. deps[r] \in Seq(Resources)
  BY DEF TypeOK
<1>2. DOMAIN deps[r] = 1..Len(deps[r]) /\ Len(deps[r]) \in Nat
  BY <1>1
<1> QED
  BY <1>1, <1>2 DEF Prerequisites

\* The three ways the scan decides.
LEMMA VerdictCases ==
    ASSUME TypeOK, NEW r \in Resources, ~completed[r]
    PROVE  /\ Verdict(r) \in {"skip", "blocked", "run"}
           /\ Verdict(r) = "skip" => MustSkip(r)
           /\ Verdict(r) = "blocked" => Blocked(r)
           /\ Verdict(r) = "run" => ~MustSkip(r) /\ ~Blocked(r)
BY DEF Verdict

\* One iteration of the scan: the item is skipped with a reason, blocked by
\* something unsettled, or runnable because all its prerequisites passed.
LEMMA ScanItemInv == ASSUME IInv, ScanItem, TypeOK' PROVE IInv'
<1> DEFINE r == First(toScan)
           v == Verdict(r)
<1>1. /\ pc = "scan" /\ pc' = "scan" /\ toScan' = toScan \ {r}
      /\ feed' = feed /\ workClosed' = workClosed /\ wpc' = wpc /\ item' = item
      /\ dirty' = dirty /\ results' = results /\ deps' = deps /\ closed' = closed
      /\ raced' = raced
      /\ runnable' = IF v = "run" THEN runnable \cup {r} ELSE runnable
      /\ nextPending' = IF v = "blocked" THEN nextPending \cup {r} ELSE nextPending
      /\ sent' = IF v = "skip" THEN [sent EXCEPT ![r] = Append(@, DependencyFailed)] ELSE sent
      /\ status' = IF v = "skip" THEN [status EXCEPT ![r] = SKIP] ELSE status
      /\ completed' = IF v = "skip" THEN [completed EXCEPT ![r] = TRUE] ELSE completed
  BY DEF ScanItem, feedVars, workerVars
<1>2. r \in toScan /\ r \in Resources
  BY FirstIn DEF ScanItem, IInv, TypeOK
<1>3. sent[r] = <<>> /\ results[r] = "none" /\ ~completed[r]
  BY <1>2 DEF IInv, WaitingInv, Waiting
<1>4. /\ v \in {"skip", "blocked", "run"}
      /\ v = "skip" => MustSkip(r)
      /\ v = "blocked" => Blocked(r)
      /\ v = "run" => ~MustSkip(r) /\ ~Blocked(r)
  BY <1>2, <1>3, VerdictCases DEF IInv
<1> HIDE DEF r, v
<1>5. r \notin nextPending /\ r \notin runnable /\ feed = {} /\ \A w \in Workers : wpc[w] = "exit"
  BY <1>1, <1>2 DEF IInv, Places, Control
<1>6. \A q \in Resources : q # r => sent'[q] = sent[q] /\ completed'[q] = completed[q]
                                    /\ status'[q] = status[q]
  BY <1>1, <1>2 DEF IInv, TypeOK
<1>7. v = "skip" => sent'[r] = <<DependencyFailed>> /\ completed'[r] /\ status'[r] = SKIP
  BY <1>1, <1>2, <1>3, AppendFirst DEF IInv, TypeOK
<1>8. v # "skip" => sent' = sent /\ completed' = completed /\ status' = status
  BY <1>1
<1>9. \A d \in Prerequisites(r) : d \in Resources
  BY <1>2, PrerequisiteFacts DEF IInv
<1>10. TypeOK' /\ deps' \in Schedules
  BY <1>1 DEF IInv
<1>11. Control'
  BY <1>1, <1>5 DEF IInv, Control
<1>12. Places'
  BY <1>1, <1>2, <1>5 DEF IInv, Places, Active
<1>13. WaitingInv'
  <2> SUFFICES ASSUME NEW q \in Resources, Waiting(q)'
               PROVE  sent'[q] = <<>> /\ results'[q] = "none" /\ ~completed'[q]
    BY DEF WaitingInv
  <2>1. CASE q = r
    BY <1>1, <1>3, <1>5, <1>8, <2>1 DEF Waiting
  <2>2. CASE q # r
    BY <1>1, <1>6, <2>2 DEF Waiting, IInv, WaitingInv
  <2> QED
    BY <2>1, <2>2
<1>14. HeldInv'
  BY <1>1, <1>5 DEF HeldInv, Active
<1>15. DeliveredInv'
  <2> SUFFICES ASSUME NEW q \in Resources, ~Waiting(q)', ~Held(q)'
               PROVE  \/ results'[q] # "none" /\ sent'[q] = <<results'[q]>>
                      \/ results'[q] = "none" /\ sent'[q] = <<DependencyFailed>>
    BY DEF DeliveredInv
  <2>1. CASE q = r
    BY <1>1, <1>3, <1>4, <1>7, <2>1 DEF Waiting
  <2>2. CASE q # r
    BY <1>1, <1>6, <2>2 DEF Waiting, Held, Active, IInv, DeliveredInv
  <2> QED
    BY <2>1, <2>2
<1>16. MapsInv'
  <2> SUFFICES ASSUME ~raced PROVE MapsInv'
    BY <1>1 DEF MapsInv
  <2>1. \A w \in Workers : ~dirty'[w] /\ wpc'[w] = "exit"
    BY <1>1, <1>5 DEF IInv, MapsInv
  <2>2. ASSUME NEW q \in Resources
        PROVE  /\ (results'[q] # "none" /\ sent'[q] = <<results'[q]>>) =>
                      completed'[q] /\ status'[q] = StatusOf(results'[q])
               /\ sent'[q] = <<DependencyFailed>> => completed'[q] /\ status'[q] = SKIP
               /\ sent'[q] = <<Unsatisfied>> => ~completed'[q]
    <3>1. CASE q = r /\ v = "skip"
      BY <1>1, <1>3, <1>7, <3>1, GroupFacts DEF IInv
    <3>2. CASE q # r \/ v # "skip"
      BY <1>1, <1>6, <1>8, <3>2 DEF IInv, MapsInv
    <3> QED
      BY <3>1, <3>2
  <2> QED
    BY <2>1, <2>2 DEF MapsInv
<1>17. PrerequisitesFirst'
  <2> SUFFICES ASSUME ~raced, NEW q \in Resources, Started(q)', NEW d \in Prerequisites(q)
               PROVE  sent'[d] \in {<<"pass">>, <<"skipped">>}
    BY <1>1, SamePrerequisites DEF PrerequisitesFirst
  <2>1. d \in Resources
    BY PrerequisiteFacts DEF IInv
  <2>2. sent[d] \in {<<"pass">>, <<"skipped">>}
    <3>1. CASE Started(q)
      BY <3>1 DEF IInv, PrerequisitesFirst
    <3>2. CASE ~Started(q)
      <4>1. q = r /\ v = "run"
        BY <1>1, <3>2 DEF Started
      <4>2. PICK i \in DOMAIN deps[r] : d = deps[r][i]
        BY <4>1 DEF Prerequisites
      <4>3. \A j \in 1..i : completed[deps[r][j]]
        BY <1>2, <1>4, <4>1, <4>2, PrerequisiteFacts DEF Blocked, IInv
      <4>4. completed[d] /\ status[d] \notin {FAIL, SKIP}
        BY <1>4, <4>1, <4>2, <4>3 DEF MustSkip, Blocked
      <4> QED
        BY <1>1, <2>1, <4>4, CompletedMeans
    <3> QED
      BY <3>1, <3>2
  <2>3. d # r
    BY <1>3, <2>2, Singletons
  <2> QED
    BY <1>6, <2>1, <2>2, <2>3
<1>18. SkippedInv'
  <2> SUFFICES ASSUME ~raced, NEW q \in Resources, sent'[q] = <<DependencyFailed>>
               PROVE  \E d \in Prerequisites(q) :
                          sent'[d] = <<"fail">> \/ sent'[d] = <<DependencyFailed>>
    BY <1>1, SamePrerequisites DEF SkippedInv
  <2>1. \E d \in Prerequisites(q) : sent[d] = <<"fail">> \/ sent[d] = <<DependencyFailed>>
    <3>1. CASE q = r /\ v = "skip"
      <4>1. PICK d \in Prerequisites(r) : completed[d] /\ status[d] \in {FAIL, SKIP}
        BY <1>2, <1>4, <3>1, PrerequisiteFacts DEF MustSkip, Prerequisites, IInv
      <4> QED
        BY <1>1, <1>9, <3>1, <4>1, CompletedMeans
    <3>2. CASE q # r \/ v # "skip"
      BY <1>6, <1>8, <3>2 DEF IInv, SkippedInv
    <3> QED
      BY <3>1, <3>2
  <2>2. PICK d \in Prerequisites(q) : sent[d] = <<"fail">> \/ sent[d] = <<DependencyFailed>>
    BY <2>1
  <2>3. d \in Resources /\ d # r
    BY <1>3, <2>2, Singletons, PrerequisiteFacts DEF IInv
  <2> QED
    BY <1>6, <2>2, <2>3
<1>19. BlockedInv'
  <2> SUFFICES ASSUME ~raced, NEW q \in nextPending'
               PROVE  \E d \in Prerequisites(q) :
                          d \in toScan' \/ d \in nextPending' \/ d \in runnable'
                              \/ sent'[d] = <<DependencyFailed>>
    BY <1>1, SamePrerequisites DEF BlockedInv
  <2>1. \E d \in Prerequisites(q) :
            d \in toScan \/ d \in nextPending \/ d \in runnable \/ sent[d] = <<DependencyFailed>>
    <3>1. CASE q \in nextPending
      BY <1>1, <3>1 DEF IInv, BlockedInv
    <3>2. CASE q \notin nextPending
      <4>1. q = r /\ v = "blocked"
        BY <1>1, <3>2
      <4>2. PICK d \in Prerequisites(r) : ~completed[d]
        BY <1>4, <4>1 DEF Blocked, Prerequisites
      <4> QED
        BY <1>1, <1>9, <4>1, <4>2, CompletedMeans
    <3> QED
      BY <3>1, <3>2
  <2>2. PICK d \in Prerequisites(q) :
            d \in toScan \/ d \in nextPending \/ d \in runnable \/ sent[d] = <<DependencyFailed>>
    BY <2>1
  <2>3. q \in Resources /\ d \in Resources
    BY <1>1, <1>2, PrerequisiteFacts DEF IInv, TypeOK
  <2> QED
    BY <1>1, <1>3, <1>4, <1>6, <1>7, <2>2, <2>3
<1>20. GivenUpInv'
  BY <1>1 DEF GivenUpInv
<1> QED
  BY <1>10, <1>11, <1>12, <1>13, <1>14, <1>15, <1>16, <1>17, <1>18, <1>19, <1>20 DEF IInv

\* A resource that is given up was waiting, and is delivered as unsatisfied.
LEMMA GiveUpInv == ASSUME IInv, GiveUp, TypeOK' PROVE IInv'
<1> DEFINE r == First(nextPending)
<1>1. /\ pc = "giveup" /\ pc' = "giveup" /\ nextPending' = nextPending \ {r}
      /\ sent' = [sent EXCEPT ![r] = Append(@, Unsatisfied)]
      /\ toScan' = toScan /\ runnable' = runnable /\ feed' = feed
      /\ workClosed' = workClosed /\ wpc' = wpc /\ item' = item /\ dirty' = dirty
      /\ results' = results /\ status' = status /\ completed' = completed
      /\ deps' = deps /\ closed' = closed /\ raced' = raced
  BY DEF GiveUp, feedVars, workerVars, mapVars
<1>2. r \in nextPending /\ r \in Resources
  BY FirstIn DEF GiveUp, IInv, TypeOK
<1> HIDE DEF r
<1>3. sent[r] = <<>> /\ results[r] = "none" /\ ~completed[r]
  BY <1>2 DEF IInv, WaitingInv, Waiting
<1>4. toScan = {} /\ runnable = {} /\ feed = {} /\ \A w \in Workers : wpc[w] = "exit"
  BY <1>1 DEF IInv, Control
<1>5. sent'[r] = <<Unsatisfied>> /\ \A q \in Resources : q # r => sent'[q] = sent[q]
  BY <1>1, <1>2, <1>3, AppendFirst DEF IInv, TypeOK
<1>6. TypeOK' /\ deps' \in Schedules
  BY <1>1 DEF IInv
<1>7. Control' /\ Places'
  BY <1>1 DEF IInv, Control, Places, Active
<1>8. WaitingInv'
  <2> SUFFICES ASSUME NEW q \in Resources, Waiting(q)'
               PROVE  sent'[q] = <<>> /\ results'[q] = "none" /\ ~completed'[q]
    BY DEF WaitingInv
  <2>1. q # r /\ Waiting(q)
    BY <1>1, <1>4 DEF Waiting
  <2> QED
    BY <1>1, <1>5, <2>1 DEF IInv, WaitingInv
<1>9. HeldInv'
  BY <1>1, <1>4 DEF HeldInv, Active
<1>10. DeliveredInv'
  <2> SUFFICES ASSUME NEW q \in Resources, ~Waiting(q)', ~Held(q)'
               PROVE  \/ results'[q] # "none" /\ sent'[q] = <<results'[q]>>
                      \/ results'[q] = "none" /\ sent'[q] = <<DependencyFailed>>
                      \/ results'[q] = "none" /\ sent'[q] = <<Unsatisfied>>
    BY <1>1 DEF DeliveredInv
  <2>1. CASE q = r
    BY <1>1, <1>3, <1>5, <2>1
  <2>2. CASE q # r
    BY <1>1, <1>5, <2>2 DEF Waiting, Held, Active, IInv, DeliveredInv
  <2> QED
    BY <2>1, <2>2
<1>11. MapsInv'
  <2> SUFFICES ASSUME ~raced PROVE MapsInv'
    BY <1>1 DEF MapsInv
  <2>1. \A w \in Workers : ~dirty'[w] /\ wpc'[w] = "exit"
    BY <1>1, <1>4 DEF IInv, MapsInv
  <2>2. ASSUME NEW q \in Resources
        PROVE  /\ (results'[q] # "none" /\ sent'[q] = <<results'[q]>>) =>
                      completed'[q] /\ status'[q] = StatusOf(results'[q])
               /\ sent'[q] = <<DependencyFailed>> => completed'[q] /\ status'[q] = SKIP
               /\ sent'[q] = <<Unsatisfied>> => ~completed'[q]
    <3>1. CASE q = r
      BY <1>1, <1>3, <1>5, <3>1, GroupFacts DEF IInv
    <3>2. CASE q # r
      BY <1>1, <1>5, <3>2 DEF IInv, MapsInv
    <3> QED
      BY <3>1, <3>2
  <2> QED
    BY <2>1, <2>2 DEF MapsInv
<1>12. PrerequisitesFirst'
  <2> SUFFICES ASSUME ~raced, NEW q \in Resources, Started(q), NEW d \in Prerequisites(q)
               PROVE  sent'[d] \in {<<"pass">>, <<"skipped">>}
    BY <1>1, SamePrerequisites DEF PrerequisitesFirst, Started
  <2>1. sent[d] \in {<<"pass">>, <<"skipped">>} /\ d \in Resources
    BY PrerequisiteFacts DEF IInv, PrerequisitesFirst
  <2> QED
    BY <1>3, <1>5, <2>1, Singletons
<1>13. SkippedInv'
  <2> SUFFICES ASSUME ~raced, NEW q \in Resources, sent'[q] = <<DependencyFailed>>
               PROVE  \E d \in Prerequisites(q) :
                          sent'[d] = <<"fail">> \/ sent'[d] = <<DependencyFailed>>
    BY <1>1, SamePrerequisites DEF SkippedInv
  <2>1. sent[q] = <<DependencyFailed>>
    BY <1>5, GroupFacts DEF IInv
  <2>2. PICK d \in Prerequisites(q) : sent[d] = <<"fail">> \/ sent[d] = <<DependencyFailed>>
    BY <2>1 DEF IInv, SkippedInv
  <2>3. d \in Resources /\ d # r
    BY <1>3, <2>2, Singletons, PrerequisiteFacts DEF IInv
  <2> QED
    BY <1>5, <2>2, <2>3
<1>14. BlockedInv'
  BY <1>1 DEF BlockedInv
<1>15. GivenUpInv'
  <2> SUFFICES ASSUME ~raced, NEW q \in Resources,
                      q \in nextPending' \/ sent'[q] = <<Unsatisfied>>
               PROVE  \E d \in Prerequisites(q) :
                          d \in nextPending' \/ sent'[d] = <<DependencyFailed>>
                              \/ sent'[d] = <<Unsatisfied>>
    BY <1>1, SamePrerequisites DEF GivenUpInv
  <2>1. q \in nextPending \/ sent[q] = <<Unsatisfied>>
    BY <1>1, <1>2, <1>5
  <2>2. PICK d \in Prerequisites(q) :
            d \in nextPending \/ sent[d] = <<DependencyFailed>> \/ sent[d] = <<Unsatisfied>>
    BY <1>1, <2>1 DEF IInv, GivenUpInv
  <2>3. d \in Resources
    BY PrerequisiteFacts DEF IInv
  <2> QED
    BY <1>1, <1>5, <2>2, <2>3
<1> QED
  BY <1>6, <1>7, <1>8, <1>9, <1>10, <1>11, <1>12, <1>13, <1>14, <1>15 DEF IInv

\* A received resource moves from the feeder to exactly one worker.
LEMMA ReceiveInv == ASSUME NEW w \in Workers, IInv, Receive(w), TypeOK' PROVE IInv'
<1> DEFINE r == First(feed)
<1>1. /\ wpc[w] = "recv" /\ feed # {} /\ feed' = feed \ {r}
      /\ item' = [item EXCEPT ![w] = r] /\ wpc' = [wpc EXCEPT ![w] = "validate"]
      /\ pc' = pc /\ toScan' = toScan /\ nextPending' = nextPending /\ runnable' = runnable
      /\ workClosed' = workClosed /\ dirty' = dirty /\ results' = results
      /\ status' = status /\ completed' = completed /\ sent' = sent /\ deps' = deps
      /\ closed' = closed /\ raced' = raced
  BY DEF Receive, mainVars, mapVars, outVars
<1>2. r \in feed /\ r \in Resources
  BY <1>1, FirstIn DEF IInv, TypeOK
<1> HIDE DEF r
<1>3. pc = "wait" /\ ~workClosed /\ r \in runnable
  BY <1>1, <1>2 DEF IInv, Control
<1>4. sent[r] = <<>> /\ results[r] = "none" /\ ~completed[r]
  BY <1>2 DEF IInv, WaitingInv, Waiting
<1>5. /\ wpc'[w] = "validate" /\ item'[w] = r
      /\ \A v \in Workers : v # w => wpc'[v] = wpc[v] /\ item'[v] = item[v]
  BY <1>1 DEF IInv, TypeOK
<1>6. Active(w)' /\ ~Active(w) /\ \A v \in Workers : v # w => (Active(v)' <=> Active(v))
  BY <1>1, <1>5 DEF Active
<1>7. TypeOK' /\ deps' \in Schedules
  BY <1>1 DEF IInv
<1>8. Control'
  BY <1>1, <1>3, <1>5 DEF IInv, Control
<1>9. Places'
  <2>1. \A v \in Workers : Active(v)' => item'[v] \in runnable /\ item'[v] \notin feed'
    BY <1>1, <1>2, <1>3, <1>5, <1>6 DEF IInv, Places
  <2>2. \A u, v \in Workers : Active(u)' /\ Active(v)' /\ item'[u] = item'[v] => u = v
    BY <1>2, <1>5, <1>6 DEF IInv, Places
  <2> QED
    BY <1>1, <2>1, <2>2 DEF IInv, Places
<1>10. WaitingInv'
  BY <1>1 DEF IInv, WaitingInv, Waiting
<1>11. HeldInv'
  BY <1>1, <1>4, <1>5, <1>6 DEF IInv, HeldInv
<1>12. DeliveredInv'
  <2> SUFFICES ASSUME NEW q \in Resources, ~Waiting(q)', ~Held(q)'
               PROVE  ~Waiting(q) /\ ~Held(q)
    BY <1>1 DEF IInv, DeliveredInv
  <2>1. q # r
    BY <1>5, <1>6 DEF Held
  <2> QED
    BY <1>1, <1>5, <1>6, <2>1 DEF Waiting, Held
<1>13. MapsInv'
  BY <1>1, <1>5 DEF IInv, MapsInv
<1>14. PrerequisitesFirst'
  BY <1>1, SamePrerequisites DEF IInv, PrerequisitesFirst, Started
<1>15. SkippedInv' /\ BlockedInv' /\ GivenUpInv'
  BY <1>1, <1>3, SamePrerequisites DEF IInv, SkippedInv, BlockedInv, GivenUpInv
<1> QED
  BY <1>7, <1>8, <1>9, <1>10, <1>11, <1>12, <1>13, <1>14, <1>15 DEF IInv


\* What is common to the steps of a worker that holds a resource and goes on
\* holding it: the step stays within the wave and nothing changes place.
LEMMA HoldingStep ==
    ASSUME NEW w \in Workers, NEW window \in {"status", "completed", "send"}, IInv, Active(w),
           wpc' = [wpc EXCEPT ![w] = window],
           UNCHANGED <<deps, mainVars, feedVars, item, outVars>>,
           \A q \in Resources : q # item[w] => results'[q] = results[q]
                                               /\ completed'[q] = completed[q]
    PROVE  /\ deps' \in Schedules /\ Control' /\ Places' /\ WaitingInv' /\ pc = "wait"
           /\ \A v \in Workers : Active(v)' <=> Active(v)
           /\ \A v \in Workers : v # w => wpc'[v] = wpc[v] /\ (Active(v) => item[v] # item[w])
           /\ wpc'[w] = window /\ item[w] \in Resources
           /\ sent[item[w]] = <<>>
           /\ \A q \in Resources : (~Waiting(q)' /\ ~Held(q)') =>
                  ~Waiting(q) /\ ~Held(q) /\ q # item[w]
           /\ SkippedInv' \/ raced # raced'
           /\ BlockedInv' /\ GivenUpInv'
<1> USE DEF mainVars, feedVars, outVars
<1>1. pc = "wait"
  BY DEF IInv, Control, Active
<1>2. wpc'[w] = window /\ \A v \in Workers : v # w => wpc'[v] = wpc[v]
  BY DEF IInv, TypeOK
<1>3. \A v \in Workers : Active(v)' <=> Active(v)
  BY <1>2 DEF Active
<1>4. item[w] \in runnable /\ item[w] \notin feed /\ item[w] \in Resources
  BY DEF IInv, Places, TypeOK
<1>5. \A v \in Workers : v # w => (Active(v) => item[v] # item[w])
  BY DEF IInv, Places
<1>6. deps' \in Schedules /\ Control' /\ Places'
  BY <1>1, <1>2, <1>3 DEF IInv, Control, Places
<1>7. item[w] \notin toScan /\ item[w] \notin nextPending
  BY <1>4 DEF IInv, Places
<1>8. ~Waiting(item[w]) /\ \A q : Waiting(q)' <=> Waiting(q)
  BY <1>1, <1>4, <1>7 DEF Waiting
<1>9. WaitingInv'
  BY <1>4, <1>8 DEF IInv, WaitingInv
<1>10. \A q \in Resources : Held(q)' <=> Held(q)
  BY <1>3 DEF Held
<1>11. Held(item[w])
  BY DEF Held
<1>12. sent[item[w]] = <<>>
  BY DEF IInv, HeldInv
<1>13. SkippedInv' \/ raced # raced'
  BY SamePrerequisites DEF IInv, SkippedInv
<1>14. BlockedInv' /\ GivenUpInv'
  BY <1>1 DEF BlockedInv, GivenUpInv
<1> QED
  BY <1>1, <1>2, <1>3, <1>4, <1>5, <1>6, <1>8, <1>9, <1>10, <1>11, <1>12, <1>13, <1>14

\* Opening a window without a race: no other worker is there, and no window is
\* dirty afterwards.
LEMMA OpenWindowClean ==
    ASSUME NEW w \in Workers, NEW window, OpenWindow(w, window), ~raced', MapsInv,
           TypeOK
    PROVE  ~raced /\ \A v \in Workers : ~dirty[v] /\ ~dirty'[v]
<1>1. ~raced /\ {v \in Workers \ {w} : wpc[v] = window} = {}
  BY DEF OpenWindow, TypeOK
<1>2. \A v \in Workers : ~dirty[v]
  BY <1>1 DEF MapsInv
<1> QED
  BY <1>1, <1>2 DEF OpenWindow

\* Validate returns: the worker has results that nobody has seen yet, and
\* opens its window on status.
LEMMA ValidateInv ==
    ASSUME NEW w \in Workers, NEW o \in Outcomes, IInv, Validate(w, o), TypeOK' PROVE IInv'
<1> DEFINE r == item[w]
<1>1. /\ wpc[w] = "validate" /\ wpc' = [wpc EXCEPT ![w] = "status"]
      /\ results' = [results EXCEPT ![r] = o] /\ OpenWindow(w, "status")
      /\ UNCHANGED <<deps, mainVars, feedVars, item, outVars, status, completed>>
  BY DEF Validate, OpenWindow, mapVars
<1>2. Active(w)
  BY <1>1 DEF Active
<1>3. r \in Resources
  BY DEF IInv, TypeOK
<1> HIDE DEF r
<1>4. results'[r] = o /\ o # "none" /\ \A q \in Resources : q # r => results'[q] = results[q]
  BY <1>1, <1>3 DEF IInv, TypeOK, Outcomes
<1>5. \A q \in Resources : q # r => results'[q] = results[q] /\ completed'[q] = completed[q]
  BY <1>1, <1>4
<1>6. /\ deps' \in Schedules /\ Control' /\ Places' /\ WaitingInv' /\ pc = "wait"
      /\ \A v \in Workers : Active(v)' <=> Active(v)
      /\ \A v \in Workers : v # w => wpc'[v] = wpc[v] /\ (Active(v) => item[v] # item[w])
      /\ wpc'[w] = "status" /\ sent[r] = <<>>
      /\ \A q \in Resources : (~Waiting(q)' /\ ~Held(q)') => ~Waiting(q) /\ ~Held(q) /\ q # r
      /\ SkippedInv' \/ raced # raced'
      /\ BlockedInv' /\ GivenUpInv'
  BY <1>1, <1>2, <1>5, HoldingStep DEF r
<1>7. HeldInv'
  <2> SUFFICES ASSUME NEW v \in Workers, Active(v)'
               PROVE  /\ sent'[item'[v]] = <<>>
                      /\ wpc'[v] = "validate" <=> results'[item'[v]] = "none"
                      /\ wpc'[v] # "send" => ~completed'[item'[v]]
    BY DEF HeldInv
  <2>1. CASE v = w
    BY <1>1, <1>2, <1>4, <1>6, <2>1 DEF IInv, HeldInv, r, outVars
  <2>2. CASE v # w
    BY <1>1, <1>4, <1>6, <2>2 DEF IInv, HeldInv, r, outVars, TypeOK
  <2> QED
    BY <2>1, <2>2
<1>8. DeliveredInv'
  BY <1>1, <1>4, <1>6 DEF IInv, DeliveredInv, outVars, mainVars
<1>9. raced => raced'
  BY <1>1 DEF OpenWindow
<1>10. MapsInv'
  <2> SUFFICES ASSUME ~raced' PROVE MapsInv'
    BY DEF MapsInv
  <2>1. ~raced /\ \A v \in Workers : ~dirty'[v]
    BY <1>1, OpenWindowClean DEF IInv
  <2>2. ASSUME NEW v \in Workers, wpc'[v] \in {"completed", "send"}
        PROVE  /\ status'[item'[v]] = StatusOf(results'[item'[v]])
               /\ wpc'[v] = "send" => completed'[item'[v]]
    <3>1. v # w /\ wpc[v] = wpc'[v] /\ item[v] # r /\ item[v] \in Resources
      BY <1>6, <2>2 DEF Active, IInv, TypeOK, r
    <3> QED
      BY <1>1, <1>4, <2>1, <2>2, <3>1 DEF IInv, MapsInv
  <2>3. ASSUME NEW q \in Resources
        PROVE  /\ (results'[q] # "none" /\ sent'[q] = <<results'[q]>>) =>
                      completed'[q] /\ status'[q] = StatusOf(results'[q])
               /\ sent'[q] = <<DependencyFailed>> => completed'[q] /\ status'[q] = SKIP
               /\ sent'[q] = <<Unsatisfied>> => ~completed'[q]
    <3>1. CASE q = r
      BY <1>1, <1>6, <3>1, Singletons DEF outVars
    <3>2. CASE q # r
      BY <1>1, <1>4, <2>1, <3>2 DEF IInv, MapsInv, outVars
    <3> QED
      BY <3>1, <3>2
  <2> QED
    BY <2>1, <2>2, <2>3 DEF MapsInv
<1>11. PrerequisitesFirst'
  <2>1. \A q \in Resources : Started(q)' => Started(q)
    BY <1>1, <1>2, <1>4 DEF Started, mainVars, IInv, Places, r
  <2> QED
    BY <1>1, <1>9, <2>1, SamePrerequisites DEF IInv, PrerequisitesFirst, outVars
<1>12. SkippedInv'
  BY <1>6, <1>9 DEF SkippedInv, IInv, TypeOK
<1> QED
  BY <1>6, <1>7, <1>8, <1>10, <1>11, <1>12 DEF IInv

\* The assignment to status, lost or not, changes the entry of the resource
\* the worker holds and no other.
LEMMA WriteStatusInv == ASSUME NEW w \in Workers, IInv, WriteStatus(w), TypeOK' PROVE IInv'
<1> DEFINE r == item[w]
<1>1. /\ wpc[w] = "status" /\ wpc' = [wpc EXCEPT ![w] = "completed"]
      /\ OpenWindow(w, "completed")
      /\ status' = [status EXCEPT ![r] = StatusOf(results[r])]
             \/ (dirty[w] /\ status' = status)
      /\ UNCHANGED <<deps, mainVars, feedVars, item, outVars, results, completed>>
  BY DEF WriteStatus, OpenWindow, Assign
<1>2. Active(w)
  BY <1>1 DEF Active
<1>3. r \in Resources
  BY DEF IInv, TypeOK
<1> HIDE DEF r
<1>4. \A q \in Resources : q # r => status'[q] = status[q]
  BY <1>1, <1>3 DEF IInv, TypeOK
<1>5. \A q \in Resources : q # r => results'[q] = results[q] /\ completed'[q] = completed[q]
  BY <1>1
<1>6. /\ deps' \in Schedules /\ Control' /\ Places' /\ WaitingInv' /\ pc = "wait"
      /\ \A v \in Workers : Active(v)' <=> Active(v)
      /\ \A v \in Workers : v # w => wpc'[v] = wpc[v] /\ (Active(v) => item[v] # item[w])
      /\ wpc'[w] = "completed" /\ sent[r] = <<>>
      /\ \A q \in Resources : (~Waiting(q)' /\ ~Held(q)') => ~Waiting(q) /\ ~Held(q) /\ q # r
      /\ SkippedInv' \/ raced # raced'
      /\ BlockedInv' /\ GivenUpInv'
  BY <1>1, <1>2, <1>5, HoldingStep DEF r
<1>7. HeldInv'
  BY <1>1, <1>2, <1>6 DEF IInv, HeldInv, outVars
<1>8. DeliveredInv'
  BY <1>1, <1>6 DEF IInv, DeliveredInv, outVars, mainVars
<1>9. raced => raced'
  BY <1>1 DEF OpenWindow
<1>10. MapsInv'
  <2> SUFFICES ASSUME ~raced' PROVE MapsInv'
    BY DEF MapsInv
  <2>1. ~raced /\ ~dirty[w] /\ \A v \in Workers : ~dirty'[v]
    BY <1>1, OpenWindowClean DEF IInv
  <2>2. status'[r] = StatusOf(results[r])
    BY <1>1, <1>3, <2>1 DEF IInv, TypeOK
  <2>3. ASSUME NEW v \in Workers, wpc'[v] \in {"completed", "send"}
        PROVE  /\ status'[item'[v]] = StatusOf(results'[item'[v]])
               /\ wpc'[v] = "send" => completed'[item'[v]]
    <3>1. CASE v = w
      BY <1>1, <1>6, <2>2, <3>1 DEF r
    <3>2. CASE v # w
      <4>1. wpc[v] = wpc'[v] /\ item[v] # r /\ item[v] \in Resources
        BY <1>6, <2>3, <3>2 DEF Active, IInv, TypeOK, r
      <4> QED
        BY <1>1, <1>4, <2>1, <2>3, <4>1 DEF IInv, MapsInv
    <3> QED
      BY <3>1, <3>2
  <2>4. ASSUME NEW q \in Resources
        PROVE  /\ (results'[q] # "none" /\ sent'[q] = <<results'[q]>>) =>
                      completed'[q] /\ status'[q] = StatusOf(results'[q])
               /\ sent'[q] = <<DependencyFailed>> => completed'[q] /\ status'[q] = SKIP
               /\ sent'[q] = <<Unsatisfied>> => ~completed'[q]
    <3>1. CASE q = r
      BY <1>1, <1>6, <3>1, Singletons DEF outVars
    <3>2. CASE q # r
      BY <1>1, <1>4, <2>1, <3>2 DEF IInv, MapsInv, outVars
    <3> QED
      BY <3>1, <3>2
  <2> QED
    BY <2>1, <2>3, <2>4 DEF MapsInv
<1>11. PrerequisitesFirst'
  BY <1>1, <1>9, SamePrerequisites DEF IInv, PrerequisitesFirst, Started, outVars, mainVars
<1>12. SkippedInv'
  BY <1>6, <1>9 DEF SkippedInv, IInv, TypeOK
<1> QED
  BY <1>6, <1>7, <1>8, <1>10, <1>11, <1>12 DEF IInv

\* The assignment to completed, lost or not, changes the entry of the
\* resource the worker holds and no other.
LEMMA WriteCompletedInv == ASSUME NEW w \in Workers, IInv, WriteCompleted(w), TypeOK' PROVE IInv'
<1> DEFINE r == item[w]
<1>1. /\ wpc[w] = "completed" /\ wpc' = [wpc EXCEPT ![w] = "send"]
      /\ dirty' = [dirty EXCEPT ![w] = FALSE] /\ raced' = raced
      /\ completed' = [completed EXCEPT ![r] = TRUE]
             \/ (dirty[w] /\ completed' = completed)
      /\ UNCHANGED <<deps, mainVars, feedVars, item, outVars, results, status>>
  BY DEF WriteCompleted, Assign
<1>2. Active(w)
  BY <1>1 DEF Active
<1>3. r \in Resources
  BY DEF IInv, TypeOK
<1> HIDE DEF r
<1>4. \A q \in Resources : q # r => completed'[q] = completed[q]
  BY <1>1, <1>3 DEF IInv, TypeOK
<1>5. \A q \in Resources : q # r => results'[q] = results[q] /\ completed'[q] = completed[q]
  BY <1>1, <1>4
<1>6. /\ deps' \in Schedules /\ Control' /\ Places' /\ WaitingInv' /\ pc = "wait"
      /\ \A v \in Workers : Active(v)' <=> Active(v)
      /\ \A v \in Workers : v # w => wpc'[v] = wpc[v] /\ (Active(v) => item[v] # item[w])
      /\ wpc'[w] = "send" /\ sent[r] = <<>>
      /\ \A q \in Resources : (~Waiting(q)' /\ ~Held(q)') => ~Waiting(q) /\ ~Held(q) /\ q # r
      /\ SkippedInv' \/ raced # raced'
      /\ BlockedInv' /\ GivenUpInv'
  BY <1>1, <1>2, <1>5, HoldingStep DEF r
<1>7. HeldInv'
  <2> SUFFICES ASSUME NEW v \in Workers, Active(v)'
               PROVE  /\ sent'[item'[v]] = <<>>
                      /\ wpc'[v] = "validate" <=> results'[item'[v]] = "none"
                      /\ wpc'[v] # "send" => ~completed'[item'[v]]
    BY DEF HeldInv
  <2>1. CASE v = w
    BY <1>1, <1>2, <1>6, <2>1 DEF IInv, HeldInv, r, outVars
  <2>2. CASE v # w
    BY <1>1, <1>4, <1>6, <2>2 DEF IInv, HeldInv, r, outVars, TypeOK
  <2> QED
    BY <2>1, <2>2
<1>8. DeliveredInv'
  BY <1>1, <1>6 DEF IInv, DeliveredInv, outVars, mainVars
<1>9. MapsInv'
  <2> SUFFICES ASSUME ~raced PROVE MapsInv'
    BY <1>1 DEF MapsInv
  <2>1. ~dirty[w] /\ \A v \in Workers : ~dirty'[v]
    BY <1>1 DEF IInv, MapsInv, TypeOK
  <2>2. completed'[r]
    BY <1>1, <1>3, <2>1 DEF IInv, TypeOK
  <2>3. ASSUME NEW v \in Workers, wpc'[v] \in {"completed", "send"}
        PROVE  /\ status'[item'[v]] = StatusOf(results'[item'[v]])
               /\ wpc'[v] = "send" => completed'[item'[v]]
    <3>1. CASE v = w
      BY <1>1, <1>6, <2>2, <3>1 DEF r, IInv, MapsInv
    <3>2. CASE v # w
      <4>1. wpc[v] = wpc'[v] /\ item[v] # r /\ item[v] \in Resources
        BY <1>6, <2>3, <3>2 DEF Active, IInv, TypeOK, r
      <4> QED
        BY <1>1, <1>4, <2>1, <2>3, <4>1 DEF IInv, MapsInv
    <3> QED
      BY <3>1, <3>2
  <2>4. ASSUME NEW q \in Resources
        PROVE  /\ (results'[q] # "none" /\ sent'[q] = <<results'[q]>>) =>
                      completed'[q] /\ status'[q] = StatusOf(results'[q])
               /\ sent'[q] = <<DependencyFailed>> => completed'[q] /\ status'[q] = SKIP
               /\ sent'[q] = <<Unsatisfied>> => ~completed'[q]
    <3>1. CASE q = r
      BY <1>1, <1>6, <3>1, Singletons DEF outVars
    <3>2. CASE q # r
      BY <1>1, <1>4, <3>2 DEF IInv, MapsInv, outVars
    <3> QED
      BY <3>1, <3>2
  <2> QED
    BY <2>1, <2>3, <2>4 DEF MapsInv
<1>10. PrerequisitesFirst'
  BY <1>1, SamePrerequisites DEF IInv, PrerequisitesFirst, Started, outVars, mainVars
<1>11. SkippedInv'
  BY <1>1, <1>6
<1> QED
  BY <1>6, <1>7, <1>8, <1>9, <1>10, <1>11 DEF IInv

\* The worker delivers what it holds: it had not been delivered before.
LEMMA SendInv == ASSUME NEW w \in Workers, IInv, Send(w), TypeOK' PROVE IInv'
<1> DEFINE r == item[w]
<1>1. /\ wpc[w] = "send" /\ wpc' = [wpc EXCEPT ![w] = "recv"]
      /\ sent' = [sent EXCEPT ![r] = Append(@, results[r])]
      /\ UNCHANGED <<deps, mainVars, feedVars, item, dirty, results, status, completed, closed, raced>>
  BY DEF Send, mapVars
<1>2. Active(w)
  BY <1>1 DEF Active
<1>3. r \in Resources /\ r \in runnable
  BY <1>2 DEF IInv, TypeOK, Places
<1>4. sent[r] = <<>> /\ results[r] # "none" /\ pc = "wait"
  BY <1>1, <1>2 DEF IInv, HeldInv, Control
<1>5. \A v \in Workers : v # w => wpc'[v] = wpc[v] /\ (Active(v)' <=> Active(v))
                                  /\ (Active(v) => item[v] # r)
  BY <1>1, <1>2 DEF IInv, TypeOK, Active, Places
<1>6. ~Active(w)' /\ wpc'[w] = "recv"
  BY <1>1 DEF IInv, TypeOK, Active
<1> HIDE DEF r
<1>7. sent'[r] = <<results[r]>> /\ \A q \in Resources : q # r => sent'[q] = sent[q]
  BY <1>1, <1>3, <1>4, AppendFirst DEF IInv, TypeOK
<1>8. TypeOK' /\ deps' \in Schedules
  BY <1>1 DEF IInv
<1>9. Control'
  BY <1>1, <1>4, <1>5, <1>6 DEF IInv, Control, mainVars, feedVars
<1>10. Places'
  BY <1>1, <1>5, <1>6 DEF IInv, Places, mainVars, feedVars
<1>11. r \notin toScan /\ r \notin nextPending /\ r \notin feed
  BY <1>2, <1>3 DEF IInv, Places, r
<1>12. WaitingInv'
  BY <1>1, <1>4, <1>7, <1>11 DEF IInv, WaitingInv, Waiting, mainVars, feedVars
<1>13. HeldInv'
  <2> SUFFICES ASSUME NEW v \in Workers, Active(v)'
               PROVE  /\ sent'[item'[v]] = <<>>
                      /\ wpc'[v] = "validate" <=> results'[item'[v]] = "none"
                      /\ wpc'[v] # "send" => ~completed'[item'[v]]
    BY DEF HeldInv
  <2>1. v # w /\ item[v] # r /\ Active(v) /\ wpc'[v] = wpc[v] /\ item[v] \in Resources
    BY <1>5, <1>6 DEF IInv, TypeOK
  <2> QED
    BY <1>1, <1>7, <2>1 DEF IInv, HeldInv
<1>14. DeliveredInv'
  <2> SUFFICES ASSUME NEW q \in Resources, ~Waiting(q)', ~Held(q)', q # r
               PROVE  ~Waiting(q) /\ ~Held(q)
    BY <1>1, <1>4, <1>7 DEF IInv, DeliveredInv, mainVars
  <2>1. ~Waiting(q)
    BY <1>1 DEF Waiting, mainVars, feedVars
  <2>2. ~Held(q)
    BY <1>1, <1>5 DEF Held, r
  <2> QED
    BY <2>1, <2>2
<1>15. MapsInv'
  <2> SUFFICES ASSUME ~raced PROVE MapsInv'
    BY <1>1 DEF MapsInv
  <2>1. \A v \in Workers : ~dirty'[v]
    BY <1>1 DEF IInv, MapsInv
  <2>2. ASSUME NEW v \in Workers, wpc'[v] \in {"completed", "send"}
        PROVE  /\ status'[item'[v]] = StatusOf(results'[item'[v]])
               /\ wpc'[v] = "send" => completed'[item'[v]]
    BY <1>1, <1>5, <1>6, <2>2 DEF IInv, MapsInv
  <2>3. ASSUME NEW q \in Resources
        PROVE  /\ (results'[q] # "none" /\ sent'[q] = <<results'[q]>>) =>
                      completed'[q] /\ status'[q] = StatusOf(results'[q])
               /\ sent'[q] = <<DependencyFailed>> => completed'[q] /\ status'[q] = SKIP
               /\ sent'[q] = <<Unsatisfied>> => ~completed'[q]
    <3>1. CASE q = r
      <4>1. completed[r] /\ status[r] = StatusOf(results[r])
        BY <1>1 DEF IInv, MapsInv, r
      <4> QED
        BY <1>1, <1>3, <1>7, <3>1, <4>1, GroupFacts DEF IInv
    <3>2. CASE q # r
      BY <1>1, <1>7, <3>2 DEF IInv, MapsInv
    <3> QED
      BY <3>1, <3>2
  <2> QED
    BY <2>1, <2>2, <2>3 DEF MapsInv
<1>16. PrerequisitesFirst'
  <2> SUFFICES ASSUME ~raced, NEW q \in Resources, Started(q), NEW d \in Prerequisites(q)
               PROVE  sent'[d] \in {<<"pass">>, <<"skipped">>}
    BY <1>1, SamePrerequisites DEF PrerequisitesFirst, Started, mainVars
  <2>1. sent[d] \in {<<"pass">>, <<"skipped">>} /\ d \in Resources
    BY PrerequisiteFacts DEF IInv, PrerequisitesFirst
  <2> QED
    BY <1>4, <1>7, <2>1, Singletons
<1>17. SkippedInv'
  <2> SUFFICES ASSUME ~raced, NEW q \in Resources, sent'[q] = <<DependencyFailed>>
               PROVE  \E d \in Prerequisites(q) :
                          sent'[d] = <<"fail">> \/ sent'[d] = <<DependencyFailed>>
    BY <1>1, SamePrerequisites DEF SkippedInv
  <2>1. sent[q] = <<DependencyFailed>>
    BY <1>3, <1>7, GroupFacts DEF IInv
  <2>2. PICK d \in Prerequisites(q) : sent[d] = <<"fail">> \/ sent[d] = <<DependencyFailed>>
    BY <2>1 DEF IInv, SkippedInv
  <2>3. d \in Resources /\ d # r
    BY <1>4, <2>2, Singletons, PrerequisiteFacts DEF IInv
  <2> QED
    BY <1>7, <2>2, <2>3
<1>18. BlockedInv' /\ GivenUpInv'
  BY <1>1, <1>4 DEF BlockedInv, GivenUpInv, mainVars
<1> QED
  BY <1>8, <1>9, <1>10, <1>12, <1>13, <1>14, <1>15, <1>16, <1>17, <1>18 DEF IInv


-----------------------------------------------------------------------------
(* The theorems.                                                           *)

\* Every step of the scheduler keeps the invariant.
LEMMA NextInv == IInv /\ [Next]_vars => IInv'
<1> SUFFICES ASSUME IInv, [Next]_vars PROVE IInv'
  OBVIOUS
<1>1. TypeOK'
  BY TypeStep DEF IInv
<1>2. CASE Main
  BY <1>1, <1>2, ScanItemInv, NothingRunnableInv, GiveUpInv, ReturnInv, StartWaveInv, EndWaveInv
     DEF Main
<1>3. CASE CloseWork
  BY <1>1, <1>3, CloseWorkInv
<1>4. ASSUME NEW w \in Workers, Worker(w) PROVE IInv'
  BY <1>1, <1>4, ReceiveInv, ExitInv, ValidateInv, WriteStatusInv, WriteCompletedInv, SendInv
     DEF Worker
<1>5. ASSUME NEW w \in Workers, Fatal(w) PROVE IInv'
  BY <1>1, <1>5, FatalInv
<1>6. CASE UNCHANGED vars
  <2> USE <1>6 DEF vars, mainVars, feedVars, workerVars, mapVars, outVars
  <2>1. Control' /\ Places' /\ WaitingInv' /\ HeldInv'
    BY DEF IInv, Control, Places, WaitingInv, HeldInv, Active, Waiting
  <2>2. DeliveredInv' /\ MapsInv'
    BY DEF IInv, DeliveredInv, MapsInv, Active, Waiting, Held
  <2>3. PrerequisitesFirst' /\ SkippedInv' /\ BlockedInv' /\ GivenUpInv'
    BY SamePrerequisites
       DEF IInv, PrerequisitesFirst, Started, SkippedInv, BlockedInv, GivenUpInv
  <2> QED
    BY <1>1, <2>1, <2>2, <2>3 DEF IInv
<1> QED
  BY <1>2, <1>3, <1>4, <1>5, <1>6 DEF Next, Stopped

\* The inductive invariant holds in every reachable state of the scheduler.
THEOREM Invariance == Spec => []IInv
BY InitInv, NextInv, PTL DEF Spec

\* Every variable of the scheduling goroutine, its feeder and its workers keeps
\* its type.
THEOREM TypeCorrect == Spec => []TypeOK
<1>1. IInv => TypeOK
  BY DEF IInv
<1> QED
  BY <1>1, Invariance, PTL

\* validateWithDependencies hands a resource to a wave only after each of its
\* prerequisites was validated without a failure and delivered, unless two
\* workers' map assignments overlapped.
THEOREM PrerequisitesComeFirst == Spec => []PrerequisitesFirst
<1>1. IInv => PrerequisitesFirst
  BY DEF IInv
<1> QED
  BY <1>1, Invariance, PTL

\* When out is closed, every resource has been delivered: nothing waits and
\* no worker holds anything.
LEMMA ClosedMeansDelivered ==
    ASSUME IInv, closed, NEW r \in Resources
    PROVE  \/ results[r] # "none" /\ sent[r] = <<results[r]>>
           \/ results[r] = "none" /\ SkippedByScheduler(r)
<1>1. ~Waiting(r) /\ ~Held(r)
  BY DEF IInv, Control, Waiting, Held, Active
<1> QED
  BY <1>1 DEF IInv, DeliveredInv, SkippedByScheduler

\* The invariant implies that exactly the resources with a failed or skipped
\* prerequisite were skipped.
LEMMA SkipDecision == IInv => SkippedIffPrerequisiteFailed
<1> SUFFICES ASSUME IInv, closed, ~raced, NEW r \in Resources
             PROVE  SkippedByScheduler(r) <=>
                        \E d \in Prerequisites(r) : sent[d] = <<"fail">> \/ SkippedByScheduler(d)
  BY DEF SkippedIffPrerequisiteFailed
<1>1. pc = "done" /\ nextPending = {}
  BY DEF IInv, Control
<1>2. SkippedByScheduler(r) =>
          \E d \in Prerequisites(r) : sent[d] = <<"fail">> \/ SkippedByScheduler(d)
  BY <1>1 DEF IInv, SkippedInv, GivenUpInv, SkippedByScheduler
<1>3. ASSUME NEW d \in Prerequisites(r), sent[d] = <<"fail">> \/ SkippedByScheduler(d),
             ~SkippedByScheduler(r)
      PROVE  FALSE
  <2>1. results[r] # "none"
    BY <1>3, ClosedMeansDelivered
  <2>2. sent[d] = <<"pass">> \/ sent[d] = <<"skipped">>
    BY <2>1 DEF IInv, PrerequisitesFirst, Started
  <2>3. <<"fail">> # <<"pass">> /\ <<"fail">> # <<"skipped">>
    BY Singletons
  <2>4. \A o \in {"pass", "skipped"} : <<o>> # <<DependencyFailed>> /\ <<o>> # <<Unsatisfied>>
    BY Singletons DEF DependencyFailed, Unsatisfied
  <2> QED
    BY <1>3, <2>2, <2>3, <2>4 DEF SkippedByScheduler
<1> QED
  BY <1>2, <1>3

\* When a run without overlapping map assignments is over, the scheduler has
\* skipped exactly the resources with a failed or skipped prerequisite.
THEOREM SkippedExactlyWhenPrerequisiteFailed == Spec => []SkippedIffPrerequisiteFailed
BY SkipDecision, Invariance, PTL

\* The invariant implies that nothing is skipped in a run without failures:
\* a chain of skips would have to start at a failure, and the schedule has no
\* cycle.
LEMMA HealthyRun == IInv => NoSpuriousSkip
<1> SUFFICES ASSUME IInv, closed, ~raced, \A r \in Resources : results[r] # "fail",
                    NEW s \in Resources, SkippedByScheduler(s)
             PROVE  FALSE
  BY DEF NoSpuriousSkip
<1>1. PICK rank \in [Resources -> Resources] :
          \A r \in Resources : \A i \in DOMAIN deps[r] : rank[deps[r][i]] < rank[r]
  BY SchedulesAssumption DEF IInv, Acyclic
<1> DEFINE Skipped == {r \in Resources : SkippedByScheduler(r)}
           Ranks == {rank[r] : r \in Skipped}
<1>2. Ranks \in SUBSET Nat /\ rank[s] \in Ranks
  BY <1>1, NAssumption DEF Resources
<1>3. PICK m \in Ranks : \A q \in Ranks : m <= q
  BY <1>2, SmallestElement
<1>4. PICK r \in Skipped : m = rank[r]
  BY <1>3
<1>5. PICK d \in Prerequisites(r) : sent[d] = <<"fail">> \/ SkippedByScheduler(d)
  BY <1>4, SkipDecision DEF SkippedIffPrerequisiteFailed
<1>6. d \in Resources
  BY <1>4, PrerequisiteFacts DEF IInv
<1>7. sent[d] # <<"fail">>
  BY <1>6, Delivery DEF Outcomes
<1>8. rank[d] \in Ranks /\ rank[d] < rank[r]
  BY <1>1, <1>4, <1>5, <1>6, <1>7 DEF Prerequisites
<1> QED
  BY <1>2, <1>3, <1>4, <1>8

\* When nothing failed, and no map assignments overlapped, the scheduler skips
\* nothing; the acyclicity buildSchedule checks is what makes it so.
THEOREM HealthyRunSkipsNothing == Spec => []NoSpuriousSkip
BY HealthyRun, Invariance, PTL


\* No step takes back a verdict that is entered as completed.
LEMMA StableStep ==
    IInv /\ [Next]_vars =>
        \A r \in Resources : completed[r] => completed'[r] /\ status'[r] = status[r]
<1> SUFFICES ASSUME IInv, [Next]_vars, NEW r \in Resources, completed[r]
             PROVE  completed'[r] /\ status'[r] = status[r]
  OBVIOUS
<1>1. CASE ScanItem
  <2>1. First(toScan) \in toScan /\ First(toScan) \in Resources
    BY <1>1, FirstIn DEF ScanItem, IInv, TypeOK
  <2>2. ~completed[First(toScan)]
    BY <2>1 DEF IInv, WaitingInv, Waiting
  <2> QED
    BY <1>1, <2>1, <2>2 DEF ScanItem, IInv, TypeOK
<1>2. CASE NothingRunnable \/ GiveUp \/ Return \/ StartWave \/ EndWave \/ CloseWork
  BY <1>2 DEF NothingRunnable, GiveUp, Return, StartWave, EndWave, CloseWork, mapVars
<1>3. ASSUME NEW w \in Workers,
             \/ Receive(w) \/ Exit(w) \/ Send(w) \/ Fatal(w)
             \/ \E o \in Outcomes : Validate(w, o)
      PROVE  completed'[r] /\ status'[r] = status[r]
  BY <1>3 DEF Receive, Exit, Send, Fatal, Validate, mapVars
<1>4. ASSUME NEW w \in Workers, WriteStatus(w)
      PROVE  completed'[r] /\ status'[r] = status[r]
  <2>1. r # item[w]
    BY <1>4 DEF WriteStatus, IInv, HeldInv, Active
  <2> QED
    BY <1>4, <2>1 DEF WriteStatus, Assign, IInv, TypeOK
<1>5. ASSUME NEW w \in Workers, WriteCompleted(w)
      PROVE  completed'[r] /\ status'[r] = status[r]
  BY <1>5 DEF WriteCompleted, Assign, IInv, TypeOK
<1>6. CASE UNCHANGED vars
  BY <1>6 DEF vars, mapVars
<1> QED
  BY <1>1, <1>2, <1>3, <1>4, <1>5, <1>6 DEF Next, Main, Worker, Stopped

\* Once a resource is completed, no goroutine changes or forgets its verdict.
THEOREM VerdictsAreStable == Spec => VerdictStable
<1>1. IInv /\ [Next]_vars =>
          [\A r \in Resources : completed[r] => completed'[r] /\ status'[r] = status[r]]_vars
  BY StableStep
<1> QED
  BY <1>1, Invariance, PTL DEF Spec, VerdictStable

-----------------------------------------------------------------------------
(* Refinement of TestRun.                                                  *)

\* The scheduler starts as the contract of a run does.
LEMMA ContractInit == Init => TR!Init
BY DEF Init, TR!Init

\* A group handed over by a goroutine is the first one of its resource.
LEMMA DeliverStep ==
    ASSUME IInv, NEW r \in Resources, NEW g \in Groups, sent[r] = <<>>, ~closed, ~crashed,
           sent' = [sent EXCEPT ![r] = Append(@, g)], closed' = closed, crashed' = crashed
    PROVE  TR!Next
<1>1. sent' = [sent EXCEPT ![r] = <<g>>]
  BY AppendFirst DEF IInv, TypeOK
<1>2. TR!Deliver(r, g)
  BY <1>1 DEF TR!Deliver, TR!Running
<1> QED
  BY <1>2 DEF TR!Next

\* out is closed only after every resource was delivered.
LEMMA CloseStep ==
    ASSUME IInv, ~closed, ~crashed, closed' = TRUE, sent' = sent, crashed' = crashed,
           \A r \in Resources : ~Waiting(r) /\ ~Held(r)
    PROVE  TR!Next
<1>1. \A r \in Resources : sent[r] # <<>>
  BY Delivery
<1>2. TR!Close
  BY <1>1 DEF TR!Close, TR!Running
<1> QED
  BY <1>2 DEF TR!Next

\* Every step of the scheduler delivers one group, closes the channel, dies
\* or is invisible to the consumer.
LEMMA ContractStep == IInv /\ [Next]_vars => [TR!Next]_(TR!vars)
<1> SUFFICES ASSUME IInv, [Next]_vars PROVE [TR!Next]_(TR!vars)
  OBVIOUS
<1> USE DEF TR!vars
<1>1. CASE ScanItem
  <2>1. First(toScan) \in toScan /\ First(toScan) \in Resources
    BY <1>1, FirstIn DEF ScanItem, IInv, TypeOK
  <2>2. sent[First(toScan)] = <<>> /\ ~closed /\ ~crashed
    BY <1>1, <2>1 DEF ScanItem, IInv, WaitingInv, Waiting, Control
  <2>3. closed' = closed /\ crashed' = crashed /\ DependencyFailed \in Groups
    BY <1>1 DEF ScanItem, Groups
  <2>4. sent' = sent \/ sent' = [sent EXCEPT ![First(toScan)] = Append(@, DependencyFailed)]
    BY <1>1 DEF ScanItem
  <2> QED
    BY <2>1, <2>2, <2>3, <2>4, DeliverStep
<1>2. CASE NothingRunnable \/ StartWave \/ CloseWork
  BY <1>2 DEF NothingRunnable, StartWave, CloseWork, outVars
<1>3. CASE GiveUp
  <2>1. First(nextPending) \in nextPending /\ First(nextPending) \in Resources
    BY <1>3, FirstIn DEF GiveUp, IInv, TypeOK
  <2>2. sent[First(nextPending)] = <<>> /\ ~closed /\ ~crashed
    BY <1>3, <2>1 DEF GiveUp, IInv, WaitingInv, Waiting, Control
  <2>3. closed' = closed /\ crashed' = crashed /\ Unsatisfied \in Groups
    BY <1>3 DEF GiveUp, Groups
  <2>4. sent' = [sent EXCEPT ![First(nextPending)] = Append(@, Unsatisfied)]
    BY <1>3 DEF GiveUp
  <2> QED
    BY <2>1, <2>2, <2>3, <2>4, DeliverStep
<1>4. CASE Return
  <2>1. \A r \in Resources : ~Waiting(r) /\ ~Held(r)
    BY <1>4 DEF Return, IInv, Control, Waiting, Held, Active
  <2>2. ~closed /\ ~crashed /\ closed' = TRUE /\ sent' = sent /\ crashed' = crashed
    BY <1>4 DEF Return, IInv, Control
  <2> QED
    BY <2>1, <2>2, CloseStep
<1>5. CASE EndWave
  <2>1. ~closed /\ ~crashed /\ sent' = sent /\ crashed' = crashed
    BY <1>5 DEF EndWave, IInv, Control
  <2>2. CASE nextPending = {}
    <3>1. workClosed /\ feed = {} /\ toScan = {} /\ \A w \in Workers : wpc[w] = "exit"
      BY <1>5, SomeWorker DEF EndWave, IInv, Control
    <3>2. \A r \in Resources : ~Waiting(r) /\ ~Held(r)
      BY <1>5, <2>2, <3>1 DEF EndWave, Waiting, Held, Active
    <3>3. closed' = TRUE
      BY <1>5, <2>2 DEF EndWave
    <3> QED
      BY <2>1, <3>2, <3>3, CloseStep
  <2>3. CASE nextPending # {}
    BY <1>5, <2>1, <2>3 DEF EndWave, IInv, TypeOK
  <2> QED
    BY <2>2, <2>3
<1>6. ASSUME NEW w \in Workers, Send(w) PROVE [TR!Next]_(TR!vars)
  <2>1. item[w] \in Resources /\ sent[item[w]] = <<>> /\ results[item[w]] \in Groups
    BY <1>6 DEF Send, IInv, TypeOK, HeldInv, Active, Groups
  <2>2. ~closed /\ ~crashed
    BY <1>6 DEF Send, IInv, Control
  <2>3. sent' = [sent EXCEPT ![item[w]] = Append(@, results[item[w]])]
        /\ closed' = closed /\ crashed' = crashed
    BY <1>6 DEF Send
  <2> QED
    BY <2>1, <2>2, <2>3, DeliverStep
<1>7. ASSUME NEW w \in Workers,
             \/ Receive(w) \/ Exit(w) \/ WriteStatus(w) \/ WriteCompleted(w)
             \/ \E o \in Outcomes : Validate(w, o)
      PROVE  [TR!Next]_(TR!vars)
  BY <1>7 DEF Receive, Exit, WriteStatus, WriteCompleted, Validate, outVars
<1>8. ASSUME NEW w \in Workers, Fatal(w) PROVE [TR!Next]_(TR!vars)
  <2>1. ~closed
    BY <1>8 DEF Fatal, IInv, Control
  <2> QED
    BY <1>8, <2>1 DEF Fatal, outVars, TR!Next, TR!Die, TR!Running
<1>9. CASE UNCHANGED vars
  BY <1>9 DEF vars, outVars
<1> QED
  BY <1>1, <1>2, <1>3, <1>4, <1>5, <1>6, <1>7, <1>8, <1>9 DEF Next, Main, Worker, Stopped

\* The dependency scheduler keeps the contract of a test run: each resource's
\* results exactly once, then the end of the channel, races included.
THEOREM SchedulerImplementsTestRun == Spec => RunContract
<1>1. IInv /\ [Next]_vars => [TR!Next]_(TR!vars)
  BY ContractStep
<1> QED
  BY <1>1, ContractInit, Invariance, PTL DEF Spec, RunContract, TR!Spec

=============================================================================
