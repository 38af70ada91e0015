------------------------ MODULE OutboxDeliveryProofs ------------------------
(***************************************************************************)
(* Proofs about OutboxDelivery, for any events, replicas and bounds.       *)
(***************************************************************************)
EXTENDS OutboxDelivery, TLAPS

-----------------------------------------------------------------------------
(* Type correctness *)

\* What the types need: a job that can still be attempted has attempts and
\* stalls left.
JobBudget ==
  \A e \in Events :
    job[e] \notin {"failed", "completed"} =>
      tries[e] < MaxAttempts /\ stalls[e] <= MaxStalls

TypeInv == TypeOK /\ JobBudget

\* Every step of the domain, the pollers and the workers keeps the types.
LEMMA TypeStep == TypeInv /\ [Next]_vars => TypeInv'
<1> SUFFICES ASSUME TypeInv, [Next]_vars PROVE TypeInv'
  OBVIOUS
<1> USE OutboxAssumption DEF TypeInv, TypeOK, JobBudget, JobStates, ActiveJob
<1>1. ASSUME NEW p \in Replicas, ClaimBatch(p) PROVE TypeInv'
  <2>1. Candidates \subseteq Events
    BY DEF Candidates, Claimable
  <2> QED BY <1>1, <2>1 DEF ClaimBatch
<1>2. ASSUME NEW p \in Replicas, DrainBatch(p) PROVE TypeInv'
  BY <1>2 DEF DrainBatch
<1>3. ASSUME NEW p \in Replicas, NEW e \in Events, EnqueueJob(p, e)
      PROVE TypeInv'
  BY <1>3 DEF EnqueueJob
<1>4. ASSUME NEW p \in Replicas, NEW e \in Events, EnqueueFails(p, e)
      PROVE TypeInv'
  <2>1. /\ row' \in [Events -> {"NONE", "PENDING", "PROCESSING", "PROCESSED"}]
        /\ leasedBy' \in [Events -> Replicas \union {None}]
        /\ live' \subseteq Events
    BY <1>4 DEF EnqueueFails
  <2>2. /\ batch' \in [Replicas -> SUBSET Events]
        /\ faults' \in [Events -> 0..MaxFaults]
    BY <1>4 DEF EnqueueFails, Fault
  <2> QED BY <1>4, <2>1, <2>2 DEF EnqueueFails
<1>5. ASSUME NEW p \in Replicas, CrashPoller(p) PROVE TypeInv'
  BY <1>5 DEF CrashPoller
<1>6. ASSUME NEW e \in Events, Emit(e) \/ ExpireLease(e) PROVE TypeInv'
  BY <1>6 DEF Emit, ExpireLease
<1>7. ASSUME NEW e \in Events, NEW r \in Replicas, TakeJob(e, r)
      PROVE TypeInv'
  BY <1>7 DEF TakeJob
<1>8. ASSUME NEW e \in Events,
             WorkerKilled(e) \/ StartExecute(e) \/ ExecuteReturns(e)
               \/ MarkProcessed(e)
      PROVE TypeInv'
  <2>1. CASE WorkerKilled(e)
    BY <2>1 DEF WorkerKilled
  <2>2. CASE StartExecute(e)
    BY <2>2 DEF StartExecute
  <2>3. CASE ExecuteReturns(e)
    BY <2>3 DEF ExecuteReturns
  <2>4. CASE MarkProcessed(e)
    BY <2>4 DEF MarkProcessed
  <2> QED BY <1>8, <2>1, <2>2, <2>3, <2>4
<1>9. ASSUME NEW e \in Events, AttemptFails(e) PROVE TypeInv'
  BY <1>9 DEF AttemptFails, Fault
<1>10. ASSUME NEW e \in Events, Stall(e) PROVE TypeInv'
  BY <1>10 DEF Stall, Fault
<1>11. ASSUME NEW e \in Events, ForgetJob(e) PROVE TypeInv'
  BY <1>11 DEF ForgetJob
<1>12. CASE UNCHANGED vars
  BY <1>12 DEF vars
<1> QED
  BY <1>1, <1>2, <1>3, <1>4, <1>5, <1>6, <1>7, <1>8, <1>9, <1>10, <1>11,
     <1>12 DEF Next, PollerStep, WorkerStep

\* TypeInv is an invariant: the later proofs use both of its parts.
LEMMA TypeInvCorrect == Spec => []TypeInv
<1>1. Init => TypeInv
  BY OutboxAssumption DEF Init, TypeInv, TypeOK, JobBudget, JobStates
<1> QED BY <1>1, TypeStep, PTL DEF Spec

\* Outbox rows, leases and jobs only take the values the code gives them; no
\* job is attempted more than MaxAttempts times.
THEOREM TypeCorrect == Spec => []TypeOK
BY TypeInvCorrect, PTL DEF TypeInv

-----------------------------------------------------------------------------
(* A PROCESSED row was handled *)

\* The executor has returned when the worker is about to mark the row.
HandledInv ==
  /\ ProcessedWasHandled
  /\ \A e \in Events : job[e] = "mark" => executed[e] > 0

\* HandledInv is an invariant.
LEMMA HandledInvCorrect == Spec => []HandledInv
<1>1. Init => HandledInv
  BY DEF Init, HandledInv, ProcessedWasHandled
<1>2. TypeInv /\ HandledInv /\ [Next]_vars => HandledInv'
  <2> SUFFICES ASSUME TypeInv, HandledInv, [Next]_vars PROVE HandledInv'
    OBVIOUS
  <2> USE DEF TypeInv, TypeOK, HandledInv, ProcessedWasHandled
  <2>1. ASSUME NEW p \in Replicas, PollerStep(p) \/ CrashPoller(p)
        PROVE HandledInv'
    BY <2>1 DEF PollerStep, ClaimBatch, DrainBatch, EnqueueJob, CrashPoller
  <2>2. ASSUME NEW p \in Replicas, NEW e \in Events, EnqueueFails(p, e)
        PROVE HandledInv'
    BY <2>2 DEF EnqueueFails
  <2>3. ASSUME NEW e \in Events, Emit(e) \/ ExpireLease(e) \/ WorkerStep(e)
        PROVE HandledInv'
    BY <2>3 DEF Emit, ExpireLease, WorkerStep, TakeJob, WorkerKilled,
         StartExecute, ExecuteReturns, MarkProcessed
  <2>4. ASSUME NEW e \in Events, AttemptFails(e) \/ Stall(e) \/ ForgetJob(e)
        PROVE HandledInv'
    BY <2>4 DEF AttemptFails, Stall, ForgetJob
  <2>5. CASE UNCHANGED vars
    BY <2>5 DEF vars
  <2> QED BY <2>1, <2>2, <2>3, <2>4, <2>5 DEF Next
<1> QED BY <1>1, <1>2, TypeInvCorrect, PTL DEF Spec

\* Whatever replicas crash or fail, a row is PROCESSED only after a clean end of
\* the executor, or because a kill switch that is off swallowed it.
THEOREM ProcessedWasHandledCorrect == Spec => []ProcessedWasHandled
BY HandledInvCorrect, PTL DEF HandledInv

-----------------------------------------------------------------------------
(* Running an event twice takes a fault *)

\* While nothing failed, an event that was executed is either about to be
\* marked or PROCESSED for good, and once its job is forgotten no poller has
\* the row in its batch any more.
ExecutionInv ==
  \A e \in Events :
    faults[e] = 0 =>
      /\ executed[e] <= 1
      /\ job[e] \in {"waiting", "take", "execute", "failed"} => executed[e] = 0
      /\ executed[e] = 1 =>
           \/ job[e] = "mark"
           \/ job[e] = "completed" /\ row[e] = "PROCESSED"
           \/ /\ job[e] = "absent" /\ row[e] = "PROCESSED"
              /\ \A p \in Replicas : e \notin batch[p]

\* ExecutionInv is an invariant.
LEMMA ExecutionInvCorrect == Spec => []ExecutionInv
<1>1. Init => ExecutionInv
  BY DEF Init, ExecutionInv
<1>2. TypeInv /\ ExecutionInv /\ [Next]_vars => ExecutionInv'
  <2> SUFFICES ASSUME TypeInv, ExecutionInv, [Next]_vars PROVE ExecutionInv'
    OBVIOUS
  <2> USE DEF TypeInv, TypeOK, ExecutionInv
  <2>1. ASSUME NEW p \in Replicas, ClaimBatch(p) PROVE ExecutionInv'
    BY <2>1 DEF ClaimBatch, Candidates, Claimable
  <2>2. ASSUME NEW p \in Replicas, DrainBatch(p) \/ CrashPoller(p)
        PROVE ExecutionInv'
    BY <2>2 DEF DrainBatch, CrashPoller
  <2>3. ASSUME NEW p \in Replicas, NEW e \in Events,
               EnqueueJob(p, e) \/ EnqueueFails(p, e)
        PROVE ExecutionInv'
    BY <2>3 DEF EnqueueJob, EnqueueFails, Fault
  <2>4. ASSUME NEW e \in Events, Emit(e) \/ ExpireLease(e) \/ WorkerStep(e)
        PROVE ExecutionInv'
    BY <2>4 DEF Emit, ExpireLease, WorkerStep, TakeJob, WorkerKilled,
         StartExecute, ExecuteReturns, MarkProcessed
  <2>5. ASSUME NEW e \in Events, AttemptFails(e) \/ Stall(e) \/ ForgetJob(e)
        PROVE ExecutionInv'
    BY <2>5 DEF AttemptFails, Stall, ForgetJob, Fault
  <2>6. CASE UNCHANGED vars
    BY <2>6 DEF vars
  <2> QED BY <2>1, <2>2, <2>3, <2>4, <2>5, <2>6 DEF Next, PollerStep
<1> QED BY <1>1, <1>2, TypeInvCorrect, PTL DEF Spec

\* Two pollers, an expired lease or a re-claim never run an event twice: the
\* jobId and the status of the row between them rule it out.
THEOREM ReexecutionNeedsFaultCorrect == Spec => []ReexecutionNeedsFault
<1>1. TypeInv /\ ExecutionInv => ReexecutionNeedsFault
  BY DEF TypeInv, TypeOK, ExecutionInv, ReexecutionNeedsFault
<1> QED BY <1>1, TypeInvCorrect, ExecutionInvCorrect, PTL

-----------------------------------------------------------------------------
(* A PROCESSED row stays so *)

\* Only a poller whose queue.add failed, and that still holds the lease, reopens
\* a row; whatever the other pollers claim, drain or lose does not.
THEOREM ReopenedByLeaseHolderCorrect == Spec => ReopenedByLeaseHolder
<1> DEFINE Reopened(e) == row[e] = "PROCESSED" /\ row'[e] # "PROCESSED"
           ByHolder(e) == /\ faults'[e] > faults[e]
                          /\ \E p \in Replicas : leasedBy[e] = p /\ e \in batch[p]
<1>1. TypeInv /\ [Next]_vars => [\A e \in Events : Reopened(e) => ByHolder(e)]_vars
  <2> SUFFICES ASSUME TypeInv, Next, NEW e \in Events, Reopened(e) PROVE ByHolder(e)
    OBVIOUS
  <2> USE DEF TypeInv, TypeOK
  <2>1. ASSUME NEW p \in Replicas, PollerStep(p) \/ CrashPoller(p) PROVE FALSE
    BY <2>1 DEF PollerStep, ClaimBatch, Candidates, Claimable, DrainBatch, EnqueueJob,
         CrashPoller
  <2>2. ASSUME NEW p \in Replicas, NEW f \in Events, EnqueueFails(p, f) PROVE ByHolder(e)
    <3>1. e = f /\ leasedBy[e] = p /\ e \in batch[p]
      BY <2>2 DEF EnqueueFails
    <3>2. faults'[e] = faults[e] + 1 /\ faults[e] \in Nat
      BY <2>2, <3>1, OutboxAssumption DEF EnqueueFails, Fault
    <3> QED BY <3>1, <3>2
  <2>3. ASSUME NEW f \in Events,
               \/ Emit(f) \/ ExpireLease(f) \/ WorkerStep(f) \/ AttemptFails(f)
               \/ Stall(f) \/ ForgetJob(f)
        PROVE  FALSE
    BY <2>3 DEF Emit, ExpireLease, WorkerStep, TakeJob, WorkerKilled, StartExecute,
         ExecuteReturns, MarkProcessed, AttemptFails, Stall, ForgetJob
  <2> QED BY <2>1, <2>2, <2>3 DEF Next
<1> QED BY <1>1, TypeInvCorrect, PTL DEF Spec, ReopenedByLeaseHolder

-----------------------------------------------------------------------------
(* The machinery keeps the promise *)

\* What a poller holds or a worker runs was written.
WrittenInv ==
  \A e \in Events :
    /\ \A p \in Replicas : e \in batch[p] => row[e] # "NONE"
    /\ job[e] # "absent" => row[e] # "NONE"

\* Nothing writes a row back to "NONE".
LEMMA WrittenInvCorrect == Spec => []WrittenInv
<1>1. Init => WrittenInv
  BY DEF Init, WrittenInv
<1>2. TypeInv /\ WrittenInv /\ [Next]_vars => WrittenInv'
  <2> SUFFICES ASSUME TypeInv, WrittenInv, [Next]_vars PROVE WrittenInv'
    OBVIOUS
  <2> USE DEF TypeInv, TypeOK, WrittenInv
  <2>1. ASSUME NEW p \in Replicas, ClaimBatch(p) PROVE WrittenInv'
    BY <2>1 DEF ClaimBatch, Candidates, Claimable
  <2>2. ASSUME NEW p \in Replicas, DrainBatch(p) \/ CrashPoller(p)
        PROVE WrittenInv'
    BY <2>2 DEF DrainBatch, CrashPoller
  <2>3. ASSUME NEW p \in Replicas, NEW e \in Events,
               EnqueueJob(p, e) \/ EnqueueFails(p, e)
        PROVE WrittenInv'
    BY <2>3 DEF EnqueueJob, EnqueueFails
  <2>4. ASSUME NEW e \in Events, Emit(e) \/ ExpireLease(e) \/ WorkerStep(e)
        PROVE WrittenInv'
    BY <2>4 DEF Emit, ExpireLease, WorkerStep, TakeJob, WorkerKilled,
         StartExecute, ExecuteReturns, MarkProcessed
  <2>5. ASSUME NEW e \in Events, AttemptFails(e) \/ Stall(e) \/ ForgetJob(e)
        PROVE WrittenInv'
    BY <2>5 DEF AttemptFails, Stall, ForgetJob, ActiveJob
  <2>6. CASE UNCHANGED vars
    BY <2>6 DEF vars
  <2> QED BY <2>1, <2>2, <2>3, <2>4, <2>5, <2>6 DEF Next, PollerStep
<1> QED BY <1>1, <1>2, TypeInvCorrect, PTL DEF Spec

DeliveryInv == TypeInv /\ HandledInv /\ ExecutionInv /\ WrittenInv

\* The steps the promise does not see.
LEMMA HiddenSteps ==
  ASSUME DeliveryInv,
         \/ \E p \in Replicas : ClaimBatch(p)
         \/ \E p \in Replicas, e \in Events : EnqueueJob(p, e)
         \/ \E e \in Events, r \in Replicas : TakeJob(e, r)
         \/ \E e \in Events : ExpireLease(e) \/ StartExecute(e) \/ ForgetJob(e)
         \/ UNCHANGED vars
  PROVE  UNCHANGED Promise!promiseVars
<1> USE DEF DeliveryInv, TypeInv, TypeOK, Promise!promiseVars, Seen, Faulty
<1>1. ASSUME NEW p \in Replicas, ClaimBatch(p) PROVE UNCHANGED Promise!promiseVars
  BY <1>1 DEF ClaimBatch, Candidates, Claimable
<1>2. ASSUME NEW p \in Replicas, NEW e \in Events, EnqueueJob(p, e)
      PROVE UNCHANGED Promise!promiseVars
  BY <1>2 DEF EnqueueJob
<1>3. ASSUME NEW e \in Events, NEW r \in Replicas, TakeJob(e, r)
      PROVE UNCHANGED Promise!promiseVars
  BY <1>3 DEF TakeJob
<1>4. ASSUME NEW e \in Events, ExpireLease(e) \/ StartExecute(e) \/ ForgetJob(e)
      PROVE UNCHANGED Promise!promiseVars
  BY <1>4 DEF ExpireLease, StartExecute, ForgetJob
<1>5. CASE UNCHANGED vars
  BY <1>5 DEF vars
<1> QED BY <1>1, <1>2, <1>3, <1>4, <1>5

\* A step on a set of events is a step of the promise.
LEMMA SetSteps ==
  ASSUME NEW S \in SUBSET Events, Promise!Swallow(S) \/ Promise!Disturb(S)
  PROVE  Promise!PromiseNext
BY DEF Promise!PromiseNext

\* The steps that advance an event: written, run, marked, or swallowed.
LEMMA AdvancingSteps ==
  ASSUME DeliveryInv,
         \/ \E p \in Replicas : DrainBatch(p)
         \/ \E e \in Events :
              Emit(e) \/ WorkerKilled(e) \/ ExecuteReturns(e) \/ MarkProcessed(e)
  PROVE  Promise!PromiseNext
<1> USE DEF DeliveryInv, TypeInv, TypeOK, Seen, Faulty, WrittenInv
<1>1. ASSUME NEW p \in Replicas, DrainBatch(p) PROVE Promise!PromiseNext
  <2>1. PICK S \in SUBSET Events : S = batch[p]
    OBVIOUS
  <2>2. Promise!Swallow(S)
    BY <1>1, <2>1 DEF DrainBatch, Promise!Swallow
  <2> QED BY <2>2, SetSteps
<1>2. ASSUME NEW e \in Events, Emit(e) PROVE Promise!PromiseNext
  <2>1. Promise!Write(e)
    BY <1>2 DEF Emit, Promise!Write
  <2> QED BY <2>1 DEF Promise!PromiseNext
<1>3. ASSUME NEW e \in Events, WorkerKilled(e) PROVE Promise!PromiseNext
  <2>1. Promise!Swallow({e})
    BY <1>3 DEF WorkerKilled, Promise!Swallow
  <2>2. {e} \in SUBSET Events
    OBVIOUS
  <2> QED BY <2>1, <2>2, SetSteps
<1>4. ASSUME NEW e \in Events, ExecuteReturns(e) PROVE Promise!PromiseNext
  <2>1. executed[e] = 0 \/ e \in Faulty
    BY <1>4 DEF ExecuteReturns, ExecutionInv
  <2>2. Promise!Run(e)
    BY <1>4, <2>1 DEF ExecuteReturns, Promise!Run
  <2> QED BY <2>2 DEF Promise!PromiseNext
<1>5. ASSUME NEW e \in Events, MarkProcessed(e) PROVE Promise!PromiseNext
  <2>1. Promise!Settle(e)
    BY <1>5 DEF MarkProcessed, HandledInv, Promise!Settle
  <2> QED BY <2>1 DEF Promise!PromiseNext
<1> QED BY <1>1, <1>2, <1>3, <1>4, <1>5

\* The faults: they disturb events, and one of them may open an event again.
LEMMA FaultySteps ==
  ASSUME DeliveryInv,
         \/ \E p \in Replicas : CrashPoller(p)
         \/ \E p \in Replicas, e \in Events : EnqueueFails(p, e)
         \/ \E e \in Events : AttemptFails(e) \/ Stall(e)
  PROVE  Promise!PromiseNext
<1> USE OutboxAssumption DEF DeliveryInv, TypeInv, TypeOK, Seen, Faulty, WrittenInv
<1>1. ASSUME NEW p \in Replicas, CrashPoller(p) PROVE Promise!PromiseNext
  <2>1. PICK S \in SUBSET Events : S = batch[p]
    OBVIOUS
  <2>2. Faulty' = Faulty \union S
    <3>1. ASSUME NEW e \in Events
          PROVE  faults'[e] > 0 <=> faults[e] > 0 \/ e \in S
      BY <1>1, <2>1 DEF CrashPoller
    <3> QED BY <3>1
  <2>3. Promise!Disturb(S)
    BY <1>1, <2>1, <2>2 DEF CrashPoller, Promise!Disturb
  <2> QED BY <2>1, <2>3, SetSteps
<1>2. ASSUME NEW p \in Replicas, NEW e \in Events, EnqueueFails(p, e)
      PROVE Promise!PromiseNext
  <2>1. {e} \in SUBSET Events
    OBVIOUS
  <2>2. Faulty' = Faulty \union {e}
    BY <1>2 DEF EnqueueFails, Fault
  <2>3. Seen' = Seen \/ Seen' = [Seen EXCEPT ![e] = "open"]
    BY <1>2 DEF EnqueueFails
  <2>4. Promise!Disturb({e})
    BY <1>2, <2>1, <2>2, <2>3 DEF EnqueueFails, Promise!Disturb
  <2> QED BY <2>1, <2>4, SetSteps
<1>3. ASSUME NEW e \in Events, AttemptFails(e) \/ Stall(e)
      PROVE Promise!PromiseNext
  <2>1. {e} \in SUBSET Events
    OBVIOUS
  <2>2. Faulty' = Faulty \union {e}
    <3>1. Fault(e)
      BY <1>3 DEF AttemptFails, Stall
    <3> QED BY <3>1 DEF Fault
  <2>3. Promise!Disturb({e})
    BY <1>3, <2>1, <2>2 DEF AttemptFails, Stall, ActiveJob, Promise!Disturb
  <2> QED BY <2>1, <2>3, SetSteps
<1> QED BY <1>1, <1>2, <1>3

\* Pollers, leases, jobs and workers keep the promise made to the domain, for any events,
\* replicas, batch size and bounds on failures: each initial state and each step is one of
\* the promise's, or none.
THEOREM PromiseKept == Spec => KeepsPromise
<1>1. Init => Promise!PromiseInit
  BY DEF Init, Promise!PromiseInit, Seen, Faulty
<1>2. DeliveryInv /\ [Next]_vars => [Promise!PromiseNext]_(Promise!promiseVars)
  BY HiddenSteps, AdvancingSteps, FaultySteps DEF Next, PollerStep, WorkerStep
<1>3. Spec => []DeliveryInv
  BY TypeInvCorrect, HandledInvCorrect, ExecutionInvCorrect, WrittenInvCorrect, PTL
     DEF DeliveryInv
<1> QED BY <1>1, <1>2, <1>3, PTL DEF Spec, KeepsPromise, Promise!PromiseSpec
=============================================================================
