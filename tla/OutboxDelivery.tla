---------------------------- MODULE OutboxDelivery ----------------------------
(***************************************************************************)
(* From an outbox row to an executed automation event.  A domain           *)
(* transaction writes the row; the pollers of all replicas claim rows      *)
(* under a lease and add one BullMQ job per row, with the row's id as      *)
(* jobId; workers run the executor and mark the row PROCESSED.             *)
(*                                                                         *)
(* What the executor does is in AutomationEngine; here it only returns or  *)
(* throws.                                                                 *)
(***************************************************************************)
EXTENDS Naturals, FiniteSets

CONSTANTS
  Events,        \* outbox events, numbered by created_at
  Replicas,      \* API processes: each runs a poller and workers
  Enabled,       \* the replicas started with AUTOMATIONS_ENABLED
  BatchSize,     \* OUTBOX_POLL_BATCH_SIZE
  MaxAttempts,   \* the "attempts" option of the job
  MaxStalls,     \* BullMQ's maxStalledCount
  MaxFaults,     \* bound: failed awaits and crashes per event
  None           \* no replica

ASSUME OutboxAssumption ==
  /\ Events \subseteq Nat
  /\ Enabled \subseteq Replicas
  /\ BatchSize \in Nat \ {0}
  /\ MaxAttempts \in Nat \ {0}
  /\ MaxStalls \in Nat
  /\ MaxFaults \in Nat
  /\ None \notin Replicas

VARIABLES
  row,        \* outbox_events.status ("NONE": not written)
  leasedBy,   \* outbox_events.leased_by
  live,       \* events whose leased_until is still in the future
  batch,      \* batch[p]: rows the tick of p claimed and has not dealt with
  job,        \* the BullMQ job with jobId = event id
  on,         \* the replica whose worker has the active job
  tries,      \* failed attempts of the job
  stalls,     \* times the job was found stalled
  executed,   \* history: clean ends of the executor for the event
  killed,     \* history: events ended by a kill switch that is off
  faults      \* history: failed awaits and crashes that hit the event

vars == <<row, leasedBy, live, batch, job, on, tries, stalls, executed,
          killed, faults>>

ActiveJob == {"take", "execute", "mark"}
JobStates == ActiveJob \union {"absent", "waiting", "completed", "failed"}

TypeOK ==
  /\ row \in [Events -> {"NONE", "PENDING", "PROCESSING", "PROCESSED"}]
  /\ leasedBy \in [Events -> Replicas \union {None}]
  /\ live \subseteq Events
  /\ batch \in [Replicas -> SUBSET Events]
  /\ job \in [Events -> JobStates]
  /\ on \in [Events -> Replicas \union {None}]
  /\ tries \in [Events -> 0..MaxAttempts]
  /\ stalls \in [Events -> 0..(MaxStalls + 1)]
  /\ executed \in [Events -> Nat]
  /\ killed \subseteq Events
  /\ faults \in [Events -> 0..MaxFaults]

Init ==
  /\ row = [e \in Events |-> "NONE"]
  /\ leasedBy = [e \in Events |-> None]
  /\ live = {}
  /\ batch = [p \in Replicas |-> {}]
  /\ job = [e \in Events |-> "absent"]
  /\ on = [e \in Events |-> None]
  /\ tries = [e \in Events |-> 0]
  /\ stalls = [e \in Events |-> 0]
  /\ executed = [e \in Events |-> 0]
  /\ killed = {}
  /\ faults = [e \in Events |-> 0]

Fault(e) ==
  /\ faults[e] < MaxFaults
  /\ faults' = [faults EXCEPT ![e] = @ + 1]

-----------------------------------------------------------------------------
(* Domain transactions and pollers *)

\* OutboxService.enqueue inside a domain transaction, at its commit.
Emit(e) ==
  /\ row[e] = "NONE"
  /\ row' = [row EXCEPT ![e] = "PENDING"]
  /\ UNCHANGED <<leasedBy, live, batch, job, on, tries, stalls, executed,
                 killed, faults>>

\* Rows that are PENDING, or PROCESSING under an expired lease.
Claimable ==
  {e \in Events : row[e] = "PENDING" \/ (row[e] = "PROCESSING" /\ e \notin live)}

\* The oldest rows first, BatchSize of them.
Candidates ==
  {e \in Claimable : Cardinality({f \in Claimable : f < e}) < BatchSize}

\* Mutant: claims PENDING rows only, so the rows of a dead poller stay put.
ClaimPendingOnly(p) ==
  LET S == {e \in Candidates : row[e] = "PENDING"} IN
  /\ batch[p] = {}
  /\ S # {}
  /\ row' = [e \in Events |-> IF e \in S THEN "PROCESSING" ELSE row[e]]
  /\ leasedBy' = [e \in Events |-> IF e \in S THEN p ELSE leasedBy[e]]
  /\ live' = live \union S
  /\ batch' = [batch EXCEPT ![p] = S]
  /\ UNCHANGED <<job, on, tries, stalls, executed, killed, faults>>

\* A tick: one transaction leases the candidates (FOR UPDATE SKIP LOCKED keeps
\* the claims of two pollers apart).  inFlight: no tick while one is running.
ClaimBatch(p) ==
  /\ batch[p] = {}
  /\ Candidates # {}
  /\ row' = [e \in Events |-> IF e \in Candidates THEN "PROCESSING" ELSE row[e]]
  /\ leasedBy' = [e \in Events |-> IF e \in Candidates THEN p ELSE leasedBy[e]]
  /\ live' = live \union Candidates
  /\ batch' = [batch EXCEPT ![p] = Candidates]
  /\ UNCHANGED <<job, on, tries, stalls, executed, killed, faults>>

\* Kill switch off: the whole batch is marked PROCESSED and nothing is queued.
DrainBatch(p) ==
  /\ p \notin Enabled
  /\ batch[p] # {}
  /\ row' = [e \in Events |-> IF e \in batch[p] THEN "PROCESSED" ELSE row[e]]
  /\ killed' = killed \union batch[p]
  /\ batch' = [batch EXCEPT ![p] = {}]
  /\ UNCHANGED <<leasedBy, live, job, on, tries, stalls, executed, faults>>

\* Mutant: the job is added without a jobId, so every claim queues a new one.
EnqueueWithoutJobId(p, e) ==
  /\ p \in Enabled
  /\ e \in batch[p]
  /\ batch' = [batch EXCEPT ![p] = @ \ {e}]
  /\ job' = [job EXCEPT ![e] = IF @ \in ActiveJob THEN @ ELSE "waiting"]
  /\ UNCHANGED <<row, leasedBy, live, on, tries, stalls, executed, killed,
                 faults>>

\* queue.add with jobId: the queue ignores it while a job with that id exists,
\* finished jobs that are still retained included.
EnqueueJob(p, e) ==
  /\ p \in Enabled
  /\ e \in batch[p]
  /\ batch' = [batch EXCEPT ![p] = @ \ {e}]
  /\ job' = [job EXCEPT ![e] = IF @ = "absent" THEN "waiting" ELSE @]
  /\ UNCHANGED <<row, leasedBy, live, on, tries, stalls, executed, killed,
                 faults>>

\* Mutant: the lease of a row is released even when another poller has it.
EnqueueFailsUnguarded(p, e) ==
  /\ p \in Enabled
  /\ e \in batch[p]
  /\ Fault(e)
  /\ batch' = [batch EXCEPT ![p] = @ \ {e}]
  /\ row' = [row EXCEPT ![e] = "PENDING"]
  /\ leasedBy' = [leasedBy EXCEPT ![e] = None]
  /\ live' = live \ {e}
  /\ UNCHANGED <<job, on, tries, stalls, executed, killed>>

\* queue.add throws: the row goes back to PENDING, whatever its status is by
\* now, provided this poller is still the one that leased it.
EnqueueFails(p, e) ==
  /\ p \in Enabled
  /\ e \in batch[p]
  /\ Fault(e)
  /\ batch' = [batch EXCEPT ![p] = @ \ {e}]
  /\ IF leasedBy[e] = p
     THEN /\ row' = [row EXCEPT ![e] = "PENDING"]
          /\ leasedBy' = [leasedBy EXCEPT ![e] = None]
          /\ live' = live \ {e}
     ELSE UNCHANGED <<row, leasedBy, live>>
  /\ UNCHANGED <<job, on, tries, stalls, executed, killed>>

\* The replica dies in the middle of a tick: its rows keep their lease.
CrashPoller(p) ==
  /\ batch[p] # {}
  /\ \A e \in batch[p] : faults[e] < MaxFaults
  /\ faults' = [e \in Events |-> IF e \in batch[p] THEN faults[e] + 1
                                                   ELSE faults[e]]
  /\ batch' = [batch EXCEPT ![p] = {}]
  /\ UNCHANGED <<row, leasedBy, live, job, on, tries, stalls, executed, killed>>

\* 60 seconds pass.
ExpireLease(e) ==
  /\ e \in live
  /\ live' = live \ {e}
  /\ UNCHANGED <<row, leasedBy, batch, job, on, tries, stalls, executed,
                 killed, faults>>

-----------------------------------------------------------------------------
(* Workers *)

TakeJob(e, r) ==
  /\ job[e] = "waiting"
  /\ job' = [job EXCEPT ![e] = "take"]
  /\ on' = [on EXCEPT ![e] = r]
  /\ UNCHANGED <<row, leasedBy, live, batch, tries, stalls, executed, killed,
                 faults>>

\* The worker checks the kill switch of its replica again.
WorkerKilled(e) ==
  /\ job[e] = "take"
  /\ on[e] \notin Enabled
  /\ row' = [row EXCEPT ![e] = "PROCESSED"]
  /\ killed' = killed \union {e}
  /\ job' = [job EXCEPT ![e] = "completed"]
  /\ UNCHANGED <<leasedBy, live, batch, on, tries, stalls, executed, faults>>

\* Mutant: the row is marked before the run, which may still fail.
StartExecuteMarks(e) ==
  /\ job[e] = "take"
  /\ on[e] \in Enabled
  /\ job' = [job EXCEPT ![e] = "execute"]
  /\ row' = [row EXCEPT ![e] = "PROCESSED"]
  /\ UNCHANGED <<leasedBy, live, batch, on, tries, stalls, executed,
                 killed, faults>>

StartExecute(e) ==
  /\ job[e] = "take"
  /\ on[e] \in Enabled
  /\ job' = [job EXCEPT ![e] = "execute"]
  /\ UNCHANGED <<row, leasedBy, live, batch, on, tries, stalls, executed,
                 killed, faults>>

\* executor.execute returned.
ExecuteReturns(e) ==
  /\ job[e] = "execute"
  /\ executed' = [executed EXCEPT ![e] = @ + 1]
  /\ job' = [job EXCEPT ![e] = "mark"]
  /\ UNCHANGED <<row, leasedBy, live, batch, on, tries, stalls, killed, faults>>

\* markProcessed is the last await of the job.
MarkProcessed(e) ==
  /\ job[e] = "mark"
  /\ row' = [row EXCEPT ![e] = "PROCESSED"]
  /\ job' = [job EXCEPT ![e] = "completed"]
  /\ UNCHANGED <<leasedBy, live, batch, on, tries, stalls, executed, killed,
                 faults>>

\* Mutant: the row is marked PROCESSED when the executor throws.
AttemptFailsMarked(e) ==
  /\ job[e] \in {"execute", "mark"}
  /\ Fault(e)
  /\ row' = [row EXCEPT ![e] = "PROCESSED"]
  /\ tries' = [tries EXCEPT ![e] = @ + 1]
  /\ job' = [job EXCEPT ![e] =
               IF tries[e] + 1 < MaxAttempts THEN "waiting" ELSE "failed"]
  /\ UNCHANGED <<leasedBy, live, batch, on, stalls, executed, killed>>

\* The executor throws (a held contact lock, a database error), or marking the
\* row does: lastError is noted, the row keeps its status and BullMQ retries.
AttemptFails(e) ==
  /\ job[e] \in {"execute", "mark"}
  /\ Fault(e)
  /\ tries' = [tries EXCEPT ![e] = @ + 1]
  /\ job' = [job EXCEPT ![e] =
               IF tries[e] + 1 < MaxAttempts THEN "waiting" ELSE "failed"]
  /\ UNCHANGED <<row, leasedBy, live, batch, on, stalls, executed, killed>>

\* The replica of the worker dies.
Stall(e) ==
  /\ job[e] \in ActiveJob
  /\ Fault(e)
  /\ stalls' = [stalls EXCEPT ![e] = @ + 1]
  /\ job' = [job EXCEPT ![e] =
               IF stalls[e] < MaxStalls THEN "waiting" ELSE "failed"]
  /\ UNCHANGED <<row, leasedBy, live, batch, on, tries, executed, killed>>

\* Retention: a finished job is dropped by age or count, and its id is free
\* again.  A tick is far shorter than the retention.
ForgetJob(e) ==
  /\ job[e] \in {"completed", "failed"}
  /\ \A p \in Replicas : e \notin batch[p]
  /\ job' = [job EXCEPT ![e] = "absent"]
  /\ tries' = [tries EXCEPT ![e] = 0]
  /\ stalls' = [stalls EXCEPT ![e] = 0]
  /\ on' = [on EXCEPT ![e] = None]
  /\ UNCHANGED <<row, leasedBy, live, batch, executed, killed, faults>>

-----------------------------------------------------------------------------

PollerStep(p) ==
  ClaimBatch(p) \/ DrainBatch(p) \/ \E e \in Events : EnqueueJob(p, e)

WorkerStep(e) ==
  \/ \E r \in Replicas : TakeJob(e, r)
  \/ WorkerKilled(e) \/ StartExecute(e) \/ ExecuteReturns(e) \/ MarkProcessed(e)

Next ==
  \/ \E p \in Replicas : PollerStep(p) \/ CrashPoller(p)
                           \/ \E e \in Events : EnqueueFails(p, e)
  \/ \E e \in Events : Emit(e) \/ ExpireLease(e) \/ WorkerStep(e)
                         \/ AttemptFails(e) \/ Stall(e) \/ ForgetJob(e)

\* Pollers tick every second and workers take jobs for ever; leases and
\* retention are clocks (strong fairness: the ticks that keep re-claiming a row
\* do not stop the clock).  Faults need not happen.
Fairness ==
  /\ \A p \in Replicas : WF_vars(PollerStep(p))
  /\ \A e \in Events : /\ WF_vars(WorkerStep(e))
                       /\ WF_vars(ExpireLease(e))
                       /\ SF_vars(ForgetJob(e))

Spec == Init /\ [][Next]_vars /\ Fairness

-----------------------------------------------------------------------------
(* Properties *)

\* "Outbox status only flips on clean exit": a PROCESSED row was executed to a
\* clean end, or a kill switch that is off swallowed it.
ProcessedWasHandled ==
  \A e \in Events : row[e] = "PROCESSED" => executed[e] > 0 \/ e \in killed

\* Expired leases, concurrent pollers and re-claims alone never run an event
\* twice; that takes a failed await or a crash.
ReexecutionNeedsFault ==
  \A e \in Events : executed[e] > 1 => faults[e] > 0

\* A PROCESSED row is only reopened by a poller whose queue.add failed, and
\* then only by the poller that holds its lease.
ReopenedByLeaseHolder ==
  [][\A e \in Events :
       row[e] = "PROCESSED" /\ row'[e] # "PROCESSED" =>
         /\ faults'[e] > faults[e]
         /\ \E p \in Replicas : leasedBy[e] = p /\ e \in batch[p]]_vars

\* No trigger is lost between the write and the dispatch: an event that was
\* written is eventually PROCESSED and stays so.
EventuallyProcessed ==
  \A e \in Events : (row[e] = "PENDING") ~> [](row[e] = "PROCESSED")

\* The recovery path of the worker's comment: when the poller re-claims a row
\* whose job failed, the event gets a job that will run.
ReclaimRetries ==
  [][\A e \in Events :
       (\E p \in Replicas : EnqueueJob(p, e)) => job'[e] # "failed"]_vars

-----------------------------------------------------------------------------
(* The promise this machinery keeps *)

\* The rows as the promise sees them.
Seen ==
  [e \in Events |-> CASE row[e] = "NONE" -> "unwritten"
                      [] row[e] = "PROCESSED" -> "settled"
                      [] OTHER -> "open"]

Faulty == {e \in Events : faults[e] > 0}

Promise == INSTANCE EventPromise WITH
  state <- Seen, runs <- executed, swallowed <- killed, disturbed <- Faulty

\* The machinery implements the promise: an event is run before it is settled, once unless
\* something failed, settled without a run by a kill switch alone, and opened again only by
\* a fault.  That it is settled in the end is EventuallyProcessed.
KeepsPromise == Promise!PromiseSpec
=============================================================================
