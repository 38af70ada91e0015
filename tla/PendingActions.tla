---------------------------- MODULE PendingActions ----------------------------
(***************************************************************************)
(* One action of an agent that waits for a human: the gate that creates    *)
(* it, approval, rejection, the expiry sweep and the executor's jobs.      *)
(* approve and reject read the row, then write the whole row back.         *)
(***************************************************************************)
EXTENDS Naturals, FiniteSets

CONSTANTS
  PaUsers,    \* operators
  PaWorkers,  \* the executor's slots (concurrency 4)
  PaMaxCalls  \* bound: approvals and rejections that pass their checks

ASSUME PaAssumption == PaMaxCalls \in Nat

VARIABLES
  paRow,      \* the row: status, executionResult, whether expiresAt is past
  paCall,     \* paCall[u]: the verdict of a call in flight, or "queueing"
  paCalls,    \* calls so far
  paJobs,     \* execute_pending jobs waiting
  paWork,     \* paWork[w]: what an executor slot does
  paEffects,  \* history: times the tool really ran
  paRaced,    \* history: a call read the row while another was in flight
  paLost      \* history: a job could not be queued, or was redelivered

paVars == <<paRow, paCall, paCalls, paJobs, paWork, paEffects, paRaced, paLost>>

PaVerdicts == {"APPROVED", "REJECTED", "EXPIRED"}
PaStatus == {"NONE", "PENDING", "EXECUTED"} \union PaVerdicts
PaResults == {"none", "ok", "error"}

PaTypeOK ==
  /\ paRow \in [status : PaStatus, result : PaResults, due : BOOLEAN]
  /\ paCall \in [PaUsers -> {"idle", "queueing"} \union PaVerdicts]
  /\ paCalls \in 0..PaMaxCalls
  /\ paJobs \in Nat
  /\ paWork \in [PaWorkers -> {"idle", "running", "ok", "error"}]
  /\ paEffects \in Nat
  /\ paRaced \in BOOLEAN
  /\ paLost \in {"no", "unqueued", "redelivered"}

PaInit ==
  /\ paRow = [status |-> "NONE", result |-> "none", due |-> FALSE]
  /\ paCall = [u \in PaUsers |-> "idle"]
  /\ paCalls = 0
  /\ paJobs = 0
  /\ paWork = [w \in PaWorkers |-> "idle"]
  /\ paEffects = 0
  /\ paRaced = FALSE
  /\ paLost = "no"

\* HttpToolExecutorService gates a skill that requires approval, and
\* transferToHuman gates itself: the row is all that happens.
PaCreate ==
  /\ paRow.status = "NONE"
  /\ paRow' = [paRow EXCEPT !.status = "PENDING"]
  /\ UNCHANGED <<paCall, paCalls, paJobs, paWork, paEffects, paRaced, paLost>>

\* expiresAt passes.
PaFallsDue ==
  /\ paRow.status # "NONE"
  /\ ~paRow.due
  /\ paRow' = [paRow EXCEPT !.due = TRUE]
  /\ UNCHANGED <<paCall, paCalls, paJobs, paWork, paEffects, paRaced, paLost>>

PaBusy == \E u \in PaUsers : paCall[u] # "idle"

\* A call that may go on remembers its verdict; an overdue row becomes EXPIRED.
PaAsk(u, verdict) ==
  /\ paCall[u] = "idle"
  /\ paCalls < PaMaxCalls
  /\ paCalls' = paCalls + 1
  /\ paCall' = [paCall EXCEPT ![u] = IF paRow.due THEN "EXPIRED" ELSE verdict]
  /\ paRaced' = (paRaced \/ PaBusy)
  /\ UNCHANGED <<paRow, paJobs, paWork, paEffects, paLost>>

\* Mutant: a verdict is accepted whatever the status of the row.
PaReadAnyStatus(u, verdict) == paRow.status # "NONE" /\ PaAsk(u, verdict)

\* approve, reject: only for a row that was read PENDING.
PaRead(u, verdict) == paRow.status = "PENDING" /\ PaAsk(u, verdict)

\* The whole row is written back as it was read (no result yet), whatever its
\* status is by now.
PaSave(u) ==
  /\ paCall[u] \in PaVerdicts
  /\ paRow' = [paRow EXCEPT !.status = paCall[u], !.result = "none"]
  /\ paCall' = [paCall EXCEPT ![u] = IF @ = "APPROVED" THEN "queueing" ELSE "idle"]
  /\ UNCHANGED <<paCalls, paJobs, paWork, paEffects, paRaced, paLost>>

\* After the save an approval queues its execution; a failure to is only logged.
PaQueue(u) ==
  /\ paCall[u] = "queueing"
  /\ paCall' = [paCall EXCEPT ![u] = "idle"]
  /\ \/ paJobs' = paJobs + 1 /\ UNCHANGED paLost
     \/ paLost' = "unqueued" /\ UNCHANGED paJobs
  /\ UNCHANGED <<paRow, paCalls, paWork, paEffects, paRaced>>

\* The sweep (every 5 minutes) is one conditional update.
PaExpire ==
  /\ paRow.status = "PENDING"
  /\ paRow.due
  /\ paRow' = [paRow EXCEPT !.status = "EXPIRED"]
  /\ UNCHANGED <<paCall, paCalls, paJobs, paWork, paEffects, paRaced, paLost>>

\* A job whose row is not APPROVED is skipped.
PaTake(w) ==
  /\ paWork[w] = "idle"
  /\ paJobs > 0
  /\ paJobs' = paJobs - 1
  /\ paWork' = [paWork EXCEPT ![w] =
                  IF paRow.status = "APPROVED" THEN "running" ELSE "idle"]
  /\ UNCHANGED <<paRow, paCall, paCalls, paEffects, paRaced, paLost>>

\* The tool runs and answers; or it fails and the failure is its answer (an HTTP
\* error or a timeout is returned, the server may have done the work or not); or
\* it throws (the skill, its tool, the run or the conversation is gone).
PaRun(w) ==
  /\ paWork[w] = "running"
  /\ \/ /\ paWork' = [paWork EXCEPT ![w] = "ok"]
        /\ paEffects' \in {paEffects, paEffects + 1}
     \/ paWork' = [paWork EXCEPT ![w] = "error"] /\ UNCHANGED paEffects
  /\ UNCHANGED <<paRow, paCall, paCalls, paJobs, paRaced, paLost>>

\* Mutant: a failure sends the action back to be approved again, as the
\* executor's comment has it.
PaRecordRetry(w) ==
  /\ paWork[w] \in {"ok", "error"}
  /\ paRow' = [paRow EXCEPT !.result = paWork[w],
                 !.status = IF paWork[w] = "ok" THEN "EXECUTED" ELSE "PENDING"]
  /\ paWork' = [paWork EXCEPT ![w] = "idle"]
  /\ UNCHANGED <<paCall, paCalls, paJobs, paEffects, paRaced, paLost>>

\* The result is written without a look at the row.
PaRecord(w) ==
  /\ paWork[w] \in {"ok", "error"}
  /\ paRow' = [paRow EXCEPT !.result = paWork[w],
                 !.status = IF paWork[w] = "ok" THEN "EXECUTED" ELSE "APPROVED"]
  /\ paWork' = [paWork EXCEPT ![w] = "idle"]
  /\ UNCHANGED <<paCall, paCalls, paJobs, paEffects, paRaced, paLost>>

\* The process dies before the result is written: the queue redelivers the job
\* once (its default for a stalled job), then gives it up.
PaStall(w) ==
  /\ paWork[w] # "idle"
  /\ paLost = "no"
  /\ paLost' = "redelivered"
  /\ paWork' = [paWork EXCEPT ![w] = "idle"]
  /\ paJobs' = paJobs + 1
  /\ UNCHANGED <<paRow, paCall, paCalls, paEffects, paRaced>>

PaNext ==
  \/ PaCreate \/ PaFallsDue \/ PaExpire
  \/ \E u \in PaUsers :
       \/ PaRead(u, "APPROVED") \/ PaRead(u, "REJECTED")
       \/ PaSave(u) \/ PaQueue(u)
  \/ \E w \in PaWorkers : PaTake(w) \/ PaRun(w) \/ PaRecord(w) \/ PaStall(w)

PaSpec == PaInit /\ [][PaNext]_paVars

-----------------------------------------------------------------------------
(* Properties *)

\* The tool runs a second time only when two calls read the row at once, or the
\* queue redelivered a job of a process that died: the checks of approve and of
\* the executor leave no other way.
PaTwiceNeedsRace == paEffects > 1 => paRaced \/ paLost = "redelivered"

\* An approved action without a result is on its way: its job waits or runs, or
\* is about to be queued. Only a failure to queue it leaves it behind.
PaApprovedIsPursued ==
  paRow.status = "APPROVED" /\ paRow.result = "none" =>
    \/ paJobs > 0
    \/ \E u \in PaUsers : paCall[u] = "queueing"
    \/ \E w \in PaWorkers : paWork[w] # "idle"
    \/ paLost = "unqueued"

\* Approval is given once: no row returns from APPROVED, EXECUTED, REJECTED or
\* EXPIRED to PENDING, so a failed execution is only seen, never approved again.
PaNoSecondApproval ==
  paRow.status # "NONE" /\ paRow'.status = "PENDING" => paRow.status = "PENDING"

\* An approved action is done, and done once.
PaSafe == PaTwiceNeedsRace /\ PaApprovedIsPursued
=============================================================================
