----------------------------- MODULE ChannelSync -----------------------------
(***************************************************************************)
(* History import of a channel: the sync jobs callers start and cancel,    *)
(* the queue that retries a failed job, and the processor (concurrency 1)  *)
(* that collects the provider's conversations page by page and imports     *)
(* them one by one, looking for a cancellation before each.                *)
(***************************************************************************)
EXTENDS Naturals, Sequences, SequencesExt, FiniteSets

CONSTANTS
  CsJobs,      \* rows of channel_sync_jobs
  CsCallers,   \* requests: start and cancel
  CsNone,      \* no job, no conversation
  CsConvs,     \* conversations the provider lists
  CsPage,      \* CONVERSATION_PAGE_SIZE
  CsCap,       \* MAX_CONVERSATIONS
  CsAttempts,  \* attempts of a queue job (3)
  CsMaxMoves   \* bound: conversations that get a message meanwhile

ASSUME CsAssumption ==
  /\ CsPage \in Nat \ {0} /\ CsCap \in Nat /\ CsAttempts \in Nat \ {0}
  /\ CsMaxMoves \in Nat
  /\ CsNone \notin CsJobs \union CsConvs
  /\ IsFiniteSet(CsConvs)

VARIABLES
  csRow,       \* the status of every job
  csTries,     \* attempts a queued job has left; 0 when it is not queued
  csCall,      \* what a request has decided and not written yet
  csWork,      \* the processor: its job, what it does and what it collected
  csOrder,     \* the provider's list, latest activity first
  csMoves,     \* conversations that moved to the front so far
  csTouched,   \* history: conversations that moved while the job collected, one by one
  csTried,     \* history: conversations an attempt of the job tried to import
  csLate,      \* history: imports begun after a running job was cancelled
  csCancelled, \* history: jobs that were cancelled
  csRaced,     \* history: two starts overlapped, or RUNNING replaced a cancellation
  csUnqueued   \* history: jobs whose queue job was never added

csVars == <<csRow, csTries, csCall, csWork, csOrder, csMoves, csTouched, csTried,
            csLate, csCancelled, csRaced, csUnqueued>>

CsStatus == {"NONE", "PENDING", "RUNNING", "COMPLETED", "FAILED", "CANCELLED"}
CsActive == {j \in CsJobs : csRow[j] \in {"PENDING", "RUNNING"}}
CsRest == [job |-> CsNone, step |-> "idle", list |-> <<>>, offset |-> 0, tries |-> 0]

CsTypeOK ==
  /\ csRow \in [CsJobs -> CsStatus]
  /\ csTries \in [CsJobs -> 0..CsAttempts]
  /\ \A u \in CsCallers : csCall[u].step \in {"idle", "create", "add", "cancel"}
                          /\ csCall[u].job \in CsJobs \union {CsNone}
  /\ csWork.job \in CsJobs \union {CsNone}
  /\ csWork.step \in {"idle", "start", "collect", "next", "import"}
  /\ csWork.list \in Seq(CsConvs) /\ csWork.offset \in Nat /\ csWork.tries \in 0..CsAttempts
  /\ ToSet(csOrder) = CsConvs /\ Len(csOrder) = Cardinality(CsConvs)
  /\ csMoves \in 0..CsMaxMoves
  /\ csTouched \in [CsJobs -> Seq(CsConvs)] /\ csTried \in [CsJobs -> SUBSET CsConvs]
  /\ csLate \in Nat
  /\ csCancelled \union csUnqueued \subseteq CsJobs

CsInit ==
  /\ csRow = [j \in CsJobs |-> "NONE"]
  /\ csTries = [j \in CsJobs |-> 0]
  /\ csCall = [u \in CsCallers |-> [step |-> "idle", job |-> CsNone]]
  /\ csWork = CsRest
  /\ csOrder \in {s \in [1..Cardinality(CsConvs) -> CsConvs] : ToSet(s) = CsConvs}
  /\ csMoves = 0 /\ csLate = 0
  /\ csCancelled = {} /\ csUnqueued = {}
  /\ csTried = [j \in CsJobs |-> {}] /\ csTouched = [j \in CsJobs |-> <<>>]
  /\ csRaced = FALSE

CsProvider == <<csOrder, csMoves, csTouched>>

-----------------------------------------------------------------------------
(* ChannelSyncOrchestrator *)

\* start: an active job is returned as it is; else the row is created next.
CsStart(u) ==
  /\ csCall[u].step = "idle"
  /\ CsActive = {}
  /\ csCall' = [csCall EXCEPT ![u].step = "create"]
  /\ csRaced' = (csRaced \/ \E v \in CsCallers : csCall[v].step \in {"create", "add"})
  /\ UNCHANGED <<csRow, csTries, csWork, CsProvider, csTried, csLate, csCancelled, csUnqueued>>

CsCreate(u, j) ==
  /\ csCall[u].step = "create"
  /\ csRow[j] = "NONE"
  /\ csRow' = [csRow EXCEPT ![j] = "PENDING"]
  /\ csCall' = [csCall EXCEPT ![u] = [step |-> "add", job |-> j]]
  /\ UNCHANGED <<csTries, csWork, CsProvider, csTried, csLate, csCancelled, csRaced, csUnqueued>>

\* The queue job is added, or adding it fails and the row stays PENDING.
CsAdd(u) ==
  /\ csCall[u].step = "add"
  /\ csCall' = [csCall EXCEPT ![u] = [step |-> "idle", job |-> CsNone]]
  /\ \/ csTries' = [csTries EXCEPT ![csCall[u].job] = CsAttempts] /\ UNCHANGED csUnqueued
     \/ csUnqueued' = csUnqueued \union {csCall[u].job} /\ UNCHANGED csTries
  /\ UNCHANGED <<csRow, csWork, CsProvider, csTried, csLate, csCancelled, csRaced>>

\* cancel finds an active job, then writes CANCELLED over whatever it is by then.
CsCancelFind(u, j) ==
  /\ csCall[u].step = "idle"
  /\ j \in CsActive
  /\ csCall' = [csCall EXCEPT ![u] = [step |-> "cancel", job |-> j]]
  /\ UNCHANGED <<csRow, csTries, csWork, CsProvider, csTried, csLate, csCancelled, csRaced, csUnqueued>>

CsCancelWrite(u) ==
  /\ csCall[u].step = "cancel"
  /\ csRow' = [csRow EXCEPT ![csCall[u].job] = "CANCELLED"]
  /\ csCancelled' = csCancelled \union {csCall[u].job}
  /\ csCall' = [csCall EXCEPT ![u] = [step |-> "idle", job |-> CsNone]]
  /\ UNCHANGED <<csTries, csWork, CsProvider, csTried, csLate, csRaced, csUnqueued>>

-----------------------------------------------------------------------------
(* ChannelSyncProcessor *)

CsHistory == <<csTried, csLate, csCancelled, csRaced, csUnqueued>>

\* The row is read: a cancelled job ends here, any other status goes on.
CsTake(j) ==
  /\ csWork.step = "idle"
  /\ csTries[j] > 0
  /\ csTries' = [csTries EXCEPT ![j] = 0]
  /\ csWork' = IF csRow[j] = "CANCELLED" THEN CsRest
               ELSE [CsRest EXCEPT !.job = j, !.step = "start", !.tries = csTries[j] - 1]
  /\ UNCHANGED <<csRow, csCall, CsProvider, CsHistory>>

\* RUNNING is written without a look; what was cancelled meanwhile runs again.
CsRun ==
  /\ csWork.step = "start"
  /\ csRow' = [csRow EXCEPT ![csWork.job] = "RUNNING"]
  /\ csCancelled' = csCancelled \ {csWork.job}
  /\ csWork' = [csWork EXCEPT !.step = "collect"]
  /\ csTouched' = [csTouched EXCEPT ![csWork.job] = <<>>]
  /\ csTried' = [csTried EXCEPT ![csWork.job] = {}]
  /\ csRaced' = (csRaced \/ csRow[csWork.job] = "CANCELLED")
  /\ UNCHANGED <<csTries, csCall, csOrder, csMoves, csLate, csUnqueued>>

\* collectConversations: one page by offset, until the list ends or the cap is
\* reached.
CsCollect ==
  LET page == SubSeq(csOrder, csWork.offset + 1, Min({csWork.offset + CsPage, Len(csOrder)}))
      list == csWork.list \o page IN
  /\ csWork.step = "collect"
  /\ csWork' = [csWork EXCEPT !.list = list, !.offset = @ + Len(page),
       !.step = IF Len(page) < CsPage \/ Len(list) >= CsCap THEN "next" ELSE "collect"]
  /\ UNCHANGED <<csRow, csTries, csCall, CsProvider, CsHistory>>

\* Mutant: a job is not asked again whether it was cancelled.
CsStopsNever == FALSE

\* isCancelled, before each conversation.
CsStops == csRow[csWork.job] = "CANCELLED"

CsNextConv ==
  /\ csWork.step = "next"
  /\ csWork.list # <<>>
  /\ ~CsStops
  /\ csWork' = [csWork EXCEPT !.step = "import"]
  /\ csLate' = IF csWork.job \in csCancelled THEN csLate + 1 ELSE csLate
  /\ UNCHANGED <<csRow, csTries, csCall, CsProvider, csTried, csCancelled, csRaced, csUnqueued>>

\* The conversation and its messages are imported, or fail and are logged.
CsImport ==
  /\ csWork.step = "import"
  /\ csTried' = [csTried EXCEPT ![csWork.job] = @ \union {Head(csWork.list)}]
  /\ csWork' = [csWork EXCEPT !.step = "next", !.list = Tail(@)]
  /\ UNCHANGED <<csRow, csTries, csCall, CsProvider, csLate, csCancelled, csRaced, csUnqueued>>

\* The end writes COMPLETED, over CANCELLED too.
CsEnd ==
  /\ csWork.step = "next"
  /\ csWork.list = <<>> \/ CsStops
  /\ csRow' = [csRow EXCEPT ![csWork.job] = "COMPLETED"]
  /\ csWork' = CsRest
  /\ UNCHANGED <<csTries, csCall, CsProvider, CsHistory>>

\* The provider fails (or limits the rate MAX_RATE_LIMIT_RETRIES times over): the
\* row is FAILED and the queue tries again until its attempts are used.
CsFail ==
  /\ csWork.step = "collect"
  /\ csRow' = [csRow EXCEPT ![csWork.job] = "FAILED"]
  /\ csTries' = [csTries EXCEPT ![csWork.job] = csWork.tries]
  /\ csWork' = CsRest
  /\ UNCHANGED <<csCall, CsProvider, CsHistory>>

\* A new message moves the conversation at a place to the front of the provider's list.
CsActivity(k) ==
  /\ csMoves < CsMaxMoves
  /\ csMoves' = csMoves + 1
  /\ csOrder' = [i \in DOMAIN csOrder |->
       IF i = 1 THEN csOrder[k] ELSE IF i <= k THEN csOrder[i - 1] ELSE csOrder[i]]
  /\ csTouched' = IF csWork.step = "collect"
       THEN [csTouched EXCEPT ![csWork.job] = Append(@, csOrder[k])] ELSE csTouched
  /\ UNCHANGED <<csRow, csTries, csCall, csWork, CsHistory>>

CsNext ==
  \/ \E u \in CsCallers :
       \/ CsStart(u) \/ CsAdd(u) \/ CsCancelWrite(u)
       \/ \E j \in CsJobs : CsCreate(u, j) \/ CsCancelFind(u, j)
  \/ \E j \in CsJobs : CsTake(j)
  \/ CsRun \/ CsCollect \/ CsNextConv \/ CsImport \/ CsEnd \/ CsFail
  \/ \E k \in 1..Cardinality(CsConvs) : CsActivity(k)

CsSpec == CsInit /\ [][CsNext]_csVars

-----------------------------------------------------------------------------
(* Properties *)

\* Cancelling a running job stops it: after the write at most the conversation
\* whose check had passed is still begun, never a second one.
CsCancelStops == csLate = 0

\* A job that completed without a cancellation tried every conversation, save those a new
\* message moved to the front while the pages were read, or as many as the cap: one that such
\* a move shifted to the next page is listed, and counted for the cap, once more.
CsCompletedIsWhole == \A j \in CsJobs :
  csRow[j] = "COMPLETED" /\ j \notin csCancelled =>
    \/ Cardinality(csTried[j]) + Len(csTouched[j]) >= CsCap
    \/ CsConvs \ csTried[j] \subseteq ToSet(csTouched[j])

\* A job that looks active is: it is queued, at work, or about to be queued. Only
\* a queue that refused the job leaves a row that blocks every later start.
CsActiveIsPursued == \A j \in CsActive :
  \/ csTries[j] > 0 \/ csWork.job = j \/ j \in csUnqueued
  \/ \E u \in CsCallers : csCall[u] = [step |-> "add", job |-> j]

\* A channel has one active job, unless two starts overlap, a cancelled job is
\* set RUNNING all the same, or a failed job is tried again after another start.
CsOneActive ==
  \/ Cardinality(CsActive) <= 1
  \/ csRaced
  \/ csWork.job # CsNone /\ csWork.tries < CsAttempts - 1

\* An import is one at a time, whole when it says so, and stops when told to.
CsSafe == CsCancelStops /\ CsCompletedIsWhole /\ CsActiveIsPursued /\ CsOneActive
=============================================================================
