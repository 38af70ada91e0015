--------------------------- MODULE AutomationEngine ---------------------------
(***************************************************************************)
(* The automation executor: what the jobs delivered by OutboxDelivery do   *)
(* to one conversation of one contact.  Each job runs the automations that *)
(* its trigger matches, one after the other under the contact's Redis      *)
(* lock; an action may assign the conversation, which emits events one     *)
(* hop deeper, or send a message, which cannot be taken back.              *)
(***************************************************************************)
EXTENDS Naturals, Sequences, FiniteSets

CONSTANTS
  Autos,         \* automations, numbered in order of execution
  Trigger,       \* Trigger[a]: "ASSIGNED", "STATUS" or "MESSAGE"
  Actions,       \* Actions[a]: sequence of [kind, user, cont]
  Users,
  MaxDepth,      \* MAX_CASCADE_DEPTH
  MaxFailures,   \* AUTO_DISABLE_AFTER_FAILURES
  MaxAttempts,   \* attempts of the automation-event job
  MaxStalls,     \* BullMQ's maxStalledCount
  MaxInputs      \* bound: events of the domain and switches by users

NoUser == "nobody"
Triggers == {"ASSIGNED", "STATUS", "MESSAGE"}

\* cont is action.continueOnError with the handler's default filled in.
Action == [kind : {"assign", "message"}, user : Users \union {NoUser},
           cont : BOOLEAN]

ASSUME EngineAssumption ==
  /\ Autos \subseteq Nat
  /\ Trigger \in [Autos -> Triggers]
  /\ Actions \in [Autos -> Seq(Action)]
  /\ NoUser \notin Users
  /\ MaxDepth \in Nat \ {0}
  /\ MaxFailures \in Nat \ {0}
  /\ MaxAttempts \in Nat \ {0}
  /\ MaxStalls \in Nat
  /\ MaxInputs \in Nat

VARIABLES
  jobs,         \* the jobs, in the order their events were emitted
  lock,         \* automation:lock:contact:<id>: the job that holds it, or 0
  auto,         \* enabled and consecutiveFailures of each automation
  assignee,     \* conversation.assignedToId
  pending,      \* conversation.status is PENDING
  sent,         \* messages queued: sequence of <<job, automation, action>>
  interrupted,  \* history: automations whose auto-pause was cut short
  inputs        \* events of the domain and switches by users so far

vars == <<jobs, lock, auto, assignee, pending, sent, interrupted, inputs>>

Section == {"act", "apply", "count", "pause", "unlock"}
PCs == Section \union {"waiting", "next", "completed", "failed"}

\* path: the automations whose actions led to the event, in its trace.
Job == [trigger : Triggers, depth : Nat, path : SUBSET Autos, pc : PCs,
        todo : SUBSET Autos, act : Nat, bad : BOOLEAN,
        seen : [assignee : Users \union {NoUser}, pending : BOOLEAN],
        tries : 0..MaxAttempts, stalls : 0..(MaxStalls + 1), lost : BOOLEAN]

TypeOK ==
  /\ jobs \in Seq(Job)
  /\ lock \in 0..Len(jobs)
  /\ auto \in [Autos -> [enabled : BOOLEAN, failures : Nat]]
  /\ assignee \in Users \union {NoUser}
  /\ pending \in BOOLEAN
  /\ sent \in Seq((1..Len(jobs)) \X Autos \X Nat)
  /\ interrupted \subseteq Autos
  /\ inputs \in 0..MaxInputs

Jobs == 1..Len(jobs)

\* The automations of a job run in execution order.
First(S) == CHOOSE a \in S : \A b \in S : a <= b
Current(e) == First(jobs[e].todo)
Others(e) == jobs[e].todo \ {Current(e)}

InSection(e) == jobs[e].pc \in Section

Unseen == [assignee |-> NoUser, pending |-> FALSE]

NewJob(t, depth, path) ==
  [trigger |-> t, depth |-> depth, path |-> path, pc |-> "waiting",
   todo |-> {}, act |-> 1, bad |-> FALSE,
   seen |-> Unseen,
   tries |-> 0, stalls |-> 0, lost |-> FALSE]

Init ==
  /\ jobs = <<>>
  /\ lock = 0
  /\ auto = [a \in Autos |-> [enabled |-> TRUE, failures |-> 0]]
  /\ assignee = NoUser
  /\ pending = TRUE
  /\ sent = <<>>
  /\ interrupted = {}
  /\ inputs = 0

-----------------------------------------------------------------------------
(* The domain and the users *)

\* A message arrives, or an operator takes the conversation.
EmitRoot ==
  /\ inputs < MaxInputs
  /\ inputs' = inputs + 1
  /\ \/ /\ jobs' = Append(jobs, NewJob("MESSAGE", 0, {}))
        /\ UNCHANGED assignee
     \/ \E u \in Users : /\ assignee' = u
                         /\ jobs' = Append(jobs, NewJob("ASSIGNED", 0, {}))
  /\ UNCHANGED <<lock, auto, pending, sent, interrupted>>

\* A user switches an automation off, or on again, which clears the failures.
Toggle(a) ==
  /\ inputs < MaxInputs
  /\ inputs' = inputs + 1
  /\ auto' = [auto EXCEPT ![a] =
                IF @.enabled THEN [@ EXCEPT !.enabled = FALSE]
                ELSE [enabled |-> TRUE, failures |-> 0]]
  /\ UNCHANGED <<jobs, lock, assignee, pending, sent, interrupted>>

-----------------------------------------------------------------------------
(* One attempt of a job *)

\* The automations of the trigger that are enabled now: the attempt works on
\* this snapshot.
Matching(t) == {a \in Autos : auto[a].enabled /\ Trigger[a] = t}

\* Mutant: the cap is tested with > instead of >=.
BeginOffByOne(e) ==
  /\ jobs[e].pc = "waiting"
  /\ jobs' = [jobs EXCEPT ![e] =
       IF @.depth > MaxDepth \/ Matching(jobs[e].trigger) = {}
       THEN [@ EXCEPT !.pc = "completed"]
       ELSE [@ EXCEPT !.pc = "next", !.todo = Matching(jobs[e].trigger)]]
  /\ UNCHANGED <<lock, auto, assignee, pending, sent, interrupted, inputs>>

\* Too deep in a cascade, or nothing to run: the job completes.
Begin(e) ==
  /\ jobs[e].pc = "waiting"
  /\ jobs' = [jobs EXCEPT ![e] =
       IF @.depth >= MaxDepth \/ Matching(jobs[e].trigger) = {}
       THEN [@ EXCEPT !.pc = "completed"]
       ELSE [@ EXCEPT !.pc = "next", !.todo = Matching(jobs[e].trigger)]]
  /\ UNCHANGED <<lock, auto, assignee, pending, sent, interrupted, inputs>>

\* visitedAutomations as the poller fills it in: it starts every job afresh.
VisitedAutomations(e) == {}

\* The next automation is passed over: already visited, another schema version,
\* its conditions do not match, or its rate limit is used up.
SkipAutomation(e) ==
  /\ jobs[e].pc = "next"
  /\ jobs[e].todo # {}
  /\ jobs' = [jobs EXCEPT ![e].todo = Others(e)]
  /\ UNCHANGED <<lock, auto, assignee, pending, sent, interrupted, inputs>>

\* Its creator left the workspace: auto-pause it and pass on.
SkipUnauthorized(e) ==
  /\ jobs[e].pc = "next"
  /\ jobs[e].todo # {}
  /\ auto' = [auto EXCEPT ![Current(e)].enabled = FALSE]
  /\ jobs' = [jobs EXCEPT ![e].todo = Others(e)]
  /\ UNCHANGED <<lock, assignee, pending, sent, interrupted, inputs>>

\* The contact's lock is free (SET NX): run the actions of the automation.
LockContact(e) ==
  /\ jobs[e].pc = "next"
  /\ jobs[e].todo # {}
  /\ Current(e) \notin VisitedAutomations(e)
  /\ lock = 0
  /\ lock' = e
  /\ jobs' = [jobs EXCEPT ![e].pc = "act"]
  /\ UNCHANGED <<auto, assignee, pending, sent, interrupted, inputs>>

\* An attempt, or its run of an automation, forgets what it had in memory.
Cleared(j) ==
  [j EXCEPT !.act = 1, !.bad = FALSE, !.lost = FALSE, !.seen = Unseen]

\* A failed attempt: BullMQ retries the whole job, or gives up.
Retry(j) ==
  [Cleared(j) EXCEPT
     !.pc = IF j.tries + 1 < MaxAttempts THEN "waiting" ELSE "failed",
     !.tries = j.tries + 1, !.todo = {}]

\* Mutant: a job that finds the lock held is retried for ever.
LockBusySpins(e) ==
  /\ jobs[e].pc = "next"
  /\ jobs[e].todo # {}
  /\ lock # 0
  /\ jobs' = [jobs EXCEPT ![e].pc = "waiting", ![e].todo = {}]
  /\ UNCHANGED <<lock, auto, assignee, pending, sent, interrupted, inputs>>

\* Another job has the lock: execute() throws.
LockBusy(e) ==
  /\ jobs[e].pc = "next"
  /\ jobs[e].todo # {}
  /\ lock # 0
  /\ jobs' = [jobs EXCEPT ![e] = Retry(@)]
  /\ UNCHANGED <<lock, auto, assignee, pending, sent, interrupted, inputs>>

\* Every automation was dealt with; the worker marks the event PROCESSED.
Finish(e) ==
  /\ jobs[e].pc = "next"
  /\ jobs[e].todo = {}
  /\ jobs' = [jobs EXCEPT ![e].pc = "completed"]
  /\ UNCHANGED <<lock, auto, assignee, pending, sent, interrupted, inputs>>

-----------------------------------------------------------------------------
(* Actions *)

CurrentAction(e) == Actions[Current(e)][jobs[e].act]
ActionsLeft(e) == jobs[e].act <= Len(Actions[Current(e)])

\* After a failed action: go on, or abort the automation, as the action says.
AfterFailure(e) ==
  [jobs[e] EXCEPT !.bad = TRUE,
                  !.act = IF CurrentAction(e).cont
                          THEN @ + 1 ELSE Len(Actions[Current(e)]) + 1,
                  !.pc = "act", !.seen = Unseen]

AfterSuccess(e) ==
  [jobs[e] EXCEPT !.act = @ + 1, !.pc = "act", !.seen = Unseen]

\* send_message: the row is created and queued for the outbound worker.
SendMessage(e) ==
  /\ jobs[e].pc = "act"
  /\ ActionsLeft(e)
  /\ CurrentAction(e).kind = "message"
  /\ sent' = Append(sent, <<e, Current(e), jobs[e].act>>)
  /\ jobs' = [jobs EXCEPT ![e] = AfterSuccess(e)]
  /\ UNCHANGED <<lock, auto, assignee, pending, interrupted, inputs>>

\* assign_user reads the conversation; assigned to that user already: no-op.
ReadAssignee(e) ==
  /\ jobs[e].pc = "act"
  /\ ActionsLeft(e)
  /\ CurrentAction(e).kind = "assign"
  /\ jobs' = [jobs EXCEPT ![e] =
       IF assignee = CurrentAction(e).user THEN AfterSuccess(e)
       ELSE [@ EXCEPT !.pc = "apply",
                      !.seen = [assignee |-> assignee, pending |-> pending]]]
  /\ UNCHANGED <<lock, auto, assignee, pending, sent, interrupted, inputs>>

\* assign_user writes in one transaction what it decided on the state it read:
\* the assignee, PENDING -> OPEN, and their events, one hop deeper.
ApplyAssign(e) ==
  LET hop(t) == NewJob(t, jobs[e].depth + 1, jobs[e].path \union {Current(e)})
  IN
  /\ jobs[e].pc = "apply"
  /\ assignee' = CurrentAction(e).user
  /\ pending' = (pending /\ ~jobs[e].seen.pending)
  /\ jobs' = [jobs EXCEPT ![e] = AfterSuccess(e)]
               \o <<hop("ASSIGNED")>>
               \o IF jobs[e].seen.pending THEN <<hop("STATUS")>> ELSE <<>>
  /\ UNCHANGED <<lock, auto, sent, interrupted, inputs>>

\* An action fails or throws, before it changed anything.
ActionFails(e) ==
  /\ jobs[e].pc \in {"act", "apply"}
  /\ ActionsLeft(e)
  /\ jobs' = [jobs EXCEPT ![e] = AfterFailure(e)]
  /\ UNCHANGED <<lock, auto, assignee, pending, sent, interrupted, inputs>>

RunEnded(e) == jobs[e].pc = "act" /\ ~ActionsLeft(e)

\* Mutant: the failures are counted but never compared with the limit.
CountWithoutLadder(e) ==
  /\ RunEnded(e)
  /\ auto' = [auto EXCEPT ![Current(e)].failures =
                IF jobs[e].bad THEN @ + 1 ELSE 0]
  /\ jobs' = [jobs EXCEPT ![e].pc = "unlock"]
  /\ UNCHANGED <<lock, assignee, pending, sent, interrupted, inputs>>

\* The run is logged (a failing insert is swallowed) and the counters are
\* updated: a success resets the consecutive failures, a failure adds one and
\* at the limit the automation has to be paused.
CountRun(e) ==
  LET n == auto[Current(e)].failures + 1 IN
  /\ RunEnded(e)
  /\ auto' = [auto EXCEPT ![Current(e)].failures = IF jobs[e].bad THEN n ELSE 0]
  /\ jobs' = [jobs EXCEPT ![e].pc =
                IF jobs[e].bad /\ n >= MaxFailures THEN "pause" ELSE "unlock"]
  /\ UNCHANGED <<lock, assignee, pending, sent, interrupted, inputs>>

\* A second update, autoPause.
Pause(e) ==
  /\ jobs[e].pc = "pause"
  /\ auto' = [auto EXCEPT ![Current(e)].enabled = FALSE]
  /\ jobs' = [jobs EXCEPT ![e].pc = "unlock"]
  /\ UNCHANGED <<lock, assignee, pending, sent, interrupted, inputs>>

\* Mutant: the lock is deleted without comparing the token.
UnlockAnyToken(e) ==
  /\ jobs[e].pc = "unlock"
  /\ lock' = 0
  /\ jobs' = [jobs EXCEPT ![e] =
               [Cleared(@) EXCEPT !.pc = "next", !.todo = Others(e)]]
  /\ UNCHANGED <<auto, assignee, pending, sent, interrupted, inputs>>

\* Mutant: the automation that just ran is not taken off the list.
UnlockRunsAgain(e) ==
  /\ jobs[e].pc = "unlock"
  /\ lock' = IF lock = e THEN 0 ELSE lock
  /\ jobs' = [jobs EXCEPT ![e] = [Cleared(@) EXCEPT !.pc = "next"]]
  /\ UNCHANGED <<auto, assignee, pending, sent, interrupted, inputs>>

\* releaseContactLock deletes the key only if it still holds our token.
Unlock(e) ==
  /\ jobs[e].pc = "unlock"
  /\ lock' = IF lock = e THEN 0 ELSE lock
  /\ jobs' = [jobs EXCEPT ![e] =
               [Cleared(@) EXCEPT !.pc = "next", !.todo = Others(e)]]
  /\ UNCHANGED <<auto, assignee, pending, sent, interrupted, inputs>>

\* A counter update throws: the finally block releases the lock, execute()
\* throws and the whole job is retried, earlier automations included.
CountThrows(e) ==
  /\ RunEnded(e) \/ jobs[e].pc = "pause"
  /\ lock' = IF lock = e THEN 0 ELSE lock
  /\ interrupted' = IF jobs[e].pc = "pause"
                    THEN interrupted \union {Current(e)} ELSE interrupted
  /\ jobs' = [jobs EXCEPT ![e] = Retry(@)]
  /\ UNCHANGED <<auto, assignee, pending, sent, inputs>>

-----------------------------------------------------------------------------
(* Crashes and clocks *)

\* BullMQ finds the job of a dead worker stalled.
Stalled(j) ==
  [Cleared(j) EXCEPT
     !.pc = IF j.stalls < MaxStalls THEN "waiting" ELSE "failed",
     !.stalls = @ + 1, !.todo = {}]

\* The worker dies: the lock stays, the job is queued again or given up.
Stall(e) ==
  /\ jobs[e].pc \in Section \union {"next"}
  /\ jobs' = [jobs EXCEPT ![e] = Stalled(@)]
  /\ interrupted' = IF jobs[e].pc = "pause"
                    THEN interrupted \union {Current(e)} ELSE interrupted
  /\ UNCHANGED <<lock, auto, assignee, pending, sent, inputs>>

\* 30 seconds pass: Redis drops the lock, whether or not its holder is done.
ExpireLock ==
  /\ lock # 0
  /\ lock' = 0
  /\ jobs' = [jobs EXCEPT ![lock].lost = InSection(lock)]
  /\ UNCHANGED <<auto, assignee, pending, sent, interrupted, inputs>>

-----------------------------------------------------------------------------

JobStep(e) ==
  \/ Begin(e) \/ SkipAutomation(e) \/ SkipUnauthorized(e) \/ LockContact(e)
  \/ LockBusy(e) \/ Finish(e) \/ SendMessage(e) \/ ReadAssignee(e)
  \/ ApplyAssign(e) \/ ActionFails(e) \/ CountRun(e) \/ Pause(e) \/ Unlock(e)
  \/ CountThrows(e)

Next ==
  \/ EmitRoot \/ ExpireLock
  \/ \E a \in Autos : Toggle(a)
  \/ \E e \in Jobs : JobStep(e) \/ Stall(e)

\* Workers keep taking and running jobs.  The inputs are bounded, so it is not
\* needed that they are fair to each job.
Fairness == WF_vars(\E e \in Jobs : JobStep(e))

Spec == Init /\ [][Next]_vars /\ Fairness

-----------------------------------------------------------------------------
(* Properties *)

\* While a job runs actions it holds the contact's lock, unless the lock's TTL
\* ran out under it: nobody else's late release takes it away.
SectionIsLocked ==
  \A e \in Jobs : InSection(e) => lock = e \/ jobs[e].lost

\* No cascade goes deeper than the cap: events at the cap exist and run nothing.
CascadeBounded ==
  \A e \in Jobs :
    /\ jobs[e].depth <= MaxDepth
    /\ jobs[e].depth = MaxDepth => ~InSection(e)

\* "An automation with this many failed runs in a row gets paused": at the limit
\* it is disabled, or about to be; only a crash between the two updates leaves
\* it enabled.
LadderPauses ==
  \A a \in Autos :
    auto[a].enabled /\ auto[a].failures >= MaxFailures =>
      \/ a \in interrupted
      \/ \E e \in Jobs : jobs[e].pc = "pause" /\ Current(e) = a

Times(x) == Cardinality({i \in DOMAIN sent : sent[i] = x})

\* A job only repeats a message when one of its attempts failed or stalled.
RepeatedSendNeedsRetry ==
  \A i \in DOMAIN sent :
    Times(sent[i]) > 1 =>
      jobs[sent[i][1]].tries > 0 \/ jobs[sent[i][1]].stalls > 0

Ended(e) == jobs[e].pc \in {"completed", "failed"}

\* Cascades, retries and lock contention come to an end: every job does.
JobsEnd == <>[](\A e \in Jobs : Ended(e))

\* "Same automation can't appear twice in the same trace."
NoRepeatInTrace ==
  \A e \in Jobs : InSection(e) => Current(e) \notin jobs[e].path

\* "MUST be idempotent enough that a retry doesn't cause a second observable
\* mutation": no action of a job sends its message twice.
NoSecondMessage == \A i \in DOMAIN sent : Times(sent[i]) <= 1
=============================================================================
