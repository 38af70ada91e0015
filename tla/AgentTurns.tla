----------------------------- MODULE AgentTurns -----------------------------
(***************************************************************************)
(* Who answers one conversation, and when: the debounce in the inbound     *)
(* worker, the agent runs it starts, the runs a delegation chains to, the  *)
(* watchdog's delayed job and its fallback cron, and an operator who       *)
(* replies.  All of them act on the same conversation row.                 *)
(* The debounce lives in the memory of the process, the watchdog's job in  *)
(* Redis, the rest in Postgres: a restart forgets only the first.          *)
(***************************************************************************)
EXTENDS Naturals

CONSTANTS
  MaxMsgs,      \* bound: messages the customer sends
  MaxAttempts,  \* watchdog config maxAttempts
  MaxDepth,     \* MAX_CHAIN_DEPTH
  MaxUpsets     \* bound: restarts, delegations, and replies and pauses by operators

ASSUME TurnsAssumption ==
  /\ {MaxMsgs, MaxAttempts, MaxDepth, MaxUpsets} \subseteq Nat

Msgs == 1..MaxMsgs
Cron == 0
Schedulers == {Cron} \union Msgs   \* callers of scheduleCheck
Runs == {"main", "watchdog", "chain"}

VARIABLES
  got,       \* number of the customer's messages that are stored
  newest,    \* who sent the newest message: "customer" or "us"
  ai,        \* conversation.aiEnabled: "auto" for null or true, "off" for false
  attempts,  \* conversation.stuckAttempts
  stuck,     \* conversation.isStuck
  status,    \* conversation.status, of those that a run may serve
  hasJobId,  \* conversation.watchdogJobId is set
  disp,      \* the dispatch of each message to the agent
  timer,     \* pendingRuns has the conversation
  running,   \* running has it
  followup,  \* followupNeeded has it
  main,      \* fireAgentRun: where it is
  run,       \* the agent runs in flight
  read,      \* history: messages that a main run has read
  missed,    \* history: a message was dispatched in vain, or forgotten
  sched,     \* the scheduleCheck calls in flight
  cancelDue, cancelRemoved,   \* number of cancelCheck calls before and after
                              \* they removed the job
  job,       \* the BullMQ job watchdog-<conversation>
  wd,        \* the watchdog's processor: where it is and what it read
  upsets     \* number of restarts, delegations, replies and pauses

conv == <<got, newest, ai, attempts, stuck, status, hasJobId>>
debounce == <<disp, timer, running, followup, main, read, missed>>
watch == <<sched, cancelDue, cancelRemoved, job, wd>>
vars == <<conv, debounce, run, watch, upsets>>

Upset == upsets < MaxUpsets /\ upsets' = upsets + 1

Idle == [pc |-> "idle", depth |-> 0, replied |-> FALSE]
Started(d) == [pc |-> "start", depth |-> d, replied |-> FALSE]
NoCheck == [pc |-> "idle", at |-> 0]
NoJob == [state |-> "none", at |-> 0]

ConvTypes ==
  /\ got \in 0..MaxMsgs
  /\ newest \in {"customer", "us"}
  /\ ai \in {"auto", "off"}
  /\ attempts \in 0..MaxAttempts
  /\ status \in {"PENDING", "BOT"}
  /\ stuck \in BOOLEAN /\ hasJobId \in BOOLEAN

DebounceTypes ==
  /\ disp \in [Msgs -> {"none", "due", "done"}]
  /\ timer \in BOOLEAN /\ running \in BOOLEAN /\ followup \in BOOLEAN
  /\ main \in {"idle", "decide", "run", "end"}
  /\ read \in 0..got
  /\ missed \in BOOLEAN

RunStates ==
  [pc : {"idle", "start", "loop"}, depth : 0..MaxDepth, replied : BOOLEAN]

RunTypes ==
  /\ run \in [Runs -> RunStates]
  /\ upsets \in 0..MaxUpsets

WatchTypes ==
  /\ sched \in [Schedulers -> [pc : {"idle", "due", "add", "write"},
                               at : 0..MaxAttempts]]
  /\ cancelDue \in Nat /\ cancelRemoved \in Nat
  /\ job \in [state : {"none", "delayed", "active", "completed"},
              at : 0..MaxAttempts]
  /\ wd \in [pc : {"idle", "read", "decide", "route", "run"}, at : 0..MaxAttempts]

TypeOK == ConvTypes /\ DebounceTypes /\ RunTypes /\ WatchTypes

Init ==
  /\ got = 0 /\ read = 0
  /\ newest = "us"
  /\ ai = "auto"
  /\ attempts = 0
  /\ status = "PENDING"
  /\ stuck = FALSE /\ hasJobId = FALSE
  /\ disp = [m \in Msgs |-> "none"]
  /\ timer = FALSE /\ running = FALSE /\ followup = FALSE /\ missed = FALSE
  /\ main = "idle"
  /\ run = [r \in Runs |-> Idle]
  /\ sched = [c \in Schedulers |-> NoCheck]
  /\ cancelDue = 0 /\ cancelRemoved = 0
  /\ job = NoJob
  /\ wd = NoCheck
  /\ upsets = 0

-----------------------------------------------------------------------------
(* The inbound worker and the debounce *)

\* A message is stored; scheduleCheck and the dispatch are fired and forgotten.
Receive ==
  /\ got < MaxMsgs
  /\ got' = got + 1
  /\ newest' = "customer"
  /\ disp' = [disp EXCEPT ![got + 1] = "due"]
  /\ sched' = [sched EXCEPT ![got + 1].pc = "due"]
  /\ UNCHANGED <<ai, attempts, stuck, status, hasJobId, timer, running, followup,
                 main, read, missed, run, cancelDue, cancelRemoved, job, wd, upsets>>

\* scheduleAgentRun: while a run is in flight only a follow-up is noted.
ScheduleRun ==
  IF running
  THEN followup' = TRUE /\ UNCHANGED timer
  ELSE timer' = TRUE /\ UNCHANGED followup

\* tryAiAgent: the router may refuse, for one of the reasons outside the model
\* or because the operator switched the agent off.
Dispatch(m) ==
  /\ disp[m] = "due"
  /\ disp' = [disp EXCEPT ![m] = "done"]
  /\ \/ ai # "off" /\ ScheduleRun /\ UNCHANGED missed
     \/ missed' = TRUE /\ UNCHANGED <<timer, followup>>
  /\ UNCHANGED <<conv, running, main, read, run, watch, upsets>>

\* The debounce is over: fireAgentRun.
TimerFires ==
  /\ timer
  /\ timer' = FALSE
  /\ IF running THEN UNCHANGED <<running, followup, main>>
     ELSE running' = TRUE /\ followup' = FALSE /\ main' = "decide"
  /\ UNCHANGED <<conv, disp, read, missed, run, watch, upsets>>

\* The router is asked again before the run.  It may refuse; so may a query
\* that fails before the run has begun.
MainDecide ==
  /\ main = "decide"
  /\ \/ /\ ai # "off"
        /\ main' = "run"
        /\ run' = [run EXCEPT !["main"] = Started(0)]
        /\ UNCHANGED missed
     \/ main' = "end" /\ missed' = TRUE /\ UNCHANGED run
  /\ UNCHANGED <<conv, disp, timer, running, followup, read, watch, upsets>>

\* run() returned, whatever came of it: cancelCheck is fired and forgotten,
\* unless not even the failure of the run could be recorded and run() threw.
MainReturns ==
  /\ main = "run"
  /\ run["main"].pc = "idle"
  /\ main' = "end"
  /\ cancelDue' \in {cancelDue, cancelDue + 1}
  /\ UNCHANGED <<conv, disp, timer, running, followup, read, missed, run, sched,
                 cancelRemoved, job, wd, upsets>>

\* Mutant: the follow-up is dropped at the end.
MainEndsForgetful ==
  /\ main = "end"
  /\ main' = "idle"
  /\ running' = FALSE
  /\ followup' = FALSE
  /\ UNCHANGED <<conv, disp, timer, read, missed, run, watch, upsets>>

\* The finally block: a follow-up starts the debounce again.
MainEnds ==
  /\ main = "end"
  /\ main' = "idle"
  /\ running' = FALSE
  /\ timer' = (timer \/ followup)
  /\ followup' = FALSE
  /\ UNCHANGED <<conv, disp, read, missed, run, watch, upsets>>

-----------------------------------------------------------------------------
(* Agent runs: run() of the agent runner *)

\* An agent is chosen and the messages are read.  The conversation's agent may
\* have been deactivated: then the run ends without a word.
StartRun(r) ==
  /\ run[r].pc = "start"
  /\ \/ /\ run' = [run EXCEPT ![r].pc = "loop"]
        /\ read' = IF r = "main" THEN got ELSE read
        /\ UNCHANGED missed
     \/ /\ run' = [run EXCEPT ![r] = Idle]
        /\ missed' = (missed \/ r = "main")
        /\ UNCHANGED read
  /\ UNCHANGED <<conv, disp, timer, running, followup, main, watch, upsets>>

\* replyToConversation, once per run.
Reply(r) ==
  /\ run[r].pc = "loop"
  /\ ~run[r].replied
  /\ newest' = "us"
  /\ run' = [run EXCEPT ![r].replied = TRUE]
  /\ UNCHANGED <<got, ai, attempts, stuck, status, hasJobId, debounce, watch, upsets>>

\* The loop ends: the agent is done, gave no answer, or its model failed.
FinishRun(r) ==
  /\ run[r].pc = "loop"
  /\ run' = [run EXCEPT ![r] = Idle]
  /\ UNCHANGED <<conv, debounce, watch, upsets>>

\* The agent delegated: the run of the next agent is fired and forgotten.
ChainRun(r) ==
  /\ run[r].pc = "loop"
  /\ Upset
  /\ run[r].depth < MaxDepth
  /\ r = "chain" \/ run["chain"].pc = "idle"   \* bound: one chain at a time
  /\ run' = [run EXCEPT ![r] = Idle, !["chain"] = Started(run[r].depth + 1)]
  /\ UNCHANGED <<conv, debounce, watch>>

-----------------------------------------------------------------------------
(* WatchdogService *)

\* scheduleCheck reads the conversation.
ScheduleReads(c) ==
  /\ sched[c].pc = "due"
  /\ sched' = [sched EXCEPT ![c] =
                 IF ai = "off" THEN NoCheck ELSE [pc |-> "add", at |-> attempts]]
  /\ UNCHANGED <<conv, debounce, run, cancelDue, cancelRemoved, job, wd, upsets>>

\* The old job is removed and a new one is added.  An active job cannot be
\* removed (the error is swallowed), and its id makes the add a no-op.
ScheduleAdds(c) ==
  /\ sched[c].pc = "add"
  /\ job' = IF job.state = "active" THEN job
            ELSE [state |-> "delayed", at |-> sched[c].at]
  /\ sched' = [sched EXCEPT ![c].pc = "write"]
  /\ UNCHANGED <<conv, debounce, run, cancelDue, cancelRemoved, wd, upsets>>

ScheduleWrites(c) ==
  /\ sched[c].pc = "write"
  /\ hasJobId' = TRUE
  /\ sched' = [sched EXCEPT ![c] = NoCheck]
  /\ UNCHANGED <<got, newest, ai, attempts, stuck, status, debounce, run, cancelDue,
                 cancelRemoved, job, wd, upsets>>

\* cancelCheck removes the job, unless it is active.
CancelRemoves ==
  /\ cancelDue > 0
  /\ cancelDue' = cancelDue - 1
  /\ cancelRemoved' = cancelRemoved + 1
  /\ job' = IF job.state = "active" THEN job ELSE NoJob
  /\ UNCHANGED <<conv, debounce, run, sched, wd, upsets>>

\* It then declares the conversation not stuck.
CancelWrites ==
  /\ cancelRemoved > 0
  /\ cancelRemoved' = cancelRemoved - 1
  /\ hasJobId' = FALSE
  /\ attempts' = 0
  /\ stuck' = FALSE
  /\ UNCHANGED <<got, newest, ai, status, debounce, run, sched, cancelDue, job, wd,
                 upsets>>

-----------------------------------------------------------------------------
(* The watchdog's processor *)

Complete == [job EXCEPT !.state = "completed"]

\* The delay is over and a worker takes the job.
CheckTaken ==
  /\ job.state = "delayed"
  /\ job' = [job EXCEPT !.state = "active"]
  /\ wd' = [pc |-> "read", at |-> 0]
  /\ UNCHANGED <<conv, debounce, run, sched, cancelDue, cancelRemoved, upsets>>

\* Outside business hours, or with the agent off, only the job id is cleared.
CheckSkips ==
  /\ wd.pc = "read"
  /\ hasJobId' = FALSE
  /\ job' = Complete
  /\ wd' = NoCheck
  /\ UNCHANGED <<got, newest, ai, attempts, stuck, status, debounce, run, sched,
                 cancelDue, cancelRemoved, upsets>>

\* The conversation is read.
CheckReads ==
  /\ wd.pc = "read"
  /\ ai # "off"
  /\ wd' = [pc |-> "decide", at |-> attempts]
  /\ UNCHANGED <<conv, debounce, run, sched, cancelDue, cancelRemoved, job, upsets>>

\* What was read may be old by now: the customer has an answer, or another path
\* has counted an attempt.
CheckIsStale ==
  /\ wd.pc = "decide"
  /\ newest = "us" \/ wd.at > job.at
  /\ hasJobId' = FALSE
  /\ job' = Complete
  /\ wd' = NoCheck
  /\ UNCHANGED <<got, newest, ai, attempts, stuck, status, debounce, run, sched,
                 cancelDue, cancelRemoved, upsets>>

\* The attempts are used up: the conversation is stuck.
MarkStuck ==
  /\ wd.pc = "decide"
  /\ newest = "customer" /\ wd.at <= job.at
  /\ wd.at + 1 > MaxAttempts
  /\ stuck' = TRUE
  /\ status' = "PENDING"
  /\ hasJobId' = FALSE
  /\ job' = Complete
  /\ wd' = NoCheck
  /\ UNCHANGED <<got, newest, ai, attempts, debounce, run, sched, cancelDue,
                 cancelRemoved, upsets>>

\* Mutant: the attempt is counted only by a run that answers.
AttemptNotCounted ==
  /\ wd.pc = "decide"
  /\ newest = "customer" /\ wd.at <= job.at
  /\ wd.at + 1 <= MaxAttempts
  /\ hasJobId' = FALSE
  /\ wd' = [wd EXCEPT !.pc = "route"]
  /\ UNCHANGED <<got, newest, ai, attempts, stuck, status, debounce, run, sched,
                 cancelDue, cancelRemoved, job, upsets>>

\* The attempt is counted before it is made.
CountAttempt ==
  /\ wd.pc = "decide"
  /\ newest = "customer" /\ wd.at <= job.at
  /\ wd.at + 1 <= MaxAttempts
  /\ attempts' = wd.at + 1
  /\ hasJobId' = FALSE
  /\ wd' = [wd EXCEPT !.pc = "route"]
  /\ UNCHANGED <<got, newest, ai, stuck, status, debounce, run, sched, cancelDue,
                 cancelRemoved, job, upsets>>

\* The router is asked; then the agent runs, unless the router refuses.
CheckRoutes ==
  /\ wd.pc = "route"
  /\ \/ /\ ai # "off"
        /\ status' = "BOT"
        /\ run' = [run EXCEPT !["watchdog"] = Started(0)]
        /\ wd' = [wd EXCEPT !.pc = "run"]
        /\ UNCHANGED job
     \/ /\ job' = Complete
        /\ wd' = NoCheck
        /\ UNCHANGED <<run, status>>
  /\ UNCHANGED <<got, newest, ai, attempts, stuck, hasJobId, debounce, sched,
                 cancelDue, cancelRemoved, upsets>>

\* The run is over, whatever came of it.
CheckEnds ==
  /\ wd.pc = "run"
  /\ run["watchdog"].pc = "idle"
  /\ job' = Complete
  /\ wd' = NoCheck
  /\ UNCHANGED <<conv, debounce, run, sched, cancelDue, cancelRemoved, upsets>>

\* BullMQ keeps the last completed jobs only; every tick of the cron, a job of
\* the same queue, completes one more.
ForgetJob ==
  /\ job.state = "completed"
  /\ job' = NoJob
  /\ UNCHANGED <<conv, debounce, run, sched, cancelDue, cancelRemoved, wd, upsets>>

\* The fallback cron finds a conversation that waits and has no job.
CronScan ==
  /\ sched[Cron].pc = "idle"
  /\ ~stuck /\ ai # "off" /\ newest = "customer"
  /\ ~hasJobId \/ job.state = "none"
  /\ sched' = [sched EXCEPT ![Cron].pc = "due"]
  /\ UNCHANGED <<conv, debounce, run, cancelDue, cancelRemoved, job, wd, upsets>>

-----------------------------------------------------------------------------
(* The operator, and restarts *)

\* MessagesService.send: cancelCheck is fired, and the agent is paused, unless
\* the organisation or the conversation has it otherwise.  An answer from the
\* phone, whose echo the inbound worker stores, does the same without the pause.
OperatorReplies ==
  /\ Upset
  /\ newest' = "us"
  /\ ai' \in {ai, "off"}
  /\ cancelDue' = cancelDue + 1
  /\ UNCHANGED <<got, attempts, stuck, status, hasJobId, debounce, run, sched,
                 cancelRemoved, job, wd>>

\* The operator pauses the agent, or hands the conversation back to it.
ToggleAi ==
  /\ \/ ai = "auto" /\ ai' = "off" /\ Upset
     \/ ai = "off" /\ ai' = "auto" /\ UNCHANGED upsets
  /\ UNCHANGED <<got, newest, attempts, stuck, status, hasJobId, debounce, run, watch>>

\* The process restarts: what was in its memory is gone, and BullMQ runs the
\* active job again.
Restart ==
  /\ Upset
  /\ timer' = FALSE /\ running' = FALSE /\ followup' = FALSE
  /\ main' = "idle"
  /\ missed' = TRUE
  /\ run' = [r \in Runs |-> Idle]
  /\ disp' = [m \in Msgs |-> IF disp[m] = "due" THEN "done" ELSE disp[m]]
  /\ sched' = [c \in Schedulers |-> NoCheck]
  /\ cancelDue' = 0 /\ cancelRemoved' = 0
  /\ job' = IF job.state = "active" THEN [job EXCEPT !.state = "delayed"] ELSE job
  /\ wd' = NoCheck
  /\ UNCHANGED <<conv, read>>

-----------------------------------------------------------------------------

MainSteps == TimerFires \/ MainDecide \/ MainReturns \/ MainEnds
CancelSteps == CancelRemoves \/ CancelWrites
CheckSteps ==
  CheckTaken \/ CheckIsStale \/ MarkStuck \/ CountAttempt \/ CheckRoutes \/ CheckEnds
ScheduleSteps(c) == ScheduleReads(c) \/ ScheduleAdds(c) \/ ScheduleWrites(c)
RunEnds(r) == StartRun(r) \/ FinishRun(r)

Next ==
  \/ Receive \/ MainSteps \/ CancelSteps \/ CheckSteps
  \/ CheckReads \/ CheckSkips \/ ForgetJob \/ CronScan
  \/ OperatorReplies \/ ToggleAi \/ Restart
  \/ \E m \in Msgs : Dispatch(m)
  \/ \E c \in Schedulers : ScheduleSteps(c)
  \/ \E r \in Runs : RunEnds(r) \/ Reply(r) \/ ChainRun(r)

\* The process runs what it started, timers fire, the queue delivers and trims,
\* and the cron ticks.  Business hours come again and again.  The model owes no
\* answer, the operator and the customer nothing.
Fairness ==
  /\ WF_vars(MainSteps) /\ WF_vars(CancelSteps) /\ WF_vars(CheckSteps)
  /\ WF_vars(ForgetJob) /\ WF_vars(CronScan)
  /\ SF_vars(CheckReads)
  /\ \A m \in Msgs : WF_vars(Dispatch(m))
  /\ \A c \in Schedulers : WF_vars(ScheduleSteps(c))
  /\ \A r \in Runs : WF_vars(RunEnds(r))

Spec == Init /\ [][Next]_vars /\ Fairness

-----------------------------------------------------------------------------
(* Properties *)

\* A message that arrives while a run is in flight is not forgotten: unless the
\* router refused or the process restarted, every dispatched message was read by
\* a run of the debounce or will be by one that is still to read.
EveryMessageIsRead ==
  ~missed =>
    \A m \in Msgs : disp[m] = "done" =>
      \/ m <= read
      \/ timer \/ followup
      \/ main = "decide" \/ run["main"].pc = "start"

\* A conversation does not wait for ever without anybody knowing: in the end it
\* is answered, marked stuck for the operators, or the agent is off.
EndsAnsweredOrStuck ==
  <>[](newest = "us" \/ stuck \/ ai = "off")

\* "Conversations with an agent run currently in flight.  While set, new inbound
\* messages just flag followupNeeded instead of starting a parallel run."
NoParallelRuns ==
  \A r, q \in Runs : r # q => run[r].pc = "idle" \/ run[q].pc = "idle"

\* cancelCheck is "called when the agent or a human sends an outbound message":
\* a stuck conversation stays stuck until somebody answers.
StuckUntilAnswered == [][stuck /\ ~stuck' => newest = "us"]_vars
=============================================================================
