--------------------------- MODULE InboundPipeline ---------------------------
(***************************************************************************)
(* The inbound message pipeline: a provider posts webhooks, the gateway    *)
(* logs each one and queues a job per message, and concurrent workers turn *)
(* the jobs into message rows, outbox events and bot or agent dispatches.  *)
(*                                                                         *)
(* A delivery is one webhook payload routed to one channel.  Providers     *)
(* deliver at least once, so several deliveries may carry the same         *)
(* message.  A job is a pair <<delivery, message>>.  Every await of the    *)
(* worker is a step of its own; an attempt may fail at each of them, or    *)
(* its process may die there.                                              *)
(***************************************************************************)
EXTENDS Naturals, FiniteSets

CONSTANTS
  Deliveries,    \* webhook payloads the provider may post
  Msgs,          \* messages, named by the provider's externalMessageId
  Carries,       \* Carries[d]: the messages parsed out of delivery d
  EchoMsgs,      \* the messages that are echoes of what the team itself sent
  AnonMsgs,      \* the messages whose externalMessageId is empty
  Convs,         \* conversations of the contact, numbered in order of creation
  MaxAttempts,   \* the "attempts" option of the queued job
  MaxStalls,     \* BullMQ's maxStalledCount
  MaxExpiries    \* bound: how often a claim may outlive its 24 hours

Jobs == {j \in Deliveries \X Msgs : j[2] \in Carries[j[1]]}

ASSUME ConstantsAssumption ==
  /\ Carries \in [Deliveries -> SUBSET Msgs]
  /\ EchoMsgs \subseteq Msgs
  /\ AnonMsgs \subseteq Msgs
  /\ Convs \subseteq Nat
  /\ 1 \in Convs
  /\ MaxAttempts \in Nat \ {0}
  /\ MaxStalls \in Nat
  /\ MaxExpiries \in Nat

VARIABLES
  event,      \* webhook_events.status of each delivery ("NONE": no row)
  gw,         \* where the gateway's HTTP handler is with each delivery
  pc,         \* job state, and where the attempt is while it is active
  failures,   \* failed attempts of each job
  stalls,     \* times each job was found stalled
  conv,       \* conversationId of an attempt, from resolve to persist (0: none)
  claim,      \* claim[m]: the Redis key idemp:<channel>:<m> exists
  rows,       \* message rows: [conv, msg, copy]
  outbox,     \* rows for which a MESSAGE_RECEIVED outbox event was written
  bots,       \* chatbot jobs queued for each message
  runs,       \* agent dispatches made for each message
  expiries,   \* history: how often each claim expired
  faulted,    \* history: messages one of whose attempts failed or died
  curConv     \* conversation the contact's messages resolve to

vars == <<event, gw, pc, failures, stalls, conv, claim, rows, outbox, bots,
          runs, expiries, faulted, curConv>>

\* The steps of an attempt between winning the claim and the end of process().
Section == {"resolve", "persist", "route", "mark", "dispatch"}
\* The steps at which an exception reaches the catch block of process().
MayThrow == {"resolve", "persist", "route"}
Active == Section \union {"start", "catch", "rethrow"}
Terminal == {"completed", "failed"}
JobStates == Active \union Terminal \union {"absent", "waiting"}
EventStatus == {"NONE", "RECEIVED", "PROCESSED", "FAILED", "UNROUTED"}
GatewayStates == {"new", "enqueue", "acked", "aborted", "rejected"}

JobsOf(m) == {j \in Jobs : j[2] = m}
InSection(m) == \E j \in JobsOf(m) : pc[j] \in Section
Identified == Msgs \ AnonMsgs

\* A row is keyed by (conversation, externalId).  NULL external ids are never
\* equal to each other, so an anonymous message gets a row per delivery.
RowOf(j, c) ==
  [conv |-> c, msg |-> j[2], copy |-> IF j[2] \in AnonMsgs THEN j[1] ELSE "one"]

RowSpace ==
  [conv : Convs, msg : Msgs, copy : Deliveries \union {"one"}]

TypeOK ==
  /\ event \in [Deliveries -> EventStatus]
  /\ gw \in [Deliveries -> GatewayStates]
  /\ pc \in [Jobs -> JobStates]
  /\ failures \in [Jobs -> 0..MaxAttempts]
  /\ stalls \in [Jobs -> 0..(MaxStalls + 1)]
  /\ conv \in [Jobs -> Convs \union {0}]
  /\ claim \in [Msgs -> BOOLEAN]
  /\ rows \subseteq RowSpace
  /\ outbox \subseteq RowSpace
  /\ bots \in [Msgs -> Nat]
  /\ runs \in [Msgs -> Nat]
  /\ expiries \in [Msgs -> Nat]
  /\ faulted \subseteq Msgs
  /\ curConv \in Convs

Init ==
  /\ event = [d \in Deliveries |-> "NONE"]
  /\ gw = [d \in Deliveries |-> "new"]
  /\ pc = [j \in Jobs |-> "absent"]
  /\ failures = [j \in Jobs |-> 0]
  /\ stalls = [j \in Jobs |-> 0]
  /\ conv = [j \in Jobs |-> 0]
  /\ claim = [m \in Msgs |-> FALSE]
  /\ rows = {}
  /\ outbox = {}
  /\ bots = [m \in Msgs |-> 0]
  /\ runs = [m \in Msgs |-> 0]
  /\ expiries = [m \in Msgs |-> 0]
  /\ faulted = {}
  /\ curConv = 1

-----------------------------------------------------------------------------
(* The webhook gateway *)

gatewayUnchanged ==
  UNCHANGED <<failures, stalls, conv, claim, rows, outbox, bots, runs,
              expiries, faulted, curConv>>

\* No channel matches the payload: log it for audit (a failing insert is only
\* logged) and answer 200.
RecordUnrouted(d) ==
  /\ gw[d] = "new"
  /\ gw' = [gw EXCEPT ![d] = "rejected"]
  /\ event' \in {event, [event EXCEPT ![d] = "UNROUTED"]}
  /\ UNCHANGED pc
  /\ gatewayUnchanged

\* The signature is invalid: the channel is skipped before anything is logged.
RejectSignature(d) ==
  /\ gw[d] = "new"
  /\ gw' = [gw EXCEPT ![d] = "rejected"]
  /\ UNCHANGED <<event, pc>>
  /\ gatewayUnchanged

\* The raw payload is logged before anything is queued; when the insert fails
\* the gateway goes on without an event id.
RecordWebhook(d) ==
  /\ gw[d] = "new"
  /\ gw' = [gw EXCEPT ![d] = "enqueue"]
  /\ event' \in {event, [event EXCEPT ![d] = "RECEIVED"]}
  /\ UNCHANGED pc
  /\ gatewayUnchanged

\* One inboundQueue.add of the loop over the parsed messages.
EnqueueInbound(j) ==
  /\ gw[j[1]] = "enqueue"
  /\ pc[j] = "absent"
  /\ pc' = [pc EXCEPT ![j] = "waiting"]
  /\ UNCHANGED <<event, gw>>
  /\ gatewayUnchanged

\* Mutant: the 200 is sent before the loop over the messages is through.
AnswerEarly(d) ==
  /\ gw[d] = "enqueue"
  /\ gw' = [gw EXCEPT ![d] = "acked"]
  /\ UNCHANGED <<event, pc>>
  /\ gatewayUnchanged

\* Every parsed message is queued: the provider gets its 200.
AnswerOk(d) ==
  /\ gw[d] = "enqueue"
  /\ \A m \in Carries[d] : pc[<<d, m>>] # "absent"
  /\ gw' = [gw EXCEPT ![d] = "acked"]
  /\ UNCHANGED <<event, pc>>
  /\ gatewayUnchanged

\* The handler throws or its process dies between two adds: no 200 is sent.
AbortWebhook(d) ==
  /\ gw[d] = "enqueue"
  /\ gw' = [gw EXCEPT ![d] = "aborted"]
  /\ UNCHANGED <<event, pc>>
  /\ gatewayUnchanged

-----------------------------------------------------------------------------
(* The inbound worker *)

\* webhookEvents.markProcessed / markFailed: nothing without an event id, and a
\* failing update is swallowed.
MarkWebhook(d, status) ==
  IF event[d] = "NONE"
  THEN UNCHANGED event
  ELSE event' \in {event, [event EXCEPT ![d] = status]}

\* The queue hands a waiting job to a worker.
TakeJob(j) ==
  /\ pc[j] = "waiting"
  /\ pc' = [pc EXCEPT ![j] = "start"]
  /\ UNCHANGED <<event, gw, failures, stalls, conv, claim, rows, outbox, bots,
                 runs, expiries, faulted, curConv>>

\* Mutant: the duplicate test and the claim are two calls (EXISTS, then SET).
ClaimNotAtomic(j) ==
  /\ pc[j] = "start"
  /\ ~claim[j[2]] \/ InSection(j[2])
  /\ pc' = [pc EXCEPT ![j] = "resolve"]
  /\ claim' = [claim EXCEPT ![j[2]] = TRUE]
  /\ UNCHANGED <<event, gw, failures, stalls, conv, rows, outbox, bots, runs,
                 expiries, faulted, curConv>>

\* claimProcessing is SET NX: exactly one caller wins an identified message.  A
\* message without an id is never claimed and always proceeds.
ClaimProcessing(j) ==
  /\ pc[j] = "start"
  /\ ~claim[j[2]]
  /\ pc' = [pc EXCEPT ![j] = "resolve"]
  /\ claim' = [claim EXCEPT ![j[2]] = j[2] \notin AnonMsgs]
  /\ UNCHANGED <<event, gw, failures, stalls, conv, rows, outbox, bots, runs,
                 expiries, faulted, curConv>>

\* Mutant: the duplicate is logged but processing goes on past the claim.
SkipFallsThrough(j) ==
  /\ pc[j] = "start"
  /\ claim[j[2]]
  /\ MarkWebhook(j[1], "PROCESSED")
  /\ pc' = [pc EXCEPT ![j] = "dispatch"]
  /\ UNCHANGED <<gw, failures, stalls, conv, claim, rows, outbox, bots, runs,
                 expiries, faulted, curConv>>

\* The claim was lost: mark the delivery PROCESSED and complete the job with
\* { skipped: true, reason: 'duplicate_claim' }.
SkipDuplicate(j) ==
  /\ pc[j] = "start"
  /\ claim[j[2]]
  /\ MarkWebhook(j[1], "PROCESSED")
  /\ pc' = [pc EXCEPT ![j] = "completed"]
  /\ UNCHANGED <<gw, failures, stalls, conv, claim, rows, outbox, bots, runs,
                 expiries, faulted, curConv>>

\* Mutant: a message of a known contact returns before anything is persisted.
ResolveReturnsEarly(j) ==
  /\ pc[j] = "resolve"
  /\ conv' = [conv EXCEPT ![j] = curConv]
  /\ pc' = [pc EXCEPT ![j] = IF rows = {} THEN "persist" ELSE "mark"]
  /\ UNCHANGED <<event, gw, failures, stalls, claim, rows, outbox, bots, runs,
                 expiries, faulted, curConv>>

\* The contact, its enrichment (fire and forget) and the conversation.
Resolve(j) ==
  /\ pc[j] = "resolve"
  /\ conv' = [conv EXCEPT ![j] = curConv]
  /\ pc' = [pc EXCEPT ![j] = "persist"]
  /\ UNCHANGED <<event, gw, failures, stalls, claim, rows, outbox, bots, runs,
                 expiries, faulted, curConv>>

\* Mutant: the outbox event is written for every copy that reaches the
\* transaction, echoes of our own messages included.
PersistEmitsEchoes(j) ==
  /\ pc[j] = "persist"
  /\ rows' = rows \union {RowOf(j, conv[j])}
  /\ outbox' = outbox \union {RowOf(j, conv[j])}
  /\ conv' = [conv EXCEPT ![j] = 0]
  /\ pc' = [pc EXCEPT ![j] = "route"]
  /\ UNCHANGED <<event, gw, failures, stalls, claim, bots, runs,
                 expiries, faulted, curConv>>

\* One transaction: upsert of the row by (conversation, externalId) and, when
\* the row is new and inbound, the MESSAGE_RECEIVED outbox event.
Persist(j) ==
  LET row == RowOf(j, conv[j]) IN
  /\ pc[j] = "persist"
  /\ rows' = rows \union {row}
  /\ outbox' = IF row \notin rows /\ j[2] \notin EchoMsgs
               THEN outbox \union {row} ELSE outbox
  /\ conv' = [conv EXCEPT ![j] = 0]
  /\ pc' = [pc EXCEPT ![j] = "route"]
  /\ UNCHANGED <<event, gw, failures, stalls, claim, bots, runs,
                 expiries, faulted, curConv>>

\* Bot routing: a customer's message of a BOT or PENDING conversation whose
\* channel has an active bot is queued for the chatbot.  Status and bot belong
\* to other components, so either outcome may happen.
RouteToBot(j) ==
  /\ pc[j] = "route"
  /\ bots' \in {bots} \union
       IF j[2] \in EchoMsgs THEN {}
       ELSE {[bots EXCEPT ![j[2]] = @ + 1]}
  /\ pc' = [pc EXCEPT ![j] = "mark"]
  /\ UNCHANGED <<event, gw, failures, stalls, conv, claim, rows, outbox, runs,
                 expiries, faulted, curConv>>

MarkProcessed(j) ==
  /\ pc[j] = "mark"
  /\ MarkWebhook(j[1], "PROCESSED")
  /\ pc' = [pc EXCEPT ![j] = "dispatch"]
  /\ UNCHANGED <<gw, failures, stalls, conv, claim, rows, outbox, bots, runs,
                 expiries, faulted, curConv>>

\* Fire and forget: watchdog timer, sales recovery and, for a customer's
\* message, the agent dispatch.  The job completes.
Dispatch(j) ==
  /\ pc[j] = "dispatch"
  /\ runs' = IF j[2] \in EchoMsgs THEN runs ELSE [runs EXCEPT ![j[2]] = @ + 1]
  /\ pc' = [pc EXCEPT ![j] = "completed"]
  /\ UNCHANGED <<event, gw, failures, stalls, conv, claim, rows, outbox, bots,
                 expiries, faulted, curConv>>

\* One of the awaits throws; an open transaction rolls back.
Throw(j) ==
  /\ pc[j] \in MayThrow
  /\ pc' = [pc EXCEPT ![j] = "catch"]
  /\ conv' = [conv EXCEPT ![j] = 0]
  /\ faulted' = faulted \union {j[2]}
  /\ UNCHANGED <<event, gw, failures, stalls, claim, rows, outbox, bots,
                 runs, expiries, curConv>>

CatchMarkFailed(j) ==
  /\ pc[j] = "catch"
  /\ MarkWebhook(j[1], "FAILED")
  /\ pc' = [pc EXCEPT ![j] = "rethrow"]
  /\ UNCHANGED <<gw, failures, stalls, conv, claim, rows, outbox, bots, runs,
                 expiries, faulted, curConv>>

\* The catch block calls idempotency.markProcessed, which SETs the key, and
\* rethrows; the queue retries until the attempts are used up.
Rethrow(j) ==
  /\ pc[j] = "rethrow"
  /\ claim' = [claim EXCEPT ![j[2]] = j[2] \notin AnonMsgs]
  /\ failures' = [failures EXCEPT ![j] = @ + 1]
  /\ pc' = [pc EXCEPT ![j] =
              IF failures[j] + 1 < MaxAttempts THEN "waiting" ELSE "failed"]
  /\ UNCHANGED <<event, gw, stalls, conv, rows, outbox, bots, runs, expiries,
                 faulted, curConv>>

\* The worker process dies.  BullMQ finds the job stalled and queues it again,
\* or fails it when it stalled too often.
Stall(j) ==
  /\ pc[j] \in Active
  /\ stalls[j] <= MaxStalls
  /\ stalls' = [stalls EXCEPT ![j] = @ + 1]
  /\ pc' = [pc EXCEPT ![j] =
              IF stalls[j] < MaxStalls THEN "waiting" ELSE "failed"]
  /\ conv' = [conv EXCEPT ![j] = 0]
  /\ faulted' = faulted \union {j[2]}
  /\ UNCHANGED <<event, gw, failures, claim, rows, outbox, bots, runs,
                 expiries, curConv>>

-----------------------------------------------------------------------------
(* The environment *)

\* 24 hours pass and Redis drops the key; no attempt lives that long.
ExpireClaim(m) ==
  /\ claim[m]
  /\ ~InSection(m)
  /\ expiries[m] < MaxExpiries
  /\ claim' = [claim EXCEPT ![m] = FALSE]
  /\ expiries' = [expiries EXCEPT ![m] = @ + 1]
  /\ UNCHANGED <<event, gw, pc, failures, stalls, conv, rows, outbox, bots,
                 runs, faulted, curConv>>

\* The conversation is closed and its reopen window passes: the contact's next
\* message resolves to a new one.
StartNewConversation ==
  /\ curConv + 1 \in Convs
  /\ curConv' = curConv + 1
  /\ UNCHANGED <<event, gw, pc, failures, stalls, conv, claim, rows, outbox,
                 bots, runs, expiries, faulted>>

GatewayStep(d) ==
  RecordUnrouted(d) \/ RejectSignature(d) \/ RecordWebhook(d) \/ AnswerOk(d)
    \/ AbortWebhook(d)

WorkerStep(j) ==
  \/ TakeJob(j) \/ ClaimProcessing(j) \/ SkipDuplicate(j) \/ Resolve(j)
  \/ Persist(j) \/ RouteToBot(j) \/ MarkProcessed(j) \/ Dispatch(j)
  \/ CatchMarkFailed(j) \/ Rethrow(j)

Next ==
  \/ \E d \in Deliveries : GatewayStep(d)
  \/ \E j \in Jobs : EnqueueInbound(j) \/ WorkerStep(j) \/ Throw(j) \/ Stall(j)
  \/ \E m \in Msgs : ExpireClaim(m)
  \/ StartNewConversation

\* Ten workers per process keep taking and running jobs, and the HTTP handler
\* runs to an end.  Exceptions, crashes and expiries need not happen.
Fairness ==
  /\ \A j \in Jobs : WF_vars(WorkerStep(j)) /\ WF_vars(EnqueueInbound(j))
  /\ \A d \in Deliveries : WF_vars(AnswerOk(d))

Spec == Init /\ [][Next]_vars /\ Fairness

-----------------------------------------------------------------------------
(* Properties *)

\* At most one attempt at a time is between the claim and the end of process()
\* for an identified message, whichever deliveries its jobs came from.
OneWorkerPerMessage ==
  \A m \in Identified : \A j, k \in JobsOf(m) :
    pc[j] \in Section /\ pc[k] \in Section => j = k

\* Redeliveries, retries and crashes never hand a message to the chatbot or to
\* the agent twice; only a claim that outlived its 24 hours allows another go.
DispatchedOnce ==
  \A m \in Identified :
    bots[m] <= 1 + expiries[m] /\ runs[m] <= 1 + expiries[m]

\* A message has one row, even when the conversation it resolves to changes
\* between two deliveries; only an expired claim allows a second row.
OneRowPerMessage ==
  \A m \in Identified :
    Cardinality({r \in rows : r.msg = m}) <= 1 + expiries[m]

\* The automation engine sees exactly the customer messages that exist: every
\* new inbound row has its outbox event and no other event is written.
OutboxMatchesRows == outbox = {r \in rows : r.msg \notin EchoMsgs}

\* Every job of m is over, one of them completed, and m has no row.
Lost(m) ==
  /\ \A j \in JobsOf(m) : pc[j] \in Terminal \union {"absent"}
  /\ \E j \in JobsOf(m) : pc[j] = "completed"
  /\ ~\E r \in rows : r.msg = m

\* Without an exception or a crash no message is lost: whoever skips a
\* duplicate leaves it to an attempt that persists it.
LossNeedsFault == \A m \in Msgs : Lost(m) => m \in faulted

\* The comment of the catch block: after a failure "retries can try again", so
\* a message is not lost.
NoLostMessage == \A m \in Msgs : ~Lost(m)

\* The comment of WebhookEventsService: status changes are append-only, from
\* RECEIVED to one of PROCESSED, FAILED, UNROUTED.
EventStatusAppendOnly ==
  [][\A d \in Deliveries :
       event[d] \in {"PROCESSED", "FAILED", "UNROUTED"} => event'[d] = event[d]]_vars

\* Every message of an acknowledged delivery is eventually dealt with: its job
\* completes or fails for good.
AckedIsDecided ==
  \A d \in Deliveries :
    (gw[d] = "acked") ~> (\A m \in Carries[d] : pc[<<d, m>>] \in Terminal)
=============================================================================
