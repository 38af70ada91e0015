------------------------ MODULE InboundPipelineProofs ------------------------
(***************************************************************************)
(* Proofs about InboundPipeline, for any deliveries, messages and bounds.  *)
(***************************************************************************)
EXTENDS InboundPipeline, FiniteSetTheorems, TLAPS

\* A job names one of the deliveries and one of the messages.
LEMMA JobParts ==
  ASSUME NEW j \in Jobs
  PROVE  j[1] \in Deliveries /\ j[2] \in Msgs
BY DEF Jobs

-----------------------------------------------------------------------------
(* Type correctness *)

\* What the types need: a job that has not failed has attempts and stalls left,
\* and an attempt about to persist has resolved its conversation.
JobBudget ==
  \A j \in Jobs :
    /\ pc[j] # "failed" => failures[j] < MaxAttempts
    /\ pc[j] = "persist" => conv[j] \in Convs

TypeInv == TypeOK /\ JobBudget

\* Marking a webhook event leaves every delivery with a legal status.
LEMMA MarkWebhookType ==
  ASSUME TypeOK, NEW d \in Deliveries, NEW s \in EventStatus, MarkWebhook(d, s)
  PROVE  event' \in [Deliveries -> EventStatus]
BY DEF TypeOK, MarkWebhook

\* Every step of the gateway, the workers and the environment keeps the types:
\* no job is attempted more than MaxAttempts times, none is requeued once it
\* stalled more than MaxStalls times, and rows name conversations that exist.
LEMMA TypeStep == TypeInv /\ [Next]_vars => TypeInv'
<1> SUFFICES ASSUME TypeInv, [Next]_vars PROVE TypeInv'
  OBVIOUS
<1> USE ConstantsAssumption DEF TypeInv, JobStates, Active, Section, Terminal
<1>1. ASSUME NEW d \in Deliveries, GatewayStep(d) PROVE TypeInv'
  BY <1>1 DEF TypeOK, JobBudget, GatewayStep, RecordUnrouted, RejectSignature,
       RecordWebhook, AnswerOk, AbortWebhook, gatewayUnchanged, EventStatus,
       GatewayStates
<1>2. ASSUME NEW j \in Jobs, EnqueueInbound(j) PROVE TypeInv'
  BY <1>2 DEF TypeOK, JobBudget, EnqueueInbound, gatewayUnchanged
<1>3. ASSUME NEW j \in Jobs, TakeJob(j) PROVE TypeInv'
  BY <1>3 DEF TypeOK, JobBudget, TakeJob
<1>4. ASSUME NEW j \in Jobs, ClaimProcessing(j) PROVE TypeInv'
  BY <1>4, JobParts DEF TypeOK, JobBudget, ClaimProcessing
<1>5. ASSUME NEW j \in Jobs, SkipDuplicate(j) PROVE TypeInv'
  <2>1. event' \in [Deliveries -> EventStatus]
    BY <1>5, JobParts, MarkWebhookType DEF SkipDuplicate, EventStatus
  <2> QED BY <1>5, <2>1 DEF TypeOK, JobBudget, SkipDuplicate
<1>6. ASSUME NEW j \in Jobs, Resolve(j) PROVE TypeInv'
  BY <1>6 DEF TypeOK, JobBudget, Resolve
<1>7. ASSUME NEW j \in Jobs, Persist(j) PROVE TypeInv'
  <2>1. RowOf(j, conv[j]) \in RowSpace
    BY <1>7, JobParts DEF TypeOK, JobBudget, Persist, RowOf, RowSpace
  <2>2. rows' \subseteq RowSpace /\ outbox' \subseteq RowSpace
    BY <1>7, <2>1 DEF TypeOK, Persist
  <2> QED BY <1>7, <2>2 DEF TypeOK, JobBudget, Persist
<1>8. ASSUME NEW j \in Jobs, RouteToBot(j) PROVE TypeInv'
  <2>1. bots' \in [Msgs -> Nat]
    BY <1>8, JobParts DEF TypeOK, RouteToBot
  <2> QED BY <1>8, <2>1 DEF TypeOK, JobBudget, RouteToBot
<1>9. ASSUME NEW j \in Jobs, MarkProcessed(j) PROVE TypeInv'
  <2>1. event' \in [Deliveries -> EventStatus]
    BY <1>9, JobParts, MarkWebhookType DEF MarkProcessed, EventStatus
  <2> QED BY <1>9, <2>1 DEF TypeOK, JobBudget, MarkProcessed
<1>10. ASSUME NEW j \in Jobs, Dispatch(j) PROVE TypeInv'
  BY <1>10, JobParts DEF TypeOK, JobBudget, Dispatch
<1>11. ASSUME NEW j \in Jobs, Throw(j) PROVE TypeInv'
  BY <1>11, JobParts DEF TypeOK, JobBudget, Throw, MayThrow
<1>12. ASSUME NEW j \in Jobs, CatchMarkFailed(j) PROVE TypeInv'
  <2>1. event' \in [Deliveries -> EventStatus]
    BY <1>12, JobParts, MarkWebhookType DEF CatchMarkFailed, EventStatus
  <2> QED BY <1>12, <2>1 DEF TypeOK, JobBudget, CatchMarkFailed
<1>13. ASSUME NEW j \in Jobs, Rethrow(j) PROVE TypeInv'
  BY <1>13, JobParts DEF TypeOK, JobBudget, Rethrow
<1>14. ASSUME NEW j \in Jobs, Stall(j) PROVE TypeInv'
  BY <1>14, JobParts DEF TypeOK, JobBudget, Stall
<1>15. ASSUME NEW m \in Msgs, ExpireClaim(m) PROVE TypeInv'
  BY <1>15 DEF TypeOK, JobBudget, ExpireClaim
<1>16. CASE StartNewConversation
  BY <1>16 DEF TypeOK, JobBudget, StartNewConversation
<1>17. CASE UNCHANGED vars
  BY <1>17 DEF TypeOK, JobBudget, vars
<1> QED
  BY <1>1, <1>2, <1>3, <1>4, <1>5, <1>6, <1>7, <1>8, <1>9, <1>10, <1>11,
     <1>12, <1>13, <1>14, <1>15, <1>16, <1>17 DEF Next, WorkerStep

\* TypeInv is an invariant: the later proofs use both of its parts.
LEMMA TypeInvCorrect == Spec => []TypeInv
<1>1. Init => TypeInv
  BY ConstantsAssumption DEF Init, TypeInv, TypeOK, JobBudget, JobStates,
       Active, Section, Terminal, EventStatus, GatewayStates, RowSpace
<1> QED BY <1>1, TypeStep, PTL DEF Spec

\* The pipeline's state is well typed in every reachable state: jobs, webhook
\* events, claims and rows only take the values the code gives them.
THEOREM TypeCorrect == Spec => []TypeOK
BY TypeInvCorrect, PTL DEF TypeInv

-----------------------------------------------------------------------------
(* One worker per message, one dispatch per message *)

\* Whoever is in the section of an identified message holds its claim.
SectionHoldsClaim ==
  \A m \in Identified : \A j \in JobsOf(m) : pc[j] \in Section => claim[m]

One(b) == IF b THEN 1 ELSE 0

\* The attempts of m that may still queue a chatbot job.
BeforeBot(m) == \E j \in JobsOf(m) : pc[j] \in MayThrow

\* A claim is worth one dispatch and an expiry gives the claim back, so the
\* dispatches made plus the one an attempt in the section may still make never
\* exceed the claims handed out.
DispatchBudget ==
  \A m \in Identified :
    /\ runs[m] + One(InSection(m)) <= expiries[m] + One(claim[m])
    /\ bots[m] + One(BeforeBot(m)) <= expiries[m] + One(claim[m])

ClaimInv == SectionHoldsClaim /\ OneWorkerPerMessage /\ DispatchBudget

\* ClaimInv does not depend on the gateway, the webhook log, the rows or the
\* outbox: a step that leaves the rest alone preserves it.
LEMMA ClaimInvFrame ==
  ASSUME ClaimInv, UNCHANGED <<pc, claim, bots, runs, expiries>>
  PROVE  ClaimInv'
BY DEF ClaimInv, SectionHoldsClaim, OneWorkerPerMessage, DispatchBudget,
     InSection, BeforeBot, JobsOf, One

\* A step of one job that stays out of the section, or leaves it, keeps
\* ClaimInv: the budget of its message can only get larger.
LEMMA ClaimInvLeave ==
  ASSUME TypeOK, ClaimInv, NEW j \in Jobs, NEW s \in JobStates,
         s \notin Section,
         pc' = [pc EXCEPT ![j] = s],
         UNCHANGED <<claim, bots, runs, expiries>>
  PROVE  ClaimInv'
<1> USE JobParts DEF TypeOK, JobsOf, Identified, MayThrow, Section
<1>1. SectionHoldsClaim'
  BY DEF ClaimInv, SectionHoldsClaim
<1>2. OneWorkerPerMessage'
  BY DEF ClaimInv, OneWorkerPerMessage
<1>3. DispatchBudget'
  <2> SUFFICES ASSUME NEW m \in Identified
      PROVE /\ runs[m] + One(InSection(m)') <= expiries[m] + One(claim[m])
            /\ bots[m] + One(BeforeBot(m)') <= expiries[m] + One(claim[m])
    BY DEF DispatchBudget, One
  <2>1. InSection(m)' => InSection(m)
    BY DEF InSection
  <2>2. BeforeBot(m)' => BeforeBot(m)
    BY DEF BeforeBot
  <2> QED BY <2>1, <2>2 DEF ClaimInv, DispatchBudget, One
<1> QED BY <1>1, <1>2, <1>3 DEF ClaimInv

\* Every step keeps ClaimInv.
LEMMA ClaimStep == TypeInv /\ ClaimInv /\ [Next]_vars => ClaimInv'
<1> SUFFICES ASSUME TypeInv, ClaimInv, [Next]_vars PROVE ClaimInv'
  OBVIOUS
<1> USE DEF TypeInv
<1>1. ASSUME NEW d \in Deliveries, GatewayStep(d) PROVE ClaimInv'
  BY <1>1, ClaimInvFrame DEF GatewayStep, RecordUnrouted, RejectSignature,
       RecordWebhook, AnswerOk, AbortWebhook, gatewayUnchanged
<1>2. ASSUME NEW j \in Jobs,
             EnqueueInbound(j) \/ TakeJob(j) \/ SkipDuplicate(j) \/ Throw(j)
               \/ CatchMarkFailed(j) \/ Stall(j)
      PROVE ClaimInv'
  <2>1. PICK s \in JobStates \ Section : pc' = [pc EXCEPT ![j] = s]
    BY <1>2 DEF EnqueueInbound, TakeJob, SkipDuplicate, Throw,
         CatchMarkFailed, Stall, JobStates, Active, Terminal, Section
  <2>2. UNCHANGED <<claim, bots, runs, expiries>>
    BY <1>2 DEF EnqueueInbound, gatewayUnchanged, TakeJob, SkipDuplicate,
         Throw, CatchMarkFailed, Stall
  <2> QED BY <2>1, <2>2, ClaimInvLeave
<1>3. ASSUME NEW j \in Jobs, ClaimProcessing(j) PROVE ClaimInv'
  <2> USE <1>3, JobParts DEF ClaimProcessing, TypeOK, JobsOf, Identified
  <2>1. SectionHoldsClaim'
    BY DEF ClaimInv, SectionHoldsClaim, Section
  <2>2. ASSUME j[2] \in Identified PROVE ~InSection(j[2])
    BY <2>2 DEF ClaimInv, SectionHoldsClaim, InSection
  <2>3. OneWorkerPerMessage'
    BY <2>2 DEF ClaimInv, OneWorkerPerMessage, InSection, Section
  <2>4. DispatchBudget'
    <3> SUFFICES ASSUME NEW m \in Identified
        PROVE /\ runs[m] + One(InSection(m)') <= expiries[m] + One(claim'[m])
              /\ bots[m] + One(BeforeBot(m)') <= expiries[m] + One(claim'[m])
      BY DEF DispatchBudget, One
    <3>1. CASE m = j[2]
      <4>1. ~InSection(m) /\ ~BeforeBot(m) /\ ~claim[m] /\ claim'[m]
        BY <3>1, <2>2 DEF InSection, BeforeBot, MayThrow, Section
      <4> QED BY <4>1 DEF ClaimInv, DispatchBudget, One
    <3>2. CASE m # j[2]
      <4>1. /\ InSection(m)' <=> InSection(m)
            /\ BeforeBot(m)' <=> BeforeBot(m)
            /\ claim'[m] = claim[m]
        BY <3>2 DEF InSection, BeforeBot
      <4> QED BY <4>1 DEF ClaimInv, DispatchBudget, One
    <3> QED BY <3>1, <3>2
  <2> QED BY <2>1, <2>3, <2>4 DEF ClaimInv
<1>4. ASSUME NEW j \in Jobs, Resolve(j) \/ Persist(j) \/ MarkProcessed(j)
      PROVE ClaimInv'
  <2> USE <1>4, JobParts DEF TypeOK, JobsOf, Identified, Section, MayThrow
  <2>1. /\ pc[j] \in Section /\ pc'[j] \in Section
        /\ pc[j] \in MayThrow <=> pc'[j] \in MayThrow
        /\ \A k \in Jobs : k # j => pc'[k] = pc[k]
        /\ UNCHANGED <<claim, bots, runs, expiries>>
    BY DEF Resolve, Persist, MarkProcessed
  <2>2. SectionHoldsClaim' /\ OneWorkerPerMessage'
    BY <2>1 DEF ClaimInv, SectionHoldsClaim, OneWorkerPerMessage
  <2>3. \A m \in Identified : /\ InSection(m)' <=> InSection(m)
                              /\ BeforeBot(m)' <=> BeforeBot(m)
    BY <2>1 DEF InSection, BeforeBot
  <2>4. DispatchBudget'
    BY <2>1, <2>3 DEF ClaimInv, DispatchBudget, One
  <2> QED BY <2>2, <2>4 DEF ClaimInv
<1>5. ASSUME NEW j \in Jobs, RouteToBot(j) PROVE ClaimInv'
  <2> USE <1>5, JobParts
          DEF RouteToBot, TypeOK, JobsOf, Identified, Section, MayThrow
  <2>1. SectionHoldsClaim' /\ OneWorkerPerMessage'
    BY DEF ClaimInv, SectionHoldsClaim, OneWorkerPerMessage
  <2>2. \A m \in Identified : InSection(m)' <=> InSection(m)
    BY DEF InSection
  <2>3. ASSUME NEW m \in Identified
        PROVE bots'[m] + One(BeforeBot(m)') <= expiries[m] + One(claim[m])
    <3>1. CASE m = j[2]
      <4>1. BeforeBot(m) /\ ~BeforeBot(m)'
        BY <3>1 DEF BeforeBot, ClaimInv, OneWorkerPerMessage
      <4>2. bots'[m] \in {bots[m], bots[m] + 1}
        BY <3>1
      <4> QED BY <4>1, <4>2 DEF ClaimInv, DispatchBudget, One
    <3>2. CASE m # j[2]
      <4>1. (BeforeBot(m)' <=> BeforeBot(m)) /\ bots'[m] = bots[m]
        BY <3>2 DEF BeforeBot
      <4> QED BY <4>1 DEF ClaimInv, DispatchBudget, One
    <3> QED BY <3>1, <3>2
  <2>4. DispatchBudget'
    BY <2>2, <2>3 DEF ClaimInv, DispatchBudget, One
  <2> QED BY <2>1, <2>4 DEF ClaimInv
<1>6. ASSUME NEW j \in Jobs, Dispatch(j) PROVE ClaimInv'
  <2> USE <1>6, JobParts
          DEF Dispatch, TypeOK, JobsOf, Identified, Section, MayThrow
  <2>1. SectionHoldsClaim' /\ OneWorkerPerMessage'
    BY DEF ClaimInv, SectionHoldsClaim, OneWorkerPerMessage
  <2>2. \A m \in Identified : BeforeBot(m)' <=> BeforeBot(m)
    BY DEF BeforeBot
  <2>3. ASSUME NEW m \in Identified
        PROVE runs'[m] + One(InSection(m)') <= expiries[m] + One(claim[m])
    <3>1. CASE m = j[2]
      <4>1. InSection(m) /\ ~InSection(m)'
        BY <3>1 DEF InSection, ClaimInv, OneWorkerPerMessage
      <4>2. runs'[m] \in {runs[m], runs[m] + 1}
        BY <3>1
      <4> QED BY <4>1, <4>2 DEF ClaimInv, DispatchBudget, One
    <3>2. CASE m # j[2]
      <4>1. (InSection(m)' <=> InSection(m)) /\ runs'[m] = runs[m]
        BY <3>2 DEF InSection
      <4> QED BY <4>1 DEF ClaimInv, DispatchBudget, One
    <3> QED BY <3>1, <3>2
  <2>4. DispatchBudget'
    BY <2>2, <2>3 DEF ClaimInv, DispatchBudget, One
  <2> QED BY <2>1, <2>4 DEF ClaimInv
<1>7. ASSUME NEW j \in Jobs, Rethrow(j) PROVE ClaimInv'
  <2> USE <1>7, JobParts
          DEF Rethrow, TypeOK, JobsOf, Identified, Section, MayThrow
  <2>1. SectionHoldsClaim' /\ OneWorkerPerMessage'
    BY DEF ClaimInv, SectionHoldsClaim, OneWorkerPerMessage
  <2>2. \A m \in Identified : /\ InSection(m)' => InSection(m)
                              /\ BeforeBot(m)' => BeforeBot(m)
                              /\ claim[m] => claim'[m]
    BY DEF InSection, BeforeBot
  <2>3. DispatchBudget'
    BY <2>2 DEF ClaimInv, DispatchBudget, One
  <2> QED BY <2>1, <2>3 DEF ClaimInv
<1>8. ASSUME NEW n \in Msgs, ExpireClaim(n) PROVE ClaimInv'
  <2> USE <1>8 DEF ExpireClaim, TypeOK, JobsOf, Identified
  <2>1. SectionHoldsClaim' /\ OneWorkerPerMessage'
    BY DEF ClaimInv, SectionHoldsClaim, OneWorkerPerMessage, InSection
  <2>2. \A m \in Identified : /\ InSection(m)' <=> InSection(m)
                              /\ BeforeBot(m)' <=> BeforeBot(m)
                              /\ BeforeBot(m) => InSection(m)
    BY DEF InSection, BeforeBot, Section, MayThrow
  <2>3. DispatchBudget'
    BY <2>2 DEF ClaimInv, DispatchBudget, One
  <2> QED BY <2>1, <2>3 DEF ClaimInv
<1>9. CASE StartNewConversation
  BY <1>9, ClaimInvFrame DEF StartNewConversation
<1>10. CASE UNCHANGED vars
  BY <1>10, ClaimInvFrame DEF vars
<1> QED
  BY <1>1, <1>2, <1>3, <1>4, <1>5, <1>6, <1>7, <1>8, <1>9, <1>10
     DEF Next, WorkerStep

\* ClaimInv, the strengthening of both theorems below, is an invariant.
LEMMA ClaimInvCorrect == Spec => []ClaimInv
<1>1. Init => ClaimInv
  BY DEF Init, ClaimInv, SectionHoldsClaim, OneWorkerPerMessage,
       DispatchBudget, InSection, BeforeBot, JobsOf, Identified, Section,
       MayThrow, One
<1> QED BY <1>1, ClaimStep, TypeInvCorrect, PTL DEF Spec

\* Whatever the provider redelivers and however attempts fail, stall and are
\* retried, two workers never process the same identified message at once.
THEOREM OneWorkerPerMessageCorrect == Spec => []OneWorkerPerMessage
BY ClaimInvCorrect, PTL DEF ClaimInv

\* A message is handed to the chatbot and to the agent at most once per claim.
THEOREM DispatchedOnceCorrect == Spec => []DispatchedOnce
<1>1. TypeInv /\ ClaimInv => DispatchedOnce
  BY DEF TypeInv, TypeOK, ClaimInv, DispatchBudget, DispatchedOnce, One,
       Identified
<1> QED BY <1>1, ClaimInvCorrect, TypeInvCorrect, PTL

-----------------------------------------------------------------------------
(* The outbox *)

\* The rows an automation may be triggered for are exactly the customer
\* messages that were persisted, at every moment: the row and its event commit
\* together.
THEOREM OutboxMatchesRowsCorrect == Spec => []OutboxMatchesRows
<1>1. Init => OutboxMatchesRows
  BY DEF Init, OutboxMatchesRows
<1>2. OutboxMatchesRows /\ [Next]_vars => OutboxMatchesRows'
  <2> SUFFICES ASSUME OutboxMatchesRows, [Next]_vars PROVE OutboxMatchesRows'
    OBVIOUS
  <2>1. ASSUME NEW j \in Jobs, Persist(j) PROVE OutboxMatchesRows'
    <3>1. RowOf(j, conv[j]).msg = j[2]
      BY DEF RowOf
    <3> QED BY <2>1, <3>1 DEF Persist, OutboxMatchesRows
  <2>2. CASE UNCHANGED <<rows, outbox>>
    BY <2>2 DEF OutboxMatchesRows
  <2> QED
    BY <2>1, <2>2 DEF Next, vars, GatewayStep, RecordUnrouted,
       RejectSignature, RecordWebhook, AnswerOk, AbortWebhook,
       gatewayUnchanged, EnqueueInbound, WorkerStep, TakeJob, ClaimProcessing,
       SkipDuplicate, Resolve, RouteToBot, MarkProcessed, Dispatch,
       CatchMarkFailed, Rethrow, Throw, Stall, ExpireClaim,
       StartNewConversation
<1> QED BY <1>1, <1>2, PTL DEF Spec

-----------------------------------------------------------------------------
(* A message is not lost without a fault *)

HasRow(m) == \E r \in rows : r.msg = m

\* An attempt that will persist m, unless it throws or dies.
WillPersist(m) == \E k \in JobsOf(m) : pc[k] \in {"resolve", "persist"}

\* While no attempt of m failed or died: whoever holds the claim has persisted m
\* or is about to, and so has every job that completed, a skipped duplicate
\* included.
LossInv ==
  \A m \in Msgs : m \notin faulted =>
    /\ claim[m] => HasRow(m) \/ WillPersist(m)
    /\ \A j \in JobsOf(m) :
         /\ pc[j] \in {"route", "mark", "dispatch"} => HasRow(m)
         /\ pc[j] = "completed" => HasRow(m) \/ WillPersist(m)
         /\ pc[j] \notin {"catch", "rethrow"}

\* A step of job j that neither persists nor leaves the way there keeps LossInv
\* when what it does to j keeps it.
LEMMA LossInvOther ==
  ASSUME TypeOK, LossInv, NEW j \in Jobs, NEW s \in JobStates,
         pc' = [pc EXCEPT ![j] = s], pc[j] \notin {"resolve", "persist"},
         rows' = rows, claim' = claim, faulted' = faulted,
         j[2] \notin faulted =>
           /\ s \in {"route", "mark", "dispatch"} => HasRow(j[2])
           /\ s = "completed" => HasRow(j[2]) \/ WillPersist(j[2])
           /\ s \notin {"catch", "rethrow"}
  PROVE  LossInv'
<1> SUFFICES ASSUME NEW m \in Msgs, m \notin faulted
    PROVE /\ claim[m] => HasRow(m) \/ WillPersist(m)'
          /\ \A k \in JobsOf(m) :
               /\ pc'[k] \in {"route", "mark", "dispatch"} => HasRow(m)
               /\ pc'[k] = "completed" => HasRow(m) \/ WillPersist(m)'
               /\ pc'[k] \notin {"catch", "rethrow"}
  BY DEF LossInv, HasRow, JobsOf
<1>1. WillPersist(m) => WillPersist(m)'
  BY DEF WillPersist, JobsOf, TypeOK
<1>2. ASSUME NEW k \in JobsOf(m) PROVE pc'[k] = IF k = j THEN s ELSE pc[k]
  BY DEF JobsOf, TypeOK
<1>3. \A k \in JobsOf(m) : k[2] = m
  BY DEF JobsOf
<1> QED BY <1>1, <1>2, <1>3 DEF LossInv

\* Every step keeps LossInv.
LEMMA LossStep == TypeInv /\ LossInv /\ [Next]_vars => LossInv'
<1> SUFFICES ASSUME TypeInv, LossInv, [Next]_vars PROVE LossInv'
  OBVIOUS
<1> USE DEF TypeInv
<1>1. ASSUME UNCHANGED <<pc, rows, faulted>>, \A m \in Msgs : claim'[m] => claim[m]
      PROVE  LossInv'
  BY <1>1 DEF LossInv, HasRow, WillPersist, JobsOf
<1>2. ASSUME NEW d \in Deliveries, GatewayStep(d) PROVE LossInv'
  BY <1>1, <1>2 DEF GatewayStep, RecordUnrouted, RejectSignature, RecordWebhook, AnswerOk,
       AbortWebhook, gatewayUnchanged
<1>3. ASSUME NEW j \in Jobs,
             EnqueueInbound(j) \/ TakeJob(j) \/ SkipDuplicate(j) \/ RouteToBot(j)
               \/ MarkProcessed(j) \/ Dispatch(j) \/ CatchMarkFailed(j)
      PROVE  LossInv'
  <2>1. j \in JobsOf(j[2]) /\ j[2] \in Msgs
    BY JobParts DEF JobsOf
  <2>2. PICK s \in JobStates :
          /\ pc' = [pc EXCEPT ![j] = s]
          /\ s = "completed" => pc[j] = "dispatch" \/ claim[j[2]]
          /\ s \in {"route", "mark", "dispatch"} => pc[j] \in {"route", "mark"}
          /\ s \in {"catch", "rethrow"} => pc[j] = "catch"
    BY <1>3 DEF EnqueueInbound, TakeJob, SkipDuplicate, RouteToBot, MarkProcessed, Dispatch,
         CatchMarkFailed, JobStates, Active, Section, Terminal
  <2>3. pc[j] \notin {"resolve", "persist"} /\ UNCHANGED <<rows, claim, faulted>>
    BY <1>3 DEF EnqueueInbound, TakeJob, SkipDuplicate, RouteToBot, MarkProcessed, Dispatch,
         CatchMarkFailed, gatewayUnchanged
  <2>4. j[2] \notin faulted =>
          /\ s \in {"route", "mark", "dispatch"} => HasRow(j[2])
          /\ s = "completed" => HasRow(j[2]) \/ WillPersist(j[2])
          /\ s \notin {"catch", "rethrow"}
    BY <2>1, <2>2 DEF LossInv
  <2> QED BY <2>2, <2>3, <2>4, LossInvOther
<1>4. ASSUME NEW j \in Jobs, ClaimProcessing(j) \/ Resolve(j) PROVE LossInv'
  <2> SUFFICES ASSUME NEW m \in Msgs, m \notin faulted
      PROVE /\ claim'[m] => HasRow(m) \/ WillPersist(m)'
            /\ \A k \in JobsOf(m) :
                 /\ pc'[k] \in {"route", "mark", "dispatch"} => HasRow(m)
                 /\ pc'[k] = "completed" => HasRow(m) \/ WillPersist(m)'
                 /\ pc'[k] \notin {"catch", "rethrow"}
    BY <1>4 DEF LossInv, HasRow, JobsOf, ClaimProcessing, Resolve
  <2>1. /\ pc'[j] \in {"resolve", "persist"}
        /\ \A k \in Jobs : k # j => pc'[k] = pc[k]
        /\ \A n \in Msgs : n # j[2] => claim'[n] = claim[n]
    BY <1>4, JobParts DEF ClaimProcessing, Resolve, TypeOK
  <2>2. m = j[2] => WillPersist(m)'
    BY <2>1 DEF WillPersist, JobsOf
  <2>3. WillPersist(m) => WillPersist(m)'
    BY <2>1 DEF WillPersist, JobsOf
  <2> QED BY <2>1, <2>2, <2>3 DEF LossInv, JobsOf
<1>5. ASSUME NEW j \in Jobs, Persist(j) PROVE LossInv'
  <2>1. HasRow(j[2])' /\ \A m \in Msgs : HasRow(m) => HasRow(m)'
    BY <1>5 DEF Persist, HasRow, RowOf
  <2>2. /\ pc'[j] = "route" /\ faulted' = faulted /\ claim' = claim
        /\ \A k \in Jobs : k # j => pc'[k] = pc[k]
    BY <1>5 DEF Persist, TypeOK
  <2> SUFFICES ASSUME NEW m \in Msgs, m \notin faulted
      PROVE /\ claim[m] => HasRow(m)' \/ WillPersist(m)'
            /\ \A k \in JobsOf(m) :
                 /\ pc'[k] \in {"route", "mark", "dispatch"} => HasRow(m)'
                 /\ pc'[k] = "completed" => HasRow(m)' \/ WillPersist(m)'
                 /\ pc'[k] \notin {"catch", "rethrow"}
    BY <2>2 DEF LossInv, JobsOf
  <2>3. WillPersist(m) => HasRow(m)' \/ WillPersist(m)'
    BY <2>1, <2>2 DEF WillPersist, JobsOf
  <2> QED BY <2>1, <2>2, <2>3 DEF LossInv, JobsOf
<1>6. ASSUME NEW j \in Jobs, Throw(j) \/ Stall(j) \/ Rethrow(j) PROVE LossInv'
  <2>1. j \in JobsOf(j[2]) /\ j[2] \in Msgs
    BY JobParts DEF JobsOf
  <2>2. /\ j[2] \in faulted' /\ faulted \subseteq faulted' /\ rows' = rows
        /\ \A k \in Jobs : k # j => pc'[k] = pc[k]
        /\ \A n \in Msgs : n # j[2] => claim'[n] = claim[n]
    BY <1>6, <2>1 DEF Throw, Stall, Rethrow, TypeOK, LossInv
  <2> SUFFICES ASSUME NEW m \in Msgs, m \notin faulted'
      PROVE /\ claim'[m] => HasRow(m) \/ WillPersist(m)'
            /\ \A k \in JobsOf(m) :
                 /\ pc'[k] \in {"route", "mark", "dispatch"} => HasRow(m)
                 /\ pc'[k] = "completed" => HasRow(m) \/ WillPersist(m)'
                 /\ pc'[k] \notin {"catch", "rethrow"}
    BY <2>2 DEF LossInv, HasRow, JobsOf
  <2>3. m # j[2] /\ \A k \in JobsOf(m) : pc'[k] = pc[k]
    BY <2>2 DEF JobsOf
  <2>4. WillPersist(m)' <=> WillPersist(m)
    BY <2>3 DEF WillPersist, JobsOf
  <2> QED BY <2>2, <2>3, <2>4 DEF LossInv
<1>7. ASSUME NEW m \in Msgs, ExpireClaim(m) PROVE LossInv'
  BY <1>1, <1>7 DEF ExpireClaim, TypeOK
<1>8. CASE StartNewConversation \/ UNCHANGED vars
  BY <1>1, <1>8 DEF StartNewConversation, vars
<1> QED BY <1>2, <1>3, <1>4, <1>5, <1>6, <1>7, <1>8 DEF Next, WorkerStep

\* Without an exception or a crash no message is lost: for any deliveries and
\* bounds, whoever skips a duplicate leaves it to an attempt that persists it.
THEOREM LossNeedsFaultCorrect == Spec => []LossNeedsFault
<1>1. Init => LossInv
  BY DEF Init, LossInv, JobsOf
<1>2. LossInv => LossNeedsFault
  <2> SUFFICES ASSUME LossInv, NEW m \in Msgs, Lost(m), m \notin faulted PROVE FALSE
    BY DEF LossNeedsFault
  <2>1. ~HasRow(m) /\ ~WillPersist(m)
    BY DEF Lost, HasRow, WillPersist, Terminal
  <2> QED BY <2>1 DEF Lost, LossInv
<1> QED BY <1>1, <1>2, LossStep, TypeInvCorrect, PTL DEF Spec

-----------------------------------------------------------------------------
(* One row per message *)

RowsOf(m) == {r \in rows : r.msg = m}

\* A claim is worth one row, and an expiry gives it back: the rows of a message
\* and the one an attempt is about to write never exceed the claims handed out.
RowBudget ==
  \A m \in Identified :
    /\ IsFiniteSet(RowsOf(m))
    /\ Cardinality(RowsOf(m)) + One(WillPersist(m)) <= expiries[m] + One(claim[m])

\* A step that writes no row keeps the budget when no attempt comes closer to
\* writing one and no claim is given back.
LEMMA RowBudgetFrame ==
  ASSUME TypeOK, RowBudget, rows' = rows, expiries' = expiries,
         \A m \in Identified : WillPersist(m)' => WillPersist(m),
         \A m \in Identified : claim[m] => claim'[m]
  PROVE  RowBudget'
<1> SUFFICES ASSUME NEW m \in Identified
    PROVE /\ IsFiniteSet(RowsOf(m))
          /\ Cardinality(RowsOf(m)) + One(WillPersist(m)') <= expiries[m] + One(claim'[m])
  BY DEF RowBudget, RowsOf, One
<1>1. IsFiniteSet(RowsOf(m)) /\ Cardinality(RowsOf(m)) \in Nat /\ expiries[m] \in Nat
  BY FS_CardinalityType DEF RowBudget, TypeOK, Identified
<1> QED BY <1>1 DEF RowBudget, One

\* Every step keeps it.
LEMMA RowStep == TypeInv /\ ClaimInv /\ RowBudget /\ [Next]_vars => RowBudget'
<1> SUFFICES ASSUME TypeInv, ClaimInv, RowBudget, [Next]_vars PROVE RowBudget'
  OBVIOUS
<1> USE DEF TypeInv
<1>1. ASSUME NEW d \in Deliveries, GatewayStep(d) PROVE RowBudget'
  <2>1. \A m \in Identified : WillPersist(m)' => WillPersist(m)
    BY <1>1 DEF GatewayStep, RecordUnrouted, RejectSignature, RecordWebhook, AnswerOk,
         AbortWebhook, WillPersist, JobsOf
  <2>2. UNCHANGED <<rows, expiries, claim>>
    BY <1>1 DEF GatewayStep, RecordUnrouted, RejectSignature, RecordWebhook, AnswerOk,
         AbortWebhook, gatewayUnchanged
  <2> QED BY <2>1, <2>2, RowBudgetFrame
<1>2. ASSUME NEW j \in Jobs,
             EnqueueInbound(j) \/ TakeJob(j) \/ SkipDuplicate(j) \/ Resolve(j)
               \/ RouteToBot(j) \/ MarkProcessed(j) \/ Dispatch(j) \/ Throw(j)
               \/ CatchMarkFailed(j) \/ Rethrow(j) \/ Stall(j)
      PROVE  RowBudget'
  <2>1. /\ pc'[j] \in {"resolve", "persist"} => pc[j] \in {"resolve", "persist"}
        /\ \A k \in Jobs : k # j => pc'[k] = pc[k]
    BY <1>2 DEF EnqueueInbound, TakeJob, SkipDuplicate, Resolve, RouteToBot, MarkProcessed,
         Dispatch, Throw, CatchMarkFailed, Rethrow, Stall, TypeOK
  <2>2. \A m \in Identified : WillPersist(m)' => WillPersist(m)
    BY <2>1 DEF WillPersist, JobsOf
  <2>3. UNCHANGED <<rows, expiries>>
    BY <1>2 DEF EnqueueInbound, gatewayUnchanged, TakeJob, SkipDuplicate, Resolve,
         RouteToBot, MarkProcessed, Dispatch, Throw, CatchMarkFailed, Rethrow, Stall
  <2>4. \A m \in Identified : claim[m] => claim'[m]
    BY <1>2, JobParts DEF EnqueueInbound, gatewayUnchanged, TakeJob, SkipDuplicate, Resolve,
         RouteToBot, MarkProcessed, Dispatch, Throw, CatchMarkFailed, Rethrow, Stall, TypeOK,
         Identified
  <2> QED BY <2>2, <2>3, <2>4, RowBudgetFrame
<1>3. ASSUME NEW j \in Jobs, ClaimProcessing(j) PROVE RowBudget'
  <2> SUFFICES ASSUME NEW m \in Identified
      PROVE /\ IsFiniteSet(RowsOf(m))
            /\ Cardinality(RowsOf(m)) + One(WillPersist(m)') <= expiries[m] + One(claim'[m])
    BY <1>3 DEF RowBudget, RowsOf, One, ClaimProcessing
  <2>1. IsFiniteSet(RowsOf(m)) /\ Cardinality(RowsOf(m)) \in Nat /\ expiries[m] \in Nat
    BY FS_CardinalityType DEF RowBudget, TypeOK, Identified
  <2>2. CASE m = j[2]
    <3>1. ~claim[m] /\ claim'[m]
      BY <1>3, <2>2 DEF ClaimProcessing, TypeOK, Identified
    <3>2. ~WillPersist(m)
      BY <3>1 DEF WillPersist, ClaimInv, SectionHoldsClaim, Section
    <3> QED BY <2>1, <3>1, <3>2 DEF RowBudget, One
  <2>3. CASE m # j[2]
    <3>1. claim'[m] = claim[m] /\ (WillPersist(m)' <=> WillPersist(m))
      BY <1>3, <2>3, JobParts DEF ClaimProcessing, TypeOK, WillPersist, JobsOf
    <3> QED BY <2>1, <3>1 DEF RowBudget, One
  <2> QED BY <2>2, <2>3
<1>4. ASSUME NEW j \in Jobs, Persist(j) PROVE RowBudget'
  <2> SUFFICES ASSUME NEW m \in Identified
      PROVE /\ IsFiniteSet(RowsOf(m)')
            /\ Cardinality(RowsOf(m)') + One(WillPersist(m)') <= expiries[m] + One(claim[m])
    BY <1>4 DEF RowBudget, One, Persist
  <2>1. IsFiniteSet(RowsOf(m)) /\ Cardinality(RowsOf(m)) \in Nat /\ expiries[m] \in Nat
    BY FS_CardinalityType DEF RowBudget, TypeOK, Identified
  <2> DEFINE row == RowOf(j, conv[j])
  <2>2. rows' = rows \union {row} /\ row.msg = j[2]
    BY <1>4 DEF Persist, RowOf
  <2>3. CASE m = j[2]
    <3>1. RowsOf(m)' = RowsOf(m) \union {row}
      BY <2>2, <2>3 DEF RowsOf
    <3>2. /\ IsFiniteSet(RowsOf(m)')
          /\ Cardinality(RowsOf(m)') \in {Cardinality(RowsOf(m)), Cardinality(RowsOf(m)) + 1}
      BY <2>1, <3>1, FS_AddElement
    <3>3. WillPersist(m) /\ ~WillPersist(m)'
      BY <1>4, <2>3 DEF Persist, WillPersist, JobsOf, ClaimInv, OneWorkerPerMessage, Section,
           TypeOK
    <3> QED BY <2>1, <3>2, <3>3 DEF RowBudget, One
  <2>4. CASE m # j[2]
    <3>1. RowsOf(m)' = RowsOf(m)
      BY <2>2, <2>4 DEF RowsOf
    <3>2. WillPersist(m)' <=> WillPersist(m)
      BY <1>4, <2>4 DEF Persist, WillPersist, JobsOf, TypeOK
    <3> QED BY <2>1, <3>1, <3>2 DEF RowBudget, One
  <2> QED BY <2>3, <2>4
<1>5. ASSUME NEW n \in Msgs, ExpireClaim(n) PROVE RowBudget'
  <2> SUFFICES ASSUME NEW m \in Identified
      PROVE /\ IsFiniteSet(RowsOf(m))
            /\ Cardinality(RowsOf(m)) + One(WillPersist(m)) <= expiries'[m] + One(claim'[m])
    BY <1>5 DEF RowBudget, RowsOf, WillPersist, JobsOf, One, ExpireClaim
  <2>1. IsFiniteSet(RowsOf(m)) /\ Cardinality(RowsOf(m)) \in Nat /\ expiries[m] \in Nat
    BY FS_CardinalityType DEF RowBudget, TypeOK, Identified
  <2>2. CASE m = n
    BY <1>5, <2>1, <2>2 DEF ExpireClaim, TypeOK, RowBudget, One, Identified
  <2>3. CASE m # n
    BY <1>5, <2>1, <2>3 DEF ExpireClaim, TypeOK, RowBudget, One, Identified
  <2> QED BY <2>2, <2>3
<1>6. CASE StartNewConversation \/ UNCHANGED vars
  <2>1. UNCHANGED <<rows, expiries, claim, pc>>
    BY <1>6 DEF StartNewConversation, vars
  <2>2. \A m \in Identified : WillPersist(m)' => WillPersist(m)
    BY <2>1 DEF WillPersist, JobsOf
  <2> QED BY <2>1, <2>2, RowBudgetFrame
<1> QED BY <1>1, <1>2, <1>3, <1>4, <1>5, <1>6 DEF Next, WorkerStep

\* A message has one row for each time it was claimed, whatever is redelivered,
\* retried or cut short, and whichever conversations it resolves to.
THEOREM OneRowPerMessageCorrect == Spec => []OneRowPerMessage
<1>1. Init => RowBudget
  <2>1. ASSUME Init, NEW m \in Identified PROVE RowsOf(m) = {} /\ ~WillPersist(m)
    BY <2>1 DEF Init, RowsOf, WillPersist, JobsOf
  <2> QED BY <2>1, FS_EmptySet DEF Init, RowBudget, One, Identified
<1>2. TypeInv /\ RowBudget => OneRowPerMessage
  <2> SUFFICES ASSUME TypeInv, RowBudget, NEW m \in Identified
               PROVE  Cardinality(RowsOf(m)) <= 1 + expiries[m]
    BY DEF OneRowPerMessage, RowsOf
  <2>1. Cardinality(RowsOf(m)) \in Nat /\ expiries[m] \in Nat
    BY FS_CardinalityType DEF RowBudget, TypeInv, TypeOK, Identified
  <2> QED BY <2>1 DEF RowBudget, One
<1> QED BY <1>1, <1>2, RowStep, ClaimInvCorrect, TypeInvCorrect, PTL DEF Spec
=============================================================================
