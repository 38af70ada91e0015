----------------------------- MODULE AgentsProofs -----------------------------
(***************************************************************************)
(* Proofs about the parts of the AI agents, for every value of their       *)
(* constants: approvals, runs, skills, sales, documents, memory, prompts   *)
(* and the chart of agents.                                                *)
(***************************************************************************)
EXTENDS MCAgents, FiniteSetTheorems, WellFoundedInduction, TLAPS


-----------------------------------------------------------------------------
(* Pending actions: any operators, executor slots and calls *)

-----------------------------------------------------------------------------
(* Type correctness *)

\* Every step keeps the types.
LEMMA PaTypeStep == PaTypeOK /\ [PaNext]_paVars => PaTypeOK'
<1> SUFFICES ASSUME PaTypeOK, [PaNext]_paVars PROVE PaTypeOK'
  OBVIOUS
<1> USE PaAssumption DEF PaTypeOK, PaStatus, PaVerdicts, PaResults
<1>1. CASE PaCreate \/ PaFallsDue \/ PaExpire
  BY <1>1 DEF PaCreate, PaFallsDue, PaExpire
<1>2. ASSUME NEW u \in PaUsers, NEW v \in {"APPROVED", "REJECTED"}, PaRead(u, v)
      PROVE PaTypeOK'
  BY <1>2 DEF PaRead, PaAsk, PaBusy
<1>3. ASSUME NEW u \in PaUsers, PaSave(u) PROVE PaTypeOK'
  BY <1>3 DEF PaSave
<1>4. ASSUME NEW u \in PaUsers, PaQueue(u) PROVE PaTypeOK'
  BY <1>4 DEF PaQueue
<1>5. ASSUME NEW w \in PaWorkers, PaTake(w) PROVE PaTypeOK'
  BY <1>5 DEF PaTake
<1>6. ASSUME NEW w \in PaWorkers, PaRun(w) PROVE PaTypeOK'
  BY <1>6 DEF PaRun
<1>7. ASSUME NEW w \in PaWorkers, PaRecord(w) PROVE PaTypeOK'
  BY <1>7 DEF PaRecord
<1>8. ASSUME NEW w \in PaWorkers, PaStall(w) PROVE PaTypeOK'
  BY <1>8 DEF PaStall
<1>9. CASE UNCHANGED paVars
  BY <1>9 DEF paVars
<1> QED BY <1>1, <1>2, <1>3, <1>4, <1>5, <1>6, <1>7, <1>8, <1>9 DEF PaNext

\* The row, the calls and the jobs only take the values the code gives them.
THEOREM PaTypeCorrect == PaSpec => []PaTypeOK
<1>1. ASSUME PaInit PROVE PaTypeOK
  <2>1. paCalls \in 0..PaMaxCalls /\ paJobs \in Nat /\ paEffects \in Nat
    BY <1>1, PaAssumption DEF PaInit
  <2> QED BY <1>1, <2>1 DEF PaInit, PaTypeOK, PaStatus, PaVerdicts, PaResults
<1> QED BY <1>1, PaTypeStep, PTL DEF PaSpec

-----------------------------------------------------------------------------
(* An approved action is pursued *)

\* Each step that ends one of the four reasons an approved action may wait for
\* begins the next one.
THEOREM PaApprovedIsPursuedCorrect == PaSpec => []PaApprovedIsPursued
<1>1. PaInit => PaApprovedIsPursued
  BY DEF PaInit, PaApprovedIsPursued
<1>2. PaTypeOK /\ PaApprovedIsPursued /\ [PaNext]_paVars => PaApprovedIsPursued'
  <2> SUFFICES ASSUME PaTypeOK, PaApprovedIsPursued, [PaNext]_paVars
               PROVE PaApprovedIsPursued'
    OBVIOUS
  <2> USE DEF PaTypeOK, PaStatus, PaVerdicts, PaResults, PaApprovedIsPursued
  <2>1. CASE PaCreate \/ PaFallsDue \/ PaExpire
    BY <2>1 DEF PaCreate, PaFallsDue, PaExpire
  <2>2. ASSUME NEW u \in PaUsers, NEW v \in {"APPROVED", "REJECTED"}, PaRead(u, v)
        PROVE PaApprovedIsPursued'
    BY <2>2 DEF PaRead, PaAsk
  <2>3. ASSUME NEW u \in PaUsers, PaSave(u) PROVE PaApprovedIsPursued'
    BY <2>3 DEF PaSave
  <2>4. ASSUME NEW u \in PaUsers, PaQueue(u) PROVE PaApprovedIsPursued'
    BY <2>4 DEF PaQueue
  <2>5. ASSUME NEW w \in PaWorkers, PaTake(w) PROVE PaApprovedIsPursued'
    BY <2>5 DEF PaTake
  <2>6. ASSUME NEW w \in PaWorkers, PaRun(w) PROVE PaApprovedIsPursued'
    BY <2>6 DEF PaRun
  <2>7. ASSUME NEW w \in PaWorkers, PaRecord(w) PROVE PaApprovedIsPursued'
    BY <2>7 DEF PaRecord
  <2>8. ASSUME NEW w \in PaWorkers, PaStall(w) PROVE PaApprovedIsPursued'
    BY <2>8 DEF PaStall
  <2>9. CASE UNCHANGED paVars
    BY <2>9 DEF paVars
  <2> QED BY <2>1, <2>2, <2>3, <2>4, <2>5, <2>6, <2>7, <2>8, <2>9 DEF PaNext
<1> QED BY <1>1, <1>2, PaTypeCorrect, PTL DEF PaSpec

-----------------------------------------------------------------------------
(* An approved action runs once *)

\* Nothing of the execution has happened.
PaFresh ==
  paJobs = 0 /\ paEffects = 0 /\ paLost = "no" /\ \A w \in PaWorkers : paWork[w] = "idle"

\* While no two calls overlapped, one call at a time is under way, and only
\* before anything ran.
PaOneCall ==
  /\ \A u, v \in PaUsers : paCall[u] # "idle" /\ paCall[v] # "idle" => u = v
  /\ \A u \in PaUsers :
       /\ paCall[u] \in PaVerdicts => paRow.status \in {"PENDING", "EXPIRED"}
       /\ paCall[u] # "idle" => paRow.status # "NONE"
       /\ paCall[u] = "queueing" => paRow.status # "PENDING"
  /\ paRow.status \in {"NONE", "PENDING"} \/ PaBusy => PaFresh

\* Of the one approval there is one job, then one slot at work, then one effect.
PaOneRun ==
  /\ paEffects <= 1
  /\ paJobs <= 1
  /\ paJobs = 1 => paEffects = 0 /\ \A w \in PaWorkers : paWork[w] = "idle"
  /\ \A w \in PaWorkers : paWork[w] = "running" => paEffects = 0
  /\ \A w, x \in PaWorkers : paWork[w] # "idle" /\ paWork[x] # "idle" => w = x

PaOnceInv == ~paRaced => PaOneCall /\ (paLost # "redelivered" => PaOneRun)

\* A call that starts alone starts before anything ran.
LEMMA PaReadStep ==
  ASSUME PaTypeOK, PaOnceInv, NEW u \in PaUsers, NEW v \in {"APPROVED", "REJECTED"},
         PaRead(u, v)
  PROVE  PaOnceInv'
<1> USE DEF PaTypeOK, PaStatus, PaVerdicts
<1> SUFFICES ASSUME ~paRaced' PROVE PaOneCall' /\ (paLost' # "redelivered" => PaOneRun')
  BY DEF PaOnceInv
<1>1. /\ ~paRaced /\ ~PaBusy /\ paRow.status = "PENDING"
      /\ UNCHANGED <<paRow, paJobs, paWork, paEffects, paLost>>
      /\ paCall' = [paCall EXCEPT ![u] = IF paRow.due THEN "EXPIRED" ELSE v]
  BY DEF PaRead, PaAsk
<1>2. PaOneCall /\ PaFresh /\ (paLost # "redelivered" => PaOneRun)
  BY <1>1 DEF PaOnceInv, PaOneCall
<1>3. PaFresh'
  BY <1>1, <1>2 DEF PaFresh
<1>4. PaOneCall'
  BY <1>1, <1>2, <1>3 DEF PaOneCall, PaBusy
<1> QED BY <1>1, <1>2, <1>4 DEF PaOneRun

\* The steps of a call that is under way.
LEMMA PaCallStep ==
  ASSUME PaTypeOK, PaOnceInv, NEW u \in PaUsers, PaSave(u) \/ PaQueue(u)
  PROVE  PaOnceInv'
<1> USE DEF PaTypeOK, PaStatus, PaVerdicts
<1> SUFFICES ASSUME ~paRaced PROVE PaOneCall' /\ PaOneRun'
  BY DEF PaOnceInv, PaSave, PaQueue
<1>1. PaOneCall /\ PaFresh /\ PaOneRun /\ \A v \in PaUsers \ {u} : paCall[v] = "idle"
  <2>1. paCall[u] # "idle"
    BY DEF PaSave, PaQueue
  <2> QED BY <2>1 DEF PaOnceInv, PaOneCall, PaFresh, PaBusy
<1>2. CASE PaSave(u)
  <2>1. PaFresh'
    BY <1>1, <1>2 DEF PaSave, PaFresh
  <2>2. PaOneCall'
    BY <1>1, <1>2, <2>1 DEF PaSave, PaOneCall, PaBusy
  <2> QED BY <1>1, <1>2, <2>2 DEF PaSave, PaOneRun
<1>3. CASE PaQueue(u)
  <2>1. ~PaBusy' /\ paRow'.status \notin {"NONE", "PENDING"}
    BY <1>1, <1>3 DEF PaQueue, PaOneCall, PaBusy
  <2>2. PaOneCall'
    BY <1>1, <1>3, <2>1 DEF PaQueue, PaOneCall, PaBusy
  <2> QED BY <1>1, <1>3, <2>2 DEF PaQueue, PaFresh, PaOneRun
<1> QED BY <1>2, <1>3

\* The steps of the executor happen when no call is under way.
LEMMA PaExecutorStep ==
  ASSUME PaTypeOK, PaOnceInv, NEW w \in PaWorkers,
         PaTake(w) \/ PaRun(w) \/ PaRecord(w) \/ PaStall(w)
  PROVE  PaOnceInv'
<1> USE DEF PaTypeOK, PaStatus, PaVerdicts
<1> SUFFICES ASSUME ~paRaced PROVE PaOneCall' /\ (paLost' # "redelivered" => PaOneRun')
  BY DEF PaOnceInv, PaTake, PaRun, PaRecord, PaStall
<1>1. /\ PaOneCall /\ ~PaBusy /\ paRow.status \notin {"NONE", "PENDING"}
      /\ paLost # "redelivered" => PaOneRun
  <2>1. ~PaFresh
    BY DEF PaTake, PaRun, PaRecord, PaStall, PaFresh
  <2> QED BY <2>1 DEF PaOnceInv, PaOneCall
<1>2. UNCHANGED <<paCall, paRaced>> /\ paRow'.status \notin {"NONE", "PENDING"}
  BY <1>1 DEF PaTake, PaRun, PaRecord, PaStall
<1>3. PaOneCall'
  BY <1>1, <1>2 DEF PaOneCall, PaBusy
<1>4. paLost' # "redelivered" => PaOneRun'
  <2> SUFFICES ASSUME paLost' # "redelivered" PROVE PaOneRun'
    OBVIOUS
  <2>1. PaOneRun /\ ~PaStall(w)
    BY <1>1 DEF PaTake, PaRun, PaRecord, PaStall
  <2>2. CASE PaTake(w)
    BY <2>1, <2>2 DEF PaTake, PaOneRun
  <2>3. CASE PaRun(w)
    BY <2>1, <2>3 DEF PaRun, PaOneRun
  <2>4. CASE PaRecord(w)
    BY <2>1, <2>4 DEF PaRecord, PaOneRun
  <2> QED BY <2>1, <2>2, <2>3, <2>4
<1> QED BY <1>3, <1>4

\* Whatever operators approve, reject and let expire, and however many slots the
\* executor has: the tool runs twice only after two calls that read the row at
\* once, or after a job was redelivered.
THEOREM PaTwiceNeedsRaceCorrect == PaSpec => []PaTwiceNeedsRace
<1>1. PaInit => PaOnceInv
  BY DEF PaInit, PaOnceInv, PaOneCall, PaOneRun, PaFresh, PaVerdicts
<1>2. PaTypeOK /\ PaOnceInv /\ [PaNext]_paVars => PaOnceInv'
  <2> SUFFICES ASSUME PaTypeOK, PaOnceInv, [PaNext]_paVars PROVE PaOnceInv'
    OBVIOUS
  <2>1. CASE PaCreate \/ PaFallsDue \/ PaExpire
    BY <2>1 DEF PaTypeOK, PaStatus, PaVerdicts, PaCreate, PaFallsDue, PaExpire,
         PaOnceInv, PaOneCall, PaOneRun, PaFresh, PaBusy
  <2>2. CASE UNCHANGED paVars
    BY <2>2 DEF paVars, PaOnceInv, PaOneCall, PaOneRun, PaFresh, PaBusy
  <2> QED BY <2>1, <2>2, PaReadStep, PaCallStep, PaExecutorStep DEF PaNext
<1>3. PaTypeOK /\ PaOnceInv => PaTwiceNeedsRace
  BY DEF PaTypeOK, PaOnceInv, PaOneRun, PaTwiceNeedsRace
<1> QED BY <1>1, <1>2, <1>3, PaTypeCorrect, PTL DEF PaSpec

\* Both together: an approved action is done, and done once.
THEOREM PaSafeCorrect == PaSpec => []PaSafe
BY PaApprovedIsPursuedCorrect, PaTwiceNeedsRaceCorrect, PTL DEF PaSafe

\* No step leads back to PENDING, so an approval is never asked for again.
THEOREM PaNoSecondApprovalCorrect == PaSpec => [][PaNoSecondApproval]_paVars
<1>1. PaTypeOK /\ [PaNext]_paVars => [PaNoSecondApproval]_paVars
  <2> SUFFICES ASSUME PaTypeOK, [PaNext]_paVars PROVE PaNoSecondApproval
    OBVIOUS
  <2> USE DEF PaTypeOK, PaStatus, PaVerdicts, PaNoSecondApproval
  <2>1. CASE PaCreate \/ PaFallsDue \/ PaExpire
    BY <2>1 DEF PaCreate, PaFallsDue, PaExpire
  <2>2. ASSUME NEW u \in PaUsers, NEW v \in {"APPROVED", "REJECTED"}, PaRead(u, v)
        PROVE PaNoSecondApproval
    BY <2>2 DEF PaRead, PaAsk
  <2>3. ASSUME NEW u \in PaUsers, PaSave(u) \/ PaQueue(u) PROVE PaNoSecondApproval
    BY <2>3 DEF PaSave, PaQueue
  <2>4. ASSUME NEW w \in PaWorkers, PaTake(w) \/ PaRun(w) \/ PaRecord(w) \/ PaStall(w)
        PROVE PaNoSecondApproval
    BY <2>4 DEF PaTake, PaRun, PaRecord, PaStall
  <2>5. CASE UNCHANGED paVars
    BY <2>5 DEF paVars
  <2> QED BY <2>1, <2>2, <2>3, <2>4, <2>5 DEF PaNext
<1> QED BY <1>1, PaTypeCorrect, PTL DEF PaSpec

-----------------------------------------------------------------------------
(* Agent runs: any runs, agents, limits of the loop and switches *)

ArLive(r) == arRun[r].pc \notin {"none", "over"}

\* What was queued shows in the outcome and, until the loop ends, in the guard.
ArReplyInv(r) ==
  /\ arQueued[r] <= 1
  /\ arRun[r].pc = "none" => arQueued[r] = 0
  /\ ArLive(r) /\ arQueued[r] = 1 =>
       /\ arRun[r].final # "NO_ACTION"
       /\ arRun[r].pc # "end" => arRun[r].replied
  /\ arRun[r].pc \in {"text", "tools"} => arRun[r].iter > 0
  /\ arRun[r].pc = "tools" => arRun[r].todo # <<>>
  /\ arQueued[r] > 0 => ArMaxIterations > 0

\* A text waits for its synthesis or is given up at the bound.
ArTextInv(r) ==
  /\ ArLive(r) => arRun[r].status = "RUNNING"
  /\ arRun[r].lost => arRun[r].iter = ArMaxIterations /\ arRun[r].pc \in {"end", "over"}
  /\ arRun[r].pc \in ArChosen => ~arRun[r].spoke
  /\ arRun[r].final = "NO_ACTION" /\ arRun[r].spoke =>
       /\ arRun[r].pc = "model" => arRun[r].synthesis
       /\ arRun[r].pc = "end" => arRun[r].lost
       /\ arRun[r].status = "COMPLETED" => arRun[r].lost

\* Only the orchestrator delegates, and below the first level it runs only in place of
\* a worker that was switched off.
ArChainInv(r) ==
  /\ ArLive(r) => arRun[r].agent # ArNoAgent
  /\ ArLive(r) /\ arRun[r].final = "DELEGATED" => arRun[r].agent = ArOrchestrator
  /\ ArLive(r) /\ arRun[r].depth > 0 /\ arRun[r].agent = ArOrchestrator =>
       ArWorkers \ arEnabled # {}
  /\ arRun[r].depth > 1 => ArWorkers \ arEnabled # {}

\* Until its opening write, a run that is not stale has the agent of the conversation,
\* if that one is active.
ArPinInv(r) ==
  arRun[r].pc \in ArChosen /\ r \notin arStale =>
    arActive = arRun[r].agent \/ arActive \notin arEnabled

ArRunInv(r) == ArReplyInv(r) /\ ArTextInv(r) /\ ArChainInv(r) /\ ArPinInv(r)

ArInv == ArTypeOK /\ \A r \in ArRuns : ArRunInv(r)

ArRunType ==
  [pc : {"none", "prepare", "mark", "model", "text", "tools", "end", "over"},
   agent : ArAgents \union {ArNoAgent}, depth : 0..ArMaxChain,
   status : {"NONE", "RUNNING", "COMPLETED", "FAILED"},
   iter : 0..ArMaxIterations, final : ArFinals, todo : ArBatches,
   replied : BOOLEAN, tried : BOOLEAN, prepared : BOOLEAN, nudged : BOOLEAN,
   synthesis : BOOLEAN, strong : BOOLEAN,
   spoke : BOOLEAN, lost : BOOLEAN]

LEMMA ArNoRunType == ArNoRun \in ArRunType
<1>1. <<>> \in ArBatches
  BY DEF ArBatches
<1>2. ArNoAgent \in ArAgents \union {ArNoAgent} /\ 0 \in 0..ArMaxChain /\ 0 \in 0..ArMaxIterations
  BY ArAssumption
<1>3. "NO_ACTION" \in ArFinals
  BY DEF ArFinals
<1> QED BY <1>1, <1>2, <1>3 DEF ArNoRun, ArRunType

LEMMA ArOverType ==
  ASSUME NEW run \in ArRunType, NEW status \in {"RUNNING", "COMPLETED", "FAILED"}
  PROVE  ArOver(run, status) \in ArRunType
<1> DEFINE n == IF run.lost THEN run.iter ELSE 0
<1>1. n \in 0..ArMaxIterations
  BY ArAssumption DEF ArRunType
<1>2. ArOver(run, status) = [ArNoRun EXCEPT !.pc = "over", !.status = status, !.final = run.final,
         !.depth = run.depth, !.spoke = run.spoke, !.lost = run.lost, !.iter = n]
  BY DEF ArOver
<1> HIDE DEF n
<1>3. /\ run.final \in ArFinals /\ run.depth \in 0..ArMaxChain
      /\ run.spoke \in BOOLEAN /\ run.lost \in BOOLEAN
  BY DEF ArRunType
<1> QED BY <1>1, <1>2, <1>3, ArNoRunType, ZenonT(60) DEF ArRunType

LEMMA ArStartedType ==
  ASSUME NEW agent \in ArAgents \union {ArNoAgent}, NEW depth \in 0..ArMaxChain,
         NEW strong \in BOOLEAN
  PROVE  ArStarted(agent, depth, strong) \in ArRunType
BY ArNoRunType DEF ArStarted, ArRunType

LEMMA ArCalledType ==
  ASSUME NEW run \in ArRunType, run.todo # <<>>, NEW final \in ArFinals,
         NEW replied \in BOOLEAN, NEW prepared \in BOOLEAN
  PROVE  ArCalled(run, final, replied, prepared) \in ArRunType
<1> DEFINE t == Tail(run.todo)
           f == IF run.final = "NO_ACTION" THEN final ELSE run.final
           pc == IF ~(Len(run.todo) = 1) THEN "tools"
                 ELSE IF f = "TRANSFERRED_TO_HUMAN" THEN "end" ELSE "model"
           b == run.replied \/ replied
           c == run.prepared \/ prepared
           d == run.tried \/ Head(run.todo) = "reply"
<1>1. t \in ArBatches
  <2>1. run.todo \in ArBatches
    BY DEF ArRunType
  <2>2. CASE \E u \in ArTools : run.todo = <<u>>
    BY <2>2 DEF ArBatches
  <2>3. CASE run.todo \in ArTools \X ArTools
    <3>1. PICK u \in ArTools, v \in ArTools : run.todo = <<u, v>>
      BY <2>3
    <3>2. t = <<v>>
      BY <3>1
    <3> QED BY <3>2 DEF ArBatches
  <2> QED BY <2>1, <2>2, <2>3 DEF ArBatches
<1>2. f \in ArFinals /\ pc \in {"tools", "end", "model"}
  BY DEF ArRunType
<1>3. b \in BOOLEAN /\ c \in BOOLEAN /\ d \in BOOLEAN
  OBVIOUS
<1>4. ArCalled(run, final, replied, prepared) =
        [run EXCEPT !.todo = t, !.final = f, !.replied = b, !.prepared = c, !.tried = d,
           !.spoke = FALSE, !.pc = pc]
  BY Zenon DEF ArCalled
<1> HIDE DEF t, f, pc, b, c, d
<1> QED BY <1>1, <1>2, <1>3, <1>4, ZenonT(60) DEF ArRunType

\* What ArNext says of the history variable.
ArStales ==
  arStale' = {r \in ArRuns : /\ arRun[r].pc \in ArChosen
                             /\ arRun'[r].pc \in ArChosen
                             /\ r \in arStale \/ arActive' # arActive}

\* A run that does not move keeps its part of the invariant.
LEMMA ArFrame ==
  ASSUME ArInv, ArStales, arEnabled' \subseteq arEnabled, arActive' \in ArAgents \union {ArNoAgent},
         NEW r \in ArRuns, arRun'[r] = arRun[r], arQueued'[r] = arQueued[r]
  PROVE  ArRunInv(r)'
<1>1. ArRunInv(r)
  BY DEF ArInv
<1>2. ArReplyInv(r)' /\ ArTextInv(r)'
  BY <1>1 DEF ArRunInv, ArReplyInv, ArTextInv, ArLive, ArChosen
<1>3. ArChainInv(r)'
  BY <1>1 DEF ArRunInv, ArChainInv, ArLive
<1>4. ArPinInv(r)'
  BY <1>1 DEF ArRunInv, ArPinInv, ArStales
<1> QED BY <1>2, <1>3, <1>4 DEF ArRunInv

\* One run moves.
LEMMA ArOneMoves ==
  ASSUME ArInv, ArStales, NEW r \in ArRuns, NEW rec \in ArRunType, ArSet(r, rec),
         arActive' \in ArAgents \union {ArNoAgent}, UNCHANGED <<arAi, arEnabled, arSwitched>>,
         NEW q \in {arQueued[r], arQueued[r] + 1}, arQueued' = [arQueued EXCEPT ![r] = q],
         ArReplyInv(r)', ArTextInv(r)', ArChainInv(r)', ArPinInv(r)'
  PROVE  ArInv'
<1>1. /\ arRun \in [ArRuns -> ArRunType] /\ arQueued \in [ArRuns -> 0..(2 * ArMaxIterations)]
      /\ ArMaxIterations \in Nat
  BY ArAssumption DEF ArInv, ArTypeOK, ArRunType
<1>2. /\ arRun' \in [ArRuns -> ArRunType] /\ arRun'[r] = rec
      /\ \A s \in ArRuns \ {r} : arRun'[s] = arRun[s] /\ arQueued'[s] = arQueued[s]
  BY <1>1 DEF ArSet
<1>3. \A s \in ArRuns \ {r} : ArRunInv(s)'
  BY <1>2, ArFrame
<1>4. ArRunInv(r)'
  BY DEF ArRunInv
<1>5. arQueued' \in [ArRuns -> 0..(2 * ArMaxIterations)]
  BY <1>1, <1>4 DEF ArRunInv, ArReplyInv
<1>6. ArTypeOK'
  BY <1>2, <1>5 DEF ArInv, ArTypeOK, ArRunType, ArStales
<1> QED BY <1>3, <1>4, <1>6 DEF ArInv

\* The agent a run gets.
LEMMA ArSelected ==
  ASSUME ArTypeOK, NEW depth \in 0..ArMaxChain, NEW a \in ArSelect(depth)
  PROVE  /\ a \in ArAgents \union {ArNoAgent}
         /\ a # ArNoAgent => arActive = a \/ arActive \notin arEnabled
BY ArAssumption DEF ArTypeOK, ArSelect, ArChannelAgents, ArAgents

LEMMA ArStrongType == \A a : ArStrong(a) \subseteq BOOLEAN
BY DEF ArStrong

\* What a run that starts looks like.
LEMMA ArStartedInv ==
  ASSUME ArInv, ArStales, NEW r \in ArRuns, ~ArLive(r), arActive' = arActive, arEnabled' = arEnabled,
         NEW depth \in 0..ArMaxChain, NEW a \in ArSelect(depth), NEW b \in ArStrong(a),
         arRun'[r] = ArStarted(a, depth, b), arQueued'[r] = 0,
         depth > 0 => a # ArOrchestrator \/ ArWorkers \ arEnabled # {},
         depth > 1 => ArWorkers \ arEnabled # {}
  PROVE  ArReplyInv(r)' /\ ArTextInv(r)' /\ ArChainInv(r)' /\ ArPinInv(r)'
<1> DEFINE run == arRun'[r]
<1>1. CASE a = ArNoAgent
  <2>1. run.pc = "over" /\ run.spoke = FALSE /\ run.lost = FALSE /\ run.depth = 0
    BY <1>1 DEF ArStarted, ArNoRun
  <2> QED BY <2>1, ArAssumption DEF ArReplyInv, ArTextInv, ArChainInv, ArPinInv, ArLive, ArChosen
<1>2. CASE a # ArNoAgent
  <2>1. /\ run.pc = "prepare" /\ run.spoke = FALSE /\ run.lost = FALSE /\ run.depth = depth
        /\ run.agent = a /\ run.status = "RUNNING" /\ run.final = "NO_ACTION"
    BY <1>2 DEF ArStarted, ArNoRun
  <2>2. ArPinInv(r)'
    BY <1>2, <2>1, ArSelected DEF ArPinInv, ArInv
  <2> QED BY <1>2, <2>1, <2>2, ArAssumption DEF ArReplyInv, ArTextInv, ArChainInv, ArLive, ArChosen
<1> QED BY <1>1, <1>2

LEMMA ArStartStep ==
  ASSUME ArInv, ArStales, UNCHANGED arAi, NEW r \in ArRuns, ArStart(r) PROVE ArInv'
<1> PICK a \in ArSelect(0) : \E b \in ArStrong(a) : ArSet(r, ArStarted(a, 0, b))
  BY DEF ArStart
<1>1. PICK b \in ArStrong(a) : ArSet(r, ArStarted(a, 0, b))
  OBVIOUS
<1>2. 0 \in 0..ArMaxChain
  BY ArAssumption
<1>3. ArStarted(a, 0, b) \in ArRunType
  BY <1>1, <1>2, ArStartedType, ArSelected, ArStrongType DEF ArInv
<1>4. /\ arRun[r].pc = "none" /\ arQueued[r] = 0 /\ arRun'[r] = ArStarted(a, 0, b)
      /\ UNCHANGED <<arActive, arEnabled, arQueued, arSwitched>>
  BY <1>1 DEF ArStart, ArAt, ArInv, ArTypeOK, ArRunInv, ArReplyInv, ArSet
<1>5. ArReplyInv(r)' /\ ArTextInv(r)' /\ ArChainInv(r)' /\ ArPinInv(r)'
  BY <1>2, <1>4, ArStartedInv DEF ArLive
<1> QED BY <1>1, <1>3, <1>4, <1>5, ArOneMoves DEF ArInv, ArTypeOK

LEMMA ArPrepareStep ==
  ASSUME ArInv, ArStales, UNCHANGED arAi, NEW r \in ArRuns, ArPrepare(r) PROVE ArInv'
<1>1. /\ arRun[r] \in ArRunType /\ arRun[r].pc = "prepare" /\ ArRunInv(r)
      /\ UNCHANGED <<arActive, arEnabled, arQueued, arSwitched>>
  BY DEF ArPrepare, ArAt, ArInv, ArTypeOK, ArRunType
<1> DEFINE go == [arRun[r] EXCEPT !.pc = "mark"]
           fail == ArOver(arRun[r], "RUNNING")
<1>2. go \in ArRunType /\ fail \in ArRunType
  BY <1>1, ArOverType DEF ArRunType
<1>3. CASE ArSet(r, go)
  <2>1. arRun'[r] = go
    BY <1>3 DEF ArSet, ArInv, ArTypeOK
  <2>2. ArReplyInv(r)' /\ ArTextInv(r)' /\ ArChainInv(r)'
    BY <1>1, <2>1 DEF ArRunType, ArRunInv, ArReplyInv, ArTextInv, ArChainInv, ArLive, ArChosen
  <2>3. ArPinInv(r)'
    BY <1>1, <2>1 DEF ArRunType, ArRunInv, ArPinInv, ArChosen, ArStales
  <2> QED BY <1>1, <1>2, <1>3, <2>2, <2>3, ArOneMoves DEF ArInv, ArTypeOK
<1>4. CASE ArSet(r, fail)
  <2>1. arRun'[r] = fail
    BY <1>4 DEF ArSet, ArInv, ArTypeOK
  <2>2. /\ fail.pc = "over" /\ fail.status = "RUNNING" /\ fail.lost = FALSE
        /\ fail.final = arRun[r].final /\ fail.depth = arRun[r].depth
    BY <1>1 DEF ArOver, ArNoRun, ArRunType, ArRunInv, ArTextInv
  <2> HIDE DEF fail
  <2>3. ArReplyInv(r)' /\ ArTextInv(r)' /\ ArChainInv(r)' /\ ArPinInv(r)'
    BY <1>1, <2>1, <2>2 DEF ArRunInv, ArReplyInv, ArTextInv, ArChainInv, ArPinInv, ArLive, ArChosen
  <2> QED BY <1>1, <1>2, <1>4, <2>3, ArOneMoves DEF ArInv, ArTypeOK
<1> QED BY <1>3, <1>4 DEF ArPrepare

LEMMA ArMarkStep ==
  ASSUME ArInv, ArStales, UNCHANGED arAi, NEW r \in ArRuns, ArMark(r) PROVE ArInv'
<1> DEFINE rec == [arRun[r] EXCEPT !.pc = "model"]
<1>1. /\ arRun[r] \in ArRunType /\ arRun[r].pc = "mark" /\ ArRunInv(r) /\ arRun'[r] = rec
      /\ arActive' = arRun[r].agent /\ ArSet(r, rec)
      /\ UNCHANGED <<arEnabled, arQueued, arSwitched>>
  BY DEF ArMark, ArAt, ArInv, ArTypeOK, ArRunType, ArSet
<1>2. rec \in ArRunType /\ arActive' \in ArAgents \union {ArNoAgent}
  BY <1>1 DEF ArRunType
<1>3. ArReplyInv(r)' /\ ArTextInv(r)' /\ ArChainInv(r)' /\ ArPinInv(r)'
  BY <1>1 DEF ArRunType, ArRunInv, ArReplyInv, ArTextInv, ArChainInv, ArPinInv, ArLive, ArChosen
<1> QED BY <1>1, <1>2, <1>3, ArOneMoves DEF ArInv, ArTypeOK

LEMMA ArModelStep ==
  ASSUME ArInv, ArStales, UNCHANGED arAi, NEW r \in ArRuns, ArModel(r) PROVE ArInv'
<1> DEFINE run == [arRun[r] EXCEPT !.iter = @ + 1]
           said(spoke) == [run EXCEPT !.pc = "text", !.spoke = spoke]
           asks(todo) == [run EXCEPT !.pc = "tools", !.todo = todo, !.synthesis = FALSE]
           fail == ArOver(run, "FAILED")
<1>1. /\ arRun[r] \in ArRunType /\ arRun[r].pc = "model" /\ ArRunInv(r)
      /\ arRun[r].iter < ArMaxIterations /\ ArMaxIterations \in Nat
      /\ UNCHANGED <<arActive, arEnabled, arQueued, arSwitched>>
  BY ArAssumption DEF ArModel, ArAt, ArInv, ArTypeOK, ArRunType
<1>2. run \in ArRunType /\ run.iter = arRun[r].iter + 1 /\ run.lost = FALSE
  BY <1>1 DEF ArRunType, ArRunInv, ArTextInv
<1>3. CASE ArSet(r, fail)
  <2>1. arRun'[r] = fail
    BY <1>3 DEF ArSet, ArInv, ArTypeOK
  <2>2. fail \in ArRunType
    BY <1>2, ArOverType
  <2>3. /\ fail.pc = "over" /\ fail.status = "FAILED" /\ fail.lost = FALSE
        /\ fail.final = run.final /\ fail.depth = arRun[r].depth
    BY <1>1, <1>2 DEF ArOver, ArNoRun, ArRunType
  <2> HIDE DEF fail
  <2>4. ArReplyInv(r)' /\ ArTextInv(r)' /\ ArChainInv(r)' /\ ArPinInv(r)'
    BY <1>1, <2>1, <2>3 DEF ArRunInv, ArReplyInv, ArTextInv, ArChainInv, ArPinInv, ArLive, ArChosen
  <2> QED BY <1>1, <1>3, <2>2, <2>4, ArOneMoves DEF ArInv, ArTypeOK
<1>4. ASSUME NEW spoke \in BOOLEAN, ArSet(r, said(spoke)) PROVE ArInv'
  <2>1. arRun'[r] = said(spoke) /\ said(spoke) \in ArRunType
    BY <1>2, <1>4 DEF ArSet, ArInv, ArTypeOK, ArRunType
  <2>2. ArReplyInv(r)' /\ ArTextInv(r)' /\ ArChainInv(r)' /\ ArPinInv(r)'
    BY <1>1, <1>2, <2>1
    DEF ArRunType, ArRunInv, ArReplyInv, ArTextInv, ArChainInv, ArPinInv, ArLive, ArChosen
  <2> QED BY <1>1, <1>4, <2>1, <2>2, ArOneMoves DEF ArInv, ArTypeOK
<1>5. ASSUME NEW todo \in ArBatches \ {<<>>}, ArSet(r, asks(todo)) PROVE ArInv'
  <2>1. arRun'[r] = asks(todo) /\ asks(todo) \in ArRunType
    BY <1>2, <1>5 DEF ArSet, ArInv, ArTypeOK, ArRunType
  <2>2. ArReplyInv(r)' /\ ArTextInv(r)' /\ ArChainInv(r)' /\ ArPinInv(r)'
    BY <1>1, <1>2, <2>1
    DEF ArRunType, ArRunInv, ArReplyInv, ArTextInv, ArChainInv, ArPinInv, ArLive, ArChosen
  <2> QED BY <1>1, <1>5, <2>1, <2>2, ArOneMoves DEF ArInv, ArTypeOK
<1> QED BY <1>3, <1>4, <1>5 DEF ArModel

LEMMA ArModelBoundStep ==
  ASSUME ArInv, ArStales, UNCHANGED arAi, NEW r \in ArRuns, ArModelBound(r) PROVE ArInv'
<1> DEFINE b == arRun[r].synthesis /\ arRun[r].spoke
           rec == [arRun[r] EXCEPT !.pc = "end", !.lost = b]
<1>1. /\ arRun[r] \in ArRunType /\ arRun[r].pc = "model" /\ ArRunInv(r) /\ arRun'[r] = rec
      /\ arRun[r].iter = ArMaxIterations /\ ArSet(r, rec) /\ b \in BOOLEAN
      /\ UNCHANGED <<arActive, arEnabled, arQueued, arSwitched>>
  BY DEF ArModelBound, ArAt, ArInv, ArTypeOK, ArRunType, ArSet
<1>2. /\ rec.pc = "end" /\ rec.lost = b /\ rec.final = arRun[r].final /\ rec.spoke = arRun[r].spoke
      /\ rec.status = arRun[r].status /\ rec.agent = arRun[r].agent /\ rec.depth = arRun[r].depth
      /\ rec.iter = ArMaxIterations
  BY <1>1 DEF ArRunType
<1>3. rec \in ArRunType
  <2> HIDE DEF b
  <2> QED BY <1>1 DEF ArRunType
<1> HIDE DEF rec
<1>4. ArReplyInv(r)' /\ ArTextInv(r)' /\ ArChainInv(r)' /\ ArPinInv(r)'
  BY <1>1, <1>2
  DEF ArRunInv, ArReplyInv, ArTextInv, ArChainInv, ArPinInv, ArLive, ArChosen
<1> QED BY <1>1, <1>3, <1>4, ArOneMoves DEF ArInv, ArTypeOK

\* The text the model ended its turn with.
LEMMA ArTextStep ==
  ASSUME ArInv, ArStales, UNCHANGED arAi, NEW r \in ArRuns, ArText(r) PROVE ArInv'
<1> DEFINE run == arRun[r]
           escalates == run.strong /\ ~run.synthesis
           replies == run.spoke /\ run.final = "NO_ACTION"
           again == [run EXCEPT !.pc = "model", !.synthesis = TRUE]
<1>1. /\ run \in ArRunType /\ run.pc = "text" /\ ArRunInv(r) /\ ArMaxIterations \in Nat
      /\ arQueued[r] \in Nat /\ UNCHANGED <<arActive, arEnabled, arSwitched>>
      /\ run.iter \in 1..ArMaxIterations
  <2>1. /\ run.pc = "text" /\ ArRunInv(r) /\ UNCHANGED <<arActive, arEnabled, arSwitched>>
    BY Zenon DEF ArText, ArAt, ArInv
  <2>2. run \in ArRunType /\ ArMaxIterations \in Nat /\ arQueued[r] \in Nat
    BY ArAssumption DEF ArInv, ArTypeOK, ArRunType
  <2> QED BY <2>1, <2>2 DEF ArRunType, ArRunInv, ArReplyInv
<1>2. CASE ArSet(r, again) /\ UNCHANGED arQueued
  <2>1. arRun'[r] = again /\ again \in ArRunType
    BY <1>1, <1>2 DEF ArSet, ArInv, ArTypeOK, ArRunType
  <2>2. ArReplyInv(r)' /\ ArTextInv(r)' /\ ArChainInv(r)' /\ ArPinInv(r)'
    BY <1>1, <1>2, <2>1
    DEF ArRunType, ArRunInv, ArReplyInv, ArTextInv, ArChainInv, ArPinInv, ArLive, ArChosen
  <2> QED BY <1>1, <1>2, <2>1, <2>2, ArOneMoves DEF ArInv, ArTypeOK
<1>3. ASSUME NEW sent \in BOOLEAN, sent => replies,
             LET final == IF sent THEN "REPLIED" ELSE run.final
                 nudges == run.prepared /\ ~run.tried /\ ~run.nudged /\ final = "NO_ACTION"
             IN /\ ArSet(r, [run EXCEPT !.pc = IF nudges THEN "model" ELSE "end",
                               !.final = final, !.synthesis = FALSE, !.nudged = @ \/ nudges,
                               !.spoke = @ /\ ~replies])
                /\ ArReplies(r, sent)
      PROVE  ArInv'
  <2> DEFINE final == IF sent THEN "REPLIED" ELSE run.final
             nudges == run.prepared /\ ~run.tried /\ ~run.nudged /\ final = "NO_ACTION"
             pc == IF nudges THEN "model" ELSE "end"
             nudged == run.nudged \/ nudges
             spoke == run.spoke /\ ~replies
             q == arQueued[r] + (IF sent THEN 1 ELSE 0)
             rec == [run EXCEPT !.pc = pc, !.final = final, !.synthesis = FALSE, !.nudged = nudged,
                                !.spoke = spoke]
  <2>1. ArSet(r, rec) /\ arQueued' = [arQueued EXCEPT ![r] = q]
    BY <1>3, Zenon DEF ArReplies
  <2>2. /\ final \in ArFinals /\ nudged \in BOOLEAN /\ spoke \in BOOLEAN /\ pc \in {"model", "end"}
        /\ q \in {arQueued[r], arQueued[r] + 1}
    BY <1>1 DEF ArRunType, ArFinals
  <2>3. /\ sent => final = "REPLIED" /\ pc = "end" /\ run.final = "NO_ACTION" /\ q = arQueued[r] + 1
        /\ ~sent => final = run.final /\ q = arQueued[r]
        /\ final = "NO_ACTION" => spoke = FALSE
    BY <1>1, <1>3
  <2> HIDE DEF final, nudged, spoke, pc, q
  <2>4. /\ rec.pc = pc /\ rec.lost = run.lost /\ rec.final = final /\ rec.spoke = spoke
        /\ rec.status = run.status /\ rec.agent = run.agent /\ rec.depth = run.depth
        /\ rec.iter = run.iter /\ rec.replied = run.replied /\ rec \in ArRunType
    BY <1>1, <2>2, ZenonT(60) DEF ArRunType
  <2> HIDE DEF rec
  <2>5. arRun'[r] = rec /\ arQueued'[r] = q
    BY <2>1 DEF ArSet, ArInv, ArTypeOK
  <2>6. ArReplyInv(r)'
    <3>1. CASE sent
      BY <1>1, <2>3, <2>4, <2>5, <3>1 DEF ArRunInv, ArReplyInv, ArLive
    <3>2. CASE ~sent
      BY <1>1, <2>2, <2>3, <2>4, <2>5, <3>2 DEF ArRunInv, ArReplyInv, ArLive
    <3> QED BY <3>1, <3>2
  <2>7. ArTextInv(r)' /\ ArChainInv(r)' /\ ArPinInv(r)'
    BY <1>1, <2>2, <2>3, <2>4, <2>5 DEF ArRunInv, ArTextInv, ArChainInv, ArPinInv, ArLive, ArChosen
  <2> QED BY <1>1, <2>1, <2>2, <2>4, <2>6, <2>7, ArOneMoves DEF ArInv, ArTypeOK
<1> QED BY <1>2, <1>3 DEF ArText

\* A tool that was called: what it adds to the run and to the queue fits.
LEMMA ArCalledInv ==
  ASSUME ArInv, ArStales, UNCHANGED <<arAi, arEnabled, arSwitched>>, NEW r \in ArRuns, ArAt(r, "tools"),
         arActive' \in ArAgents \union {ArNoAgent},
         NEW final \in ArFinals, NEW replied \in BOOLEAN, NEW prepared \in BOOLEAN,
         ArSet(r, ArCalled(arRun[r], final, replied, prepared)), ArReplies(r, replied),
         replied => final = "REPLIED" /\ ~arRun[r].replied,
         final = "DELEGATED" => arRun[r].agent = ArOrchestrator
  PROVE  ArInv'
<1> DEFINE run == arRun[r]
           rec == ArCalled(run, final, replied, prepared)
           q == arQueued[r] + (IF replied THEN 1 ELSE 0)
<1>1. /\ run \in ArRunType /\ run.pc = "tools" /\ ArRunInv(r) /\ ArMaxIterations \in Nat
      /\ arQueued[r] \in Nat /\ run.todo # <<>> /\ run.iter \in 1..ArMaxIterations
  <2>1. run \in ArRunType /\ ArMaxIterations \in Nat /\ arQueued[r] \in Nat
    BY ArAssumption DEF ArInv, ArTypeOK, ArRunType
  <2> QED BY <2>1 DEF ArAt, ArInv, ArRunInv, ArReplyInv, ArRunType
<1>2. rec \in ArRunType
  BY <1>1, ArCalledType
<1>3. /\ rec.pc \in {"tools", "model", "end"} /\ rec.lost = run.lost /\ rec.spoke = FALSE
      /\ rec.final = (IF run.final = "NO_ACTION" THEN final ELSE run.final)
      /\ rec.status = run.status /\ rec.agent = run.agent /\ rec.depth = run.depth
      /\ rec.iter = run.iter /\ rec.todo = Tail(run.todo) /\ (rec.pc = "tools" => Len(run.todo) # 1)
  BY <1>1 DEF ArCalled, ArRunType
<1>9. rec.replied = (run.replied \/ replied)
  BY <1>1 DEF ArCalled, ArRunType
<1>4. rec.pc = "tools" => rec.todo # <<>>
  <2>1. run.todo \in ArBatches /\ run.todo # <<>>
    BY <1>1 DEF ArRunType
  <2>2. CASE \E u \in ArTools : run.todo = <<u>>
    BY <1>3, <2>2
  <2>3. CASE run.todo \in ArTools \X ArTools
    <3>1. PICK u \in ArTools, v \in ArTools : run.todo = <<u, v>>
      BY <2>3
    <3>2. rec.todo = <<v>>
      BY <1>3, <3>1
    <3> QED BY <3>2
  <2> QED BY <2>1, <2>2, <2>3 DEF ArBatches
<1> HIDE DEF rec
<1>5. arRun'[r] = rec /\ arQueued'[r] = q /\ arQueued' = [arQueued EXCEPT ![r] = q]
  BY DEF rec, ArSet, ArReplies, ArInv, ArTypeOK
<1>6. /\ q \in {arQueued[r], arQueued[r] + 1}
      /\ replied => q = arQueued[r] + 1
      /\ ~replied => q = arQueued[r]
  BY <1>1
<1> HIDE DEF q
<1>7. ArReplyInv(r)'
  <2>1. CASE replied
    <3>1. arQueued[r] = 0
      BY <1>1, <2>1 DEF ArRunInv, ArReplyInv, ArLive
    <3>2. rec.replied = TRUE
      BY <1>9, <2>1, Zenon
    <3>3. rec.final # "NO_ACTION"
      BY <1>3, <2>1
    <3>4. arQueued'[r] = 1
      BY <1>5, <1>6, <2>1, <3>1
    <3>5. ArMaxIterations > 0
      BY <1>1
    <3>6. arRun'[r].pc \in {"text", "tools"} => arRun'[r].iter > 0
      BY <1>1, <1>3, <1>5
    <3>7. arRun'[r].pc = "tools" => arRun'[r].todo # <<>>
      BY <1>4, <1>5
    <3>8. arRun'[r].replied
      BY <1>5, <3>2
    <3>9. arRun'[r].pc # "none" /\ arRun'[r].final # "NO_ACTION"
      BY <1>3, <1>5, <3>3
    <3> QED BY <3>4, <3>5, <3>6, <3>7, <3>8, <3>9 DEF ArReplyInv, ArLive
  <2>2. CASE ~replied
    BY <1>1, <1>3, <1>4, <1>5, <1>6, <1>9, <2>2 DEF ArRunInv, ArReplyInv, ArLive
  <2> QED BY <2>1, <2>2
<1>8. ArTextInv(r)' /\ ArChainInv(r)' /\ ArPinInv(r)'
  BY <1>1, <1>3, <1>5 DEF ArRunInv, ArTextInv, ArChainInv, ArPinInv, ArLive, ArChosen
<1> QED BY <1>2, <1>5, <1>6, <1>7, <1>8, ArOneMoves DEF rec

LEMMA ArToolStep ==
  ASSUME ArInv, ArStales, UNCHANGED arAi, NEW r \in ArRuns, ArTool(r) PROVE ArInv'
<1> DEFINE run == arRun[r]
           called(final, replied, prepared) == ArSet(r, ArCalled(run, final, replied, prepared))
<1>1. /\ ArAt(r, "tools") /\ UNCHANGED <<arAi, arEnabled, arSwitched>>
      /\ arActive \in ArAgents \union {ArNoAgent} /\ arEnabled \subseteq ArAgents
  BY DEF ArTool, ArInv, ArTypeOK
<1>2. UNCHANGED arQueued => ArReplies(r, FALSE)
  <2>1. arQueued[r] \in Nat /\ arQueued \in [ArRuns -> Nat]
    BY ArAssumption DEF ArInv, ArTypeOK
  <2> QED BY <2>1 DEF ArReplies
<1>3. CASE ArReplyTool(r)
  <2>1. PICK sent \in (IF run.replied THEN {FALSE} ELSE BOOLEAN) :
          called(IF sent THEN "REPLIED" ELSE "NO_ACTION", sent, FALSE) /\ ArReplies(r, sent)
    BY <1>3 DEF ArReplyTool
  <2>2. sent \in BOOLEAN /\ (sent => ~run.replied) /\ UNCHANGED arActive
    BY <1>3 DEF ArReplyTool
  <2> DEFINE final == IF sent THEN "REPLIED" ELSE "NO_ACTION"
  <2>3. final \in ArFinals /\ final # "DELEGATED" /\ (sent => final = "REPLIED")
    BY DEF ArFinals
  <2> HIDE DEF final
  <2>4. called(final, sent, FALSE)
    BY <2>1 DEF final
  <2> QED BY <1>1, <2>1, <2>2, <2>3, <2>4, ArCalledInv
<1>4. CASE ArDelegate(r)
  <2>1. PICK to \in (ArWorkers \intersect arEnabled) \union {ArNoAgent} :
       IF run.agent # ArOrchestrator \/ to = ArNoAgent
       THEN called("NO_ACTION", FALSE, FALSE) /\ UNCHANGED arActive
       ELSE /\ \E final \in {"DELEGATED", "NO_ACTION"} : called(final, FALSE, FALSE)
            /\ arActive' = to
    BY <1>4 DEF ArDelegate
  <2>2. PICK final \in {"DELEGATED", "NO_ACTION"} :
          called(final, FALSE, FALSE) /\ (final = "DELEGATED" => run.agent = ArOrchestrator)
    BY <2>1
  <2>3. arActive' \in ArAgents \union {ArNoAgent} /\ final \in ArFinals
    BY <1>1, <2>1 DEF ArFinals, ArAgents
  <2>4. ArReplies(r, FALSE)
    BY <1>2, <1>4 DEF ArDelegate
  <2> QED BY <1>1, <2>2, <2>3, <2>4, ArCalledInv
<1>5. CASE ArHandBack(r)
  <2>1. PICK final \in {"HANDED_BACK", "NO_ACTION"} : called(final, FALSE, FALSE)
    BY <1>5 DEF ArHandBack
  <2>2. arActive' \in ArAgents \union {ArNoAgent} /\ final \in ArFinals /\ final # "DELEGATED"
    BY <1>1, <1>5 DEF ArHandBack, ArFinals
  <2>3. ArReplies(r, FALSE)
    BY <1>2, <1>5 DEF ArHandBack
  <2> QED BY <1>1, <2>1, <2>2, <2>3, ArCalledInv
<1>6. CASE ArAskOrRead(r)
  <2>1. PICK final \in {"TRANSFERRED_TO_HUMAN", "NO_ACTION"}, prepared \in BOOLEAN :
          called(final, FALSE, prepared)
    BY <1>6 DEF ArAskOrRead
  <2>2. arActive' = arActive /\ final \in ArFinals /\ final # "DELEGATED"
    BY <1>6 DEF ArAskOrRead, ArFinals
  <2>3. ArReplies(r, FALSE)
    BY <1>2, <1>6 DEF ArAskOrRead
  <2> QED BY <1>1, <2>1, <2>2, <2>3, ArCalledInv
<1> QED BY <1>3, <1>4, <1>5, <1>6 DEF ArTool

\* The end of a run, and the chained run that may begin with it.
LEMMA ArEndStep ==
  ASSUME ArInv, ArStales, UNCHANGED arAi, NEW r \in ArRuns, ArEnd(r) PROVE ArInv'
<1> DEFINE run == arRun[r]
           done == ArOver(run, "COMPLETED")
           over == [arRun EXCEPT ![r] = done]
           chains == /\ run.final = "DELEGATED"
                     /\ run.depth < ArMaxChain
                     /\ arActive \notin {ArNoAgent, run.agent}
<1>1. /\ run \in ArRunType /\ run.pc = "end" /\ ArRunInv(r) /\ ArMaxIterations \in Nat
      /\ ArMaxChain \in Nat /\ arRun \in [ArRuns -> ArRunType]
      /\ arQueued \in [ArRuns -> 0..(2 * ArMaxIterations)]
      /\ UNCHANGED <<arActive, arEnabled, arSwitched>> /\ arActive \in ArAgents \union {ArNoAgent}
  BY ArAssumption DEF ArEnd, ArAt, ArInv, ArTypeOK, ArRunType
<1>2. done \in ArRunType
  BY <1>1, ArOverType
<1>3. /\ done.pc = "over" /\ done.status = "COMPLETED" /\ done.lost = run.lost
      /\ done.final = run.final /\ done.depth = run.depth /\ done.spoke = run.spoke
      /\ done.lost => done.iter = run.iter
  BY <1>1 DEF ArOver, ArNoRun, ArRunType
<1> HIDE DEF done
<1>4. ASSUME arRun'[r] = done, arQueued'[r] = arQueued[r]
      PROVE  ArReplyInv(r)' /\ ArTextInv(r)' /\ ArChainInv(r)' /\ ArPinInv(r)'
  <2>1. ArReplyInv(r)'
    BY <1>1, <1>3, <1>4 DEF ArRunInv, ArReplyInv, ArLive
  <2> QED BY <1>1, <1>3, <1>4, <2>1
          DEF ArRunInv, ArTextInv, ArChainInv, ArPinInv, ArLive, ArChosen
<1>5. CASE chains
  <2> PICK s \in ArRuns \ {r}, a \in ArSelect(run.depth + 1) : \E strong \in ArStrong(a) :
         /\ arRun[s].pc \in {"none", "over"}
         /\ arRun' = [over EXCEPT ![s] = ArStarted(a, run.depth + 1, strong)]
         /\ arQueued' = [arQueued EXCEPT ![s] = 0]
    BY <1>5 DEF ArEnd, done
  <2>1. PICK strong \in ArStrong(a) :
         /\ arRun[s].pc \in {"none", "over"}
         /\ arRun' = [over EXCEPT ![s] = ArStarted(a, run.depth + 1, strong)]
         /\ arQueued' = [arQueued EXCEPT ![s] = 0]
    OBVIOUS
  <2> DEFINE depth == run.depth + 1
             new == ArStarted(a, depth, strong)
  <2>2. depth \in 0..ArMaxChain /\ depth > 0
    BY <1>1, <1>5 DEF ArRunType
  <2>3. a \in ArAgents \union {ArNoAgent} /\ (a # ArNoAgent => arActive = a \/ arActive \notin arEnabled)
    BY <2>2, ArSelected DEF ArInv
  <2>4. new \in ArRunType
    BY <2>2, <2>3, ArStartedType, ArStrongType
  <2> HIDE DEF new
  <2>5. /\ arRun' \in [ArRuns -> ArRunType] /\ arRun'[r] = done /\ arRun'[s] = new
        /\ arQueued'[r] = arQueued[r] /\ arQueued'[s] = 0
        /\ arQueued' \in [ArRuns -> 0..(2 * ArMaxIterations)]
        /\ \A x \in ArRuns \ {r, s} : arRun'[x] = arRun[x] /\ arQueued'[x] = arQueued[x]
    BY <1>1, <1>2, <2>1, <2>4 DEF new
  <2>6. run.agent = ArOrchestrator
    BY <1>1, <1>5 DEF ArRunInv, ArChainInv, ArLive
  <2>7. depth > 0 => a # ArOrchestrator \/ ArWorkers \ arEnabled # {}
    <3>1. arActive \in ArWorkers
      BY <1>1, <1>5, <2>6 DEF ArAgents
    <3> QED BY <2>3, <2>6, <3>1, ArAssumption
  <2>8. depth > 1 => ArWorkers \ arEnabled # {}
    BY <1>1, <2>6 DEF ArRunInv, ArChainInv, ArLive, ArRunType
  <2>9. ArReplyInv(s)' /\ ArTextInv(s)' /\ ArChainInv(s)' /\ ArPinInv(s)'
    <3>2. a \in ArSelect(depth)
      OBVIOUS
    <3> HIDE DEF depth
    <3>1. arRun'[s] = ArStarted(a, depth, strong) /\ ~ArLive(s)
      BY <2>1, <2>5 DEF new, ArLive
    <3> QED BY <1>1, <2>2, <2>5, <2>7, <2>8, <3>1, <3>2, ArStartedInv
  <2>10. \A x \in ArRuns : ArRunInv(x)'
    <3>1. \A x \in ArRuns \ {r, s} : ArRunInv(x)'
      BY <1>1, <2>5, ArFrame
    <3>2. ArRunInv(r)'
      BY <1>4, <2>5 DEF ArRunInv
    <3>3. ArRunInv(s)'
      BY <2>9 DEF ArRunInv
    <3> QED BY <3>1, <3>2, <3>3
  <2>11. ArTypeOK'
    BY <1>1, <2>5 DEF ArInv, ArTypeOK, ArRunType, ArStales
  <2> QED BY <2>10, <2>11 DEF ArInv
<1>6. CASE ~chains
  <2>1. ArSet(r, done) /\ UNCHANGED arQueued
    BY <1>6 DEF ArEnd, ArSet, done
  <2>2. arRun'[r] = done /\ arQueued' = [arQueued EXCEPT ![r] = arQueued[r]]
    BY <1>1, <2>1 DEF ArSet
  <2> QED BY <1>1, <1>2, <1>4, <2>1, <2>2, ArOneMoves
<1> QED BY <1>5, <1>6

\* Operators move no run and switch no agent on.
LEMMA ArOperatorInv == ArInv /\ ArStales /\ ArOperatorStep => ArInv'
<1> SUFFICES ASSUME ArInv, ArStales, ArOperatorStep PROVE ArInv'
  OBVIOUS
<1>1. /\ arEnabled' \subseteq arEnabled /\ UNCHANGED <<arRun, arQueued>>
      /\ arActive' \in ArAgents \union {ArNoAgent} /\ arAi' \in ArSwitch
      /\ arSwitched < ArMaxSwitches /\ arSwitched' = arSwitched + 1
  BY DEF ArOperatorStep, ArPinAgent, ArDeactivate, ArToggleAi, ArCountSwitch, ArInv, ArTypeOK, ArSwitch
<1>2. ArTypeOK'
  BY <1>1, ArAssumption DEF ArInv, ArTypeOK, ArStales
<1>3. \A r \in ArRuns : ArRunInv(r)'
  BY <1>1, ArFrame
<1> QED BY <1>2, <1>3 DEF ArInv

LEMMA ArInvStep == ArInv /\ [ArNext]_arVars => ArInv'
<1> SUFFICES ASSUME ArInv, [ArNext]_arVars PROVE ArInv'
  OBVIOUS
<1>1. CASE ArNext
  <2>1. ArStales
    BY <1>1 DEF ArNext, ArStales
  <2>2. ASSUME NEW r \in ArRuns, ArRunStep(r) PROVE ArInv'
    BY <2>1, <2>2, ArStartStep, ArPrepareStep, ArMarkStep, ArModelStep, ArModelBoundStep, ArTextStep,
       ArToolStep, ArEndStep DEF ArRunStep
  <2> QED BY <1>1, <2>1, <2>2, ArOperatorInv DEF ArNext
<1>2. CASE UNCHANGED arVars
  BY <1>2 DEF arVars, ArInv, ArTypeOK, ArRunInv, ArReplyInv, ArTextInv, ArChainInv, ArPinInv, ArLive
<1> QED BY <1>1, <1>2

LEMMA ArInitInv == ArInit => ArInv
<1> SUFFICES ASSUME ArInit PROVE ArInv
  OBVIOUS
<1>1. \A r \in ArRuns : arRun[r] = ArNoRun /\ arQueued[r] = 0
  BY DEF ArInit
<1>2. /\ ArNoRun.pc = "none" /\ ArNoRun.lost = FALSE /\ ArNoRun.spoke = FALSE /\ ArNoRun.depth = 0
  BY DEF ArNoRun
<1>3. \A r \in ArRuns : ArRunInv(r)
  BY <1>1, <1>2, ArAssumption
  DEF ArRunInv, ArReplyInv, ArTextInv, ArChainInv, ArPinInv, ArLive, ArChosen
<1>4. ArTypeOK
  BY ArNoRunType, ArAssumption DEF ArInit, ArTypeOK, ArSwitch, ArRunType
<1> QED BY <1>3, <1>4 DEF ArInv

\* Whatever the model asks for and operators switch: a run queues one reply at most, drops a
\* text only at the bound of its loop, chains one worker deep, and the most specific switch
\* decides whether it may answer.
THEOREM ArSafeCorrect == ArSpec => []ArSafe
<1>1. ArInv => ArSafe
  <2> SUFFICES ASSUME ArInv PROVE ArSafe
    OBVIOUS
  <2>1. ArOneReply
    BY DEF ArInv, ArRunInv, ArReplyInv, ArOneReply
  <2>2. ArDroppedOnlyAtBound
    BY DEF ArInv, ArRunInv, ArTextInv, ArDroppedOnlyAtBound
  <2>3. ArChainIsOneDeep
    BY DEF ArInv, ArRunInv, ArChainInv, ArChainIsOneDeep
  <2>4. ArMostSpecificWins
    BY DEF ArInv, ArTypeOK, ArSwitch, ArMostSpecificWins, ArShouldHandle
  <2> QED BY <2>1, <2>2, <2>3, <2>4 DEF ArSafe
<1> QED BY <1>1, ArInitInv, ArInvStep, PTL DEF ArSpec

\* The runs, the conversation and its switches stay within their types.
THEOREM ArTypeCorrect == ArSpec => []ArTypeOK
<1>1. ArInv => ArTypeOK
  BY DEF ArInv
<1> QED BY <1>1, ArInitInv, ArInvStep, PTL DEF ArSpec

\* The opening write of a run takes the conversation from another active agent only when the
\* run had chosen before that agent got it.
THEOREM ArPinSurvivesCorrect == ArSpec => [][ArPinSurvives]_arVars
<1>1. ArInv /\ [ArNext]_arVars => [ArPinSurvives]_arVars
  <2> SUFFICES ASSUME ArInv, ArNext PROVE ArPinSurvives
    OBVIOUS
  <2>1. CASE ArOperatorStep
    BY <2>1, ArAssumption DEF ArOperatorStep, ArPinAgent, ArDeactivate, ArToggleAi, ArCountSwitch,
       ArInv, ArTypeOK, ArPinSurvives
  <2>2. ASSUME NEW r \in ArRuns, ArRunStep(r) PROVE ArPinSurvives
    <3>1. CASE ArTool(r)
      BY <3>1 DEF ArTool, ArPinSurvives
    <3>2. CASE ArMark(r)
      BY <3>2 DEF ArMark, ArAt, ArInv, ArRunInv, ArPinInv, ArChosen, ArPinSurvives
    <3>3. CASE ~ArTool(r) /\ ~ArMark(r)
      BY <2>2, <3>3 DEF ArRunStep, ArStart, ArPrepare, ArModel, ArModelBound, ArText, ArEnd,
         ArPinSurvives
    <3> QED BY <3>1, <3>2, <3>3
  <2> QED BY <2>1, <2>2 DEF ArNext
<1> QED BY <1>1, ArInitInv, ArInvStep, PTL DEF ArSpec

-----------------------------------------------------------------------------
(* Skills and their calls: any editors, versions and runs *)

SkEditType == [pc : {"idle", "read"}, read : 0..SkMaxVersions]
SkCallType ==
  [pc : {"idle", "offered", "gate", "send", "done"}, tries : 0..2, effects : 0..2,
   seen5xx : BOOLEAN, gated : BOOLEAN]

\* An update writes the version after one there is.
SkEditInv ==
  \A u \in SkEditors : skEdit[u].pc = "read" =>
    skEdit[u].read \in 1..skRow.version /\ skEdit[u].read < SkMaxVersions

\* What the operator asked for is what the attachment says, until the list is saved again.
SkGateInv == (skWanted = TRUE) /\ ~skResaved => (skLink.attached = TRUE) /\ (skLink.gate = TRUE)

\* A call that acted and goes on met a server error that the response map does not hide.
SkCallOK(call) ==
  /\ call.pc = "gate" => call.tries <= 1 /\ call.effects <= call.tries
  /\ call.pc = "send" => call.tries >= 1 /\ call.effects <= call.tries - 1
  /\ (call.pc \in {"gate", "send"} /\ call.effects > 0) \/ call.effects > 1 =>
       (call.seen5xx = TRUE) /\ skKind.mapped = FALSE
SkCallInv == \A r \in SkRuns : SkCallOK(skCall[r])

SkInv == SkTypeOK /\ SkHistoryIsWhole /\ SkEditInv /\ SkGateInv /\ SkGateHolds /\ SkCallInv

\* Steps of the catalog and of the attachment leave the calls alone, and calls leave them alone.
LEMMA SkFrame ==
  /\ SkHistoryIsWhole /\ UNCHANGED <<skRow, skSnaps>> => SkHistoryIsWhole'
  /\ SkEditInv /\ UNCHANGED <<skRow, skEdit>> => SkEditInv'
  /\ SkGateInv /\ UNCHANGED <<skWanted, skResaved, skLink>> => SkGateInv'
  /\ SkGateHolds /\ UNCHANGED skBypassed => SkGateHolds'
  /\ SkCallInv /\ UNCHANGED <<skCall, skKind>> => SkCallInv'
BY DEF SkHistoryIsWhole, SkEditInv, SkGateInv, SkGateHolds, SkCallInv, SkCallOK

LEMMA SkStarts == SkInit => SkInv
<1> SUFFICES ASSUME SkInit PROVE SkInv
  OBVIOUS
<1>1. SkTypeOK
  <2>1. skRow \in [version : 1..SkMaxVersions, content : 1..SkMaxVersions, deleted : BOOLEAN]
    BY SkAssumption DEF SkInit
  <2>2. \A s \in skSnaps : s \in [version : 1..SkMaxVersions, content : 1..SkMaxVersions]
    BY SkAssumption DEF SkInit
  <2>3. SkNoEdit \in SkEditType
    BY SkAssumption DEF SkNoEdit, SkEditType
  <2>4. SkNoCall \in SkCallType
    BY DEF SkNoCall, SkCallType
  <2>5. skLink \in [attached : BOOLEAN, gate : BOOLEAN]
    BY DEF SkInit
  <2>6. skChanges \in 0..SkMaxChanges
    BY SkAssumption DEF SkInit
  <2>7. {skWanted, skResaved, skBypassed} \subseteq BOOLEAN
    BY DEF SkInit
  <2> QED BY <2>1, <2>2, <2>3, <2>4, <2>5, <2>6, <2>7 DEF SkInit, SkTypeOK, SkEditType, SkCallType
<1>2. SkHistoryIsWhole
  <2>1. /\ skRow.version = 1 /\ skRow.content = 1 /\ skSnaps = {[version |-> 1, content |-> 1]}
    BY DEF SkInit
  <2>2. {s.version : s \in skSnaps} = {1} /\ 1..skRow.version = {1}
    BY <2>1
  <2> QED BY <2>1, <2>2 DEF SkHistoryIsWhole
<1>3. SkEditInv /\ SkGateInv /\ SkGateHolds
  BY DEF SkInit, SkEditInv, SkGateInv, SkGateHolds, SkNoEdit
<1>4. SkCallInv
  BY DEF SkInit, SkCallInv, SkCallOK, SkNoCall
<1> QED BY <1>1, <1>2, <1>3, <1>4 DEF SkInv

LEMMA SkReadKeeps ==
  ASSUME SkInv, NEW u \in SkEditors, SkRead(u)
  PROVE  SkInv'
<1>0. [pc |-> "read", read |-> skRow.version] \in SkEditType
  BY SkAssumption DEF SkInv, SkTypeOK, SkEditType
<1>1. skEdit' \in [SkEditors -> SkEditType]
  BY <1>0 DEF SkInv, SkTypeOK, SkRead, SkEditType
<1>2. SkTypeOK'
  BY <1>1 DEF SkInv, SkTypeOK, SkRead, skAttachment, SkEditType
<1>3. SkEditInv'
  BY SkAssumption DEF SkInv, SkTypeOK, SkRead, SkEditInv
<1> QED BY <1>2, <1>3, SkFrame DEF SkInv, SkRead, skAttachment

LEMMA SkWriteKeeps ==
  ASSUME SkInv, NEW u \in SkEditors, SkWrite(u)
  PROVE  SkInv'
<1> DEFINE v == skEdit[u].read + 1
<1>0. SkNoEdit \in SkEditType /\ SkNoEdit.pc = "idle"
  BY SkAssumption DEF SkEditType, SkNoEdit
<1>1. /\ skEdit' \in [SkEditors -> SkEditType] /\ skEdit'[u].pc = "idle"
      /\ \A w \in SkEditors : w # u => skEdit'[w] = skEdit[w]
  BY <1>0 DEF SkInv, SkTypeOK, SkWrite, SkEditType
<1>2. CASE UNCHANGED <<skRow, skSnaps>>
  <2>1. SkTypeOK'
    BY <1>1, <1>2 DEF SkInv, SkTypeOK, SkWrite, skAttachment, SkEditType
  <2>2. SkEditInv'
    BY <1>1, <1>2 DEF SkInv, SkEditInv
  <2> QED BY <1>2, <2>1, <2>2, SkFrame DEF SkInv, SkWrite, skAttachment
<1>3. CASE /\ \A s \in skSnaps : s.version # v
           /\ \E c \in SkContents :
                /\ skRow' = [skRow EXCEPT !.version = v, !.content = c]
                /\ skSnaps' = skSnaps \union {[version |-> v, content |-> c]}
  <2>1. PICK c \in SkContents : /\ skRow' = [skRow EXCEPT !.version = v, !.content = c]
                                /\ skSnaps' = skSnaps \union {[version |-> v, content |-> c]}
    BY <1>3
  <2>2. c \in 1..SkMaxVersions
    BY DEF SkContents
  <2>3. skEdit[u].read \in 1..skRow.version /\ skEdit[u].read < SkMaxVersions /\ skRow.version \in 1..SkMaxVersions
    BY DEF SkInv, SkEditInv, SkWrite, SkTypeOK
  <2>4. v \notin 1..skRow.version
    BY <1>3 DEF SkInv, SkHistoryIsWhole
  <2>5. v = skRow.version + 1 /\ v \in 1..SkMaxVersions
    BY <2>3, <2>4, SkAssumption
  <2> HIDE DEF v
  <2>6. /\ skRow' \in [version : 1..SkMaxVersions, content : 1..SkMaxVersions, deleted : BOOLEAN]
        /\ skRow'.version = v /\ skRow'.content = c
    BY <2>1, <2>2, <2>5 DEF SkInv, SkTypeOK
  <2>7. \A s \in skSnaps' : s \in skSnaps \/ s = [version |-> v, content |-> c]
    BY <2>1
  <2>8. \A s \in skSnaps' : s \in [version : 1..SkMaxVersions, content : 1..SkMaxVersions]
    BY <2>2, <2>5, <2>7 DEF SkInv, SkTypeOK
  <2>9. SkTypeOK'
    BY <1>1, <2>6, <2>8 DEF SkInv, SkTypeOK, SkWrite, skAttachment, SkEditType
  <2>10. SkHistoryIsWhole'
    <3>1. {s.version : s \in skSnaps'} = {s.version : s \in skSnaps} \union {v}
      <4> DEFINE new == [version |-> v, content |-> c]
      <4>1. new.version = v /\ skSnaps' = skSnaps \union {new}
        BY <2>1
      <4> HIDE DEF new
      <4> QED BY <4>1
    <3>2. 1..v = (1..skRow.version) \union {v}
      BY <2>3, <2>5
    <3>3. \A s \in skSnaps' : s.version = v => s.content = c
      BY <1>3, <2>7 DEF v
    <3> QED BY <2>6, <3>1, <3>2, <3>3 DEF SkInv, SkHistoryIsWhole
  <2>11. SkEditInv'
    BY <1>1, <2>5, <2>6, <2>3 DEF SkInv, SkEditInv
  <2> QED BY <2>9, <2>10, <2>11, SkFrame DEF SkInv, SkWrite, skAttachment
<1> QED BY <1>2, <1>3 DEF SkWrite

LEMMA SkDeleteKeeps ==
  ASSUME SkInv, SkDelete
  PROVE  SkInv'
<1>1. /\ skRow' \in [version : 1..SkMaxVersions, content : 1..SkMaxVersions, deleted : BOOLEAN]
      /\ skRow'.version = skRow.version /\ skRow'.content = skRow.content
  BY DEF SkInv, SkTypeOK, SkDelete
<1>2. SkTypeOK'
  BY <1>1 DEF SkInv, SkTypeOK, SkDelete, skAttachment
<1>3. SkHistoryIsWhole' /\ SkEditInv'
  BY <1>1 DEF SkInv, SkHistoryIsWhole, SkEditInv, SkDelete
<1> QED BY <1>2, <1>3, SkFrame DEF SkInv, SkDelete, skAttachment

LEMMA SkAttachKeeps ==
  ASSUME SkInv, NEW b \in BOOLEAN, SkSetSkills(b) \/ SkSetApproval(b)
  PROVE  SkInv'
<1>1. skLink' \in [attached : BOOLEAN, gate : BOOLEAN]
  <2>1. CASE SkSetSkills(b)
    <3>1. [attached |-> b, gate |-> FALSE] \in [attached : BOOLEAN, gate : BOOLEAN]
      OBVIOUS
    <3> QED BY <2>1, <3>1 DEF SkSetSkills
  <2>2. CASE SkSetApproval(b)
    BY <2>2 DEF SkInv, SkTypeOK, SkSetApproval
  <2> QED BY <2>1, <2>2
<1>c. skChanges' \in 0..SkMaxChanges
  BY SkAssumption DEF SkInv, SkTypeOK, SkSetSkills, SkSetApproval
<1>2. SkTypeOK'
  BY <1>1, <1>c DEF SkInv, SkTypeOK, SkSetSkills, SkSetApproval, skCatalog
<1>3. SkGateInv'
  BY DEF SkInv, SkTypeOK, SkGateInv, SkSetSkills, SkSetApproval
<1> QED BY <1>2, <1>3, SkFrame DEF SkInv, SkSetSkills, SkSetApproval, skCatalog

\* A step of one call.
SkRestKept ==
  /\ skKind' = skKind /\ skRow' = skRow /\ skSnaps' = skSnaps /\ skEdit' = skEdit
  /\ skLink' = skLink /\ skChanges' = skChanges /\ skWanted' = skWanted /\ skResaved' = skResaved

LEMMA SkOneCall ==
  ASSUME SkInv, NEW r \in SkRuns, NEW call \in SkCallType, skCall' = [skCall EXCEPT ![r] = call],
         SkRestKept, skBypassed' = FALSE, SkCallOK(call)
  PROVE  SkInv'
<1>1. skCall \in [SkRuns -> SkCallType]
  BY DEF SkInv, SkTypeOK, SkCallType
<1>2. skCall' \in [SkRuns -> SkCallType] /\ skCall'[r] = call /\ \A q \in SkRuns : q # r => skCall'[q] = skCall[q]
  BY <1>1
<1>3. SkTypeOK'
  BY <1>2 DEF SkInv, SkTypeOK, SkCallType, SkRestKept
<1>4. SkCallInv'
  BY <1>2 DEF SkInv, SkCallInv, SkCallOK, SkRestKept
<1> QED BY <1>3, <1>4, SkFrame DEF SkInv, SkRestKept, SkGateHolds

\* Setting the fields of a call.
SkPcs == {"idle", "offered", "gate", "send", "done"}

LEMMA SkCallKeeps ==
  ASSUME SkInv, NEW r \in SkRuns, SkOffer(r) \/ SkBegin(r) \/ SkGate(r) \/ SkSend(r) \/ SkDone(r)
  PROVE  SkInv'
<1> DEFINE old == skCall[r]
<1>1. /\ skCall \in [SkRuns -> SkCallType] /\ old \in SkCallType
      /\ skLink.gate \in BOOLEAN /\ skKind.mapped \in BOOLEAN
      /\ skWanted \in BOOLEAN /\ skResaved \in BOOLEAN /\ skBypassed \in BOOLEAN
  BY DEF SkInv, SkTypeOK, SkCallType
<1>2. SkCallOK(old)
  BY DEF SkInv, SkCallInv
<1>r. SkRestKept
  BY DEF SkOffer, SkBegin, SkGate, SkSend, SkDone, skCatalog, skAttachment, SkRestKept
<1>b. skBypassed' = FALSE
  <2>1. skBypassed = FALSE
    BY <1>1 DEF SkInv, SkGateHolds
  <2>2. CASE SkGate(r) /\ ~(skKind.source = "HTTP" /\ SkGateOf(r))
    <3>1. ~(skKind.source = "HTTP" /\ skWanted /\ ~skResaved)
      BY <1>1, <2>2 DEF SkInv, SkGateInv, SkGateOf
    <3> QED BY <2>1, <2>2, <3>1 DEF SkGate
  <2> QED BY <2>1, <2>2 DEF SkOffer, SkBegin, SkGate, SkSend, SkDone
<1>n. old.tries \in 0..2 /\ old.effects \in 0..2
  BY <1>1 DEF SkCallType
<1>3. CASE SkOffer(r)
  <2> DEFINE call == [old EXCEPT !.pc = "offered", !.gated = skLink.gate]
  <2>1. skCall' = [skCall EXCEPT ![r] = call]
    BY <1>1, <1>3 DEF SkOffer
  <2>2. call \in SkCallType /\ call.pc = "offered" /\ call.effects = old.effects /\ call.seen5xx = old.seen5xx
    BY <1>1 DEF SkCallType
  <2> HIDE DEF call
  <2>3. SkCallOK(call)
    BY <1>2, <2>2 DEF SkCallOK
  <2> QED BY <1>r, <1>b, <2>1, <2>2, <2>3, SkOneCall
<1>4. CASE SkBegin(r)
  <2> DEFINE p == "gate" n == 0 no == FALSE
             call == [old EXCEPT !.pc = p, !.tries = n, !.effects = n, !.seen5xx = no]
  <2>1. skCall' = [skCall EXCEPT ![r] = call]
    BY <1>1, <1>4 DEF SkBegin
  <2>2. p \in SkPcs /\ n \in 0..2 /\ no \in BOOLEAN /\ p = "gate" /\ n = 0
    BY DEF SkPcs
  <2> HIDE DEF p, n, no
  <2>3. call \in SkCallType /\ call.pc = "gate" /\ call.effects = 0 /\ call.tries = 0
    BY <1>1, <2>2 DEF SkCallType, SkPcs
  <2> HIDE DEF call
  <2>4. SkCallOK(call)
    BY <2>3 DEF SkCallOK
  <2> QED BY <1>r, <1>b, <2>1, <2>3, <2>4, SkOneCall
<1>5. CASE SkGate(r) /\ skKind.source = "HTTP" /\ SkGateOf(r)
  <2> DEFINE call == [old EXCEPT !.pc = "done"]
  <2>1. skCall' = [skCall EXCEPT ![r] = call]
    BY <1>1, <1>5 DEF SkGate
  <2>2. call \in SkCallType /\ call.pc = "done" /\ call.effects = old.effects /\ call.seen5xx = old.seen5xx
    BY <1>1 DEF SkCallType
  <2> HIDE DEF call
  <2>3. SkCallOK(call)
    BY <1>2, <2>2 DEF SkCallOK
  <2> QED BY <1>r, <1>b, <2>1, <2>2, <2>3, SkOneCall
<1>6. CASE SkGate(r) /\ ~(skKind.source = "HTTP" /\ SkGateOf(r))
  <2> DEFINE n == old.tries + 1
             call == [old EXCEPT !.pc = "send", !.tries = n]
  <2>1. skCall' = [skCall EXCEPT ![r] = call]
    BY <1>1, <1>6 DEF SkGate
  <2>2. old.pc = "gate" /\ old.tries <= 1
    BY <1>2, <1>6 DEF SkCallOK, SkGate
  <2>3. n \in 0..2 /\ n = old.tries + 1
    BY <1>n, <2>2
  <2> HIDE DEF n
  <2>4. call \in SkCallType /\ call.pc = "send" /\ call.tries = n /\ call.effects = old.effects /\ call.seen5xx = old.seen5xx
    BY <1>1, <2>3 DEF SkCallType
  <2> HIDE DEF call
  <2>5. SkCallOK(call)
    BY <1>2, <1>n, <2>2, <2>3, <2>4 DEF SkCallOK
  <2> QED BY <1>r, <1>b, <2>1, <2>4, <2>5, SkOneCall
<1>7. CASE SkSend(r)
  <2>1. PICK outcome \in SkOutcomes, acts \in BOOLEAN :
          /\ acts => SkMayAct(outcome)
          /\ skCall' = [skCall EXCEPT
               ![r].pc = IF SkTransient(outcome) /\ skCall[r].tries < 2 THEN "gate" ELSE "done",
               ![r].effects = IF acts THEN @ + 1 ELSE @,
               ![r].seen5xx = @ \/ outcome = "5xx"]
    BY <1>7 DEF SkSend
  <2> DEFINE pc == IF SkTransient(outcome) /\ old.tries < 2 THEN "gate" ELSE "done"
             effects == IF acts THEN old.effects + 1 ELSE old.effects
             seen == old.seen5xx \/ outcome = "5xx"
             call == [old EXCEPT !.pc = pc, !.effects = effects, !.seen5xx = seen]
  <2>2. skCall' = [skCall EXCEPT ![r] = call]
    BY <1>1, <2>1
  <2>p. old.pc = "send"
    BY <1>7 DEF SkSend
  <2>3. old.tries \in 1..2 /\ old.effects \in 0..1 /\ old.effects <= old.tries - 1
    BY <1>n, <1>2, <2>p DEF SkCallOK
  <2>4. pc \in {"gate", "done"} /\ effects \in 0..2 /\ seen \in BOOLEAN /\ effects <= old.effects + 1
    BY <2>3
  <2>5. pc = "gate" => SkTransient(outcome) /\ old.tries = 1
    BY <2>3
  <2>6. pc = "gate" /\ effects > 0 => (seen = TRUE) /\ skKind.mapped = FALSE
    <3> SUFFICES ASSUME pc = "gate", effects > 0 PROVE (seen = TRUE) /\ skKind.mapped = FALSE
      OBVIOUS
    <3>1. acts /\ SkMayAct(outcome)
      BY <2>1, <2>3, <2>5
    <3>2. outcome = "5xx" /\ ~skKind.mapped
      BY <2>5, <3>1 DEF SkMayAct, SkTransient
    <3> QED BY <1>1, <3>2
  <2>7. effects > 1 => (seen = TRUE) /\ skKind.mapped = FALSE
    <3> SUFFICES ASSUME effects > 1 PROVE (seen = TRUE) /\ skKind.mapped = FALSE
      OBVIOUS
    <3>1. old.effects > 0
      BY <2>3
    <3>2. (old.seen5xx = TRUE) /\ skKind.mapped = FALSE
      BY <1>2, <2>p, <3>1 DEF SkCallOK
    <3> QED BY <3>2
  <2>9. pc = "gate" => old.tries = 1 /\ effects <= 1
    BY <2>3, <2>4, <2>5
  <2> HIDE DEF pc, effects, seen
  <2>8. /\ call \in SkCallType /\ call.pc = pc /\ call.effects = effects /\ call.seen5xx = seen
        /\ call.tries = old.tries
    BY <1>1, <2>4 DEF SkCallType
  <2> HIDE DEF call
  <2>10. SkCallOK(call)
    BY <2>4, <2>6, <2>7, <2>8, <2>9 DEF SkCallOK
  <2> QED BY <1>r, <1>b, <2>2, <2>8, <2>10, SkOneCall
<1>8. CASE SkDone(r)
  <2> DEFINE again == [old EXCEPT !.pc = "offered"]
             call == IF old.pc = "done" THEN again ELSE SkNoCall
  <2>1. skCall' = [skCall EXCEPT ![r] = call]
    BY <1>1, <1>8 DEF SkDone
  <2>2. /\ SkNoCall \in SkCallType /\ SkNoCall.pc = "idle" /\ SkNoCall.effects = 0
    BY DEF SkCallType, SkNoCall
  <2>a. /\ again \in SkCallType /\ again.pc = "offered"
        /\ again.effects = old.effects /\ again.seen5xx = old.seen5xx
    BY <1>1 DEF SkCallType
  <2> HIDE DEF again
  <2>b. call = again \/ call = SkNoCall
    OBVIOUS
  <2> HIDE DEF call
  <2>3. call \in SkCallType /\ call.pc \in {"idle", "offered"}
        /\ (call.effects = 0 \/ (call.effects = old.effects /\ call.seen5xx = old.seen5xx))
    <3>1. CASE call = again
      <4>1. call.effects = old.effects /\ call.seen5xx = old.seen5xx
        BY ONLY <2>a, <3>1
      <4> QED BY ONLY <2>a, <3>1, <4>1
    <3>2. CASE call = SkNoCall
      BY ONLY <2>2, <3>2
    <3> QED BY <2>b, <3>1, <3>2
  <2>4. SkCallOK(call)
    BY <1>2, <2>3 DEF SkCallOK
  <2> QED BY <1>r, <1>b, <2>1, <2>3, <2>4, SkOneCall
<1> QED BY <1>3, <1>4, <1>5, <1>6, <1>7, <1>8

LEMMA SkStep == SkInv /\ [SkNext]_skVars => SkInv'
<1> SUFFICES ASSUME SkInv, [SkNext]_skVars PROVE SkInv'
  OBVIOUS
<1>1. CASE UNCHANGED skVars
  <2>1. SkTypeOK'
    BY <1>1 DEF SkInv, SkTypeOK, skVars
  <2> QED BY <1>1, <2>1, SkFrame DEF SkInv, skVars
<1> QED BY <1>1, SkReadKeeps, SkWriteKeeps, SkDeleteKeeps, SkAttachKeeps, SkCallKeeps DEF SkNext

\* Every version of a skill is kept, and no gated call runs unapproved or twice.
THEOREM SkSafeCorrect == SkSpec => []SkSafe
<1>1. SkInv => SkSafe
  BY DEF SkInv, SkCallInv, SkCallOK, SkSafe, SkTwiceNeedsServerError
<1> QED BY <1>1, SkStarts, SkStep, PTL DEF SkSpec

\* The variables of the skill stay within their types.
THEOREM SkTypeCorrect == SkSpec => []SkTypeOK
<1>1. SkInv => SkTypeOK
  BY DEF SkInv
<1> QED BY <1>1, SkStarts, SkStep, PTL DEF SkSpec

-----------------------------------------------------------------------------
(* Sales recovery: any cards, events, checkouts and attempts *)

SrProcType ==
  [step : SrSteps, card : SrCards \union {SrNone}, to : SrStages, attempts : 0..SrMaxAttempts,
   fresh : BOOLEAN]

SrTypeInv ==
  /\ SrTypeOK
  /\ srProc \in [SrProcs -> SrProcType]
  /\ {srRecent, srTwice, srRaced} \subseteq BOOLEAN

SrBusy(p) == srProc[p].step \notin {"idle", "wait"}

\* The processor: where it is, and what it works on.
SrHookInv ==
  LET p == srProc["hook"] IN
  /\ p.step \in {"idle", "create", "meta", "merge", "move", "wait"}
  /\ srHook = SrNone <=> p.step = "idle"
  /\ p.step \in {"meta", "merge", "move"} => p.card \in SrCards /\ srCard[p.card].stage # "none"
  /\ p.step = "merge" => p.to \in {"none", "won", "refunded"}
  /\ p.step = "move" => p.to \in {"won", "refunded"}

\* The openers and the watchdog write to contacts, whose cards are on the board.
SrFlowInv ==
  /\ \A p \in {"inline", "job"} :
       /\ srProc[p].step \in {"idle", "wait", "send", "record", "move"}
       /\ srProc[p].step # "idle" => srProc[p].card \in SrCards /\ srCard[srProc[p].card].contact
       /\ SrBusy(p) => srProc[p].to = "contact_attempt"
  /\ srProc["job"].step # "wait"
  /\ srProc["inline"].step # "idle" => srProc["hook"].step = "wait"
  /\ LET p == srProc["dog"] IN
       /\ p.step \in {"idle", "send", "record", "move"}
       /\ p.step # "idle" =>
            p.card \in SrCards /\ srCard[p.card].stage \notin {"none", "opportunity"}
       /\ p.step # "idle" => p.to \in {"lost", "follow_up"}
       /\ p.step \in {"send", "record"} =>
            srCard[p.card].contact /\ p.to = "follow_up" /\ p.attempts < SrMaxAttempts /\ SrMaxAttempts > 1

\* A card that is not there has nothing; jobs and the watchdog's list name cards that are.
SrCardInv ==
  /\ \A c \in SrCards : srCard[c].stage = "none" =>
       /\ ~srCard[c].contact /\ ~srCard[c].fresh /\ srCard[c].attempts = 0
       /\ srCard[c].checkout = SrNone /\ srSent[c] = 0
  /\ \A c \in srJobs : srCard[c].contact
  /\ \A c \in srScan : srCard[c].stage \notin {"none", "opportunity"}

\* The event at work is not processed yet, and none like it is.
SrEventInv ==
  /\ srHook # SrNone => srEvent[srHook].status \in {"RECEIVED", "FAILED"} /\ ~SrAlready(srHook)
  /\ \A e \in SrEvents : srEvent[e].status # "none" => srEvent[e].checkout \in SrCheckouts
  /\ SrProcessedOnce

\* Somebody is on the way to a card that waits for its opener.
SrPursuedInv ==
  srFaults = 0 =>
    \A c \in SrCards : srCard[c].stage = "opportunity" /\ srCard[c].contact =>
      \/ c \in srJobs \union srGivenUp
      \/ srProc["hook"].step = "meta" /\ srProc["hook"].card = c
      \/ \E p \in {"inline", "job"} : srProc[p].step # "idle" /\ srProc[p].card = c

\* Without a race one flow is at work, and the card it read is as it was.
SrAloneInv ==
  ~srRaced =>
    /\ \A p, q \in SrProcs : SrBusy(p) /\ SrBusy(q) => p = q
    /\ \A p \in {"inline", "job"} : SrBusy(p) => srCard[srProc[p].card].stage = "opportunity"
    /\ SrBusy("dog") => SrOpen(srCard[srProc["dog"].card])
    /\ \A p \in SrProcs : srProc[p].step \in {"merge", "send", "record"} =>
         /\ srProc[p].attempts = srCard[srProc[p].card].attempts
         /\ srProc[p].fresh = srCard[srProc[p].card].fresh
    /\ srProc["hook"].step = "create" /\ srEvent[srHook].phone => SrByContact = {}
    /\ srProc["hook"].step = "meta" =>
         /\ srCard[srProc["hook"].card].stage = "opportunity"
         /\ ~srCard[srProc["hook"].card].fresh
         /\ srSent[srProc["hook"].card] = 0
    /\ SrPaidStaysClosed
    /\ \A c, d \in SrByContact : c = d

\* In calm, what was sent is recorded, or is about to be.
SrCalmInv ==
  SrCalm =>
    /\ ~srTwice
    /\ \A p \in SrProcs : srProc[p].step = "send" => ~srRecent
    /\ srRecent => SrCoolingDown \/ \E p \in SrProcs : srProc[p].step = "record"
    /\ \A c \in SrCards :
         \/ srSent[c] <= srCard[c].attempts
         \/ \E p \in SrProcs : srProc[p].step = "record" /\ srProc[p].card = c
    /\ srProc["dog"].step = "record" =>
         srSent[srProc["dog"].card] <= srCard[srProc["dog"].card].attempts + 1
    /\ \A p \in {"inline", "job"} : srProc[p].step = "record" => srSent[srProc[p].card] <= 1
    /\ \A c \in SrCards : srCard[c].stage = "opportunity" /\ srSent[c] > 0 =>
         \E p \in {"inline", "job"} : srProc[p].step \in {"record", "move"} /\ srProc[p].card = c

SrInv ==
  /\ SrTypeInv /\ SrHookInv /\ SrFlowInv /\ SrCardInv /\ SrEventInv /\ SrPursuedInv /\ SrAloneInv
  /\ SrCalmInv

-----------------------------------------------------------------------------
SrCardType ==
  [stage : SrStages, contact : BOOLEAN, fresh : BOOLEAN,
   checkout : SrCheckouts \union {SrNone}, attempts : 0..SrMaxAttempts,
   conv : BOOLEAN, stuck : BOOLEAN]
SrEventType ==
  [kind : SrKinds, checkout : SrCheckouts \union {SrNone}, phone : BOOLEAN,
   status : {"none", "RECEIVED", "FAILED", "PROCESSED", "IGNORED", "DUPLICATE"}]

\* The types, as sets of functions.
LEMMA SrTypes ==
  SrTypeInv <=>
    /\ srCard \in [SrCards -> SrCardType]
    /\ srEvent \in [SrEvents -> SrEventType]
    /\ srHook \in SrEvents \union {SrNone}
    /\ srJobs \subseteq SrCards /\ srScan \subseteq SrCards
    /\ srProc \in [SrProcs -> SrProcType]
    /\ srSent \in [SrCards -> Nat]
    /\ srFaults \in 0..SrMaxFaults
    /\ srPaid \subseteq SrCards /\ srGivenUp \subseteq SrCards
    /\ srRecent \in BOOLEAN /\ srTwice \in BOOLEAN /\ srRaced \in BOOLEAN
BY DEF SrTypeInv, SrTypeOK, SrCardType, SrEventType, SrProcType

LEMMA SrTypesNext ==
  SrTypeInv' <=>
    /\ srCard' \in [SrCards -> SrCardType]
    /\ srEvent' \in [SrEvents -> SrEventType]
    /\ srHook' \in SrEvents \union {SrNone}
    /\ srJobs' \subseteq SrCards /\ srScan' \subseteq SrCards
    /\ srProc' \in [SrProcs -> SrProcType]
    /\ srSent' \in [SrCards -> Nat]
    /\ srFaults' \in 0..SrMaxFaults
    /\ srPaid' \subseteq SrCards /\ srGivenUp' \subseteq SrCards
    /\ srRecent' \in BOOLEAN /\ srTwice' \in BOOLEAN /\ srRaced' \in BOOLEAN
BY DEF SrTypeInv, SrTypeOK, SrCardType, SrEventType, SrProcType

LEMMA SrIdleType == SrIdle \in SrProcType /\ SrIdle.step = "idle" /\ SrIdle.card = SrNone
BY SrAssumption DEF SrIdle, SrProcType, SrSteps, SrStages

\* Setting fields of one card.
LEMMA SrBeginType ==
  ASSUME SrTypeInv, NEW p \in SrProcs, NEW step \in SrSteps, NEW c \in SrCards \union {SrNone},
         NEW to \in SrStages, SrBegin(p, step, c, to)
  PROVE  /\ srProc' \in [SrProcs -> SrProcType]
         /\ \A q \in SrProcs \ {p} : srProc'[q] = srProc[q]
         /\ srProc'[p].step = step /\ srProc'[p].card = c /\ srProc'[p].to = to
         /\ c \in SrCards => /\ srProc'[p].attempts = srCard[c].attempts
                             /\ srProc'[p].fresh = srCard[c].fresh
         /\ srRaced' \in BOOLEAN
         /\ ~srRaced' => ~srRaced /\ \A q \in SrProcs \ {p} : ~SrBusy(q)
<1> DEFINE a == IF c = SrNone THEN 0 ELSE srCard[c].attempts
           f == IF c = SrNone THEN FALSE ELSE srCard[c].fresh
           new == [step |-> step, card |-> c, to |-> to, attempts |-> a, fresh |-> f]
<1>1. a \in 0..SrMaxAttempts /\ f \in BOOLEAN
  <2>1. CASE c = SrNone
    BY <2>1, SrAssumption
  <2>2. CASE c # SrNone
    <3>1. srCard[c] \in SrCardType
      BY <2>2, SrTypes
    <3> QED BY <2>2, <3>1 DEF SrCardType
  <2> QED BY <2>1, <2>2
<1>2. c \in SrCards => a = srCard[c].attempts /\ f = srCard[c].fresh
  BY SrAssumption
<1>3. srProc' = [srProc EXCEPT ![p] = new] /\ srRaced' = (srRaced \/ SrBusyBut(p))
  BY DEF SrBegin
<1> HIDE DEF a, f
<1>4. new \in SrProcType
  BY <1>1 DEF SrProcType
<1>5. srProc' \in [SrProcs -> SrProcType] /\ srProc'[p] = new
      /\ \A q \in SrProcs \ {p} : srProc'[q] = srProc[q]
  BY <1>3, <1>4, SrTypes
<1>6. srRaced' \in BOOLEAN
  BY <1>3, SrTypes
<1>7. ~srRaced' => ~srRaced /\ \A q \in SrProcs \ {p} : ~SrBusy(q)
  BY <1>3 DEF SrBusyBut, SrBusy
<1> QED BY <1>2, <1>5, <1>6, <1>7

-----------------------------------------------------------------------------
\* A write to one card.
SrCardWrite(c) ==
  /\ srCard' \in [SrCards -> SrCardType]
  /\ \A d \in SrCards \ {c} : srCard'[d] = srCard[d]

\* The lead's reply and the agent's tool, as one step: an open card is moved.
SrOutside(c, to) ==
  /\ srCard[c].conv /\ SrOpen(srCard[c])
  /\ srCard' = [srCard EXCEPT ![c].stage = to, ![c].stuck = FALSE]
  /\ srRaced' = (srRaced \/ SrBusyBut("none"))
  /\ UNCHANGED <<srEvent, srHook, srJobs, srScan, srProc, srFaults, SrHistory>>

LEMMA SrOutsideKeeps ==
  ASSUME SrInv, NEW c \in SrCards, NEW to \in SrToolStages, SrOutside(c, to)
  PROVE  SrInv'
<1>1. SrTypeInv BY DEF SrInv
<1>2. /\ SrCardWrite(c) /\ srCard'[c].stage = to
      /\ srCard'[c].contact = srCard[c].contact /\ srCard'[c].fresh = srCard[c].fresh
      /\ srCard'[c].attempts = srCard[c].attempts /\ srCard'[c].checkout = srCard[c].checkout
  BY <1>1, SrTypes, ZenonT(60) DEF SrCardWrite, SrOutside, SrCardType, SrStages, SrLive, SrToolStages
<1>3. srRaced' \in BOOLEAN /\ (~srRaced' => ~srRaced /\ \A p \in SrProcs : ~SrBusy(p))
  BY <1>1, SrTypes DEF SrOutside, SrBusyBut, SrBusy, SrProcs
<1>f. /\ \A d \in SrCards : srCard'[d].contact = srCard[d].contact
      /\ \A d \in SrCards : srCard'[d].fresh = srCard[d].fresh
      /\ \A d \in SrCards : srCard'[d].attempts = srCard[d].attempts
      /\ \A d \in SrCards : srCard'[d].checkout = srCard[d].checkout
      /\ \A d \in SrCards : d # c => srCard'[d].stage = srCard[d].stage
      /\ SrOpen(srCard[c])
      /\ to \notin {"none", "opportunity"}
  BY <1>2 DEF SrCardWrite, SrOutside, SrToolStages
<1>u. /\ srEvent' = srEvent /\ srHook' = srHook /\ srJobs' = srJobs /\ srScan' = srScan
      /\ srProc' = srProc /\ srFaults' = srFaults /\ srRecent' = srRecent /\ srSent' = srSent
      /\ srPaid' = srPaid /\ srTwice' = srTwice /\ srGivenUp' = srGivenUp
  BY DEF SrOutside, SrHistory
<1>4. SrTypeInv'
  BY <1>1, <1>2, <1>3, <1>u, SrTypes, SrTypesNext DEF SrCardWrite
<1>5. SrHookInv'
  BY <1>2, <1>f, <1>u DEF SrInv, SrHookInv
<1>6. SrFlowInv'
  BY <1>2, <1>f, <1>u DEF SrInv, SrFlowInv, SrBusy
<1>7. SrCardInv'
  BY <1>2, <1>f, <1>u, SrTypes DEF SrInv, SrCardInv
<1>8. SrEventInv'
  BY <1>u DEF SrInv, SrEventInv, SrAlready, SrSale, SrProcessedOnce
<1>9. SrPursuedInv'
  BY <1>2, <1>f, <1>u DEF SrInv, SrPursuedInv
<1>10. SrAloneInv'
  <2> SUFFICES ASSUME ~srRaced' PROVE SrAloneInv'
    BY DEF SrAloneInv
  <2>1. ~srRaced /\ \A p \in SrProcs : ~SrBusy(p)
    BY <1>3
  <2>2. SrByContact' \subseteq SrByContact
    BY <1>2, <1>f DEF SrByContact, SrOpen
  <2>3. SrPaidStaysClosed'
    BY <1>2, <1>f, <1>u, <2>1, <1>1, SrTypes DEF SrPaidStaysClosed, SrInv, SrAloneInv, SrOpen, SrLive
  <2> QED BY <2>1, <2>2, <2>3, <1>u DEF SrAloneInv, SrInv, SrBusy, SrProcs
<1>11. SrCalmInv'
  <2> SUFFICES ASSUME SrCalm' PROVE SrCalmInv'
    BY DEF SrCalmInv
  <2>1. SrCalm
    BY <1>3, <1>u DEF SrCalm
  <2>2. SrCoolingDown' <=> SrCoolingDown
    BY <1>f DEF SrCoolingDown
  <2>3. \A p \in SrProcs : ~SrBusy(p)
    BY <1>3 DEF SrCalm
  <2>4. /\ ~srTwice
        /\ srRecent => SrCoolingDown
        /\ \A d \in SrCards : srSent[d] <= srCard[d].attempts
        /\ \A d \in SrCards : srCard[d].stage = "opportunity" => ~ (srSent[d] > 0)
    BY <2>1, <2>3 DEF SrInv, SrCalmInv, SrBusy, SrProcs
  <2>5. \A p \in SrProcs : srProc'[p].step \in {"idle", "wait"}
    BY <2>3, <1>u DEF SrBusy
  <2>6. /\ \A d \in SrCards : srSent'[d] <= srCard'[d].attempts
        /\ \A d \in SrCards : srCard'[d].stage = "opportunity" => ~ (srSent'[d] > 0)
    BY <2>4, <1>2, <1>f, <1>u
  <2> QED BY <2>2, <2>4, <2>5, <2>6, <1>u DEF SrCalmInv, SrProcs
<1> QED BY <1>4, <1>5, <1>6, <1>7, <1>8, <1>9, <1>10, <1>11 DEF SrInv

LEMMA SrDeliverKeeps ==
  ASSUME SrInv, NEW e \in SrEvents, NEW kind \in SrKinds \ {"none"}, NEW k \in SrCheckouts,
         NEW phone \in BOOLEAN, SrDeliver(e, kind, k, phone)
  PROVE  SrInv'
<1>1. SrTypeInv BY DEF SrInv
<1>2. srEvent' \in [SrEvents -> SrEventType] /\ srEvent'[e].status = "RECEIVED" /\ srEvent'[e].checkout = k
  BY <1>1, SrTypes DEF SrDeliver, SrEventType, SrKinds
<1>3. \A f \in SrEvents : f # e => srEvent'[f] = srEvent[f]
  BY <1>1, SrTypes DEF SrDeliver
<1>4. srCard' = srCard /\ srHook' = srHook /\ srJobs' = srJobs /\ srScan' = srScan /\ srProc' = srProc /\ srRaced' = srRaced /\ srFaults' = srFaults
      /\ srRecent' = srRecent /\ srSent' = srSent /\ srPaid' = srPaid /\ srTwice' = srTwice /\ srGivenUp' = srGivenUp
  BY DEF SrDeliver, SrHistory
<1>5. srEvent[e].status = "none" /\ srHook # e
  BY SrAssumption DEF SrDeliver, SrInv, SrEventInv
<1>6. SrTypeInv'
  BY <1>1, <1>2, <1>3, <1>4, <1>5, SrTypes, SrTypesNext
<1>7. SrHookInv'
  BY <1>1, <1>2, <1>3, <1>4, <1>5 DEF SrInv, SrHookInv
<1>8. SrFlowInv'
  BY <1>1, <1>2, <1>3, <1>4, <1>5 DEF SrInv, SrFlowInv, SrBusy
<1>9. SrCardInv'
  BY <1>1, <1>2, <1>3, <1>4, <1>5, SrTypes DEF SrInv, SrCardInv
<1>10. SrEventInv'
  <2>1. SrProcessedOnce'
    BY <1>2, <1>3 DEF SrInv, SrEventInv, SrProcessedOnce, SrSale
  <2>2. srHook # SrNone => srEvent'[srHook].status \in {"RECEIVED", "FAILED"} /\ ~SrAlready(srHook)'
    BY <1>1, <1>2, <1>3, <1>4, <1>5, SrTypes DEF SrInv, SrEventInv, SrAlready, SrSale
  <2> QED BY <1>2, <1>3, <1>4, <2>1, <2>2 DEF SrInv, SrEventInv
<1>11. SrPursuedInv'
  BY <1>1, <1>2, <1>3, <1>4, <1>5 DEF SrInv, SrPursuedInv
<1>12. SrAloneInv'
  <2>1. SrPaidStaysClosed' <=> SrPaidStaysClosed
    BY <1>4 DEF SrPaidStaysClosed
  <2>2. SrByContact' = SrByContact
    BY <1>4 DEF SrByContact
  <2>3. SrHookInv BY DEF SrInv
  <2>4. srProc["hook"].step = "create" => srEvent'[srHook].phone = srEvent[srHook].phone
    BY <2>3, <1>1, <1>3, <1>5, SrTypes DEF SrHookInv
  <2> QED BY <1>4, <2>1, <2>2, <2>4 DEF SrInv, SrAloneInv, SrBusy, SrOpen
<1>13. SrCalmInv'
  <2>1. SrCoolingDown' <=> SrCoolingDown
    BY <1>4 DEF SrCoolingDown
  <2> QED BY <1>4, <2>1 DEF SrInv, SrCalmInv, SrCalm
<1> QED BY <1>6, <1>7, <1>8, <1>9, <1>10, <1>11, <1>12, <1>13 DEF SrInv

\* The processor decides at once.
SrDecide(e, status) ==
  /\ srHook = SrNone /\ srEvent[e].status \in {"RECEIVED", "FAILED"}
  /\ SrMark(e, status) /\ UNCHANGED <<srHook, srProc, srRaced>>
  /\ UNCHANGED <<srCard, srJobs, srScan, srFaults, SrHistory>>

LEMMA SrDecideKeeps ==
  ASSUME SrInv, NEW e \in SrEvents, NEW status \in {"DUPLICATE", "IGNORED"}, SrDecide(e, status)
  PROVE  SrInv'
<1>1. SrTypeInv BY DEF SrInv
<1>2. srEvent' \in [SrEvents -> SrEventType] /\ srEvent'[e].status = status
  BY <1>1, SrTypes DEF SrDecide, SrMark, SrEventType
<1>3. /\ \A f \in SrEvents : f # e => srEvent'[f] = srEvent[f]
      /\ srEvent'[e].checkout = srEvent[e].checkout
  BY <1>1, SrTypes DEF SrDecide, SrMark, SrEventType
<1>4. srCard' = srCard /\ srHook' = srHook /\ srJobs' = srJobs /\ srScan' = srScan /\ srProc' = srProc /\ srRaced' = srRaced /\ srFaults' = srFaults
      /\ srRecent' = srRecent /\ srSent' = srSent /\ srPaid' = srPaid /\ srTwice' = srTwice /\ srGivenUp' = srGivenUp
  BY DEF SrDecide, SrHistory
<1>5. /\ srHook = SrNone /\ srEvent[e].status # "none"
      /\ srProc["hook"].step = "idle"
  BY DEF SrDecide, SrInv, SrHookInv
<1>6. SrTypeInv'
  BY <1>1, <1>2, <1>3, <1>4, <1>5, SrTypes, SrTypesNext
<1>7. SrHookInv'
  BY <1>1, <1>2, <1>3, <1>4, <1>5 DEF SrInv, SrHookInv
<1>8. SrFlowInv'
  BY <1>1, <1>2, <1>3, <1>4, <1>5 DEF SrInv, SrFlowInv, SrBusy
<1>9. SrCardInv'
  BY <1>1, <1>2, <1>3, <1>4, <1>5, SrTypes DEF SrInv, SrCardInv
<1>10. SrEventInv'
  <2>1. SrProcessedOnce'
    BY <1>2, <1>3 DEF SrInv, SrEventInv, SrProcessedOnce, SrSale
  <2> QED BY <1>2, <1>3, <1>4, <1>5, <2>1 DEF SrInv, SrEventInv
<1>11. SrPursuedInv'
  BY <1>1, <1>2, <1>3, <1>4, <1>5 DEF SrInv, SrPursuedInv
<1>12. SrAloneInv'
  <2>1. SrPaidStaysClosed' <=> SrPaidStaysClosed
    BY <1>4 DEF SrPaidStaysClosed
  <2>2. SrByContact' = SrByContact
    BY <1>4 DEF SrByContact
  <2> QED BY <1>4, <1>5, <2>1, <2>2 DEF SrInv, SrAloneInv, SrBusy, SrOpen
<1>13. SrCalmInv'
  <2>1. SrCoolingDown' <=> SrCoolingDown
    BY <1>4 DEF SrCoolingDown
  <2> QED BY <1>4, <2>1 DEF SrInv, SrCalmInv, SrCalm
<1> QED BY <1>6, <1>7, <1>8, <1>9, <1>10, <1>11, <1>12, <1>13 DEF SrInv

LEMMA SrScanStuckKeeps ==
  ASSUME SrInv, SrScanStuck
  PROVE  SrInv'
<1>1. SrTypeInv BY DEF SrInv
<1>2. srCard' = srCard /\ srEvent' = srEvent /\ srHook' = srHook /\ srJobs' = srJobs /\ srProc' = srProc /\ srRaced' = srRaced /\ srFaults' = srFaults
      /\ srRecent' = srRecent /\ srSent' = srSent /\ srPaid' = srPaid /\ srTwice' = srTwice /\ srGivenUp' = srGivenUp
  BY DEF SrScanStuck, SrHistory
<1>3. srScan' \subseteq SrCards /\ \A c \in srScan' : srCard[c].stage \notin {"none", "opportunity"}
  BY DEF SrScanStuck, SrLive
<1>4. SrTypeInv'
  BY <1>1, <1>2, <1>3, SrTypes, SrTypesNext
<1>5. SrHookInv'
  BY <1>1, <1>2, <1>3 DEF SrInv, SrHookInv
<1>6. SrFlowInv'
  BY <1>1, <1>2, <1>3 DEF SrInv, SrFlowInv, SrBusy
<1>7. SrCardInv'
  BY <1>1, <1>2, <1>3, SrTypes DEF SrInv, SrCardInv
<1>8. SrEventInv'
  BY <1>1, <1>2, <1>3 DEF SrInv, SrEventInv, SrAlready, SrSale, SrProcessedOnce
<1>9. SrPursuedInv'
  BY <1>1, <1>2, <1>3 DEF SrInv, SrPursuedInv
<1>10. SrAloneInv'
  <2>1. SrPaidStaysClosed' <=> SrPaidStaysClosed
    BY <1>2 DEF SrPaidStaysClosed
  <2>2. SrByContact' = SrByContact
    BY <1>2 DEF SrByContact
  <2> QED BY <1>2, <2>1, <2>2 DEF SrInv, SrAloneInv, SrBusy, SrOpen
<1>11. SrCalmInv'
  <2>1. SrCoolingDown' <=> SrCoolingDown
    BY <1>2 DEF SrCoolingDown
  <2> QED BY <1>2, <2>1 DEF SrInv, SrCalmInv, SrCalm
<1> QED BY <1>4, <1>5, <1>6, <1>7, <1>8, <1>9, <1>10, <1>11 DEF SrInv

LEMMA SrFinishKeeps ==
  ASSUME SrInv, SrFinish
  PROVE  SrInv'
<1>1. SrTypeInv BY DEF SrInv
<1>2. /\ srHook \in SrEvents /\ srProc["hook"].step = "wait" /\ srProc["inline"].step = "idle"
      /\ srHook' = SrNone
  BY <1>1, SrTypes DEF SrFinish
<1>3. srEvent' \in [SrEvents -> SrEventType] /\ srEvent'[srHook].status = "PROCESSED"
  BY <1>1, <1>2, SrTypes DEF SrFinish, SrMark, SrEventType
<1>4. /\ \A f \in SrEvents : f # srHook => srEvent'[f] = srEvent[f]
      /\ srEvent'[srHook].checkout = srEvent[srHook].checkout
      /\ srEvent'[srHook].kind = srEvent[srHook].kind
  BY <1>1, <1>2, SrTypes DEF SrFinish, SrMark, SrEventType
<1>5. /\ srProc' \in [SrProcs -> SrProcType] /\ srProc'["hook"].step = "idle"
      /\ \A q \in SrProcs : q # "hook" => srProc'[q] = srProc[q]
  BY <1>1, SrTypes, SrIdleType DEF SrFinish, SrProcs
<1>6. srCard' = srCard /\ srJobs' = srJobs /\ srScan' = srScan /\ srRaced' = srRaced /\ srFaults' = srFaults
      /\ srRecent' = srRecent /\ srSent' = srSent /\ srPaid' = srPaid /\ srTwice' = srTwice /\ srGivenUp' = srGivenUp
  BY DEF SrFinish, SrHistory
<1>7. SrTypeInv'
  BY <1>1, <1>2, <1>3, <1>4, <1>5, <1>6, SrTypes, SrTypesNext
<1>8. SrHookInv'
  BY <1>1, <1>2, <1>3, <1>4, <1>5, <1>6 DEF SrInv, SrHookInv
<1>9. SrFlowInv'
  BY <1>2, <1>5, <1>6 DEF SrInv, SrFlowInv, SrBusy, SrProcs
<1>10. SrCardInv'
  BY <1>1, <1>2, <1>3, <1>4, <1>5, <1>6, SrTypes DEF SrInv, SrCardInv
<1>11. SrEventInv'
  <2>1. SrProcessedOnce'
    <3>1. ~SrAlready(srHook) /\ SrProcessedOnce
      BY <1>2, SrAssumption DEF SrInv, SrEventInv
    <3> QED BY <3>1, <1>2, <1>3, <1>4 DEF SrAlready, SrProcessedOnce, SrSale
  <2> QED BY <1>2, <1>3, <1>4, <2>1, SrAssumption DEF SrInv, SrEventInv
<1>12. SrPursuedInv'
  BY <1>2, <1>5, <1>6 DEF SrInv, SrPursuedInv, SrProcs
<1>13. SrAloneInv'
  <2>1. SrPaidStaysClosed' <=> SrPaidStaysClosed
    BY <1>6 DEF SrPaidStaysClosed
  <2>2. SrByContact' = SrByContact
    BY <1>6 DEF SrByContact
  <2>3. srProc'["hook"].step = "idle"
    BY <1>5
  <2> QED BY <1>2, <1>5, <1>6, <2>1, <2>2, <2>3 DEF SrInv, SrAloneInv, SrBusy, SrOpen, SrProcs
<1>14. SrCalmInv'
  <2>1. SrCoolingDown' <=> SrCoolingDown
    BY <1>6 DEF SrCoolingDown
  <2> QED BY <1>2, <1>5, <1>6, <2>1 DEF SrInv, SrCalmInv, SrCalm, SrProcs
<1> QED BY <1>7, <1>8, <1>9, <1>10, <1>11, <1>12, <1>13, <1>14 DEF SrInv

\* The processor begins with an event: it will create a card, or write to one it found.
SrWork(e, step, c, to) ==
  /\ srHook = SrNone /\ srEvent[e].status \in {"RECEIVED", "FAILED"} /\ ~SrAlready(e)
  /\ step = "create" => (srEvent[e].phone => SrByContact = {})
  /\ step = "merge" => c \in SrCards /\ srCard[c].stage # "none"
  /\ srHook' = e /\ SrBegin("hook", step, c, to)
  /\ UNCHANGED <<srEvent, srCard, srJobs, srScan, srFaults, SrHistory>>

LEMMA SrWorkKeeps ==
  ASSUME SrInv, NEW e \in SrEvents, NEW step \in {"create", "merge"}, NEW c \in SrCards \union {SrNone},
         NEW to \in {"none", "won", "refunded"}, SrWork(e, step, c, to)
  PROVE  SrInv'
<1>1. SrTypeInv BY DEF SrInv
<1>2. /\ srProc' \in [SrProcs -> SrProcType] /\ srProc'["hook"].step = step
      /\ srProc'["hook"].card = c /\ srProc'["hook"].to = to
      /\ \A q \in SrProcs : q # "hook" => srProc'[q] = srProc[q]
      /\ srRaced' \in BOOLEAN
      /\ ~srRaced' => ~srRaced /\ \A q \in SrProcs : q # "hook" => ~SrBusy(q)
      /\ c \in SrCards => srProc'["hook"].attempts = srCard[c].attempts
                          /\ srProc'["hook"].fresh = srCard[c].fresh
  BY <1>1, SrBeginType DEF SrWork, SrProcs, SrSteps, SrStages
<1>3. srHook' = e /\ srCard' = srCard /\ srEvent' = srEvent /\ srJobs' = srJobs /\ srScan' = srScan /\ srFaults' = srFaults
      /\ srRecent' = srRecent /\ srSent' = srSent /\ srPaid' = srPaid /\ srTwice' = srTwice /\ srGivenUp' = srGivenUp
  BY DEF SrWork, SrHistory
<1>4. /\ srEvent[e].status \in {"RECEIVED", "FAILED"} /\ ~SrAlready(e)
      /\ step = "create" /\ srEvent[e].phone => SrByContact = {}
      /\ step = "merge" => c \in SrCards /\ srCard[c].stage # "none"
  BY DEF SrWork
<1>5. srProc["hook"].step = "idle" /\ srProc["inline"].step = "idle"
  BY DEF SrWork, SrInv, SrHookInv, SrFlowInv
<1>6. SrTypeInv'
  BY <1>1, <1>2, <1>3, <1>4, <1>5, SrTypes, SrTypesNext
<1>7. SrHookInv'
  BY <1>2, <1>3, <1>4, SrAssumption DEF SrInv, SrHookInv
<1>8. SrFlowInv'
  BY <1>2, <1>3, <1>5 DEF SrInv, SrFlowInv, SrBusy, SrProcs
<1>9. SrCardInv'
  BY <1>1, <1>2, <1>3, <1>4, <1>5, SrTypes DEF SrInv, SrCardInv
<1>10. SrEventInv'
  <2>1. SrAlready(srHook)' <=> SrAlready(e)
    BY <1>3 DEF SrAlready, SrSale
  <2> QED BY <1>3, <1>4, <2>1 DEF SrInv, SrEventInv, SrProcessedOnce, SrSale
<1>11. SrPursuedInv'
  BY <1>2, <1>3, <1>5 DEF SrInv, SrPursuedInv, SrProcs
<1>12. SrAloneInv'
  <2> SUFFICES ASSUME ~srRaced' PROVE SrAloneInv'
    BY DEF SrAloneInv
  <2>0. ~srRaced
    BY <1>2
  <2>1. SrPaidStaysClosed'
    BY <1>3, <2>0 DEF SrPaidStaysClosed, SrInv, SrAloneInv
  <2>2. SrByContact' = SrByContact
    BY <1>3 DEF SrByContact
  <2>3. \A q \in SrProcs : q # "hook" => srProc'[q].step \in {"idle", "wait"}
    BY <1>2 DEF SrBusy
  <2> QED BY <1>2, <1>3, <1>4, <2>0, <2>1, <2>2, <2>3 DEF SrInv, SrAloneInv, SrBusy, SrProcs
<1>13. SrCalmInv'
  <2> SUFFICES ASSUME SrCalm' PROVE SrCalmInv'
    BY DEF SrCalmInv
  <2>1. SrCoolingDown' <=> SrCoolingDown
    BY <1>3 DEF SrCoolingDown
  <2>2. SrCalm
    BY <1>2, <1>3 DEF SrCalm
  <2> QED BY <1>2, <1>3, <1>5, <2>1, <2>2 DEF SrInv, SrCalmInv, SrProcs
<1> QED BY <1>6, <1>7, <1>8, <1>9, <1>10, <1>11, <1>12, <1>13 DEF SrInv

\* A card of the contact or of the checkout is on the board.
LEMMA SrFoundOnBoard ==
  ASSUME SrInv, NEW e \in SrEvents, srEvent[e].status # "none"
  PROVE  \A c \in SrExisting(e) \union SrToClose(e) : c \in SrCards /\ srCard[c].stage # "none"
<1>1. \A c \in SrCards : srCard[c].contact => srCard[c].stage # "none"
  BY DEF SrInv, SrCardInv
<1>2. \A c \in SrCards : srCard[c].checkout = srEvent[e].checkout => srCard[c].stage # "none"
  BY SrAssumption DEF SrInv, SrCardInv, SrEventInv
<1> QED BY <1>1, <1>2 DEF SrExisting, SrToClose, SrByContact, SrByCheckout

LEMMA SrTakeKeeps ==
  ASSUME SrInv, NEW e \in SrEvents, SrTake(e)
  PROVE  SrInv'
<1>1. srEvent[e].status # "none" /\ SrNone \notin SrCards
  BY SrAssumption DEF SrTake
<1>2. CASE SrMark(e, "DUPLICATE") /\ UNCHANGED <<srHook, srProc, srRaced>>
  <2>1. SrDecide(e, "DUPLICATE")
    BY <1>2 DEF SrTake, SrDecide
  <2> QED BY <2>1, SrDecideKeeps
<1>3. CASE SrMark(e, "IGNORED") /\ UNCHANGED <<srHook, srProc, srRaced>>
  <2>1. SrDecide(e, "IGNORED")
    BY <1>3 DEF SrTake, SrDecide
  <2> QED BY <2>1, SrDecideKeeps
<1>4. CASE /\ ~SrAlready(e)
           /\ srHook' = e
           /\ IF SrExisting(e) = {} THEN SrBegin("hook", "create", SrNone, "none")
              ELSE \E c \in SrExisting(e) : SrBegin("hook", "merge", c, "none")
           /\ UNCHANGED srEvent
  <2>1. CASE SrExisting(e) = {}
    <3>1. SrWork(e, "create", SrNone, "none")
      BY <1>4, <2>1 DEF SrTake, SrWork, SrExisting
    <3> QED BY <3>1, SrWorkKeeps
  <2>2. CASE SrExisting(e) # {}
    <3>1. PICK c \in SrExisting(e) : SrBegin("hook", "merge", c, "none")
      BY <1>4, <2>2
    <3>2. c \in SrCards /\ srCard[c].stage # "none"
      BY <1>1, SrFoundOnBoard
    <3>3. SrWork(e, "merge", c, "none")
      BY <1>4, <3>1, <3>2 DEF SrTake, SrWork
    <3> QED BY <3>2, <3>3, SrWorkKeeps
  <2> QED BY <2>1, <2>2
<1>5. CASE /\ ~SrAlready(e)
           /\ srHook' = e
           /\ \E c \in SrToClose(e) : SrBegin("hook", "merge", c, SrClosingStage(e))
           /\ UNCHANGED srEvent
  <2>1. PICK c \in SrToClose(e) : SrBegin("hook", "merge", c, SrClosingStage(e))
    BY <1>5
  <2>2. c \in SrCards /\ srCard[c].stage # "none"
    BY <1>1, SrFoundOnBoard
  <2>3. SrClosingStage(e) \in {"won", "refunded"}
    BY DEF SrClosingStage
  <2>4. SrWork(e, "merge", c, SrClosingStage(e))
    BY <1>5, <2>1, <2>2 DEF SrTake, SrWork
  <2> QED BY <2>2, <2>3, <2>4, SrWorkKeeps
<1> QED BY <1>2, <1>3, <1>4, <1>5 DEF SrTake

LEMMA SrMergeKeeps ==
  ASSUME SrInv, NEW c \in SrCards, c = srProc["hook"].card, SrMerge
  PROVE  SrInv'
<1>1. SrTypeInv BY DEF SrInv
<1>2. /\ srProc["hook"].step = "merge"
      /\ srHook \in SrEvents
      /\ srCard[c].stage # "none"
      /\ srProc["hook"].to \in {"none", "won", "refunded"}
      /\ srEvent[srHook].checkout \in SrCheckouts
  BY <1>1, SrTypes DEF SrMerge, SrInv, SrHookInv, SrEventInv
<1>3. /\ srCard' \in [SrCards -> SrCardType]
      /\ \A d \in SrCards : srCard'[d].stage = srCard[d].stage
      /\ \A d \in SrCards : srCard'[d].contact = srCard[d].contact
      /\ \A d \in SrCards : d # c => srCard'[d].checkout = srCard[d].checkout
      /\ \A d \in SrCards : d # c => srCard'[d].attempts = srCard[d].attempts
      /\ \A d \in SrCards : d # c => srCard'[d].fresh = srCard[d].fresh
      /\ srCard'[c].attempts = srProc["hook"].attempts
      /\ srCard'[c].fresh = srProc["hook"].fresh
  <2> DEFINE p == srProc["hook"]
             new == [srCard[c] EXCEPT !.checkout = srEvent[srHook].checkout, !.attempts = p.attempts,
                                      !.fresh = p.fresh, !.stuck = FALSE]
  <2>1. srCard' = [srCard EXCEPT ![c] = new]
    BY DEF SrMerge
  <2>2. srCard \in [SrCards -> SrCardType] /\ p \in SrProcType
    BY <1>1, SrTypes DEF SrProcs
  <2>3. srCard[c] \in SrCardType /\ p.attempts \in 0..SrMaxAttempts /\ p.fresh \in BOOLEAN
    BY <2>2 DEF SrProcType
  <2>4. /\ new \in SrCardType /\ new.stage = srCard[c].stage /\ new.contact = srCard[c].contact
        /\ new.attempts = p.attempts /\ new.fresh = p.fresh
    BY <1>2, <2>3 DEF SrCardType
  <2> HIDE DEF new, p
  <2>5. srCard' \in [SrCards -> SrCardType] /\ srCard'[c] = new
    BY <2>1, <2>2, <2>4
  <2>6. \A d \in SrCards : d # c => srCard'[d] = srCard[d]
    BY <2>1, <2>2
  <2> QED BY <2>4, <2>5, <2>6 DEF p
<1>4. /\ srProc' \in [SrProcs -> SrProcType]
      /\ srProc'["hook"].step \in {"wait", "move"}
      /\ srProc'["hook"].step = "move" => srProc["hook"].to \in {"won", "refunded"}
      /\ srProc'["hook"].card = c
      /\ srProc'["hook"].to = srProc["hook"].to
      /\ \A q \in SrProcs : q # "hook" => srProc'[q] = srProc[q]
  BY <1>1, <1>2, SrTypes DEF SrMerge, SrProcType, SrProcs, SrSteps
<1>5. srEvent' = srEvent /\ srHook' = srHook /\ srJobs' = srJobs /\ srScan' = srScan /\ srRaced' = srRaced /\ srFaults' = srFaults
      /\ srRecent' = srRecent /\ srSent' = srSent /\ srPaid' = srPaid /\ srTwice' = srTwice /\ srGivenUp' = srGivenUp
  BY DEF SrMerge, SrHistory
<1>6. SrTypeInv'
  BY <1>1, <1>2, <1>3, <1>4, <1>5, SrTypes, SrTypesNext
<1>7. SrHookInv'
  BY <1>2, <1>3, <1>4, <1>5, SrAssumption DEF SrInv, SrHookInv
<1>8. SrFlowInv'
  <2>1. srProc["inline"].step = "idle"
    BY <1>2 DEF SrInv, SrFlowInv
  <2> QED BY <1>2, <1>3, <1>4, <1>5, <2>1 DEF SrInv, SrFlowInv, SrBusy, SrProcs
<1>9. SrCardInv'
  BY <1>1, <1>2, <1>3, <1>5, SrTypes DEF SrInv, SrCardInv
<1>10. SrEventInv'
  BY <1>1, <1>2, <1>3, <1>4, <1>5 DEF SrInv, SrEventInv, SrAlready, SrSale, SrProcessedOnce
<1>11. SrPursuedInv'
  BY <1>2, <1>3, <1>4, <1>5 DEF SrInv, SrPursuedInv, SrProcs
<1>12. SrAloneInv'
  <2> SUFFICES ASSUME ~srRaced PROVE SrAloneInv'
    BY <1>5 DEF SrAloneInv
  <2>1. SrPaidStaysClosed'
    BY <1>1, <1>3, <1>5, SrTypes DEF SrPaidStaysClosed, SrInv, SrAloneInv
  <2>2. SrByContact' = SrByContact
    BY <1>3 DEF SrByContact, SrOpen
  <2>3. SrBusy("hook")
    BY <1>2 DEF SrBusy
  <2>4. \A q \in SrProcs : q # "hook" => srProc'[q].step \in {"idle", "wait"}
    BY <1>4, <2>3 DEF SrInv, SrAloneInv, SrBusy, SrProcs
  <2>5. \A d, e \in SrByContact : d = e
    BY DEF SrInv, SrAloneInv
  <2> QED BY <1>3, <1>4, <1>5, <2>1, <2>2, <2>4, <2>5 DEF SrAloneInv, SrBusy, SrProcs
<1>13. SrCalmInv'
  <2> SUFFICES ASSUME SrCalm PROVE SrCalmInv'
    BY <1>5 DEF SrCalmInv, SrCalm
  <2>1. srCard[c].attempts = srProc["hook"].attempts /\ srCard[c].fresh = srProc["hook"].fresh
    BY <1>2 DEF SrInv, SrAloneInv, SrCalm, SrProcs
  <2>2. /\ \A d \in SrCards : srCard'[d].attempts = srCard[d].attempts
        /\ \A d \in SrCards : srCard'[d].fresh = srCard[d].fresh
    BY <1>3, <2>1
  <2>3. SrCoolingDown' <=> SrCoolingDown
    BY <1>3, <2>2 DEF SrCoolingDown
  <2>4. SrBusy("hook")
    BY <1>2 DEF SrBusy
  <2>5. \A q \in SrProcs : srProc[q].step \notin {"send", "record"} /\ (q # "hook" => srProc[q].step # "move")
    BY <1>2, <2>4 DEF SrInv, SrAloneInv, SrCalm, SrBusy, SrProcs
  <2>6. \A q \in SrProcs : srProc'[q].step \notin {"send", "record"}
    BY <1>4, <2>5
  <2>7. /\ ~srTwice
        /\ srRecent => SrCoolingDown
        /\ \A d \in SrCards : srSent[d] <= srCard[d].attempts
        /\ \A d \in SrCards : ~ (srCard[d].stage = "opportunity" /\ srSent[d] > 0)
    BY <2>5 DEF SrInv, SrCalmInv, SrProcs
  <2>8. \A d \in SrCards : srSent'[d] <= srCard'[d].attempts
    BY <1>5, <2>2, <2>7
  <2> QED BY <1>3, <1>5, <2>3, <2>6, <2>7, <2>8 DEF SrCalmInv, SrProcs
<1> QED BY <1>6, <1>7, <1>8, <1>9, <1>10, <1>11, <1>12, <1>13 DEF SrInv

LEMMA SrCreateKeeps ==
  ASSUME SrInv, NEW c \in SrCards, SrCreate(c)
  PROVE  SrInv'
<1>1. SrTypeInv BY DEF SrInv
<1>2. /\ srProc["hook"].step = "create"
      /\ srHook \in SrEvents
      /\ srCard[c].stage = "none"
      /\ srCard[c].contact = FALSE
      /\ srCard[c].fresh = FALSE
      /\ srCard[c].attempts = 0
      /\ srSent[c] = 0
      /\ srProc["inline"].step = "idle"
  BY <1>1, SrTypes DEF SrCreate, SrInv, SrHookInv, SrCardInv, SrFlowInv, SrCardType
<1>3. /\ srCard' \in [SrCards -> SrCardType]
      /\ \A d \in SrCards : d # c => srCard'[d].stage = srCard[d].stage
      /\ \A d \in SrCards : d # c => srCard'[d].contact = srCard[d].contact
      /\ \A d \in SrCards : srCard'[d].checkout = srCard[d].checkout
      /\ \A d \in SrCards : srCard'[d].attempts = srCard[d].attempts
      /\ \A d \in SrCards : srCard'[d].fresh = srCard[d].fresh
      /\ srCard'[c].stage = "opportunity"
      /\ srCard'[c].contact = srEvent[srHook].phone
  <2> DEFINE ph == srEvent[srHook].phone
  <2>1. ph \in BOOLEAN
    BY <1>1, <1>2, SrTypes DEF SrEventType
  <2>2. srCard' = [srCard EXCEPT ![c].stage = "opportunity", ![c].contact = ph]
    BY DEF SrCreate
  <2> HIDE DEF ph
  <2>3. /\ srCard' \in [SrCards -> SrCardType] /\ srCard'[c].contact = ph /\ srCard'[c].stage = "opportunity"
        /\ srCard'[c].checkout = srCard[c].checkout /\ srCard'[c].attempts = srCard[c].attempts
        /\ srCard'[c].fresh = srCard[c].fresh
        /\ \A d \in SrCards : d # c => srCard'[d] = srCard[d]
    BY <1>1, <2>1, <2>2, SrTypes, ZenonT(60) DEF SrCardType, SrStages
  <2> QED BY <2>3 DEF ph
<1>4. /\ srProc' \in [SrProcs -> SrProcType]
      /\ srProc'["hook"].step = "meta"
      /\ srProc'["hook"].card = c
      /\ \A q \in SrProcs : q # "hook" => srProc'[q] = srProc[q]
  BY <1>1, <1>2, SrTypes, ZenonT(60) DEF SrCreate, SrProcType, SrProcs, SrSteps
<1>5. srEvent' = srEvent /\ srHook' = srHook /\ srJobs' = srJobs /\ srScan' = srScan /\ srRaced' = srRaced /\ srFaults' = srFaults
      /\ srRecent' = srRecent /\ srSent' = srSent /\ srPaid' = srPaid /\ srTwice' = srTwice /\ srGivenUp' = srGivenUp
  BY DEF SrCreate, SrHistory
<1>6. SrTypeInv'
  BY <1>1, <1>2, <1>3, <1>4, <1>5, SrTypes, SrTypesNext
<1>7. SrHookInv'
  BY <1>2, <1>3, <1>4, <1>5, SrAssumption DEF SrInv, SrHookInv
<1>8. SrFlowInv'
  BY <1>2, <1>3, <1>4, <1>5 DEF SrInv, SrFlowInv, SrBusy, SrProcs
<1>9. SrCardInv'
  BY <1>1, <1>2, <1>3, <1>5, SrTypes DEF SrInv, SrCardInv
<1>10. SrEventInv'
  BY <1>1, <1>2, <1>3, <1>4, <1>5 DEF SrInv, SrEventInv, SrAlready, SrSale, SrProcessedOnce
<1>11. SrPursuedInv'
  BY <1>2, <1>3, <1>4, <1>5 DEF SrInv, SrPursuedInv, SrProcs
<1>12. SrAloneInv'
  <2> SUFFICES ASSUME ~srRaced PROVE SrAloneInv'
    BY <1>5 DEF SrAloneInv
  <2>1. SrPaidStaysClosed'
    BY <1>1, <1>2, <1>3, <1>5, SrTypes DEF SrPaidStaysClosed, SrInv, SrAloneInv
  <2>2. \A d, e \in SrByContact' : d = e
    <3>1. \A d \in SrCards : d # c => (d \in SrByContact' <=> d \in SrByContact)
      BY <1>3 DEF SrByContact, SrOpen
    <3>2. CASE srEvent[srHook].phone
      <4>1. SrByContact = {}
        BY <1>2, <3>2 DEF SrInv, SrAloneInv
      <4> QED BY <3>1, <4>1 DEF SrByContact
    <3>3. CASE ~srEvent[srHook].phone
      <4>1. c \notin SrByContact'
        BY <1>3, <3>3 DEF SrByContact
      <4> QED BY <3>1, <4>1 DEF SrInv, SrAloneInv, SrByContact
    <3> QED BY <3>2, <3>3
  <2>3. SrBusy("hook")
    BY <1>2 DEF SrBusy
  <2>4. \A q \in SrProcs : q # "hook" => srProc'[q].step \in {"idle", "wait"}
    BY <1>4, <2>3 DEF SrInv, SrAloneInv, SrBusy, SrProcs
  <2> QED BY <1>2, <1>3, <1>4, <1>5, <2>1, <2>2, <2>4 DEF SrAloneInv, SrBusy, SrProcs
<1>13. SrCalmInv'
  <2> SUFFICES ASSUME SrCalm PROVE SrCalmInv'
    BY <1>5 DEF SrCalmInv, SrCalm
  <2>1. SrCoolingDown' <=> SrCoolingDown
    BY <1>2, <1>3 DEF SrCoolingDown
  <2>2. \A q \in SrProcs : q # "hook" => srProc'[q].step \notin {"send", "record", "move"}
    BY <1>2, <1>4 DEF SrInv, SrAloneInv, SrCalm, SrBusy, SrProcs
  <2>3. /\ ~srTwice
        /\ srRecent => SrCoolingDown
        /\ \A d \in SrCards : srSent[d] <= srCard[d].attempts
        /\ \A d \in SrCards : ~ (srCard[d].stage = "opportunity" /\ srSent[d] > 0)
    BY <1>2, <1>4, <2>2 DEF SrInv, SrCalmInv, SrProcs
  <2> QED BY <1>2, <1>3, <1>4, <1>5, <2>1, <2>2, <2>3 DEF SrCalmInv, SrProcs
<1> QED BY <1>6, <1>7, <1>8, <1>9, <1>10, <1>11, <1>12, <1>13 DEF SrInv

LEMMA SrMetaKeeps ==
  ASSUME SrInv, NEW c \in SrCards, c = srProc["hook"].card, SrMeta
  PROVE  SrInv'
<1>1. SrTypeInv BY DEF SrInv
<1>2. /\ srProc["hook"].step = "meta"
      /\ srHook \in SrEvents
      /\ srCard[c].stage # "none"
      /\ srProc["inline"].step = "idle"
      /\ srEvent[srHook].checkout \in SrCheckouts
  BY <1>1, SrTypes DEF SrMeta, SrInv, SrHookInv, SrEventInv, SrFlowInv
<1>3. /\ srCard' \in [SrCards -> SrCardType]
      /\ \A d \in SrCards : srCard'[d].stage = srCard[d].stage
      /\ \A d \in SrCards : srCard'[d].contact = srCard[d].contact
      /\ \A d \in SrCards : d # c => srCard'[d].checkout = srCard[d].checkout
      /\ \A d \in SrCards : d # c => srCard'[d].attempts = srCard[d].attempts
      /\ \A d \in SrCards : d # c => srCard'[d].fresh = srCard[d].fresh
      /\ srCard'[c].attempts = 0
      /\ srCard'[c].fresh = FALSE
  <2> DEFINE new == [srCard[c] EXCEPT !.checkout = srEvent[srHook].checkout, !.attempts = 0,
                                      !.fresh = FALSE]
  <2>1. srCard' = [srCard EXCEPT ![c] = new]
    BY DEF SrMeta
  <2>2. srCard \in [SrCards -> SrCardType] /\ 0 \in 0..SrMaxAttempts
    BY <1>1, SrTypes, SrAssumption
  <2>3. srCard[c] \in SrCardType
    BY <2>2
  <2>4. /\ new \in SrCardType /\ new.stage = srCard[c].stage /\ new.contact = srCard[c].contact
        /\ new.attempts = 0 /\ new.fresh = FALSE
    BY <1>2, <2>2, <2>3 DEF SrCardType
  <2> HIDE DEF new
  <2>5. srCard' \in [SrCards -> SrCardType] /\ srCard'[c] = new
    BY <2>1, <2>2, <2>4
  <2>6. \A d \in SrCards : d # c => srCard'[d] = srCard[d]
    BY <2>1, <2>2
  <2> QED BY <2>4, <2>5, <2>6
<1>4. /\ srProc' \in [SrProcs -> SrProcType]
      /\ srProc'["hook"].step = "wait"
      /\ srProc'["inline"].step \in {"idle", "wait"}
      /\ srProc'["inline"].step # "idle" => srProc'["inline"].card = c /\ srCard[c].contact
      /\ \A q \in SrProcs : q \notin {"hook", "inline"} => srProc'[q] = srProc[q]
  <2>1. SrIdle \in SrProcType /\ [SrIdle EXCEPT !.step = "wait", !.card = c] \in SrProcType
    BY SrIdleType DEF SrProcType, SrSteps
  <2>2. [SrIdle EXCEPT !.step = "wait", !.card = c].step = "wait" /\ [SrIdle EXCEPT !.step = "wait", !.card = c].card = c
    BY DEF SrIdle
  <2> DEFINE new == [SrIdle EXCEPT !.step = "wait", !.card = c]
  <2>3. srProc' = [srProc EXCEPT !["hook"].step = "wait",
       !["inline"] = IF srCard[c].contact /\ srEvent[srHook].kind = "ABANDONED_CART" THEN new ELSE @]
    BY DEF SrMeta
  <2> HIDE DEF new
  <2> QED BY <1>1, <1>2, <2>1, <2>2, <2>3, SrTypes DEF SrProcType, SrProcs, SrSteps, new
<1>5. /\ srJobs' \subseteq srJobs \union {c}
      /\ srJobs \subseteq srJobs'
      /\ c \in srJobs' \ srJobs => srCard[c].contact
      /\ srCard[c].contact => c \in srJobs' \/ srProc'["inline"].step # "idle"
  <2>1. CASE srCard[c].contact /\ srEvent[srHook].kind = "ABANDONED_CART"
    BY <1>1, <2>1, SrTypes DEF SrMeta, SrIdle, SrProcs
  <2>2. CASE ~(srCard[c].contact /\ srEvent[srHook].kind = "ABANDONED_CART")
    BY <2>2 DEF SrMeta
  <2> QED BY <2>1, <2>2
<1>6. srEvent' = srEvent /\ srHook' = srHook /\ srScan' = srScan /\ srRaced' = srRaced /\ srFaults' = srFaults
      /\ srRecent' = srRecent /\ srSent' = srSent /\ srPaid' = srPaid /\ srTwice' = srTwice /\ srGivenUp' = srGivenUp
  BY DEF SrMeta, SrHistory
<1>7. SrTypeInv'
  BY <1>1, <1>2, <1>3, <1>4, <1>5, <1>6, SrTypes, SrTypesNext
<1>8. SrHookInv'
  BY <1>1, <1>2, <1>3, <1>4, <1>5, <1>6 DEF SrInv, SrHookInv
<1>9. SrFlowInv'
  BY <1>2, <1>3, <1>4, <1>6 DEF SrInv, SrFlowInv, SrBusy, SrProcs
<1>10. SrCardInv'
  BY <1>1, <1>2, <1>3, <1>5, <1>6, SrTypes DEF SrInv, SrCardInv
<1>11. SrEventInv'
  BY <1>1, <1>2, <1>3, <1>4, <1>5, <1>6 DEF SrInv, SrEventInv, SrAlready, SrSale, SrProcessedOnce
<1>12. SrPursuedInv'
  BY <1>2, <1>3, <1>4, <1>5, <1>6 DEF SrInv, SrPursuedInv, SrProcs
<1>13. SrAloneInv'
  <2> SUFFICES ASSUME ~srRaced PROVE SrAloneInv'
    BY <1>6 DEF SrAloneInv
  <2>1. SrPaidStaysClosed'
    BY <1>1, <1>2, <1>3, <1>6, SrTypes DEF SrPaidStaysClosed, SrInv, SrAloneInv
  <2>2. SrByContact' = SrByContact
    BY <1>3 DEF SrByContact, SrOpen
  <2>3. SrBusy("hook")
    BY <1>2 DEF SrBusy
  <2>4. \A q \in SrProcs : srProc'[q].step \in {"idle", "wait"}
    BY <1>4, <2>3 DEF SrInv, SrAloneInv, SrBusy, SrProcs
  <2>5. \A d, e \in SrByContact : d = e
    BY DEF SrInv, SrAloneInv
  <2> QED BY <1>4, <1>6, <2>1, <2>2, <2>4, <2>5 DEF SrAloneInv, SrBusy, SrProcs
<1>14. SrCalmInv'
  <2> SUFFICES ASSUME SrCalm PROVE SrCalmInv'
    BY <1>6 DEF SrCalmInv, SrCalm
  <2>0. srCard[c].fresh = FALSE /\ srSent[c] = 0
    BY <1>1, <1>2, SrTypes DEF SrInv, SrAloneInv, SrCalm, SrCardType
  <2>1. SrCoolingDown' <=> SrCoolingDown
    BY <1>3, <2>0 DEF SrCoolingDown
  <2>2. \A q \in SrProcs : srProc[q].step \notin {"send", "record"} /\ (q # "hook" => srProc[q].step # "move")
    BY <1>2 DEF SrInv, SrAloneInv, SrCalm, SrBusy, SrProcs
  <2>3. /\ ~srTwice
        /\ srRecent => SrCoolingDown
        /\ \A d \in SrCards : srSent[d] <= srCard[d].attempts
        /\ \A d \in SrCards : ~ (srCard[d].stage = "opportunity" /\ srSent[d] > 0)
    BY <2>2 DEF SrInv, SrCalmInv, SrProcs
  <2>4. \A q \in SrProcs : srProc'[q].step \notin {"send", "record"}
    BY <1>4, <2>2
  <2>5. \A d \in SrCards : srSent'[d] <= srCard'[d].attempts
    BY <1>3, <1>6, <2>0, <2>3
  <2> QED BY <1>3, <1>6, <2>1, <2>3, <2>4, <2>5 DEF SrCalmInv, SrProcs
<1> QED BY <1>7, <1>8, <1>9, <1>10, <1>11, <1>12, <1>13, <1>14 DEF SrInv

\* The opener's two outcomes: it will be sent, or it is given up.
SrAsked(p, c) ==
  /\ \/ p = "inline" /\ srProc[p].step = "wait" /\ srProc[p].card = c /\ UNCHANGED srJobs
     \/ p = "job" /\ srProc[p].step = "idle" /\ c \in srJobs /\ srJobs' = srJobs \ {c}
  /\ UNCHANGED <<srCard, srEvent, srHook, srScan, srFaults, srRecent, srSent, srPaid, srTwice>>

SrWillSend(p, c) ==
  SrAsked(p, c) /\ SrStillWanted(c) /\ SrBegin(p, "send", c, "contact_attempt") /\ UNCHANGED srGivenUp

SrGivesUp(p, c) ==
  /\ SrAsked(p, c) /\ UNCHANGED srRaced
  /\ srProc' = [srProc EXCEPT ![p] = SrIdle] /\ srGivenUp' = srGivenUp \union {c}

LEMMA SrWillSendKeeps ==
  ASSUME SrInv, NEW p \in {"inline", "job"}, NEW c \in SrCards, SrWillSend(p, c)
  PROVE  SrInv'
<1>1. SrTypeInv BY DEF SrInv
<1>2. /\ srProc[p].step \in {"idle", "wait"}
      /\ srProc[p].step # "idle" => srProc[p].card = c
      /\ srCard[c].contact
      /\ p \in SrProcs
      /\ p \notin {"hook", "dog"}
      /\ p = "inline" => srProc["hook"].step = "wait" /\ srProc[p].step = "wait"
  BY <1>1 DEF SrWillSend, SrAsked, SrInv, SrFlowInv, SrCardInv, SrProcs
<1>3. /\ srJobs \ {c} \subseteq srJobs'
      /\ srJobs' \subseteq srJobs
  BY DEF SrWillSend, SrAsked
<1>4. srCard' = srCard /\ srEvent' = srEvent /\ srHook' = srHook /\ srScan' = srScan /\ srFaults' = srFaults /\ srRecent' = srRecent /\ srSent' = srSent /\ srPaid' = srPaid /\ srTwice' = srTwice
  BY DEF SrWillSend, SrAsked
<1>5. /\ srProc' \in [SrProcs -> SrProcType]
      /\ srProc'[p].step = "send"
      /\ srProc'[p].card = c
      /\ srProc'[p].to = "contact_attempt"
      /\ srProc'[p].attempts = srCard[c].attempts
      /\ srProc'[p].fresh = srCard[c].fresh
      /\ \A q \in SrProcs : q # p => srProc'[q] = srProc[q]
      /\ srRaced' \in BOOLEAN
      /\ ~srRaced' => ~srRaced /\ \A q \in SrProcs : q # p => ~SrBusy(q)
  <2>1. SrBegin(p, "send", c, "contact_attempt")
    BY DEF SrWillSend
  <2>2. "send" \in SrSteps /\ "contact_attempt" \in SrStages
    BY DEF SrSteps, SrStages, SrLive
  <2>3. /\ srProc' \in [SrProcs -> SrProcType]
        /\ \A q \in SrProcs \ {p} : srProc'[q] = srProc[q]
        /\ srProc'[p].step = "send" /\ srProc'[p].card = c /\ srProc'[p].to = "contact_attempt"
        /\ srProc'[p].attempts = srCard[c].attempts /\ srProc'[p].fresh = srCard[c].fresh
        /\ srRaced' \in BOOLEAN
        /\ ~srRaced' => ~srRaced /\ \A q \in SrProcs \ {p} : ~SrBusy(q)
    BY <1>1, <1>2, <2>1, <2>2, SrBeginType, ZenonT(60)
  <2> QED BY <2>3, SMTT(30)
<1>6. /\ srGivenUp' = srGivenUp
      /\ srCard[c].stage = "opportunity"
      /\ ~SrCoolingDown
  BY DEF SrWillSend, SrStillWanted
<1>7. SrTypeInv'
  BY <1>1, <1>2, <1>3, <1>4, <1>5, <1>6, SrTypes, SrTypesNext
<1>8. SrHookInv'
  BY <1>2, <1>4, <1>5 DEF SrInv, SrHookInv, SrProcs
<1>9. SrFlowInv'
  BY <1>2, <1>4, <1>5 DEF SrInv, SrFlowInv, SrBusy, SrProcs
<1>10. SrCardInv'
  BY <1>1, <1>2, <1>3, <1>4, <1>5, <1>6, SrTypes DEF SrInv, SrCardInv
<1>11. SrEventInv'
  BY <1>1, <1>2, <1>3, <1>4, <1>5, <1>6 DEF SrInv, SrEventInv, SrAlready, SrSale, SrProcessedOnce
<1>12. SrPursuedInv'
  BY <1>2, <1>3, <1>4, <1>5, <1>6 DEF SrInv, SrPursuedInv, SrProcs
<1>13. SrAloneInv'
  <2> SUFFICES ASSUME ~srRaced' PROVE SrAloneInv'
    BY DEF SrAloneInv
  <2>0. ~srRaced
    BY <1>5
  <2>1. SrPaidStaysClosed'
    BY <1>4, <2>0 DEF SrPaidStaysClosed, SrInv, SrAloneInv
  <2>2. SrByContact' = SrByContact
    BY <1>4 DEF SrByContact
  <2>3. \A q \in SrProcs : q # p => srProc'[q].step \in {"idle", "wait"}
    BY <1>5 DEF SrBusy
  <2>5. \A d, e \in SrByContact : d = e
    BY <2>0 DEF SrInv, SrAloneInv
  <2> QED BY <1>2, <1>4, <1>5, <1>6, <2>1, <2>2, <2>3, <2>5 DEF SrAloneInv, SrBusy, SrProcs
<1>14. SrCalmInv'
  <2> SUFFICES ASSUME SrCalm' PROVE SrCalmInv'
    BY DEF SrCalmInv
  <2>0. SrCalm /\ ~srRaced'
    BY <1>4, <1>5 DEF SrCalm
  <2>1. SrCoolingDown' <=> SrCoolingDown
    BY <1>4 DEF SrCoolingDown
  <2>2. \A q \in SrProcs : srProc[q].step \in {"idle", "wait"}
    BY <1>2, <1>5, <2>0 DEF SrBusy
  <2>3. /\ ~srTwice
        /\ ~srRecent
        /\ \A d \in SrCards : srSent[d] <= srCard[d].attempts
        /\ \A d \in SrCards : ~ (srCard[d].stage = "opportunity" /\ srSent[d] > 0)
    BY <1>6, <2>0, <2>2 DEF SrInv, SrCalmInv, SrProcs
  <2>4. \A q \in SrProcs : srProc'[q].step # "record"
    BY <1>5, <2>2
  <2> QED BY <1>4, <2>1, <2>3, <2>4 DEF SrCalmInv, SrProcs
<1> QED BY <1>7, <1>8, <1>9, <1>10, <1>11, <1>12, <1>13, <1>14 DEF SrInv

LEMMA SrGivesUpKeeps ==
  ASSUME SrInv, NEW p \in {"inline", "job"}, NEW c \in SrCards, SrGivesUp(p, c)
  PROVE  SrInv'
<1>1. SrTypeInv BY DEF SrInv
<1>2. /\ srProc[p].step \in {"idle", "wait"}
      /\ srProc[p].step # "idle" => srProc[p].card = c
      /\ srCard[c].contact
      /\ p \in SrProcs
      /\ p \notin {"hook", "dog"}
      /\ p = "inline" => srProc["hook"].step = "wait" /\ srProc[p].step = "wait"
  BY <1>1 DEF SrGivesUp, SrAsked, SrInv, SrFlowInv, SrCardInv, SrProcs
<1>3. /\ srJobs \ {c} \subseteq srJobs'
      /\ srJobs' \subseteq srJobs
  BY DEF SrGivesUp, SrAsked
<1>4. srCard' = srCard /\ srEvent' = srEvent /\ srHook' = srHook /\ srScan' = srScan /\ srFaults' = srFaults /\ srRecent' = srRecent /\ srSent' = srSent /\ srPaid' = srPaid /\ srTwice' = srTwice
  BY DEF SrGivesUp, SrAsked
<1>5. /\ srProc' \in [SrProcs -> SrProcType]
      /\ srProc'[p].step = "idle"
      /\ \A q \in SrProcs : q # p => srProc'[q] = srProc[q]
  BY <1>1, <1>2, SrTypes, SrIdleType DEF SrGivesUp
<1>6. srGivenUp' = srGivenUp \union {c} /\ srRaced' = srRaced
  BY DEF SrGivesUp
<1>7. SrTypeInv'
  BY <1>1, <1>2, <1>3, <1>4, <1>5, <1>6, SrTypes, SrTypesNext
<1>8. SrHookInv'
  BY <1>2, <1>4, <1>5 DEF SrInv, SrHookInv, SrProcs
<1>9. SrFlowInv'
  BY <1>2, <1>4, <1>5 DEF SrInv, SrFlowInv, SrBusy, SrProcs
<1>10. SrCardInv'
  BY <1>1, <1>2, <1>3, <1>4, <1>5, <1>6, SrTypes DEF SrInv, SrCardInv
<1>11. SrEventInv'
  BY <1>1, <1>2, <1>3, <1>4, <1>5, <1>6 DEF SrInv, SrEventInv, SrAlready, SrSale, SrProcessedOnce
<1>12. SrPursuedInv'
  BY <1>2, <1>3, <1>4, <1>5, <1>6 DEF SrInv, SrPursuedInv, SrProcs
<1>13. SrAloneInv'
  <2>1. SrPaidStaysClosed' <=> SrPaidStaysClosed
    BY <1>4, <1>6 DEF SrPaidStaysClosed
  <2>2. SrByContact' = SrByContact
    BY <1>4, <1>6 DEF SrByContact
  <2> QED BY <1>2, <1>4, <1>5, <1>6, <2>1, <2>2 DEF SrInv, SrAloneInv, SrBusy, SrProcs
<1>14. SrCalmInv'
  <2>1. SrCoolingDown' <=> SrCoolingDown
    BY <1>4 DEF SrCoolingDown
  <2> QED BY <1>2, <1>4, <1>5, <1>6, <2>1 DEF SrInv, SrCalmInv, SrCalm, SrProcs
<1> QED BY <1>7, <1>8, <1>9, <1>10, <1>11, <1>12, <1>13, <1>14 DEF SrInv

\* The watchdog begins with a card it found stuck and that is still open.
SrRescue(c, step, to) ==
  /\ srProc["dog"].step = "idle" /\ c \in srScan /\ srScan' = srScan \ {c}
  /\ SrOpen(srCard[c]) /\ SrBegin("dog", step, c, to)
  /\ step = "send" => /\ srCard[c].contact /\ ~SrCoolingDown /\ to = "follow_up"
                      /\ srCard[c].attempts < SrMaxAttempts /\ SrMaxAttempts > 1
  /\ UNCHANGED <<srCard, srEvent, srHook, srJobs, srFaults, SrHistory>>

SrSkips(c) ==
  /\ srScan' = srScan \ {c}
  /\ UNCHANGED <<srCard, srEvent, srHook, srJobs, srProc, srRaced, srFaults, SrHistory>>

LEMMA SrRescueKeeps ==
  ASSUME SrInv, NEW c \in SrCards, NEW step \in {"send", "move"}, NEW to \in {"lost", "follow_up"}, SrRescue(c, step, to)
  PROVE  SrInv'
<1>1. SrTypeInv BY DEF SrInv
<1>2. /\ srProc["dog"].step = "idle"
      /\ srCard[c].stage \notin {"none", "opportunity"}
      /\ srScan' \subseteq srScan
      /\ SrOpen(srCard[c])
  BY DEF SrRescue, SrInv, SrCardInv
<1>3. srCard' = srCard /\ srEvent' = srEvent /\ srHook' = srHook /\ srJobs' = srJobs /\ srFaults' = srFaults
      /\ srRecent' = srRecent /\ srSent' = srSent /\ srPaid' = srPaid /\ srTwice' = srTwice /\ srGivenUp' = srGivenUp
  BY DEF SrRescue, SrHistory
<1>4. /\ srProc' \in [SrProcs -> SrProcType]
      /\ srProc'["dog"].step = step
      /\ srProc'["dog"].card = c
      /\ srProc'["dog"].to = to
      /\ srProc'["dog"].attempts = srCard[c].attempts
      /\ srProc'["dog"].fresh = srCard[c].fresh
      /\ \A q \in SrProcs : q # "dog" => srProc'[q] = srProc[q]
      /\ srRaced' \in BOOLEAN
      /\ ~srRaced' => ~srRaced /\ \A q \in SrProcs : q # "dog" => ~SrBusy(q)
  <2>1. SrBegin("dog", step, c, to)
    BY DEF SrRescue
  <2>2. "dog" \in SrProcs /\ step \in SrSteps /\ to \in SrStages
    BY DEF SrProcs, SrSteps, SrStages, SrLive
  <2>3. /\ srProc' \in [SrProcs -> SrProcType]
        /\ \A q \in SrProcs \ {"dog"} : srProc'[q] = srProc[q]
        /\ srProc'["dog"].step = step /\ srProc'["dog"].card = c /\ srProc'["dog"].to = to
        /\ srProc'["dog"].attempts = srCard[c].attempts /\ srProc'["dog"].fresh = srCard[c].fresh
        /\ srRaced' \in BOOLEAN
        /\ ~srRaced' => ~srRaced /\ \A q \in SrProcs \ {"dog"} : ~SrBusy(q)
    BY <1>1, <2>1, <2>2, SrBeginType, ZenonT(60)
  <2> QED BY <2>3, SMTT(30)
<1>5. step = "send" => /\ srCard[c].contact /\ ~SrCoolingDown /\ to = "follow_up"
                        /\ srCard[c].attempts < SrMaxAttempts /\ SrMaxAttempts > 1
  BY DEF SrRescue
<1>6. SrTypeInv'
  BY <1>1, <1>2, <1>3, <1>4, <1>5, SrTypes, SrTypesNext
<1>7. SrHookInv'
  BY <1>3, <1>4 DEF SrInv, SrHookInv, SrProcs
<1>8. SrFlowInv'
  BY <1>2, <1>3, <1>4, <1>5 DEF SrInv, SrFlowInv, SrBusy, SrProcs
<1>9. SrCardInv'
  BY <1>1, <1>2, <1>3, <1>4, <1>5, SrTypes DEF SrInv, SrCardInv
<1>10. SrEventInv'
  BY <1>1, <1>2, <1>3, <1>4, <1>5 DEF SrInv, SrEventInv, SrAlready, SrSale, SrProcessedOnce
<1>11. SrPursuedInv'
  BY <1>3, <1>4 DEF SrInv, SrPursuedInv, SrProcs
<1>12. SrAloneInv'
  <2> SUFFICES ASSUME ~srRaced' PROVE SrAloneInv'
    BY DEF SrAloneInv
  <2>0. ~srRaced
    BY <1>4
  <2>1. SrPaidStaysClosed'
    BY <1>3, <2>0 DEF SrPaidStaysClosed, SrInv, SrAloneInv
  <2>2. SrByContact' = SrByContact
    BY <1>3 DEF SrByContact
  <2>3. \A q \in SrProcs : q # "dog" => srProc'[q].step \in {"idle", "wait"}
    BY <1>4 DEF SrBusy
  <2>4. SrOpen(srCard'[c])
    BY <1>2, <1>3
  <2>5. \A d, e \in SrByContact : d = e
    BY <2>0 DEF SrInv, SrAloneInv
  <2> QED BY <1>3, <1>4, <2>1, <2>2, <2>3, <2>4, <2>5 DEF SrAloneInv, SrBusy, SrProcs
<1>13. SrCalmInv'
  <2> SUFFICES ASSUME SrCalm' PROVE SrCalmInv'
    BY DEF SrCalmInv
  <2>0. SrCalm /\ ~srRaced'
    BY <1>3, <1>4 DEF SrCalm
  <2>1. SrCoolingDown' <=> SrCoolingDown
    BY <1>3 DEF SrCoolingDown
  <2>2. \A q \in SrProcs : srProc[q].step \in {"idle", "wait"}
    BY <1>2, <1>4, <2>0 DEF SrBusy
  <2>3. /\ ~srTwice
        /\ srRecent => SrCoolingDown
        /\ \A d \in SrCards : srSent[d] <= srCard[d].attempts
        /\ \A d \in SrCards : ~ (srCard[d].stage = "opportunity" /\ srSent[d] > 0)
    BY <2>0, <2>2 DEF SrInv, SrCalmInv, SrProcs
  <2>4. \A q \in SrProcs : srProc'[q].step # "record" /\ (q # "dog" => srProc'[q].step # "send")
    BY <1>4, <2>2
  <2>5. \A q \in SrProcs : srProc'[q].step = "send" => ~srRecent'
    BY <1>3, <1>4, <1>5, <2>3, <2>4
  <2> QED BY <1>3, <2>1, <2>3, <2>4, <2>5 DEF SrCalmInv, SrProcs
<1> QED BY <1>6, <1>7, <1>8, <1>9, <1>10, <1>11, <1>12, <1>13 DEF SrInv

LEMMA SrSkipsKeeps ==
  ASSUME SrInv, NEW c \in SrCards, SrSkips(c)
  PROVE  SrInv'
<1>1. SrTypeInv BY DEF SrInv
<1>2. srCard' = srCard /\ srEvent' = srEvent /\ srHook' = srHook /\ srJobs' = srJobs /\ srProc' = srProc /\ srRaced' = srRaced /\ srFaults' = srFaults
      /\ srRecent' = srRecent /\ srSent' = srSent /\ srPaid' = srPaid /\ srTwice' = srTwice /\ srGivenUp' = srGivenUp
  BY DEF SrSkips, SrHistory
<1>3. srScan' \subseteq srScan
  BY DEF SrSkips
<1>4. SrTypeInv'
  BY <1>1, <1>2, <1>3, SrTypes, SrTypesNext
<1>5. SrHookInv'
  BY <1>1, <1>2, <1>3 DEF SrInv, SrHookInv
<1>6. SrFlowInv'
  BY <1>1, <1>2, <1>3 DEF SrInv, SrFlowInv, SrBusy
<1>7. SrCardInv'
  BY <1>1, <1>2, <1>3, SrTypes DEF SrInv, SrCardInv
<1>8. SrEventInv'
  BY <1>1, <1>2, <1>3 DEF SrInv, SrEventInv, SrAlready, SrSale, SrProcessedOnce
<1>9. SrPursuedInv'
  BY <1>1, <1>2, <1>3 DEF SrInv, SrPursuedInv
<1>10. SrAloneInv'
  <2>1. SrPaidStaysClosed' <=> SrPaidStaysClosed
    BY <1>2 DEF SrPaidStaysClosed
  <2>2. SrByContact' = SrByContact
    BY <1>2 DEF SrByContact
  <2> QED BY <1>2, <2>1, <2>2 DEF SrInv, SrAloneInv, SrBusy, SrOpen
<1>11. SrCalmInv'
  <2>1. SrCoolingDown' <=> SrCoolingDown
    BY <1>2 DEF SrCoolingDown
  <2> QED BY <1>2, <2>1 DEF SrInv, SrCalmInv, SrCalm
<1> QED BY <1>4, <1>5, <1>6, <1>7, <1>8, <1>9, <1>10, <1>11 DEF SrInv

LEMMA SrEscalateKeeps ==
  ASSUME SrInv, NEW c \in SrCards, SrEscalate(c)
  PROVE  SrInv'
<1>1. srCard[c].attempts \in 0..SrMaxAttempts
  BY SrTypes DEF SrCardType, SrInv
<1>2. ~SrExhausted(c) => srCard[c].attempts < SrMaxAttempts /\ SrMaxAttempts > 1
  BY <1>1, SrAssumption DEF SrExhausted
<1>3. CASE ~SrOpen(srCard[c])
  BY <1>3, SrSkipsKeeps DEF SrEscalate, SrStillOpen, SrSkips
<1>4. CASE SrOpen(srCard[c]) /\ SrExhausted(c)
  <2>1. SrRescue(c, "move", "lost")
    BY <1>4 DEF SrEscalate, SrStillOpen, SrRescue
  <2> QED BY <2>1, SrRescueKeeps
<1>5. CASE SrOpen(srCard[c]) /\ ~SrExhausted(c) /\ srCard[c].contact /\ ~SrCoolingDown
  <2>1. SrRescue(c, "send", "follow_up")
    BY <1>2, <1>5 DEF SrEscalate, SrStillOpen, SrRescue
  <2> QED BY <2>1, SrRescueKeeps
<1>6. CASE SrOpen(srCard[c]) /\ ~SrExhausted(c) /\ ~(srCard[c].contact /\ ~SrCoolingDown)
  <2>1. SrRescue(c, "move", "follow_up")
    BY <1>6 DEF SrEscalate, SrStillOpen, SrRescue
  <2> QED BY <2>1, SrRescueKeeps
<1> QED BY <1>3, <1>4, <1>5, <1>6

LEMMA SrDispatchKeeps ==
  ASSUME SrInv, NEW p \in {"inline", "job"}, NEW c \in SrCards, SrDispatch(p, c)
  PROVE  SrInv'
BY SrWillSendKeeps, SrGivesUpKeeps DEF SrDispatch, SrWillSend, SrGivesUp, SrAsked

\* Who sends writes to a contact's card.
LEMMA SrSender ==
  ASSUME SrInv, NEW p \in SrProcs, srProc[p].step \in {"send", "record"}
  PROVE  /\ p # "hook" /\ srProc[p].card \in SrCards
         /\ srCard[srProc[p].card].contact /\ srCard[srProc[p].card].stage # "none"
<1>1. p # "hook"
  BY DEF SrInv, SrHookInv
<1>2. p \in {"inline", "job"} \/ p = "dog"
  BY <1>1 DEF SrProcs
<1>3. srProc[p].card \in SrCards /\ srCard[srProc[p].card].contact
  BY <1>2 DEF SrInv, SrFlowInv
<1>4. srCard[srProc[p].card].stage # "none"
  BY <1>3 DEF SrInv, SrCardInv
<1> QED BY <1>1, <1>3, <1>4

\* The sender's three outcomes.
SrIsSent(p, c) ==
  /\ srProc[p].step = "send" /\ srProc[p].card = c
  /\ srSent' = [srSent EXCEPT ![c] = IF @ > SrMaxAttempts THEN @ ELSE @ + 1]
  /\ srTwice' = (srTwice \/ srRecent)
  /\ srRecent' = TRUE
  /\ srProc' = [srProc EXCEPT ![p].step = "record"]
  /\ UNCHANGED <<srCard, srGivenUp>>
  /\ UNCHANGED <<srEvent, srHook, srJobs, srScan, srRaced, srFaults, srPaid>>

SrHasNoTemplate(p, c) ==
  /\ p # "dog" /\ srProc[p].step = "send" /\ srProc[p].card = c
  /\ srCard' = [srCard EXCEPT ![c].conv = TRUE, ![c].stuck = FALSE]
  /\ srProc' = [srProc EXCEPT ![p] = SrIdle]
  /\ srGivenUp' = srGivenUp \union {c}
  /\ UNCHANGED <<srSent, srTwice, srRecent>>
  /\ UNCHANGED <<srEvent, srHook, srJobs, srScan, srRaced, srFaults, srPaid>>

SrIsNotSent(p) ==
  /\ p = "dog" /\ srProc[p].step = "send"
  /\ srProc' = [srProc EXCEPT ![p].step = "record"]
  /\ UNCHANGED <<srCard, srGivenUp, srSent, srTwice, srRecent>>
  /\ UNCHANGED <<srEvent, srHook, srJobs, srScan, srRaced, srFaults, srPaid>>

LEMMA SrIsSentKeeps ==
  ASSUME SrInv, NEW p \in SrProcs, NEW c \in SrCards, SrIsSent(p, c)
  PROVE  SrInv'
<1>1. SrTypeInv BY DEF SrInv
<1>2. /\ p # "hook"
      /\ srProc[p].step = "send"
      /\ srProc[p].card = c
      /\ srCard[c].contact
      /\ srCard[c].stage # "none"
  BY SrSender DEF SrIsSent
<1>3. /\ srProc' \in [SrProcs -> SrProcType]
      /\ srProc'[p].step = "record"
      /\ srProc'[p].card = srProc[p].card
      /\ srProc'[p].to = srProc[p].to
      /\ srProc'[p].attempts = srProc[p].attempts
      /\ srProc'[p].fresh = srProc[p].fresh
      /\ \A q \in SrProcs : q # p => srProc'[q] = srProc[q]
  BY <1>1, SrTypes DEF SrIsSent, SrProcType, SrSteps
<1>4. srCard' = srCard /\ srGivenUp' = srGivenUp /\ srEvent' = srEvent /\ srHook' = srHook /\ srJobs' = srJobs /\ srScan' = srScan /\ srRaced' = srRaced /\ srFaults' = srFaults /\ srPaid' = srPaid
  BY DEF SrIsSent
<1>5. /\ srRecent' = TRUE
      /\ srTwice' \in BOOLEAN
      /\ srTwice' <=> srTwice \/ srRecent
  BY DEF SrIsSent
<1>6. /\ srSent' \in [SrCards -> Nat]
      /\ srSent'[c] <= srSent[c] + 1
      /\ \A d \in SrCards : d # c => srSent'[d] = srSent[d]
  BY <1>1, SrTypes, SrAssumption DEF SrIsSent
<1>7. SrTypeInv'
  BY <1>1, <1>2, <1>3, <1>4, <1>5, <1>6, SrTypes, SrTypesNext
<1>8. SrHookInv'
  BY <1>2, <1>3, <1>4 DEF SrInv, SrHookInv, SrProcs
<1>9. SrFlowInv'
  BY <1>2, <1>3, <1>4 DEF SrInv, SrFlowInv, SrBusy, SrProcs
<1>10. SrCardInv'
  BY <1>1, <1>2, <1>4, <1>6 DEF SrInv, SrCardInv
<1>11. SrEventInv'
  BY <1>1, <1>2, <1>3, <1>4, <1>5, <1>6 DEF SrInv, SrEventInv, SrAlready, SrSale, SrProcessedOnce
<1>12. SrPursuedInv'
  BY <1>2, <1>3, <1>4 DEF SrInv, SrPursuedInv, SrProcs
<1>13. SrAloneInv'
  <2> SUFFICES ASSUME ~srRaced PROVE SrAloneInv'
    BY <1>4 DEF SrAloneInv
  <2>1. SrPaidStaysClosed'
    BY <1>4 DEF SrPaidStaysClosed, SrInv, SrAloneInv
  <2>2. SrByContact' = SrByContact
    BY <1>4 DEF SrByContact
  <2>3. SrBusy(p)
    BY <1>2 DEF SrBusy
  <2>4. \A q \in SrProcs : q # p => srProc'[q].step \in {"idle", "wait"}
    BY <1>3, <2>3 DEF SrInv, SrAloneInv, SrBusy
  <2>5. \A d, e \in SrByContact : d = e
    BY DEF SrInv, SrAloneInv
  <2>6. /\ p \in {"inline", "job"} => srCard[c].stage = "opportunity"
        /\ p = "dog" => SrOpen(srCard[c])
        /\ srProc[p].attempts = srCard[c].attempts /\ srProc[p].fresh = srCard[c].fresh
    BY <1>2, <2>3 DEF SrInv, SrAloneInv
  <2> QED BY <1>2, <1>3, <1>4, <2>1, <2>2, <2>4, <2>5, <2>6 DEF SrAloneInv, SrBusy, SrProcs
<1>14. SrCalmInv'
  <2> SUFFICES ASSUME SrCalm PROVE SrCalmInv'
    BY <1>4 DEF SrCalmInv, SrCalm
  <2>1. SrBusy(p)
    BY <1>2 DEF SrBusy
  <2>2. \A q \in SrProcs : q # p => srProc[q].step \in {"idle", "wait"}
    BY <2>1 DEF SrInv, SrAloneInv, SrBusy, SrCalm
  <2>3. /\ ~srTwice
        /\ ~srRecent
        /\ \A d \in SrCards : srSent[d] <= srCard[d].attempts
        /\ \A d \in SrCards : ~ (srCard[d].stage = "opportunity" /\ srSent[d] > 0)
    BY <1>2, <2>2 DEF SrInv, SrCalmInv, SrProcs
  <2>4. p \in {"inline", "job"} => srCard[c].stage = "opportunity"
    BY <1>2, <2>1 DEF SrInv, SrAloneInv, SrCalm
  <2>5. srSent[c] \in Nat /\ srSent'[c] \in Nat /\ srCard[c].attempts \in Nat
    BY <1>1, <1>6, SrTypes DEF SrCardType
  <2>6. srSent'[c] <= srCard'[c].attempts + 1
    BY <1>4, <1>6, <2>3, <2>5
  <2>7. p \in {"inline", "job"} => srSent'[c] <= 1
    BY <1>6, <2>3, <2>4, <2>5
  <2>8. \A q \in SrProcs : srProc'[q].step = "record" => q = p
    BY <1>3, <2>2
  <2>9. \A q \in SrProcs : srProc'[q].step # "send"
    BY <1>3, <2>2
  <2>10. /\ \A d \in SrCards : d # c => srSent'[d] <= srCard'[d].attempts
         /\ \A d \in SrCards : d # c => ~ (srCard'[d].stage = "opportunity" /\ srSent'[d] > 0)
    BY <1>4, <1>6, <2>3
  <2>11. srCard'[c].stage = "opportunity" => p \in {"inline", "job"}
    BY <1>2, <1>4 DEF SrInv, SrFlowInv, SrProcs
  <2> QED BY <1>2, <1>3, <1>5, <2>3, <2>6, <2>7, <2>8, <2>9, <2>10, <2>11 DEF SrCalmInv, SrProcs
<1> QED BY <1>7, <1>8, <1>9, <1>10, <1>11, <1>12, <1>13, <1>14 DEF SrInv

LEMMA SrIsNotSentKeeps ==
  ASSUME SrInv, NEW p \in SrProcs, SrIsNotSent(p)
  PROVE  SrInv'
<1>1. SrTypeInv BY DEF SrInv
<1>2. /\ p = "dog"
      /\ srProc["dog"].step = "send"
  BY DEF SrIsNotSent
<1>3. /\ srProc' \in [SrProcs -> SrProcType]
      /\ srProc'["dog"].step = "record"
      /\ srProc'["dog"].card = srProc["dog"].card
      /\ srProc'["dog"].to = srProc["dog"].to
      /\ srProc'["dog"].attempts = srProc["dog"].attempts
      /\ srProc'["dog"].fresh = srProc["dog"].fresh
      /\ \A q \in SrProcs : q # "dog" => srProc'[q] = srProc[q]
  BY <1>1, <1>2, SrTypes DEF SrIsNotSent, SrProcType, SrSteps
<1>4. srCard' = srCard /\ srGivenUp' = srGivenUp /\ srEvent' = srEvent /\ srHook' = srHook /\ srJobs' = srJobs /\ srScan' = srScan /\ srRaced' = srRaced /\ srFaults' = srFaults /\ srPaid' = srPaid /\ srRecent' = srRecent /\ srTwice' = srTwice /\ srSent' = srSent
  BY DEF SrIsNotSent
<1>5. srProc["dog"].card \in SrCards
  BY <1>2, SrSender
<1>6. SrTypeInv'
  BY <1>1, <1>2, <1>3, <1>4, <1>5, SrTypes, SrTypesNext
<1>7. SrHookInv'
  BY <1>2, <1>3, <1>4 DEF SrInv, SrHookInv, SrProcs
<1>8. SrFlowInv'
  BY <1>2, <1>3, <1>4 DEF SrInv, SrFlowInv, SrBusy, SrProcs
<1>9. SrCardInv'
  BY <1>1, <1>2, <1>3, <1>4, <1>5, SrTypes DEF SrInv, SrCardInv
<1>10. SrEventInv'
  BY <1>1, <1>2, <1>3, <1>4, <1>5 DEF SrInv, SrEventInv, SrAlready, SrSale, SrProcessedOnce
<1>11. SrPursuedInv'
  BY <1>2, <1>3, <1>4 DEF SrInv, SrPursuedInv, SrProcs
<1>12. SrAloneInv'
  <2>1. SrPaidStaysClosed' <=> SrPaidStaysClosed
    BY <1>4 DEF SrPaidStaysClosed
  <2>2. SrByContact' = SrByContact
    BY <1>4 DEF SrByContact
  <2> QED BY <1>2, <1>3, <1>4, <2>1, <2>2 DEF SrInv, SrAloneInv, SrBusy, SrProcs
<1>13. SrCalmInv'
  <2> SUFFICES ASSUME SrCalm PROVE SrCalmInv'
    BY <1>4 DEF SrCalmInv, SrCalm
  <2>1. SrBusy("dog")
    BY <1>2 DEF SrBusy
  <2>2. \A q \in SrProcs : q # "dog" => srProc[q].step \in {"idle", "wait"}
    BY <1>2, <2>1 DEF SrInv, SrAloneInv, SrBusy, SrCalm, SrProcs
  <2>3. /\ ~srTwice
        /\ ~srRecent
        /\ \A d \in SrCards : srSent[d] <= srCard[d].attempts
        /\ \A d \in SrCards : ~ (srCard[d].stage = "opportunity" /\ srSent[d] > 0)
    BY <1>2, <2>2 DEF SrInv, SrCalmInv, SrProcs
  <2>4. \A q \in SrProcs : srProc'[q].step # "send"
    BY <1>3, <2>2
  <2>5. srSent[srProc["dog"].card] <= srCard[srProc["dog"].card].attempts + 1
    BY <1>1, <1>5, <2>3, SrTypes DEF SrCardType
  <2> QED BY <1>3, <1>4, <2>2, <2>3, <2>4, <2>5 DEF SrCalmInv, SrProcs
<1> QED BY <1>6, <1>7, <1>8, <1>9, <1>10, <1>11, <1>12, <1>13 DEF SrInv

LEMMA SrHasNoTemplateKeeps ==
  ASSUME SrInv, NEW p \in SrProcs, NEW c \in SrCards, SrHasNoTemplate(p, c)
  PROVE  SrInv'
<1>1. SrTypeInv BY DEF SrInv
<1>2. /\ p \in {"inline", "job"}
      /\ srProc[p].step = "send"
      /\ srProc[p].card = c
      /\ srCard[c].contact
      /\ srCard[c].stage # "none"
  BY SrSender DEF SrHasNoTemplate, SrProcs
<1>3. /\ srCard' \in [SrCards -> SrCardType]
      /\ \A d \in SrCards : srCard'[d].stage = srCard[d].stage
      /\ \A d \in SrCards : srCard'[d].contact = srCard[d].contact
      /\ \A d \in SrCards : srCard'[d].checkout = srCard[d].checkout
      /\ \A d \in SrCards : srCard'[d].attempts = srCard[d].attempts
      /\ \A d \in SrCards : srCard'[d].fresh = srCard[d].fresh
  <2>1. srCard' = [srCard EXCEPT ![c] = [srCard[c] EXCEPT !.conv = TRUE, !.stuck = FALSE]]
    BY <1>1, SrTypes DEF SrHasNoTemplate
  <2>2. srCard[c] \in SrCardType
    BY <1>1, SrTypes
  <2> DEFINE new == [srCard[c] EXCEPT !.conv = TRUE, !.stuck = FALSE]
  <2>3. /\ new \in SrCardType /\ new.stage = srCard[c].stage /\ new.contact = srCard[c].contact
        /\ new.checkout = srCard[c].checkout /\ new.attempts = srCard[c].attempts
        /\ new.fresh = srCard[c].fresh
    BY <2>2 DEF SrCardType
  <2> HIDE DEF new
  <2>4. srCard' \in [SrCards -> SrCardType] /\ srCard'[c] = new
        /\ \A d \in SrCards : d # c => srCard'[d] = srCard[d]
    BY <1>1, <2>1, <2>3, SrTypes DEF new
  <2> QED BY <2>3, <2>4
<1>4. /\ srProc' \in [SrProcs -> SrProcType]
      /\ srProc'[p].step = "idle"
      /\ \A q \in SrProcs : q # p => srProc'[q] = srProc[q]
  BY <1>1, SrTypes, SrIdleType DEF SrHasNoTemplate
<1>5. srGivenUp' = srGivenUp \union {c} /\ srEvent' = srEvent /\ srHook' = srHook /\ srJobs' = srJobs /\ srScan' = srScan /\ srRaced' = srRaced /\ srFaults' = srFaults /\ srPaid' = srPaid
      /\ srSent' = srSent /\ srTwice' = srTwice /\ srRecent' = srRecent
  BY DEF SrHasNoTemplate
<1>6. SrTypeInv'
  BY <1>1, <1>2, <1>3, <1>4, <1>5, SrTypes, SrTypesNext
<1>7. SrHookInv'
  BY <1>2, <1>3, <1>4, <1>5 DEF SrInv, SrHookInv, SrProcs
<1>8. SrFlowInv'
  BY <1>2, <1>3, <1>4, <1>5 DEF SrInv, SrFlowInv, SrBusy, SrProcs
<1>9. SrCardInv'
  BY <1>1, <1>2, <1>3, <1>4, <1>5, SrTypes DEF SrInv, SrCardInv
<1>10. SrEventInv'
  BY <1>1, <1>2, <1>3, <1>4, <1>5 DEF SrInv, SrEventInv, SrAlready, SrSale, SrProcessedOnce
<1>11. SrPursuedInv'
  BY <1>2, <1>3, <1>4, <1>5 DEF SrInv, SrPursuedInv, SrProcs
<1>12. SrAloneInv'
  <2> SUFFICES ASSUME ~srRaced PROVE SrAloneInv'
    BY <1>5 DEF SrAloneInv
  <2>1. SrPaidStaysClosed'
    BY <1>1, <1>3, <1>5, SrTypes DEF SrPaidStaysClosed, SrInv, SrAloneInv
  <2>2. SrByContact' = SrByContact
    BY <1>3 DEF SrByContact, SrOpen
  <2>3. SrBusy(p)
    BY <1>2 DEF SrBusy
  <2>4. \A q \in SrProcs : srProc'[q].step \in {"idle", "wait"}
    BY <1>4, <2>3 DEF SrInv, SrAloneInv, SrBusy
  <2>5. \A d, e \in SrByContact : d = e
    BY DEF SrInv, SrAloneInv
  <2> QED BY <1>5, <2>1, <2>2, <2>4, <2>5 DEF SrAloneInv, SrBusy, SrProcs
<1>13. SrCalmInv'
  <2> SUFFICES ASSUME SrCalm PROVE SrCalmInv'
    BY <1>5 DEF SrCalmInv, SrCalm
  <2>1. SrBusy(p)
    BY <1>2 DEF SrBusy
  <2>2. \A q \in SrProcs : q # p => srProc[q].step \in {"idle", "wait"}
    BY <2>1 DEF SrInv, SrAloneInv, SrBusy, SrCalm
  <2>3. /\ ~srTwice
        /\ ~srRecent
        /\ \A d \in SrCards : srSent[d] <= srCard[d].attempts
        /\ \A d \in SrCards : ~ (srCard[d].stage = "opportunity" /\ srSent[d] > 0)
    BY <1>2, <2>2 DEF SrInv, SrCalmInv, SrProcs
  <2>4. \A q \in SrProcs : srProc'[q].step \notin {"send", "record"}
    BY <1>4, <2>2
  <2> QED BY <1>3, <1>5, <2>3, <2>4 DEF SrCalmInv, SrProcs
<1> QED BY <1>6, <1>7, <1>8, <1>9, <1>10, <1>11, <1>12, <1>13 DEF SrInv

LEMMA SrSendKeeps ==
  ASSUME SrInv, NEW p \in SrProcs, SrSend(p)
  PROVE  SrInv'
<1>1. srProc[p].card \in SrCards
  BY SrSender DEF SrSend
<1> QED BY <1>1, SrIsSentKeeps, SrHasNoTemplateKeeps, SrIsNotSentKeeps
        DEF SrSend, SrIsSent, SrHasNoTemplate, SrIsNotSent

LEMMA SrRecordKeeps ==
  ASSUME SrInv, NEW p \in SrProcs, NEW c \in SrCards, c = srProc[p].card, SrRecord(p)
  PROVE  SrInv'
<1>1. SrTypeInv BY DEF SrInv
<1>2. /\ p # "hook"
      /\ srProc[p].step = "record"
      /\ srCard[c].contact
      /\ srCard[c].stage # "none"
  BY SrSender DEF SrRecord
<1>3. /\ srCard' \in [SrCards -> SrCardType]
      /\ \A d \in SrCards : srCard'[d].stage = srCard[d].stage
      /\ \A d \in SrCards : srCard'[d].contact = srCard[d].contact
      /\ \A d \in SrCards : srCard'[d].checkout = srCard[d].checkout
      /\ \A d \in SrCards : d # c => srCard'[d].attempts = srCard[d].attempts
      /\ \A d \in SrCards : d # c => srCard'[d].fresh = srCard[d].fresh
      /\ srCard'[c].fresh = TRUE
      /\ p # "dog" => srCard'[c].attempts = 1
      /\ p = "dog" => srCard'[c].attempts > srProc[p].attempts
  <2> DEFINE n == IF p = "dog" THEN (IF srProc[p].attempts = 0 THEN 2 ELSE srProc[p].attempts + 1) ELSE 1
             v == srCard[c].conv \/ p # "dog"
             new == [srCard[c] EXCEPT !.attempts = n, !.fresh = TRUE, !.stuck = FALSE, !.conv = v]
  <2>1. srProc[p].attempts \in 0..SrMaxAttempts
    BY <1>1, SrTypes DEF SrProcType
  <2>2. p = "dog" => srProc[p].attempts < SrMaxAttempts /\ SrMaxAttempts > 1
    BY <1>2 DEF SrInv, SrFlowInv
  <2>3. n \in 0..SrMaxAttempts /\ (p # "dog" => n = 1) /\ (p = "dog" => n > srProc[p].attempts)
    BY <2>1, <2>2, SrAssumption
  <2>4. v \in BOOLEAN
    OBVIOUS
  <2>5. srCard[c] \in SrCardType
    BY <1>1, SrTypes
  <2> HIDE DEF n, v
  <2>6. /\ new \in SrCardType /\ new.stage = srCard[c].stage /\ new.contact = srCard[c].contact
        /\ new.checkout = srCard[c].checkout /\ new.attempts = n /\ new.fresh = TRUE
    BY <2>3, <2>4, <2>5 DEF SrCardType
  <2>7. srCard' = [srCard EXCEPT ![c] = new]
    BY <1>1, SrTypes DEF SrRecord, n, v
  <2> HIDE DEF new
  <2>8. srCard' \in [SrCards -> SrCardType] /\ srCard'[c] = new
        /\ \A d \in SrCards : d # c => srCard'[d] = srCard[d]
    BY <1>1, <2>6, <2>7, SrTypes
  <2> QED BY <2>3, <2>6, <2>8
<1>4. /\ srProc' \in [SrProcs -> SrProcType]
      /\ srProc'[p].step = "move"
      /\ srProc'[p].card = srProc[p].card
      /\ srProc'[p].to = srProc[p].to
      /\ srProc'[p].attempts = srProc[p].attempts
      /\ srProc'[p].fresh = srProc[p].fresh
      /\ \A q \in SrProcs : q # p => srProc'[q] = srProc[q]
  BY <1>1, SrTypes DEF SrRecord, SrProcType, SrSteps
<1>5. srEvent' = srEvent /\ srHook' = srHook /\ srJobs' = srJobs /\ srScan' = srScan /\ srRaced' = srRaced /\ srFaults' = srFaults
      /\ srRecent' = srRecent /\ srSent' = srSent /\ srPaid' = srPaid /\ srTwice' = srTwice /\ srGivenUp' = srGivenUp
  BY DEF SrRecord, SrHistory
<1>6. SrTypeInv'
  BY <1>1, <1>2, <1>3, <1>4, <1>5, SrTypes, SrTypesNext
<1>7. SrHookInv'
  BY <1>2, <1>3, <1>4, <1>5 DEF SrInv, SrHookInv, SrProcs
<1>8. SrFlowInv'
  BY <1>2, <1>3, <1>4, <1>5 DEF SrInv, SrFlowInv, SrBusy, SrProcs
<1>9. SrCardInv'
  BY <1>1, <1>2, <1>3, <1>4, <1>5, SrTypes DEF SrInv, SrCardInv
<1>10. SrEventInv'
  BY <1>1, <1>2, <1>3, <1>4, <1>5 DEF SrInv, SrEventInv, SrAlready, SrSale, SrProcessedOnce
<1>11. SrPursuedInv'
  BY <1>2, <1>3, <1>4, <1>5 DEF SrInv, SrPursuedInv, SrProcs
<1>12. SrAloneInv'
  <2> SUFFICES ASSUME ~srRaced PROVE SrAloneInv'
    BY <1>5 DEF SrAloneInv
  <2>1. SrPaidStaysClosed'
    BY <1>1, <1>3, <1>5, SrTypes DEF SrPaidStaysClosed, SrInv, SrAloneInv
  <2>2. SrByContact' = SrByContact
    BY <1>3 DEF SrByContact, SrOpen
  <2>3. SrBusy(p)
    BY <1>2 DEF SrBusy
  <2>4. \A q \in SrProcs : q # p => srProc'[q].step \in {"idle", "wait"}
    BY <1>4, <2>3 DEF SrInv, SrAloneInv, SrBusy
  <2>5. \A d, e \in SrByContact : d = e
    BY DEF SrInv, SrAloneInv
  <2>6. /\ p \in {"inline", "job"} => srCard[c].stage = "opportunity"
        /\ p = "dog" => SrOpen(srCard[c])
    BY <2>3 DEF SrInv, SrAloneInv
  <2>7. p = "dog" => SrOpen(srCard'[c])
    BY <1>3, <2>6 DEF SrOpen
  <2> QED BY <1>2, <1>3, <1>4, <1>5, <2>1, <2>2, <2>4, <2>5, <2>6, <2>7 DEF SrAloneInv, SrBusy, SrProcs
<1>13. SrCalmInv'
  <2> SUFFICES ASSUME SrCalm PROVE SrCalmInv'
    BY <1>5 DEF SrCalmInv, SrCalm
  <2>1. SrBusy(p)
    BY <1>2 DEF SrBusy
  <2>2. \A q \in SrProcs : q # p => srProc[q].step \in {"idle", "wait"}
    BY <2>1 DEF SrInv, SrAloneInv, SrBusy, SrCalm
  <2>3. srProc[p].attempts = srCard[c].attempts
    BY <1>2 DEF SrInv, SrAloneInv, SrCalm
  <2>4. /\ ~srTwice
        /\ \A d \in SrCards : d # c => srSent[d] <= srCard[d].attempts
        /\ \A d \in SrCards : d # c => ~ (srCard[d].stage = "opportunity" /\ srSent[d] > 0)
    BY <1>2, <2>2 DEF SrInv, SrCalmInv, SrProcs
  <2>5. /\ p = "dog" => srSent[c] <= srCard[c].attempts + 1
        /\ p # "dog" => srSent[c] <= 1
    BY <1>2 DEF SrInv, SrCalmInv, SrProcs
  <2>6. /\ srSent[c] \in Nat /\ srCard[c].attempts \in Nat /\ srCard'[c].attempts \in Nat
    BY <1>1, <1>3, SrTypes DEF SrCardType
  <2>7. srSent[c] <= srCard'[c].attempts
    BY <1>3, <2>3, <2>5, <2>6
  <2>8. SrCoolingDown'
    BY <1>2, <1>3 DEF SrCoolingDown
  <2>9. \A q \in SrProcs : srProc'[q].step \notin {"send", "record"}
    BY <1>4, <2>2
  <2>10. \A d \in SrCards : srSent'[d] <= srCard'[d].attempts
    BY <1>3, <1>5, <2>4, <2>7
  <2>11. srCard'[c].stage = "opportunity" => p \in {"inline", "job"}
    BY <1>2, <1>3 DEF SrInv, SrFlowInv, SrProcs
  <2> QED BY <1>3, <1>4, <1>5, <2>4, <2>8, <2>9, <2>10, <2>11 DEF SrCalmInv, SrProcs
<1> QED BY <1>6, <1>7, <1>8, <1>9, <1>10, <1>11, <1>12, <1>13 DEF SrInv

\* Who moves a card knows it and where it goes.
LEMMA SrMover ==
  ASSUME SrInv, NEW p \in SrProcs, srProc[p].step = "move"
  PROVE  /\ srProc[p].card \in SrCards /\ srCard[srProc[p].card].stage # "none"
         /\ p = "hook" => srProc[p].to \in {"won", "refunded"}
         /\ p \in {"inline", "job"} => srProc[p].to = "contact_attempt"
         /\ p = "dog" => srProc[p].to \in {"lost", "follow_up"}
<1>1. CASE p = "hook"
  BY <1>1 DEF SrInv, SrHookInv
<1>2. CASE p \in {"inline", "job"}
  <2>1. srProc[p].card \in SrCards /\ srCard[srProc[p].card].contact /\ srProc[p].to = "contact_attempt"
    BY <1>2 DEF SrInv, SrFlowInv, SrBusy
  <2> QED BY <1>2, <2>1 DEF SrInv, SrCardInv
<1>3. CASE p = "dog"
  BY <1>3 DEF SrInv, SrFlowInv
<1> QED BY <1>1, <1>2, <1>3 DEF SrProcs

LEMMA SrMoveKeeps ==
  ASSUME SrInv, NEW p \in SrProcs, NEW c \in SrCards, c = srProc[p].card, NEW to, to = srProc[p].to, SrMove(p)
  PROVE  SrInv'
<1>1. SrTypeInv BY DEF SrInv
<1>2. /\ srProc[p].step = "move"
      /\ srCard[c].stage # "none"
      /\ p = "hook" => to \in {"won", "refunded"}
      /\ p \in {"inline", "job"} => to = "contact_attempt"
      /\ p = "dog" => to \in {"lost", "follow_up"}
  BY SrMover DEF SrMove
<1>3. to \in SrStages /\ to \notin {"none", "opportunity"} /\ (to = "won" => p = "hook")
  BY <1>2 DEF SrProcs, SrStages, SrLive
<1>4. /\ srCard' \in [SrCards -> SrCardType]
      /\ \A d \in SrCards : d # c => srCard'[d].stage = srCard[d].stage
      /\ \A d \in SrCards : srCard'[d].contact = srCard[d].contact
      /\ \A d \in SrCards : srCard'[d].checkout = srCard[d].checkout
      /\ \A d \in SrCards : srCard'[d].attempts = srCard[d].attempts
      /\ \A d \in SrCards : srCard'[d].fresh = srCard[d].fresh
      /\ srCard'[c].stage = to
  <2> DEFINE new == [srCard[c] EXCEPT !.stage = to, !.stuck = FALSE]
  <2>1. srCard[c] \in SrCardType
    BY <1>1, SrTypes
  <2>2. /\ new \in SrCardType /\ new.stage = to /\ new.contact = srCard[c].contact
        /\ new.checkout = srCard[c].checkout /\ new.attempts = srCard[c].attempts /\ new.fresh = srCard[c].fresh
    BY <1>3, <2>1 DEF SrCardType
  <2>3. srCard' = [srCard EXCEPT ![c] = new]
    BY <1>1, SrTypes DEF SrMove
  <2> HIDE DEF new
  <2>4. srCard' \in [SrCards -> SrCardType] /\ srCard'[c] = new
        /\ \A d \in SrCards : d # c => srCard'[d] = srCard[d]
    BY <1>1, <2>2, <2>3, SrTypes
  <2> QED BY <2>2, <2>4
<1>5. /\ srProc' \in [SrProcs -> SrProcType]
      /\ srProc'[p].step \in {"idle", "wait"}
      /\ srProc'[p].step = "wait" <=> p = "hook"
      /\ \A q \in SrProcs : q # p => srProc'[q] = srProc[q]
  <2> DEFINE new == IF p = "hook" THEN [SrIdle EXCEPT !.step = "wait"] ELSE SrIdle
  <2>1. [SrIdle EXCEPT !.step = "wait"] \in SrProcType
    BY SrIdleType DEF SrProcType, SrSteps
  <2>2. [SrIdle EXCEPT !.step = "wait"].step = "wait"
    BY DEF SrIdle
  <2>3. new \in SrProcType /\ new.step \in {"idle", "wait"} /\ (new.step = "wait" <=> p = "hook")
    BY <2>1, <2>2, SrIdleType
  <2>4. srProc' = [srProc EXCEPT ![p] = new]
    BY DEF SrMove
  <2> HIDE DEF new
  <2> QED BY <1>1, <2>3, <2>4, SrTypes
<1>6. /\ srPaid \subseteq srPaid'
      /\ srPaid' \subseteq srPaid \union {c}
      /\ c \in srPaid' => c \in srPaid \/ to = "won"
  BY DEF SrMove
<1>7. srEvent' = srEvent /\ srHook' = srHook /\ srJobs' = srJobs /\ srScan' = srScan /\ srRaced' = srRaced /\ srFaults' = srFaults
      /\ srRecent' = srRecent /\ srSent' = srSent /\ srTwice' = srTwice /\ srGivenUp' = srGivenUp
  BY DEF SrMove
<1>8. SrTypeInv'
  BY <1>1, <1>2, <1>3, <1>4, <1>5, <1>6, <1>7, SrTypes, SrTypesNext
<1>9. SrHookInv'
  BY <1>2, <1>3, <1>4, <1>5, <1>7 DEF SrInv, SrHookInv, SrProcs
<1>10. SrFlowInv'
  <2>1. \A d \in SrCards : srCard[d].stage \notin {"none", "opportunity"} => srCard'[d].stage \notin {"none", "opportunity"}
    BY <1>3, <1>4
  <2>2. p = "hook" => srProc["inline"].step = "idle"
    BY <1>2 DEF SrInv, SrFlowInv
  <2> QED BY <1>2, <1>4, <1>5, <1>7, <2>1, <2>2 DEF SrInv, SrFlowInv, SrBusy, SrProcs
<1>11. SrCardInv'
  BY <1>1, <1>2, <1>3, <1>4, <1>7, SrTypes DEF SrInv, SrCardInv
<1>12. SrEventInv'
  BY <1>1, <1>2, <1>3, <1>4, <1>5, <1>6, <1>7 DEF SrInv, SrEventInv, SrAlready, SrSale, SrProcessedOnce
<1>13. SrPursuedInv'
  BY <1>2, <1>3, <1>4, <1>5, <1>7 DEF SrInv, SrPursuedInv, SrProcs
<1>14. SrAloneInv'
  <2> SUFFICES ASSUME ~srRaced PROVE SrAloneInv'
    BY <1>7 DEF SrAloneInv
  <2>3. SrBusy(p)
    BY <1>2 DEF SrBusy
  <2>4. \A q \in SrProcs : srProc'[q].step \in {"idle", "wait"}
    BY <1>5, <2>3 DEF SrInv, SrAloneInv, SrBusy
  <2>5. \A d, e \in SrByContact : d = e
    BY DEF SrInv, SrAloneInv
  <2>6. p # "hook" => SrOpen(srCard[c])
    BY <2>3 DEF SrInv, SrAloneInv, SrOpen, SrProcs
  <2>1. SrPaidStaysClosed'
    <3>1. \A d \in srPaid : srCard[d].stage \in {"won", "refunded"}
      BY DEF SrInv, SrAloneInv, SrPaidStaysClosed
    <3>2. p # "hook" => c \notin srPaid
      BY <2>6, <3>1 DEF SrOpen, SrLive
    <3> QED BY <1>1, <1>2, <1>3, <1>4, <1>6, <3>1, <3>2, SrTypes DEF SrPaidStaysClosed
  <2>2. SrByContact' \subseteq SrByContact
    <3>1. SrOpen(srCard'[c]) => p # "hook"
      BY <1>2, <1>4 DEF SrOpen, SrLive
    <3> QED BY <1>4, <2>6, <3>1 DEF SrByContact, SrOpen
  <2> QED BY <1>7, <2>1, <2>2, <2>4, <2>5 DEF SrAloneInv, SrBusy, SrProcs
<1>15. SrCalmInv'
  <2> SUFFICES ASSUME SrCalm PROVE SrCalmInv'
    BY <1>7 DEF SrCalmInv, SrCalm
  <2>1. SrBusy(p)
    BY <1>2 DEF SrBusy
  <2>2. \A q \in SrProcs : q # p => srProc[q].step \in {"idle", "wait"}
    BY <2>1 DEF SrInv, SrAloneInv, SrBusy, SrCalm
  <2>3. SrCoolingDown' <=> SrCoolingDown
    BY <1>4 DEF SrCoolingDown
  <2>4. /\ ~srTwice
        /\ srRecent => SrCoolingDown
        /\ \A d \in SrCards : srSent[d] <= srCard[d].attempts
        /\ \A d \in SrCards : d # c => ~ (srCard[d].stage = "opportunity" /\ srSent[d] > 0)
    BY <1>2, <2>2 DEF SrInv, SrCalmInv, SrProcs
  <2>5. \A q \in SrProcs : srProc'[q].step \notin {"send", "record"}
    BY <1>5, <2>2
  <2>6. \A d \in SrCards : srSent'[d] <= srCard'[d].attempts
    BY <1>4, <1>7, <2>4
  <2>7. \A d \in SrCards : ~ (srCard'[d].stage = "opportunity" /\ srSent'[d] > 0)
    BY <1>3, <1>4, <1>7, <2>4
  <2> QED BY <1>7, <2>3, <2>4, <2>5, <2>6, <2>7 DEF SrCalmInv, SrProcs
<1> QED BY <1>8, <1>9, <1>10, <1>11, <1>12, <1>13, <1>14, <1>15 DEF SrInv

LEMMA SrFailKeeps ==
  ASSUME SrInv, NEW p \in SrProcs, SrFail(p)
  PROVE  SrInv'
<1>1. SrTypeInv BY DEF SrInv
<1>2. srProc[p].step \notin {"idle", "wait"} /\ (p = "hook" => srHook \in SrEvents)
  BY <1>1, SrTypes DEF SrFail, SrInv, SrHookInv
<1>3. /\ srProc' \in [SrProcs -> SrProcType]
      /\ srProc'[p].step \in {"idle", "move"}
      /\ srProc'[p].step = "move" => /\ p = "dog" /\ srProc'[p].card = srProc[p].card
                                   /\ srProc'[p].to = srProc[p].to
      /\ \A q \in SrProcs : q # p => srProc'[q] = srProc[q]
  <2> DEFINE new == IF p = "dog" /\ srProc[p].step \in {"send", "record"}
                    THEN [srProc[p] EXCEPT !.step = "move"] ELSE SrIdle
  <2>1. srProc[p] \in SrProcType
    BY <1>1, SrTypes
  <2>2. /\ [srProc[p] EXCEPT !.step = "move"] \in SrProcType
        /\ [srProc[p] EXCEPT !.step = "move"].step = "move"
        /\ [srProc[p] EXCEPT !.step = "move"].card = srProc[p].card
        /\ [srProc[p] EXCEPT !.step = "move"].to = srProc[p].to
    BY <2>1 DEF SrProcType, SrSteps
  <2>3. /\ new \in SrProcType /\ new.step \in {"idle", "move"}
        /\ new.step = "move" => p = "dog" /\ new.card = srProc[p].card /\ new.to = srProc[p].to
    BY <2>2, SrIdleType
  <2>4. srProc' = [srProc EXCEPT ![p] = new]
    BY <1>1, SrTypes DEF SrFail
  <2> HIDE DEF new
  <2> QED BY <1>1, <2>3, <2>4, SrTypes
<1>4. /\ srJobs' = srJobs \/ (p = "job" /\ srJobs' = srJobs \union {srProc[p].card})
      /\ p = "job" => srProc[p].card \in SrCards /\ srCard[srProc[p].card].contact
  BY <1>2 DEF SrFail, SrInv, SrFlowInv
<1>5. /\ srFaults' \in 0..SrMaxFaults
      /\ srFaults' > 0
  BY <1>1, SrTypes, SrAssumption DEF SrFail
<1>6. srCard' = srCard /\ srScan' = srScan /\ srRaced' = srRaced
      /\ srRecent' = srRecent /\ srSent' = srSent /\ srPaid' = srPaid /\ srTwice' = srTwice /\ srGivenUp' = srGivenUp
  BY DEF SrFail, SrHistory
<1>7. /\ srEvent' \in [SrEvents -> SrEventType]
      /\ p # "hook" => srEvent' = srEvent /\ srHook' = srHook
      /\ p = "hook" => srHook' = SrNone /\ srEvent'[srHook].status = "FAILED"
      /\ \A e \in SrEvents : e # srHook => srEvent'[e] = srEvent[e]
      /\ \A e \in SrEvents : srEvent'[e].checkout = srEvent[e].checkout
  <2>1. CASE p = "hook"
    BY <1>1, <1>2, <2>1, SrTypes DEF SrFail, SrMark, SrEventType
  <2>2. CASE p # "hook"
    BY <1>1, <2>2, SrTypes DEF SrFail
  <2> QED BY <2>1, <2>2
<1>8. SrTypeInv'
  BY <1>1, <1>2, <1>3, <1>4, <1>5, <1>6, <1>7, SrTypes, SrTypesNext
<1>9. SrHookInv'
  BY <1>2, <1>3, <1>6, <1>7 DEF SrInv, SrHookInv, SrProcs
<1>10. SrFlowInv'
  <2>1. p = "hook" => srProc["inline"].step = "idle"
    BY <1>2 DEF SrInv, SrFlowInv
  <2> QED BY <1>2, <1>3, <1>6, <2>1 DEF SrInv, SrFlowInv, SrBusy, SrProcs
<1>11. SrCardInv'
  BY <1>1, <1>4, <1>6 DEF SrInv, SrCardInv
<1>12. SrEventInv'
  <2>1. SrProcessedOnce'
    BY <1>2, <1>7 DEF SrInv, SrEventInv, SrProcessedOnce, SrSale
  <2>2. CASE p = "hook"
    BY <1>2, <1>7, <2>1, <2>2, SrAssumption DEF SrInv, SrEventInv
  <2>3. CASE p # "hook"
    BY <1>7, <2>1, <2>3 DEF SrInv, SrEventInv, SrAlready, SrSale
  <2> QED BY <2>2, <2>3
<1>13. SrPursuedInv'
  BY <1>5 DEF SrPursuedInv
<1>14. SrAloneInv'
  <2> SUFFICES ASSUME ~srRaced PROVE SrAloneInv'
    BY <1>6 DEF SrAloneInv
  <2>1. SrPaidStaysClosed'
    BY <1>6 DEF SrPaidStaysClosed, SrInv, SrAloneInv
  <2>2. SrByContact' = SrByContact
    BY <1>6 DEF SrByContact
  <2>3. SrBusy(p)
    BY <1>2 DEF SrBusy
  <2>4. \A q \in SrProcs : q # p => srProc'[q].step \in {"idle", "wait"}
    BY <1>3, <2>3 DEF SrInv, SrAloneInv, SrBusy
  <2>5. \A d, e \in SrByContact : d = e
    BY DEF SrInv, SrAloneInv
  <2>6. p = "dog" => SrOpen(srCard[srProc[p].card])
    BY <2>3 DEF SrInv, SrAloneInv
  <2> QED BY <1>3, <1>6, <2>1, <2>2, <2>4, <2>5, <2>6 DEF SrAloneInv, SrBusy, SrProcs
<1>15. SrCalmInv'
  BY <1>5, <1>1, SrTypes DEF SrCalmInv, SrCalm
<1> QED BY <1>8, <1>9, <1>10, <1>11, <1>12, <1>13, <1>14, <1>15 DEF SrInv

LEMMA SrQuietKeeps ==
  ASSUME SrInv, NEW c \in SrCards, SrQuiet(c)
  PROVE  SrInv'
<1>1. SrTypeInv BY DEF SrInv
<1>2. /\ srCard' \in [SrCards -> SrCardType]
      /\ \A d \in SrCards : srCard'[d].stage = srCard[d].stage
      /\ \A d \in SrCards : srCard'[d].contact = srCard[d].contact
      /\ \A d \in SrCards : srCard'[d].checkout = srCard[d].checkout
      /\ \A d \in SrCards : srCard'[d].attempts = srCard[d].attempts
      /\ \A d \in SrCards : srCard'[d].fresh = srCard[d].fresh
  BY <1>1, SrTypes, ZenonT(60) DEF SrQuiet, SrCardType
<1>3. srEvent' = srEvent /\ srHook' = srHook /\ srJobs' = srJobs /\ srScan' = srScan /\ srProc' = srProc /\ srRaced' = srRaced /\ srFaults' = srFaults
      /\ srRecent' = srRecent /\ srSent' = srSent /\ srPaid' = srPaid /\ srTwice' = srTwice /\ srGivenUp' = srGivenUp
  BY DEF SrQuiet, SrHistory
<1>4. \A q \in SrProcs : srProc[q].step \in {"idle", "wait"}
  BY DEF SrQuiet, SrBusyBut, SrProcs
<1>5. SrTypeInv'
  BY <1>1, <1>2, <1>3, <1>4, SrTypes, SrTypesNext
<1>6. SrHookInv'
  BY <1>1, <1>2, <1>3, <1>4 DEF SrInv, SrHookInv
<1>7. SrFlowInv'
  BY <1>1, <1>2, <1>3, <1>4 DEF SrInv, SrFlowInv, SrBusy
<1>8. SrCardInv'
  BY <1>1, <1>2, <1>3, <1>4, SrTypes DEF SrInv, SrCardInv
<1>9. SrEventInv'
  BY <1>1, <1>2, <1>3, <1>4 DEF SrInv, SrEventInv, SrAlready, SrSale, SrProcessedOnce
<1>10. SrPursuedInv'
  BY <1>1, <1>2, <1>3, <1>4 DEF SrInv, SrPursuedInv
<1>11. SrAloneInv'
  <2>1. SrPaidStaysClosed' <=> SrPaidStaysClosed
    BY <1>1, <1>2, <1>3, SrTypes DEF SrPaidStaysClosed
  <2>2. SrByContact' = SrByContact
    BY <1>2 DEF SrByContact, SrOpen
  <2> QED BY <1>3, <1>4, <2>1, <2>2 DEF SrInv, SrAloneInv, SrBusy, SrProcs
<1>12. SrCalmInv'
  <2>1. SrCoolingDown' <=> SrCoolingDown
    BY <1>2 DEF SrCoolingDown
  <2> QED BY <1>2, <1>3, <1>4, <2>1 DEF SrInv, SrCalmInv, SrCalm, SrProcs
<1> QED BY <1>5, <1>6, <1>7, <1>8, <1>9, <1>10, <1>11, <1>12 DEF SrInv

LEMMA SrCoolKeeps ==
  ASSUME SrInv, SrCool
  PROVE  SrInv'
<1>1. SrTypeInv BY DEF SrInv
<1>2. /\ srCard' \in [SrCards -> SrCardType]
      /\ \A d \in SrCards : srCard'[d].stage = srCard[d].stage
      /\ \A d \in SrCards : srCard'[d].contact = srCard[d].contact
      /\ \A d \in SrCards : srCard'[d].checkout = srCard[d].checkout
      /\ \A d \in SrCards : srCard'[d].attempts = srCard[d].attempts
      /\ \A d \in SrCards : srCard'[d].fresh = FALSE
  <2>1. srCard' = [d \in SrCards |-> [srCard[d] EXCEPT !.fresh = FALSE]]
    BY DEF SrCool
  <2>2. ASSUME NEW d \in SrCards
        PROVE  /\ srCard'[d] \in SrCardType /\ srCard'[d].stage = srCard[d].stage
               /\ srCard'[d].contact = srCard[d].contact /\ srCard'[d].checkout = srCard[d].checkout
               /\ srCard'[d].attempts = srCard[d].attempts /\ srCard'[d].fresh = FALSE
    <3>1. srCard[d] \in SrCardType
      BY <1>1, SrTypes
    <3>2. srCard'[d] = [srCard[d] EXCEPT !.fresh = FALSE]
      BY <2>1
    <3> QED BY <3>1, <3>2 DEF SrCardType
  <2> QED BY <2>1, <2>2
<1>3. srEvent' = srEvent /\ srHook' = srHook /\ srJobs' = srJobs /\ srScan' = srScan /\ srProc' = srProc /\ srRaced' = srRaced /\ srFaults' = srFaults
      /\ srSent' = srSent /\ srPaid' = srPaid /\ srTwice' = srTwice /\ srGivenUp' = srGivenUp /\ srRecent' = FALSE
  BY DEF SrCool
<1>4. \A q \in SrProcs : srProc[q].step \in {"idle", "wait"}
  BY DEF SrCool, SrBusyBut, SrProcs
<1>5. SrTypeInv'
  BY <1>1, <1>2, <1>3, <1>4, SrTypes, SrTypesNext
<1>6. SrHookInv'
  BY <1>1, <1>2, <1>3, <1>4 DEF SrInv, SrHookInv
<1>7. SrFlowInv'
  BY <1>1, <1>2, <1>3, <1>4 DEF SrInv, SrFlowInv, SrBusy
<1>8. SrCardInv'
  BY <1>1, <1>2, <1>3, <1>4, SrTypes DEF SrInv, SrCardInv
<1>9. SrEventInv'
  BY <1>1, <1>2, <1>3, <1>4 DEF SrInv, SrEventInv, SrAlready, SrSale, SrProcessedOnce
<1>10. SrPursuedInv'
  BY <1>1, <1>2, <1>3, <1>4 DEF SrInv, SrPursuedInv
<1>11. SrAloneInv'
  <2>1. SrPaidStaysClosed' <=> SrPaidStaysClosed
    BY <1>1, <1>2, <1>3, SrTypes DEF SrPaidStaysClosed
  <2>2. SrByContact' = SrByContact
    BY <1>2 DEF SrByContact, SrOpen
  <2> QED BY <1>3, <1>4, <2>1, <2>2 DEF SrInv, SrAloneInv, SrBusy, SrProcs
<1>12. SrCalmInv'
  BY <1>2, <1>3, <1>4 DEF SrInv, SrCalmInv, SrCalm, SrProcs
<1> QED BY <1>5, <1>6, <1>7, <1>8, <1>9, <1>10, <1>11, <1>12 DEF SrInv

LEMMA SrStutters ==
  ASSUME SrInv, UNCHANGED srVars
  PROVE  SrInv'
<1>1. SrTypeInv BY DEF SrInv
<1>2. srCard' = srCard /\ srEvent' = srEvent /\ srHook' = srHook /\ srJobs' = srJobs /\ srScan' = srScan /\ srProc' = srProc /\ srRaced' = srRaced /\ srFaults' = srFaults
      /\ srRecent' = srRecent /\ srSent' = srSent /\ srPaid' = srPaid /\ srTwice' = srTwice /\ srGivenUp' = srGivenUp
  BY DEF srVars
<1>3. SrTypeInv'
  BY <1>1, <1>2, SrTypes, SrTypesNext
<1>4. SrHookInv'
  BY <1>1, <1>2 DEF SrInv, SrHookInv
<1>5. SrFlowInv'
  BY <1>1, <1>2 DEF SrInv, SrFlowInv, SrBusy
<1>6. SrCardInv'
  BY <1>1, <1>2, SrTypes DEF SrInv, SrCardInv
<1>7. SrEventInv'
  BY <1>1, <1>2 DEF SrInv, SrEventInv, SrAlready, SrSale, SrProcessedOnce
<1>8. SrPursuedInv'
  BY <1>1, <1>2 DEF SrInv, SrPursuedInv
<1>9. SrAloneInv'
  <2>1. SrPaidStaysClosed' <=> SrPaidStaysClosed
    BY <1>2 DEF SrPaidStaysClosed
  <2>2. SrByContact' = SrByContact
    BY <1>2 DEF SrByContact
  <2> QED BY <1>2, <2>1, <2>2 DEF SrInv, SrAloneInv, SrBusy, SrOpen
<1>10. SrCalmInv'
  <2>1. SrCoolingDown' <=> SrCoolingDown
    BY <1>2 DEF SrCoolingDown
  <2> QED BY <1>2, <2>1 DEF SrInv, SrCalmInv, SrCalm
<1> QED BY <1>3, <1>4, <1>5, <1>6, <1>7, <1>8, <1>9, <1>10 DEF SrInv

LEMMA SrStarts == SrInit => SrInv
<1> SUFFICES ASSUME SrInit PROVE SrInv
  OBVIOUS
<1>1. /\ srCard \in [SrCards -> SrCardType] /\ srEvent \in [SrEvents -> SrEventType]
      /\ srProc \in [SrProcs -> SrProcType] /\ srSent \in [SrCards -> Nat]
  BY SrIdleType, SrAssumption DEF SrInit, SrCardType, SrEventType, SrStages, SrKinds
<1>2. /\ \A p \in SrProcs : srProc[p].step = "idle"
      /\ \A c \in SrCards : srCard[c].stage = "none"
      /\ \A e \in SrEvents : srEvent[e].status = "none"
      /\ \A c \in SrCards : srSent[c] = 0
  BY SrIdleType DEF SrInit
<1>f. /\ \A c \in SrCards : srCard[c].contact = FALSE /\ srCard[c].fresh = FALSE
      /\ \A c \in SrCards : srCard[c].attempts = 0 /\ srCard[c].checkout = SrNone
  BY DEF SrInit
<1>3. /\ srHook = SrNone /\ srJobs = {} /\ srScan = {} /\ srPaid = {} /\ srGivenUp = {}
      /\ srRecent = FALSE /\ srTwice = FALSE /\ srRaced = FALSE /\ srFaults = 0
  BY DEF SrInit
<1>4. SrTypeInv
  <2>1. /\ srJobs \subseteq SrCards /\ srScan \subseteq SrCards /\ srPaid \subseteq SrCards
        /\ srGivenUp \subseteq SrCards
    BY <1>3
  <2>2. srFaults \in 0..SrMaxFaults
    BY <1>3, SrAssumption
  <2>3. srHook \in SrEvents \union {SrNone}
    BY <1>3
  <2>4. srRecent \in BOOLEAN /\ srTwice \in BOOLEAN /\ srRaced \in BOOLEAN
    BY <1>3
  <2> QED BY <1>1, <2>1, <2>2, <2>3, <2>4, SrTypes
<1>5. SrHookInv
  BY <1>2, <1>3 DEF SrHookInv, SrProcs
<1>6. SrFlowInv
  BY <1>2 DEF SrFlowInv, SrProcs, SrBusy
<1>7. SrCardInv
  BY <1>2, <1>f, <1>3 DEF SrCardInv
<1>8. SrEventInv
  BY <1>2, <1>3 DEF SrEventInv, SrProcessedOnce
<1>9. SrPursuedInv
  BY <1>2 DEF SrPursuedInv
<1>10. SrAloneInv
  <2>1. SrPaidStaysClosed
    BY <1>3 DEF SrPaidStaysClosed
  <2>2. SrByContact = {}
    BY <1>f DEF SrByContact
  <2> QED BY <1>2, <2>1, <2>2 DEF SrAloneInv, SrBusy, SrProcs
<1>11. SrCalmInv
  BY <1>2, <1>f, <1>3 DEF SrCalmInv, SrProcs
<1> QED BY <1>4, <1>5, <1>6, <1>7, <1>8, <1>9, <1>10, <1>11 DEF SrInv

LEMMA SrStep == SrInv /\ [SrNext]_srVars => SrInv'
<1> SUFFICES ASSUME SrInv, [SrNext]_srVars PROVE SrInv'
  OBVIOUS
<1>1. CASE UNCHANGED srVars
  BY <1>1, SrStutters
<1>2. ASSUME NEW e \in SrEvents, SrTake(e) PROVE SrInv'
  BY <1>2, SrTakeKeeps
<1>3. ASSUME NEW e \in SrEvents, NEW kind \in SrKinds \ {"none"}, NEW k \in SrCheckouts,
             NEW phone \in BOOLEAN, SrDeliver(e, kind, k, phone)
      PROVE  SrInv'
  BY <1>3, SrDeliverKeeps
<1>4. CASE SrMerge
  <2>1. srProc["hook"].card \in SrCards
    BY <1>4 DEF SrMerge, SrInv, SrHookInv
  <2> QED BY <1>4, <2>1, SrMergeKeeps
<1>5. CASE SrMeta
  <2>1. srProc["hook"].card \in SrCards
    BY <1>5 DEF SrMeta, SrInv, SrHookInv
  <2> QED BY <1>5, <2>1, SrMetaKeeps
<1>6. CASE SrFinish
  BY <1>6, SrFinishKeeps
<1>7. CASE SrScanStuck
  BY <1>7, SrScanStuckKeeps
<1>8. CASE SrCool
  BY <1>8, SrCoolKeeps
<1>9. ASSUME NEW c \in SrCards, SrCreate(c) PROVE SrInv'
  BY <1>9, SrCreateKeeps
<1>10. ASSUME NEW c \in SrCards, SrEscalate(c) PROVE SrInv'
  BY <1>10, SrEscalateKeeps
<1>11. ASSUME NEW c \in SrCards, SrReply(c) PROVE SrInv'
  <2>1. SrOutside(c, "in_contact")
    BY <1>11 DEF SrReply, SrOutside, SrOpen, SrLive
  <2> QED BY <2>1, SrOutsideKeeps DEF SrToolStages
<1>12. ASSUME NEW c \in SrCards, SrTool(c) PROVE SrInv'
  <2>1. PICK to \in SrToolStages : srCard' = [srCard EXCEPT ![c].stage = to, ![c].stuck = FALSE]
    BY <1>12 DEF SrTool
  <2>2. SrOutside(c, to)
    BY <1>12, <2>1 DEF SrTool, SrOutside
  <2> QED BY <2>2, SrOutsideKeeps
<1>13. ASSUME NEW c \in SrCards, SrQuiet(c) PROVE SrInv'
  BY <1>13, SrQuietKeeps
<1>14. ASSUME NEW c \in SrCards, SrDispatch("inline", c) \/ SrDispatch("job", c) PROVE SrInv'
  BY <1>14, SrDispatchKeeps
<1>15. ASSUME NEW p \in SrProcs, SrSend(p) PROVE SrInv'
  BY <1>15, SrSendKeeps
<1>16. ASSUME NEW p \in SrProcs, SrRecord(p) PROVE SrInv'
  <2>1. srProc[p].card \in SrCards
    BY <1>16, SrSender DEF SrRecord
  <2> QED BY <1>16, <2>1, SrRecordKeeps
<1>17. ASSUME NEW p \in SrProcs, SrMove(p) PROVE SrInv'
  <2>1. srProc[p].card \in SrCards
    BY <1>17, SrMover DEF SrMove
  <2> QED BY <1>17, <2>1, SrMoveKeeps
<1>18. ASSUME NEW p \in SrProcs, SrFail(p) PROVE SrInv'
  BY <1>18, SrFailKeeps
<1> QED BY <1>1, <1>2, <1>3, <1>4, <1>5, <1>6, <1>7, <1>8, <1>9, <1>10, <1>11, <1>12, <1>13, <1>14,
           <1>15, <1>16, <1>17, <1>18 DEF SrNext

\* What the inductive invariant says of a lead.
LEMMA SrInvSafe == SrInv => SrSafe
<1> SUFFICES ASSUME SrInv PROVE SrSafe
  OBVIOUS
<1>1. SrOneMessagePerCooldown
  BY DEF SrInv, SrCalmInv, SrOneMessagePerCooldown
<1>2. SrPaidStaysClosed
  BY DEF SrInv, SrAloneInv, SrPaidStaysClosed
<1>3. SrOneOpenCard
  <2> SUFFICES ASSUME SrCalm PROVE Cardinality(SrByContact) <= 1
    BY DEF SrOneOpenCard
  <2>1. \A c, d \in SrByContact : c = d
    BY DEF SrInv, SrAloneInv, SrCalm
  <2>2. CASE SrByContact = {}
    BY <2>2, FS_EmptySet
  <2>3. CASE SrByContact # {}
    <3>1. PICK c : SrByContact = {c}
      BY <2>1, <2>3
    <3>2. Cardinality({c}) = 1
      BY FS_Singleton
    <3> QED BY <3>1, <3>2
  <2> QED BY <2>2, <2>3
<1>4. SrAttemptsBounded
  <2> SUFFICES ASSUME SrCalm, NEW c \in SrCards PROVE srSent[c] <= SrMaxAttempts
    BY DEF SrAttemptsBounded
  <2>1. /\ srSent[c] \in Nat /\ srCard[c].attempts \in 0..SrMaxAttempts
    BY SrTypes DEF SrInv, SrCardType
  <2>2. CASE srSent[c] <= srCard[c].attempts
    BY <2>1, <2>2, SrAssumption
  <2>3. CASE \E p \in SrProcs : srProc[p].step = "record" /\ srProc[p].card = c
    <3>1. PICK p \in SrProcs : srProc[p].step = "record" /\ srProc[p].card = c
      BY <2>3
    <3>2. CASE p = "dog"
      <4>1. srProc["dog"].attempts < SrMaxAttempts /\ srProc["dog"].attempts = srCard[c].attempts
        BY <3>1, <3>2 DEF SrInv, SrFlowInv, SrAloneInv, SrCalm
      <4>2. srSent[c] <= srCard[c].attempts + 1
        BY <3>1, <3>2 DEF SrInv, SrCalmInv
      <4> QED BY <2>1, <4>1, <4>2, SrAssumption
    <3>3. CASE p \in {"inline", "job"}
      <4>1. srSent[c] <= 1
        BY <3>1, <3>3 DEF SrInv, SrCalmInv
      <4> QED BY <2>1, <4>1, SrAssumption
    <3>4. p # "hook"
      BY <3>1, SrSender
    <3> QED BY <3>2, <3>3, <3>4 DEF SrProcs
  <2> QED BY <2>2, <2>3 DEF SrInv, SrCalmInv
<1>5. SrOpenerIsPursued
  <2> SUFFICES ASSUME NEW c \in SrCards, srCard[c].stage = "opportunity", srCard[c].contact, ~(srFaults > 0)
               PROVE  c \in srJobs \union srGivenUp \/ \E p \in SrProcs : srProc[p].card = c
    BY DEF SrOpenerIsPursued
  <2>1. srFaults = 0
    BY SrTypes, SrAssumption DEF SrInv
  <2> QED BY <2>1 DEF SrInv, SrPursuedInv, SrProcs
<1>6. SrProcessedOnce
  BY DEF SrInv, SrEventInv
<1> QED BY <1>1, <1>2, <1>3, <1>4, <1>5, <1>6 DEF SrSafe

\* A lead is pursued once at a time, as often as allowed, until paid: whatever the order in
\* which the webhooks, the openers, the watchdog, the lead and the agent take their steps.
THEOREM SrSafeCorrect == SrSpec => []SrSafe
<1>1. SrSpec => []SrInv
  BY SrStarts, SrStep, PTL DEF SrSpec
<1> QED BY <1>1, SrInvSafe, PTL

\* The variables of the recovery stay within their types.
THEOREM SrTypeCorrect == SrSpec => []SrTypeOK
<1>1. SrSpec => []SrInv
  BY SrStarts, SrStep, PTL DEF SrSpec
<1>2. SrInv => SrTypeOK
  BY DEF SrInv, SrTypeInv
<1> QED BY <1>1, <1>2, PTL

-----------------------------------------------------------------------------
(* Numbers *)

\* A set of naturals that is not empty has a least element.
LEMMA LeastNatural ==
  ASSUME NEW T, T \subseteq Nat, T # {}
  PROVE  \E x \in T : \A y \in T : x <= y
<1> DEFINE R == {rs \in Nat \X Nat : rs[1] < rs[2]}
<1>1. \A x, y \in Nat : <<x, y>> \in R <=> x < y
  OBVIOUS
<1>2. IsWellFoundedOn(R, Nat)
  BY NatLessThanWellFounded DEF OpToRel
<1> HIDE DEF R
<1>3. PICK x \in T : \A y \in T : ~(<<y, x>> \in R)
  BY <1>2, WFMin
<1>4. \A y \in T : ~(y < x)
  BY <1>1, <1>3
<1> QED BY <1>4


-----------------------------------------------------------------------------
(* Picking from a sequence: any sequence *)

\* Where the positions that pass stand, by rank.
PickedAt(at) ==
  [k \in 1..Cardinality(at) |-> CHOOSE i \in at : Cardinality({j \in at : j <= i}) = k]

\* Picking keeps the order and takes every position once.
LEMMA PickedIs ==
  ASSUME NEW T, NEW s \in Seq(T), NEW at \in SUBSET (DOMAIN s)
  PROVE  LET n == Cardinality(at) IN
         /\ n \in Nat /\ Picked(s, at) \in Seq(T) /\ Len(Picked(s, at)) = n
         /\ PickedAt(at) \in [1..n -> at]
         /\ Picked(s, at) = [k \in 1..n |-> s[PickedAt(at)[k]]]
         /\ \A j, k \in 1..n : j < k => PickedAt(at)[j] < PickedAt(at)[k]
         /\ \A i \in at : \E k \in 1..n : PickedAt(at)[k] = i
<1> DEFINE R(n) == Cardinality({j \in at : j <= n})
           n == Cardinality(at)
           f == [k \in 1..n |-> CHOOSE i \in at : R(i) = k]
<1>1. Len(s) \in Nat /\ DOMAIN s = 1..Len(s) /\ at \subseteq 1..Len(s)
  OBVIOUS
<1>2. IsFiniteSet(at) /\ n \in Nat
  <2>0. 1 \in Int /\ Len(s) \in Int
    BY <1>1
  <2>1. IsFiniteSet(1..Len(s))
    BY <2>0, FS_Interval
  <2> QED BY <1>1, <2>1, FS_Subset, FS_CardinalityType
<1>3. \A m \in Nat : IsFiniteSet({j \in at : j <= m}) /\ R(m) \in Nat /\ R(m) <= n
  <2> TAKE m \in Nat
  <2>1. {j \in at : j <= m} \subseteq at
    OBVIOUS
  <2> QED BY <1>2, <2>1, FS_Subset, FS_CardinalityType
<1>4. R(0) = 0 /\ R(Len(s)) = n
  <2>1. {j \in at : j <= 0} = {} /\ {j \in at : j <= Len(s)} = at
    BY <1>1
  <2> QED BY <2>1, FS_EmptySet
<1>5. \A m \in Nat : /\ m + 1 \in at => R(m + 1) = R(m) + 1
                     /\ m + 1 \notin at => R(m + 1) = R(m)
  <2> TAKE m \in Nat
  <2>1. CASE m + 1 \in at
    <3>1. {j \in at : j <= m + 1} = {j \in at : j <= m} \union {m + 1}
      BY <1>1, <2>1
    <3>2. m + 1 \notin {j \in at : j <= m}
      OBVIOUS
    <3> QED BY <2>1, <3>1, <3>2, <1>3, FS_AddElement
  <2>2. CASE m + 1 \notin at
    <3>1. {j \in at : j <= m + 1} = {j \in at : j <= m}
      BY <1>1, <2>2
    <3> QED BY <2>2, <3>1
  <2> QED BY <2>1, <2>2
<1>14. \A i, m \in Nat : i <= m => R(i) <= R(m)
  <2> SUFFICES ASSUME NEW i \in Nat, NEW m \in Nat, i <= m PROVE R(i) <= R(m)
    OBVIOUS
  <2>1. {x \in at : x <= i} \subseteq {x \in at : x <= m}
    BY <1>1
  <2> QED BY <2>1, <1>3, FS_Subset
<1> HIDE DEF R
<1>6. \A i, j \in at : i < j => R(i) < R(j)
  <2> SUFFICES ASSUME NEW i \in at, NEW j \in at, i < j PROVE R(i) < R(j)
    OBVIOUS
  <2>1. i \in Nat /\ j \in Nat /\ j - 1 \in Nat /\ i <= j - 1 /\ j = (j - 1) + 1
    BY <1>1
  <2>2. R(i) <= R(j - 1) /\ R(i) \in Nat /\ R(j - 1) \in Nat
    BY <2>1, <1>3, <1>14
  <2>3. R(j) = R(j - 1) + 1
    BY <2>1, <1>5
  <2> QED BY <2>2, <2>3
<1>7. \A k \in 1..n : \E i \in at : R(i) = k
  <2> TAKE k \in 1..n
  <2> DEFINE Far == {m \in Nat : R(m) >= k}
  <2>1. Len(s) \in Far /\ Far \subseteq Nat
    BY <1>1, <1>2, <1>4
  <2>2. PICK m \in Far : \A x \in Far : m <= x
    BY <2>1, LeastNatural
  <2>3. m \in Nat /\ R(m) >= k /\ k \in Nat /\ k >= 1
    BY <1>2
  <2>4. m # 0
    BY <2>3, <1>4
  <2>5. m - 1 \in Nat /\ m = (m - 1) + 1 /\ ~(m <= m - 1)
    BY <2>3, <2>4
  <2>6. m - 1 \notin Far
    BY <2>2, <2>5
  <2>7. R(m - 1) < k /\ R(m - 1) \in Nat /\ R(m) \in Nat
    <3>1. R(m - 1) \in Nat /\ R(m) \in Nat
      BY <2>3, <2>5, <1>3
    <3>2. ~(R(m - 1) >= k)
      BY <2>5, <2>6
    <3> QED BY <2>3, <3>1, <3>2
  <2>8. (m \in at /\ R(m) = R(m - 1) + 1) \/ R(m) = R(m - 1)
    BY <2>5, <1>5
  <2> QED BY <2>3, <2>7, <2>8
<1>8. f \in [1..n -> at] /\ \A k \in 1..n : R(f[k]) = k
  BY <1>7
<1>9. Picked(s, at) = [k \in 1..n |-> s[f[k]]]
  BY DEF Picked, R
<1>15. f = PickedAt(at)
  BY DEF PickedAt, R
<1> HIDE DEF f
<1>10. \A k \in 1..n : f[k] \in at /\ s[f[k]] \in T
  BY <1>8
<1>11. Picked(s, at) \in Seq(T) /\ Len(Picked(s, at)) = n
  BY <1>2, <1>9, <1>10
<1>12. \A j, k \in 1..n : j < k => f[j] < f[k]
  <2> SUFFICES ASSUME NEW j \in 1..n, NEW k \in 1..n, j < k, ~(f[j] < f[k]) PROVE FALSE
    OBVIOUS
  <2>1. f[j] \in at /\ f[k] \in at /\ R(f[j]) = j /\ R(f[k]) = k /\ f[j] \in Nat /\ f[k] \in Nat
    BY <1>1, <1>8
  <2>2. f[k] = f[j] \/ f[k] < f[j]
    BY <2>1
  <2>3. k = j \/ k < j
    BY <2>1, <2>2, <1>6
  <2> QED BY <2>3, <1>2
<1>13. \A i \in at : \E k \in 1..n : f[k] = i
  <2> TAKE i \in at
  <2>1. i \in Nat /\ i >= 1 /\ i - 1 \in Nat /\ i = (i - 1) + 1
    BY <1>1
  <2>2. R(i) = R(i - 1) + 1
    BY <2>1, <1>5
  <2>3. R(i) \in 1..n
    <3>1. R(i - 1) \in Nat /\ R(i) \in Nat /\ R(i) <= n
      BY <2>1, <1>3
    <3> QED BY <2>2, <3>1, <1>2
  <2>4. f[R(i)] \in at /\ R(f[R(i)]) = R(i)
    BY <2>3, <1>8
  <2>5. f[R(i)] \in Nat
    BY <2>4, <1>1
  <2>6. ~(f[R(i)] < i) /\ ~(i < f[R(i)])
    <3> DEFINE g == f[R(i)]
    <3>0. R(i) \in Nat
      BY <2>1, <1>3
    <3>1. ~(R(i) < R(i))
      BY <3>0
    <3>2. g \in at /\ R(g) = R(i)
      BY <2>4
    <3> HIDE DEF g
    <3>3. ~(g < i) /\ ~(i < g)
      BY <3>1, <3>2, <1>6
    <3> QED BY <3>3 DEF g
  <2> QED BY <2>1, <2>3, <2>5, <2>6
<1> QED BY <1>2, <1>8, <1>9, <1>10, <1>11, <1>12, <1>13, <1>15, <1>8, <1>9

\* What is picked depends on the picked positions only.
LEMMA PickedSame ==
  ASSUME NEW T, NEW s \in Seq(T), NEW u \in Seq(T), NEW at \in SUBSET (DOMAIN s),
         at \subseteq DOMAIN u, \A i \in at : s[i] = u[i]
  PROVE  Picked(s, at) = Picked(u, at)
<1>1. /\ PickedAt(at) \in [1..Cardinality(at) -> at]
      /\ Picked(s, at) = [k \in 1..Cardinality(at) |-> s[PickedAt(at)[k]]]
      /\ Picked(u, at) = [k \in 1..Cardinality(at) |-> u[PickedAt(at)[k]]]
  BY PickedIs
<1> QED BY <1>1

\* Picking every position changes nothing.
LEMMA PickedAll ==
  ASSUME NEW T, NEW s \in Seq(T)
  PROVE  Picked(s, DOMAIN s) = s
<1> DEFINE n == Len(s)
<1>1. n \in Nat /\ DOMAIN s = 1..n /\ 1 \in Int
  OBVIOUS
<1>2. Cardinality(1..n) = n
  <2>1. n \in Int
    BY <1>1
  <2>2. Cardinality(1..n) = IF 1 > n THEN 0 ELSE n - 1 + 1
    BY <1>1, <2>1, FS_Interval
  <2> QED BY <1>1, <2>2
<1>3. \A i \in 1..n : Cardinality({j \in 1..n : j <= i}) = i
  <2> TAKE i \in 1..n
  <2>1. {j \in 1..n : j <= i} = 1..i /\ i \in Int /\ i >= 1
    BY <1>1
  <2>2. Cardinality(1..i) = IF 1 > i THEN 0 ELSE i - 1 + 1
    BY <1>1, <2>1, FS_Interval
  <2>3. Cardinality(1..i) = i
    <3> DEFINE c == Cardinality(1..i)
    <3>1. c = IF 1 > i THEN 0 ELSE i - 1 + 1
      BY <2>2
    <3> HIDE DEF c
    <3>2. c = i
      BY <2>1, <3>1
    <3> QED BY <3>2 DEF c
  <2> QED BY <2>1, <2>3
<1> HIDE DEF n
<1>4. PickedAt(1..n) = [k \in 1..n |-> CHOOSE i \in 1..n : Cardinality({j \in 1..n : j <= i}) = k]
  BY <1>2 DEF PickedAt
<1>5. \A k \in 1..n : PickedAt(1..n)[k] = k
  BY <1>3, <1>4
<1>6. Picked(s, 1..n) = [k \in 1..n |-> s[k]]
  <2>1. Picked(s, 1..n) = [k \in 1..n |-> s[PickedAt(1..n)[k]]]
    <3> DEFINE at == 1..n
    <3>1. at \in SUBSET (DOMAIN s) /\ Cardinality(at) = n
      BY <1>1, <1>2
    <3> HIDE DEF at
    <3>2. Picked(s, at) = [k \in 1..Cardinality(at) |-> s[PickedAt(at)[k]]]
      BY <3>1, PickedIs
    <3>3. Picked(s, at) = [k \in 1..n |-> s[PickedAt(at)[k]]]
      BY <3>1, <3>2
    <3> QED BY <3>3 DEF at
  <2> QED BY <2>1, <1>5
<1>7. s = [k \in 1..n |-> s[k]]
  BY <1>1
<1> QED BY <1>1, <1>6, <1>7

-----------------------------------------------------------------------------
(* The agents' documents: any sources, jobs, chunks and messages *)

KnJobType ==
  [at : KnPlaces, src : KnSources, agent : KnAgents \union {KnOrgWide}, text : 0..KnUnreadable,
   left : 0..KnAttempts, next : 1..(KnMaxChunks + 1), stalled : BOOLEAN]

KnTypeInv ==
  /\ knSrc \in [KnSources -> KnRows \union {KnNoRow}]
  /\ knJob \in [KnJobs -> KnJobType \union {KnFree}]
  /\ knStore \subseteq KnEntries
  /\ knMsg \in [KnMessages -> {"none", "queued", "stored", "failed"}]
  /\ knFound \in [agent : KnAgents, entries : SUBSET KnEntries]
  /\ knFaults \in 0..KnMaxFaults
  /\ knFaulted \subseteq KnSources \union KnMessages /\ knLost \subseteq KnSources

\* A source has a job when one was queued for it, over or not.
KnJobOf(s) == \E j \in KnJobs : knJob[j].at # "free" /\ knJob[j].src = s

\* A job carries the text and the agent of its document, has written every chunk before the
\* next one, and fails only when nothing can be read, something failed, or the row is gone.
KnJobOK(k, row, store, faulted) ==
  /\ row # KnNoRow => row.agent = k.agent /\ row.text = k.text
  /\ k.at # "ended" => k.left >= 1
  /\ k.at = "write" =>
       /\ k.text \in 1..KnMaxChunks /\ k.next <= k.text + 1
       /\ \A i \in 1..KnMaxChunks : i < k.next => <<k.src, i>> \in store
  /\ k.at = "failing" /\ KnScopedTable =>
       row = KnNoRow \/ k.text \in {0, KnUnreadable} \/ k.src \in faulted

KnJobInv ==
  \A j \in KnJobs : knJob[j].at # "free" =>
    KnJobOK(knJob[j], knSrc[knJob[j].src], knStore, knFaulted)

\* The jobs of a document are of one agent, also when the document is gone.
KnOneAgent ==
  \A i, j \in KnJobs : knJob[i].at # "free" /\ knJob[j].at # "free" /\ knJob[i].src = knJob[j].src =>
    knJob[i].agent = knJob[j].agent

\* What a row says, against the store, the jobs and the faults.
KnRowOK(s, row, store, faulted) ==
  /\ row.status = "READY" =>
       row.text \in 1..KnMaxChunks /\ \A i \in 1..row.text : <<s, i>> \in store
  /\ row.status = "FAILED" /\ KnScopedTable =>
       row.text \in {0, KnUnreadable} \/ s \in faulted

KnRowInv == \A s \in KnSources : KnRowOK(s, knSrc[s], knStore, knFaulted)

KnPursuedInv ==
  \A s \in KnSources : knSrc[s].status \in {"PENDING", "PROCESSING"} =>
    s \in knLost \/ \E j \in KnJobs : knJob[j].at \notin {"free", "ended"} /\ knJob[j].src = s

\* Chunks come from jobs, and so does what a run found.
KnStoreInv == \A e \in knStore : e[2] > 0 => KnJobOf(e[1])

KnFoundInv ==
  \A e \in knFound.entries : e[2] > 0 =>
    /\ KnJobOf(e[1])
    /\ \A j \in KnJobs : knJob[j].at # "free" /\ knJob[j].src = e[1] =>
         knJob[j].agent \in {knFound.agent, KnOrgWide}

KnInv ==
  /\ KnTypeInv /\ KnJobInv /\ KnOneAgent /\ KnRowInv /\ KnPursuedInv /\ KnStoreInv /\ KnFoundInv

\* The numbers the constants are.
LEMMA KnNumbers ==
  /\ KnAttempts \in Nat \ {0} /\ KnMaxChunks \in Nat /\ KnMaxJobs \in Nat /\ KnMaxFaults \in Nat
  /\ KnUnreadable \in Nat /\ KnUnreadable = KnMaxChunks + 1
BY KnAssumption DEF KnUnreadable

\* Rows and jobs are told from their absence by one field.
LEMMA KnTyped ==
  ASSUME KnTypeInv
  PROVE  /\ \A j \in KnJobs : knJob[j] = KnFree <=> knJob[j].at = "free"
         /\ \A j \in KnJobs : knJob[j].at # "free" => knJob[j] \in KnJobType
         /\ \A s \in KnSources : knSrc[s] = KnNoRow <=> knSrc[s].status = "NONE"
         /\ \A s \in KnSources : knSrc[s] # KnNoRow => knSrc[s] \in KnRows
<1>1. \A k \in KnJobType : k.at # "free"
  BY DEF KnJobType, KnPlaces
<1>2. \A r \in KnRows : r.status # "NONE"
  BY DEF KnRows
<1>3. KnFree.at = "free" /\ KnNoRow.status = "NONE"
  BY DEF KnFree, KnNoRow
<1> QED BY <1>1, <1>2, <1>3 DEF KnTypeInv

LEMMA KnInitInv == KnInit => KnInv
<1> SUFFICES ASSUME KnInit PROVE KnInv
  OBVIOUS
<1>1. \A s \in KnSources : knSrc[s] = KnNoRow /\ knSrc[s].status = "NONE"
  BY DEF KnInit, KnNoRow
<1>2. \A j \in KnJobs : knJob[j] = KnFree /\ knJob[j].at = "free"
  BY DEF KnInit, KnFree
<1>3. knStore = {} /\ knFound.entries = {} /\ knFound \in [agent : KnAgents, entries : SUBSET KnEntries]
  BY DEF KnInit
<1>4. KnTypeInv
  BY <1>3, KnNumbers DEF KnInit, KnTypeInv
<1>5. KnRowInv /\ KnPursuedInv
  BY <1>1 DEF KnRowInv, KnRowOK, KnPursuedInv
<1> QED BY <1>2, <1>3, <1>4, <1>5 DEF KnInv, KnJobInv, KnOneAgent, KnStoreInv, KnFoundInv

\* A step of a job: it keeps what the job is about, writes the row of its document and adds its
\* chunks, and leaves the row settled, lost or pursued.
LEMMA KnJobStep ==
  ASSUME KnInv, NEW j \in KnJobs, knJob[j].at # "free", NEW k \in KnJobType, NEW row,
         k.src = knJob[j].src, k.agent = knJob[j].agent, k.text = knJob[j].text,
         knJob' = [knJob EXCEPT ![j] = k],
         knSrc' = [knSrc EXCEPT ![k.src] = row],
         IF knSrc[k.src] = KnNoRow THEN row = KnNoRow
         ELSE row \in KnRows /\ row.agent = knSrc[k.src].agent /\ row.text = knSrc[k.src].text,
         knStore \subseteq knStore', knStore' \subseteq KnEntries,
         \A e \in knStore' \ knStore : e[1] = k.src,
         knFaulted \subseteq knFaulted', knFaulted' \subseteq KnSources \union KnMessages,
         knLost \subseteq knLost', knLost' \subseteq KnSources,
         knFaults' \in 0..KnMaxFaults, UNCHANGED <<knMsg, knFound>>,
         KnJobOK(k, row, knStore', knFaulted'),
         KnRowOK(k.src, row, knStore', knFaulted'),
         k.at = "ended" => k.src \in knLost' \/ row.status \notin {"PENDING", "PROCESSING"}
  PROVE  KnInv'
<1> DEFINE s == k.src
<1>1. /\ KnTypeInv /\ KnJobInv /\ KnOneAgent /\ KnRowInv /\ KnPursuedInv /\ KnStoreInv /\ KnFoundInv
      /\ s \in KnSources
  BY DEF KnInv, KnJobType
<1>2. /\ knJob \in [KnJobs -> KnJobType \union {KnFree}]
      /\ knSrc \in [KnSources -> KnRows \union {KnNoRow}]
  BY <1>1 DEF KnTypeInv
<1>3. k.at # "free" /\ knJob'[j] = k /\ \A i \in KnJobs : i # j => knJob'[i] = knJob[i]
  BY <1>2 DEF KnJobType, KnPlaces
<1>4. knSrc'[s] = row /\ \A t \in KnSources : t # s => knSrc'[t] = knSrc[t]
  BY <1>1, <1>2
<1>5. row \in KnRows \union {KnNoRow}
  OBVIOUS
<1>6. KnTypeInv'
  <2>1. knJob' \in [KnJobs -> KnJobType \union {KnFree}]
    BY <1>2
  <2>2. knSrc' \in [KnSources -> KnRows \union {KnNoRow}]
    BY <1>2, <1>5
  <2>3. knMsg' = knMsg /\ knFound' = knFound
    OBVIOUS
  <2> QED BY <2>1, <2>2, <2>3, <1>1 DEF KnTypeInv, KnJobType, KnRows, KnEntries
<1>7. \A i \in KnJobs : /\ (knJob'[i].at # "free") <=> (knJob[i].at # "free")
                        /\ knJob[i].at # "free" => /\ knJob'[i].src = knJob[i].src
                                                   /\ knJob'[i].agent = knJob[i].agent
  BY <1>3
<1>8. KnJobInv'
  <2> SUFFICES ASSUME NEW i \in KnJobs, knJob'[i].at # "free"
               PROVE  KnJobOK(knJob'[i], knSrc'[knJob'[i].src], knStore', knFaulted')
    BY DEF KnJobInv
  <2>1. CASE i = j
    BY <2>1, <1>3, <1>4
  <2>2. CASE i # j
    <3> DEFINE o == knJob[i]
    <3>1. knJob'[i] = o /\ o.at # "free" /\ KnJobOK(o, knSrc[o.src], knStore, knFaulted)
      BY <2>2, <1>1, <1>3 DEF KnJobInv
    <3>2. o \in KnJobType /\ o.src \in KnSources
      BY <3>1, <1>1, KnTyped DEF KnJobType
    <3>3. /\ (knSrc'[o.src] = KnNoRow) <=> (knSrc[o.src] = KnNoRow)
          /\ knSrc[o.src] # KnNoRow => /\ knSrc'[o.src].agent = knSrc[o.src].agent
                                       /\ knSrc'[o.src].text = knSrc[o.src].text
      <4>1. CASE o.src = s
        <5>1. \A r \in KnRows : r # KnNoRow
          BY <1>1 DEF KnRows, KnNoRow
        <5> QED BY <4>1, <5>1, <1>4
      <4>2. CASE o.src # s
        BY <4>2, <1>4, <3>2
      <4> QED BY <4>1, <4>2
    <3> HIDE DEF o, s
    <3>4. KnJobOK(o, knSrc'[o.src], knStore', knFaulted')
      BY <3>1, <3>3 DEF KnJobOK
    <3> QED BY <3>1, <3>4
  <2> QED BY <2>1, <2>2
<1>9. KnOneAgent'
  BY <1>1, <1>7 DEF KnOneAgent
<1>10. KnRowInv'
  <2> SUFFICES ASSUME NEW t \in KnSources PROVE KnRowOK(t, knSrc'[t], knStore', knFaulted')
    BY DEF KnRowInv
  <2>1. CASE t = s
    BY <2>1, <1>4
  <2>2. CASE t # s
    BY <2>2, <1>4, <1>1 DEF KnRowInv, KnRowOK
  <2> QED BY <2>1, <2>2
<1>11. KnPursuedInv'
  <2> SUFFICES ASSUME NEW t \in KnSources, knSrc'[t].status \in {"PENDING", "PROCESSING"}, t \notin knLost'
               PROVE  \E i \in KnJobs : knJob'[i].at \notin {"free", "ended"} /\ knJob'[i].src = t
    BY DEF KnPursuedInv
  <2>1. CASE t = s
    <3>1. k.at # "ended"
      BY <2>1, <1>4
    <3> QED BY <2>1, <3>1, <1>3
  <2>2. CASE t # s
    <3>1. PICK i \in KnJobs : knJob[i].at \notin {"free", "ended"} /\ knJob[i].src = t
      BY <2>2, <1>1, <1>4 DEF KnPursuedInv
    <3>2. i # j
      BY <3>1, <2>2
    <3> QED BY <3>1, <3>2, <1>3
  <2> QED BY <2>1, <2>2
<1>12. \A t : KnJobOf(t) => KnJobOf(t)'
  BY <1>7 DEF KnJobOf
<1>13. KnStoreInv'
  <2>1. KnJobOf(s)'
    BY <1>3 DEF KnJobOf
  <2> QED BY <2>1, <1>1, <1>12 DEF KnStoreInv
<1>14. KnFoundInv'
  BY <1>1, <1>7, <1>12 DEF KnFoundInv
<1> QED BY <1>6, <1>8, <1>9, <1>10, <1>11, <1>13, <1>14 DEF KnInv

\* The guards of a job's action, and what the invariant says of that job and its row.
LEMMA KnAtJob ==
  ASSUME KnInv, NEW j \in KnJobs, knJob[j].at # "free"
  PROVE  /\ knJob[j] \in KnJobType /\ knJob[j].src \in KnSources
         /\ KnJobOK(knJob[j], knSrc[knJob[j].src], knStore, knFaulted)
         /\ KnRowOK(knJob[j].src, knSrc[knJob[j].src], knStore, knFaulted)
         /\ knSrc[knJob[j].src] # KnNoRow => knSrc[knJob[j].src] \in KnRows
         /\ knStore \subseteq KnEntries /\ knFaulted \subseteq KnSources \union KnMessages
         /\ knLost \subseteq KnSources /\ knFaults \in 0..KnMaxFaults
         /\ knSrc = [knSrc EXCEPT ![knJob[j].src] = knSrc[knJob[j].src]]
<1>1. KnTypeInv /\ KnJobInv /\ KnRowInv
  BY DEF KnInv
<1>2. knJob[j] \in KnJobType /\ knJob[j].src \in KnSources
  BY <1>1, KnTyped DEF KnJobType
<1>3. knSrc = [knSrc EXCEPT ![knJob[j].src] = knSrc[knJob[j].src]]
  BY <1>1 DEF KnTypeInv
<1> QED BY <1>1, <1>2, <1>3, KnTyped DEF KnJobInv, KnRowInv, KnTypeInv

LEMMA KnAddKeeps == ASSUME KnInv, NEW j \in KnJobs, KnAdd(j) PROVE KnInv'
<1> DEFINE old == knJob[j]
           s == knJob[j].src
           row == knSrc[s]
<1>1. old.at = "adding" /\ old.at # "free"
  BY DEF KnAdd, KnAt
<1>2. /\ old \in KnJobType /\ s \in KnSources /\ KnJobOK(old, row, knStore, knFaulted)
      /\ KnRowOK(s, row, knStore, knFaulted) /\ (row # KnNoRow => row \in KnRows)
      /\ knStore \subseteq KnEntries /\ knFaulted \subseteq KnSources \union KnMessages
      /\ knLost \subseteq KnSources /\ knFaults \in 0..KnMaxFaults
      /\ knSrc = [knSrc EXCEPT ![s] = row]
  BY <1>1, KnAtJob
<1>3. UNCHANGED <<knSrc, knStore, knMsg, knFound>>
  BY DEF KnAdd
<1>4. CASE KnGoes(j, "queued") /\ UNCHANGED <<knFaults, knFaulted, knLost>>
  <2> DEFINE k == [old EXCEPT !.at = "queued"]
  <2>1. /\ k \in KnJobType /\ k.at = "queued" /\ k.src = s /\ k.agent = old.agent /\ k.text = old.text
        /\ k.left = old.left
    BY <1>2 DEF KnJobType, KnPlaces
  <2>2. knJob' = [knJob EXCEPT ![j] = k]
    BY <1>4 DEF KnGoes
  <2> HIDE DEF k
  <2>3. KnJobOK(k, row, knStore', knFaulted')
    BY <1>1, <1>2, <1>3, <1>4, <2>1 DEF KnJobOK
  <2> QED BY <1>1, <1>2, <1>3, <1>4, <2>1, <2>2, <2>3, KnJobStep
<1>5. CASE KnFault(s) /\ KnGoes(j, "ended") /\ knLost' = knLost \union {s}
  <2> DEFINE k == [old EXCEPT !.at = "ended"]
  <2>1. /\ k \in KnJobType /\ k.at = "ended" /\ k.src = s /\ k.agent = old.agent /\ k.text = old.text
        /\ k.left = old.left
    BY <1>2 DEF KnJobType, KnPlaces
  <2>2. knJob' = [knJob EXCEPT ![j] = k]
    BY <1>5 DEF KnGoes
  <2> HIDE DEF k
  <2>3. /\ knFaults' \in 0..KnMaxFaults /\ knFaulted' = knFaulted \union {s}
        /\ knFaulted' \subseteq KnSources \union KnMessages /\ knLost' \subseteq KnSources
    BY <1>2, <1>5, KnNumbers DEF KnFault
  <2>4. KnJobOK(k, row, knStore', knFaulted') /\ KnRowOK(s, row, knStore', knFaulted')
    BY <1>1, <1>2, <1>3, <2>1, <2>3 DEF KnJobOK, KnRowOK
  <2> QED BY <1>1, <1>2, <1>3, <1>5, <2>1, <2>2, <2>3, <2>4, KnJobStep
<1> QED BY <1>4, <1>5 DEF KnAdd

\* A fault is counted and marks its document.
LEMMA KnFaultKeeps ==
  ASSUME KnInv, NEW s \in KnSources, KnFault(s)
  PROVE  /\ knFaults' \in 0..KnMaxFaults /\ knFaulted' = knFaulted \union {s}
         /\ knFaulted' \subseteq KnSources \union KnMessages
BY KnNumbers DEF KnFault, KnInv, KnTypeInv

LEMMA KnMarkKeeps == ASSUME KnInv, NEW j \in KnJobs, KnMark(j) PROVE KnInv'
<1> DEFINE old == knJob[j]
           s == knJob[j].src
           row == knSrc[s]
<1>1. old.at = "queued" /\ old.at # "free"
  BY DEF KnMark, KnAt
<1>2. /\ old \in KnJobType /\ s \in KnSources /\ KnJobOK(old, row, knStore, knFaulted)
      /\ KnRowOK(s, row, knStore, knFaulted) /\ (row # KnNoRow => row \in KnRows)
      /\ knStore \subseteq KnEntries /\ knFaulted \subseteq KnSources \union KnMessages
      /\ knLost \subseteq KnSources /\ knFaults \in 0..KnMaxFaults
      /\ knSrc = [knSrc EXCEPT ![s] = row]
  BY <1>1, KnAtJob
<1>3. UNCHANGED <<knStore, knMsg, knFound, knFaults, knFaulted, knLost>>
  BY DEF KnMark
<1>4. CASE row # KnNoRow /\ KnSet(s, "PROCESSING") /\ KnGoes(j, "marked")
  <2> DEFINE k == [old EXCEPT !.at = "marked"]
             new == [row EXCEPT !.status = "PROCESSING"]
  <2>1. /\ k \in KnJobType /\ k.at = "marked" /\ k.src = s /\ k.agent = old.agent /\ k.text = old.text
        /\ k.left = old.left
    BY <1>2 DEF KnJobType, KnPlaces
  <2>2. new \in KnRows /\ new.status = "PROCESSING" /\ new.agent = row.agent /\ new.text = row.text
    BY <1>2, <1>4 DEF KnRows
  <2>3. knJob' = [knJob EXCEPT ![j] = k] /\ knSrc' = [knSrc EXCEPT ![s] = new]
    BY <1>4 DEF KnGoes, KnSet
  <2> HIDE DEF k, new
  <2>4. new # KnNoRow
    BY <2>2 DEF KnRows, KnNoRow
  <2>5. KnJobOK(k, new, knStore', knFaulted') /\ KnRowOK(s, new, knStore', knFaulted')
    BY <1>1, <1>2, <1>3, <1>4, <2>1, <2>2, <2>4 DEF KnJobOK, KnRowOK
  <2> QED BY <1>1, <1>2, <1>3, <1>4, <2>1, <2>2, <2>3, <2>5, KnJobStep
<1>5. CASE row = KnNoRow /\ UNCHANGED knSrc /\ KnGoes(j, "failing")
  <2> DEFINE k == [old EXCEPT !.at = "failing"]
  <2>1. /\ k \in KnJobType /\ k.at = "failing" /\ k.src = s /\ k.agent = old.agent /\ k.text = old.text
        /\ k.left = old.left
    BY <1>2 DEF KnJobType, KnPlaces
  <2>2. knJob' = [knJob EXCEPT ![j] = k]
    BY <1>5 DEF KnGoes
  <2> HIDE DEF k
  <2>3. KnJobOK(k, row, knStore', knFaulted')
    BY <1>1, <1>2, <1>3, <1>5, <2>1 DEF KnJobOK
  <2> QED BY <1>1, <1>2, <1>3, <1>5, <2>1, <2>2, <2>3, KnJobStep
<1> QED BY <1>4, <1>5 DEF KnMark, KnRow

LEMMA KnEmbedKeeps == ASSUME KnInv, NEW j \in KnJobs, KnEmbed(j) PROVE KnInv'
<1> DEFINE old == knJob[j]
           s == knJob[j].src
           row == knSrc[s]
<1>1. old.at = "marked" /\ old.at # "free"
  BY DEF KnEmbed, KnAt
<1>2. /\ old \in KnJobType /\ s \in KnSources /\ KnJobOK(old, row, knStore, knFaulted)
      /\ KnRowOK(s, row, knStore, knFaulted) /\ (row # KnNoRow => row \in KnRows)
      /\ knStore \subseteq KnEntries /\ knFaulted \subseteq KnSources \union KnMessages
      /\ knLost \subseteq KnSources /\ knFaults \in 0..KnMaxFaults
      /\ knSrc = [knSrc EXCEPT ![s] = row]
  BY <1>1, KnAtJob
<1>3. UNCHANGED <<knStore, knMsg, knFound, knLost>>
  BY DEF KnEmbed
<1>4. CASE /\ old.text = 0 /\ row # KnNoRow
           /\ knSrc' = [knSrc EXCEPT ![s].status = "FAILED", ![s].error = TRUE]
           /\ KnGoes(j, "ended") /\ UNCHANGED <<knFaults, knFaulted>>
  <2> DEFINE k == [old EXCEPT !.at = "ended"]
             new == [row EXCEPT !.status = "FAILED", !.error = TRUE]
  <2>1. /\ k \in KnJobType /\ k.at = "ended" /\ k.src = s /\ k.agent = old.agent /\ k.text = old.text
        /\ k.left = old.left
    BY <1>2 DEF KnJobType, KnPlaces
  <2>2. new \in KnRows /\ new.status = "FAILED" /\ new.agent = row.agent /\ new.text = row.text
    BY <1>2, <1>4 DEF KnRows
  <2>3. knJob' = [knJob EXCEPT ![j] = k]
    BY <1>4 DEF KnGoes
  <2>4. knSrc' = [knSrc EXCEPT ![s] = new]
    BY <1>2, <1>4
  <2> HIDE DEF k, new
  <2>5. KnJobOK(k, new, knStore', knFaulted') /\ KnRowOK(s, new, knStore', knFaulted')
    BY <1>1, <1>2, <1>3, <1>4, <2>1, <2>2 DEF KnJobOK, KnRowOK
  <2> QED BY <1>1, <1>2, <1>3, <1>4, <2>1, <2>2, <2>3, <2>4, <2>5, KnJobStep
<1>5. CASE /\ old.text = KnUnreadable \/ (old.text = 0 /\ row = KnNoRow)
           /\ KnGoes(j, "failing") /\ UNCHANGED <<knSrc, knFaults, knFaulted>>
  <2> DEFINE k == [old EXCEPT !.at = "failing"]
  <2>1. /\ k \in KnJobType /\ k.at = "failing" /\ k.src = s /\ k.agent = old.agent /\ k.text = old.text
        /\ k.left = old.left
    BY <1>2 DEF KnJobType, KnPlaces
  <2>2. knJob' = [knJob EXCEPT ![j] = k]
    BY <1>5 DEF KnGoes
  <2> HIDE DEF k
  <2>3. KnJobOK(k, row, knStore', knFaulted')
    BY <1>1, <1>2, <1>3, <1>5, <2>1 DEF KnJobOK
  <2> QED BY <1>1, <1>2, <1>3, <1>5, <2>1, <2>2, <2>3, KnJobStep
<1>6. CASE /\ old.text \in 1..KnMaxChunks
           /\ knJob' = [knJob EXCEPT ![j].at = "write", ![j].next = 1]
           /\ UNCHANGED <<knSrc, knFaults, knFaulted>>
  <2> DEFINE k == [old EXCEPT !.at = "write", !.next = 1]
  <2>1. /\ k \in KnJobType /\ k.at = "write" /\ k.src = s /\ k.agent = old.agent /\ k.text = old.text
        /\ k.left = old.left /\ k.next = 1
    <3>1. 1 \in 1..(KnMaxChunks + 1)
      BY KnNumbers
    <3> QED BY <1>2, <3>1 DEF KnJobType, KnPlaces
  <2>2. knJob' = [knJob EXCEPT ![j] = k]
    <3>1. knJob \in [KnJobs -> KnJobType \union {KnFree}]
      BY DEF KnInv, KnTypeInv
    <3> QED BY <1>6, <3>1
  <2> HIDE DEF k
  <2>3. KnJobOK(k, row, knStore', knFaulted')
    BY <1>1, <1>2, <1>3, <1>6, <2>1, KnNumbers DEF KnJobOK
  <2> QED BY <1>1, <1>2, <1>3, <1>6, <2>1, <2>2, <2>3, KnJobStep
<1>7. CASE old.text \in 1..KnMaxChunks /\ KnFault(s) /\ KnGoes(j, "failing") /\ UNCHANGED knSrc
  <2> DEFINE k == [old EXCEPT !.at = "failing"]
  <2>1. /\ k \in KnJobType /\ k.at = "failing" /\ k.src = s /\ k.agent = old.agent /\ k.text = old.text
        /\ k.left = old.left
    BY <1>2 DEF KnJobType, KnPlaces
  <2>2. knJob' = [knJob EXCEPT ![j] = k]
    BY <1>7 DEF KnGoes
  <2> HIDE DEF k
  <2>3. /\ knFaults' \in 0..KnMaxFaults /\ knFaulted' = knFaulted \union {s}
        /\ knFaulted' \subseteq KnSources \union KnMessages
    BY <1>2, <1>7, KnFaultKeeps
  <2>4. KnJobOK(k, row, knStore', knFaulted') /\ KnRowOK(s, row, knStore', knFaulted')
    BY <1>1, <1>2, <1>3, <2>1, <2>3 DEF KnJobOK, KnRowOK
  <2> QED BY <1>1, <1>2, <1>3, <1>7, <2>1, <2>2, <2>3, <2>4, KnJobStep
<1> QED BY <1>4, <1>5, <1>6, <1>7 DEF KnEmbed, KnRow

LEMMA KnUpsertKeeps == ASSUME KnInv, NEW j \in KnJobs, KnUpsert(j) PROVE KnInv'
<1> DEFINE old == knJob[j]
           s == knJob[j].src
           row == knSrc[s]
<1>1. old.at = "write" /\ old.at # "free" /\ old.next <= old.text
  BY DEF KnUpsert, KnAt
<1>2. /\ old \in KnJobType /\ s \in KnSources /\ KnJobOK(old, row, knStore, knFaulted)
      /\ KnRowOK(s, row, knStore, knFaulted) /\ (row # KnNoRow => row \in KnRows)
      /\ knStore \subseteq KnEntries /\ knFaulted \subseteq KnSources \union KnMessages
      /\ knLost \subseteq KnSources /\ knFaults \in 0..KnMaxFaults
      /\ knSrc = [knSrc EXCEPT ![s] = row]
  BY <1>1, KnAtJob
<1>3. UNCHANGED <<knSrc, knMsg, knFound, knLost>>
  BY DEF KnUpsert
<1>4. /\ old.text \in 1..KnMaxChunks /\ old.next \in 1..KnMaxChunks /\ old.left >= 1
      /\ \A i \in 1..KnMaxChunks : i < old.next => <<s, i>> \in knStore
  BY <1>1, <1>2, KnNumbers DEF KnJobOK, KnJobType
<1>5. CASE /\ knStore' = knStore \union {<<s, old.next>>}
           /\ knJob' = [knJob EXCEPT ![j].next = old.next + 1]
           /\ UNCHANGED <<knFaults, knFaulted>>
  <2> DEFINE k == [old EXCEPT !.next = old.next + 1]
  <2>1. /\ k \in KnJobType /\ k.at = "write" /\ k.src = s /\ k.agent = old.agent /\ k.text = old.text
        /\ k.left = old.left /\ k.next = old.next + 1
    BY <1>1, <1>2, <1>4, KnNumbers DEF KnJobType
  <2>2. knJob' = [knJob EXCEPT ![j] = k]
    BY <1>5
  <2> HIDE DEF k
  <2>3. <<s, old.next>> \in KnEntries /\ knStore' \subseteq KnEntries
    BY <1>2, <1>4, <1>5 DEF KnEntries
  <2>4. \A i \in 1..KnMaxChunks : i < k.next => <<s, i>> \in knStore'
    <3> SUFFICES ASSUME NEW i \in 1..KnMaxChunks, i < k.next PROVE <<s, i>> \in knStore'
      OBVIOUS
    <3>1. i < old.next \/ i = old.next
      BY <1>4, <2>1, KnNumbers
    <3> QED BY <3>1, <1>4, <1>5
  <2>5. k.next <= k.text + 1
    BY <1>1, <1>4, <2>1, KnNumbers
  <2>6. KnJobOK(k, row, knStore', knFaulted') /\ KnRowOK(s, row, knStore', knFaulted')
    BY <1>2, <1>4, <1>5, <2>1, <2>4, <2>5 DEF KnJobOK, KnRowOK
  <2>7. \A e \in knStore' \ knStore : e[1] = s
    BY <1>5
  <2> QED BY <1>1, <1>2, <1>3, <1>5, <2>1, <2>2, <2>3, <2>6, <2>7, KnJobStep
<1>6. CASE /\ IF KnStorable(KnOrg) THEN KnFault(s) ELSE UNCHANGED <<knFaults, knFaulted>>
           /\ KnGoes(j, "failing") /\ UNCHANGED knStore
  <2> DEFINE k == [old EXCEPT !.at = "failing"]
  <2>1. /\ k \in KnJobType /\ k.at = "failing" /\ k.src = s /\ k.agent = old.agent /\ k.text = old.text
        /\ k.left = old.left
    BY <1>2 DEF KnJobType, KnPlaces
  <2>2. knJob' = [knJob EXCEPT ![j] = k]
    BY <1>6 DEF KnGoes
  <2> HIDE DEF k
  <2>3. /\ knFaults' \in 0..KnMaxFaults /\ knFaulted \subseteq knFaulted'
        /\ knFaulted' \subseteq KnSources \union KnMessages
        /\ KnScopedTable => s \in knFaulted'
    <3>1. CASE KnStorable(KnOrg)
      BY <1>2, <1>6, <3>1, KnFaultKeeps
    <3>2. CASE ~KnStorable(KnOrg)
      BY <1>2, <1>6, <3>2, KnAssumption DEF KnStorable
    <3> QED BY <3>1, <3>2
  <2>4. KnJobOK(k, row, knStore', knFaulted') /\ KnRowOK(s, row, knStore', knFaulted')
    BY <1>1, <1>2, <1>6, <2>1, <2>3 DEF KnJobOK, KnRowOK
  <2> QED BY <1>1, <1>2, <1>3, <1>6, <2>1, <2>2, <2>3, <2>4, KnJobStep
<1> QED BY <1>5, <1>6 DEF KnUpsert

LEMMA KnReadyKeeps == ASSUME KnInv, NEW j \in KnJobs, KnReady(j) PROVE KnInv'
<1> DEFINE old == knJob[j]
           s == knJob[j].src
           row == knSrc[s]
<1>1. old.at = "write" /\ old.at # "free" /\ old.next > old.text
  BY DEF KnReady, KnAt
<1>2. /\ old \in KnJobType /\ s \in KnSources /\ KnJobOK(old, row, knStore, knFaulted)
      /\ KnRowOK(s, row, knStore, knFaulted) /\ (row # KnNoRow => row \in KnRows)
      /\ knStore \subseteq KnEntries /\ knFaulted \subseteq KnSources \union KnMessages
      /\ knLost \subseteq KnSources /\ knFaults \in 0..KnMaxFaults
      /\ knSrc = [knSrc EXCEPT ![s] = row]
  BY <1>1, KnAtJob
<1>3. UNCHANGED <<knStore, knMsg, knFound, knFaults, knFaulted, knLost>>
  BY DEF KnReady
<1>4. CASE /\ row # KnNoRow
           /\ knSrc' = [knSrc EXCEPT ![s].status = "READY", ![s].chunks = old.text]
           /\ KnGoes(j, "ended")
  <2> DEFINE k == [old EXCEPT !.at = "ended"]
             new == [row EXCEPT !.status = "READY", !.chunks = old.text]
  <2>1. /\ k \in KnJobType /\ k.at = "ended" /\ k.src = s /\ k.agent = old.agent /\ k.text = old.text
        /\ k.left = old.left
    BY <1>2 DEF KnJobType, KnPlaces
  <2>2. /\ old.text \in 1..KnMaxChunks /\ old.next \in Nat
        /\ \A i \in 1..KnMaxChunks : i < old.next => <<s, i>> \in knStore
    BY <1>1, <1>2, KnNumbers DEF KnJobOK, KnJobType
  <2>3. new \in KnRows /\ new.status = "READY" /\ new.agent = row.agent /\ new.text = row.text
    <3>1. old.text \in 0..KnMaxChunks
      BY <2>2, KnNumbers
    <3> QED BY <1>2, <1>4, <3>1 DEF KnRows
  <2>4. knJob' = [knJob EXCEPT ![j] = k]
    BY <1>4 DEF KnGoes
  <2>5. knSrc' = [knSrc EXCEPT ![s] = new]
    BY <1>2, <1>4
  <2>6. row.text = old.text /\ row.agent = old.agent
    BY <1>2, <1>4 DEF KnJobOK
  <2> HIDE DEF k, new
  <2>7. \A i \in 1..new.text : <<s, i>> \in knStore'
    BY <1>1, <1>3, <2>2, <2>3, <2>6, KnNumbers
  <2>8. KnJobOK(k, new, knStore', knFaulted') /\ KnRowOK(s, new, knStore', knFaulted')
    BY <1>2, <1>4, <2>1, <2>2, <2>3, <2>6, <2>7 DEF KnJobOK, KnRowOK
  <2> QED BY <1>1, <1>2, <1>3, <1>4, <2>1, <2>3, <2>4, <2>5, <2>8, KnJobStep
<1>5. CASE row = KnNoRow /\ UNCHANGED knSrc /\ KnGoes(j, "failing")
  <2> DEFINE k == [old EXCEPT !.at = "failing"]
  <2>1. /\ k \in KnJobType /\ k.at = "failing" /\ k.src = s /\ k.agent = old.agent /\ k.text = old.text
        /\ k.left = old.left
    BY <1>2 DEF KnJobType, KnPlaces
  <2>2. knJob' = [knJob EXCEPT ![j] = k]
    BY <1>5 DEF KnGoes
  <2> HIDE DEF k
  <2>3. KnJobOK(k, row, knStore', knFaulted')
    BY <1>1, <1>2, <1>3, <1>5, <2>1 DEF KnJobOK
  <2> QED BY <1>1, <1>2, <1>3, <1>5, <2>1, <2>2, <2>3, KnJobStep
<1> QED BY <1>4, <1>5 DEF KnReady, KnRow

LEMMA KnFailKeeps == ASSUME KnInv, NEW j \in KnJobs, KnFail(j) PROVE KnInv'
<1> DEFINE old == knJob[j]
           s == knJob[j].src
           row == knSrc[s]
           new == IF row = KnNoRow THEN KnNoRow ELSE [row EXCEPT !.status = "FAILED", !.error = TRUE]
           k == [old EXCEPT !.at = IF old.left > 1 THEN "queued" ELSE "ended", !.left = old.left - 1]
<1>1. old.at = "failing" /\ old.at # "free"
  BY DEF KnFail, KnAt
<1>2. /\ old \in KnJobType /\ s \in KnSources /\ KnJobOK(old, row, knStore, knFaulted)
      /\ KnRowOK(s, row, knStore, knFaulted) /\ (row # KnNoRow => row \in KnRows)
      /\ knStore \subseteq KnEntries /\ knFaulted \subseteq KnSources \union KnMessages
      /\ knLost \subseteq KnSources /\ knFaults \in 0..KnMaxFaults
      /\ knSrc = [knSrc EXCEPT ![s] = row]
  BY <1>1, KnAtJob
<1>3. UNCHANGED <<knStore, knMsg, knFound, knFaults, knFaulted, knLost>>
  BY DEF KnFail
<1>4. knSrc' = [knSrc EXCEPT ![s] = new] /\ knJob' = [knJob EXCEPT ![j] = k]
  <2>1. knJob' = [knJob EXCEPT ![j] = k]
    <3>1. knJob \in [KnJobs -> KnJobType \union {KnFree}]
      BY DEF KnInv, KnTypeInv
    <3> QED BY <3>1 DEF KnFail
  <2>2. CASE row = KnNoRow
    BY <2>1, <2>2, <1>2 DEF KnFail, KnRow
  <2>3. CASE row # KnNoRow
    BY <2>1, <2>3, <1>2, ZenonT(60) DEF KnFail, KnRow
  <2> QED BY <2>1, <2>2, <2>3
<1>5. old.left \in 0..KnAttempts /\ old.left >= 1 /\ old.left - 1 \in 0..KnAttempts
  BY <1>1, <1>2, KnNumbers DEF KnJobOK, KnJobType
<1>6. /\ k \in KnJobType /\ k.at \in {"queued", "ended"} /\ k.src = s /\ k.agent = old.agent
      /\ k.text = old.text
      /\ k.at # "ended" => k.left >= 1
  <2>1. CASE old.left > 1
    <3> DEFINE l == old.left - 1
    <3>1. l \in 0..KnAttempts /\ l >= 1
      BY <1>5, <2>1, KnNumbers
    <3>2. k = [old EXCEPT !.at = "queued", !.left = l]
      BY <2>1
    <3> HIDE DEF k, l
    <3> QED BY <1>2, <3>1, <3>2 DEF KnJobType, KnPlaces
  <2>2. CASE ~(old.left > 1)
    BY <1>2, <1>5, <2>2, KnNumbers DEF KnJobType, KnPlaces
  <2> QED BY <2>1, <2>2
<1>7. /\ row = KnNoRow => new = KnNoRow
      /\ row # KnNoRow => /\ new \in KnRows /\ new.agent = row.agent /\ new.text = row.text
                          /\ new.status = "FAILED"
      /\ new.status \notin {"PENDING", "PROCESSING", "READY"}
  BY <1>2 DEF KnRows, KnNoRow
<1> HIDE DEF k, new
<1>8. KnJobOK(k, new, knStore', knFaulted')
  BY <1>2, <1>6, <1>7 DEF KnJobOK
<1>9. KnRowOK(s, new, knStore', knFaulted')
  <2>1. new.status = "FAILED" /\ KnScopedTable => row # KnNoRow
    BY <1>7 DEF KnNoRow
  <2> QED BY <1>1, <1>2, <1>3, <1>7, <2>1 DEF KnJobOK, KnRowOK
<1> QED BY <1>1, <1>2, <1>3, <1>4, <1>6, <1>7, <1>8, <1>9, KnJobStep

LEMMA KnDieKeeps == ASSUME KnInv, NEW j \in KnJobs, KnDie(j) PROVE KnInv'
<1> DEFINE old == knJob[j]
           s == knJob[j].src
           row == knSrc[s]
           k == [old EXCEPT !.at = IF old.stalled THEN "ended" ELSE "queued", !.stalled = TRUE]
<1>1. old.at \in {"marked", "write", "failing"} /\ old.at # "free" /\ KnFault(s)
  BY DEF KnDie
<1>2. /\ old \in KnJobType /\ s \in KnSources /\ KnJobOK(old, row, knStore, knFaulted)
      /\ KnRowOK(s, row, knStore, knFaulted) /\ (row # KnNoRow => row \in KnRows)
      /\ knStore \subseteq KnEntries /\ knFaulted \subseteq KnSources \union KnMessages
      /\ knLost \subseteq KnSources /\ knFaults \in 0..KnMaxFaults
      /\ knSrc = [knSrc EXCEPT ![s] = row]
  BY <1>1, KnAtJob
<1>3. UNCHANGED <<knSrc, knStore, knMsg, knFound>>
  BY DEF KnDie
<1>4. knJob' = [knJob EXCEPT ![j] = k]
  <2>1. knJob \in [KnJobs -> KnJobType \union {KnFree}]
    BY DEF KnInv, KnTypeInv
  <2> QED BY <2>1 DEF KnDie
<1>5. /\ k \in KnJobType /\ k.at \in {"queued", "ended"} /\ k.src = s /\ k.agent = old.agent
      /\ k.text = old.text /\ k.left = old.left
      /\ k.at = "ended" => old.stalled
  BY <1>2 DEF KnJobType, KnPlaces
<1>6. /\ knFaults' \in 0..KnMaxFaults /\ knFaulted' = knFaulted \union {s}
      /\ knFaulted' \subseteq KnSources \union KnMessages
  BY <1>1, <1>2, KnFaultKeeps
<1>7. /\ knLost \subseteq knLost' /\ knLost' \subseteq KnSources
      /\ old.stalled => s \in knLost'
  BY <1>2 DEF KnDie
<1> HIDE DEF k
<1>8. KnJobOK(k, row, knStore', knFaulted') /\ KnRowOK(s, row, knStore', knFaulted')
  BY <1>1, <1>2, <1>3, <1>5, <1>6 DEF KnJobOK, KnRowOK
<1> QED BY <1>1, <1>2, <1>3, <1>4, <1>5, <1>6, <1>7, <1>8, KnJobStep

\* A new job: its row waits for it, and the jobs there were are as they were.
LEMMA KnQueueStep ==
  ASSUME KnInv, NEW s \in KnSources, NEW j \in KnJobs, NEW agent \in KnAgents \union {KnOrgWide},
         NEW text \in 0..KnUnreadable, NEW row \in KnRows,
         KnQueues(s, agent, text, j), knSrc' = [knSrc EXCEPT ![s] = row],
         row.status = "PENDING", row.agent = agent, row.text = text,
         \A i \in KnJobs : knJob[i].at # "free" /\ knJob[i].src = s =>
           knJob[i].agent = agent /\ knSrc[s] # KnNoRow /\ knSrc[s].text = text,
         UNCHANGED <<knStore, knMsg, knFound, knFaults, knFaulted, knLost>>
  PROVE  KnInv'
<1> DEFINE k == [at |-> "adding", src |-> s, agent |-> agent, text |-> text,
                 left |-> KnAttempts, next |-> 1, stalled |-> FALSE]
<1>1. /\ KnTypeInv /\ KnJobInv /\ KnOneAgent /\ KnRowInv /\ KnPursuedInv /\ KnStoreInv /\ KnFoundInv
  BY DEF KnInv
<1>2. /\ knJob \in [KnJobs -> KnJobType \union {KnFree}]
      /\ knSrc \in [KnSources -> KnRows \union {KnNoRow}]
  BY <1>1 DEF KnTypeInv
<1>3. k \in KnJobType
  <2>1. KnAttempts \in 0..KnAttempts /\ 1 \in 1..(KnMaxChunks + 1)
    BY KnNumbers
  <2> QED BY <2>1 DEF KnJobType, KnPlaces
<1>4. /\ knJob[j] = KnFree /\ knJob[j].at = "free" /\ knJob' = [knJob EXCEPT ![j] = k]
      /\ k.at = "adding" /\ k.src = s /\ k.agent = agent /\ k.text = text /\ k.left = KnAttempts
  BY DEF KnQueues, KnFree
<1> HIDE DEF k
<1>5. knJob'[j] = k /\ \A i \in KnJobs : i # j => knJob'[i] = knJob[i]
  BY <1>2, <1>4
<1>6. knSrc'[s] = row /\ \A t \in KnSources : t # s => knSrc'[t] = knSrc[t]
  BY <1>2
<1>7. row # KnNoRow
  BY DEF KnRows, KnNoRow
<1>8. KnTypeInv'
  <2>1. knJob' \in [KnJobs -> KnJobType \union {KnFree}] /\ knSrc' \in [KnSources -> KnRows \union {KnNoRow}]
    BY <1>2, <1>3, <1>4
  <2> QED BY <2>1, <1>1 DEF KnTypeInv, KnJobType, KnRows, KnEntries
<1>9. KnJobInv'
  <2> SUFFICES ASSUME NEW i \in KnJobs, knJob'[i].at # "free"
               PROVE  KnJobOK(knJob'[i], knSrc'[knJob'[i].src], knStore', knFaulted')
    BY DEF KnJobInv
  <2>1. CASE i = j
    BY <2>1, <1>4, <1>5, <1>6, KnNumbers DEF KnJobOK
  <2>2. CASE i # j
    <3>1. /\ knJob'[i] = knJob[i] /\ knJob[i].at # "free"
          /\ KnJobOK(knJob[i], knSrc[knJob[i].src], knStore, knFaulted)
      BY <2>2, <1>1, <1>5 DEF KnJobInv
    <3>2. knJob[i].src \in KnSources
      BY <3>1, <1>1, KnTyped DEF KnJobType
    <3>3. CASE knJob[i].src # s
      BY <3>1, <3>2, <3>3, <1>6
    <3>4. CASE knJob[i].src = s
      <4>1. knJob[i].agent = agent /\ knSrc[s] # KnNoRow /\ knSrc[s].text = text
        BY <3>1, <3>4
      <4> QED BY <3>1, <3>4, <4>1, <1>6, <1>7 DEF KnJobOK
    <3> QED BY <3>3, <3>4
  <2> QED BY <2>1, <2>2
<1>10. KnOneAgent'
  <2> SUFFICES ASSUME NEW i \in KnJobs, NEW o \in KnJobs, knJob'[i].at # "free", knJob'[o].at # "free",
                      knJob'[i].src = knJob'[o].src
               PROVE  knJob'[i].agent = knJob'[o].agent
    BY DEF KnOneAgent
  <2> QED BY <1>1, <1>4, <1>5 DEF KnOneAgent
<1>11. KnRowInv'
  BY <1>1, <1>6 DEF KnRowInv, KnRowOK
<1>12. KnPursuedInv'
  <2> SUFFICES ASSUME NEW t \in KnSources, knSrc'[t].status \in {"PENDING", "PROCESSING"}, t \notin knLost'
               PROVE  \E i \in KnJobs : knJob'[i].at \notin {"free", "ended"} /\ knJob'[i].src = t
    BY DEF KnPursuedInv
  <2>1. CASE t = s
    BY <2>1, <1>4, <1>5
  <2>2. CASE t # s
    <3>1. PICK i \in KnJobs : knJob[i].at \notin {"free", "ended"} /\ knJob[i].src = t
      BY <2>2, <1>1, <1>6 DEF KnPursuedInv
    <3> QED BY <3>1, <1>4, <1>5
  <2> QED BY <2>1, <2>2
<1>13. \A t : KnJobOf(t) => KnJobOf(t)'
  <2> SUFFICES ASSUME NEW t, KnJobOf(t) PROVE KnJobOf(t)'
    OBVIOUS
  <2>1. PICK i \in KnJobs : knJob[i].at # "free" /\ knJob[i].src = t
    BY DEF KnJobOf
  <2> QED BY <2>1, <1>4, <1>5 DEF KnJobOf
<1>14. KnStoreInv'
  BY <1>1, <1>13 DEF KnStoreInv
<1>15. KnFoundInv'
  <2> SUFFICES ASSUME NEW e \in knFound.entries, e[2] > 0
               PROVE  /\ KnJobOf(e[1])'
                      /\ \A i \in KnJobs : knJob'[i].at # "free" /\ knJob'[i].src = e[1] =>
                           knJob'[i].agent \in {knFound.agent, KnOrgWide}
    BY DEF KnFoundInv
  <2>1. /\ KnJobOf(e[1])
        /\ \A i \in KnJobs : knJob[i].at # "free" /\ knJob[i].src = e[1] =>
             knJob[i].agent \in {knFound.agent, KnOrgWide}
    BY <1>1 DEF KnFoundInv
  <2>2. PICK o \in KnJobs : knJob[o].at # "free" /\ knJob[o].src = e[1]
    BY <2>1 DEF KnJobOf
  <2>3. ASSUME NEW i \in KnJobs, knJob'[i].at # "free", knJob'[i].src = e[1]
        PROVE  knJob'[i].agent \in {knFound.agent, KnOrgWide}
    <3>1. CASE i = j
      <4>1. e[1] = s
        BY <2>3, <3>1, <1>4, <1>5
      <4>2. knJob[o].agent = agent /\ knJob[o].agent \in {knFound.agent, KnOrgWide}
        BY <4>1, <2>1, <2>2
      <4> QED BY <4>2, <3>1, <1>4, <1>5
    <3>2. CASE i # j
      BY <3>2, <2>1, <2>3, <1>5
    <3> QED BY <3>1, <3>2
  <2> QED BY <2>1, <2>3, <1>13
<1> QED BY <1>8, <1>9, <1>10, <1>11, <1>12, <1>14, <1>15 DEF KnInv

LEMMA KnCreateKeeps ==
  ASSUME KnInv, NEW s \in KnSources, NEW j \in KnJobs, NEW agent \in KnAgents \union {KnOrgWide},
         NEW text \in 0..KnUnreadable, KnCreate(s, agent, text, j)
  PROVE  KnInv'
<1> DEFINE row == [status |-> "PENDING", agent |-> agent, text |-> text, chunks |-> 0, error |-> FALSE]
<1>1. /\ row \in KnRows /\ row.status = "PENDING" /\ row.agent = agent /\ row.text = text
  BY KnNumbers DEF KnRows
<1>2. /\ knSrc' = [knSrc EXCEPT ![s] = row] /\ KnQueues(s, agent, text, j)
      /\ UNCHANGED <<knStore, knMsg, knFound, knFaults, knFaulted, knLost>>
  BY DEF KnCreate
<1>3. \A i \in KnJobs : knJob[i].at # "free" => knJob[i].src # s
  BY KnTyped DEF KnCreate, KnInv
<1> HIDE DEF row
<1> QED BY <1>1, <1>2, <1>3, KnQueueStep

LEMMA KnReindexKeeps ==
  ASSUME KnInv, NEW s \in KnSources, NEW j \in KnJobs, KnReindex(s, j) PROVE KnInv'
<1> DEFINE old == knSrc[s]
           row == [old EXCEPT !.status = "PENDING", !.chunks = 0, !.error = FALSE]
<1>1. old # KnNoRow /\ old \in KnRows
  BY KnTyped DEF KnReindex, KnRow, KnInv
<1>2. /\ row \in KnRows /\ row.status = "PENDING" /\ row.agent = old.agent /\ row.text = old.text
      /\ old.agent \in KnAgents \union {KnOrgWide} /\ old.text \in 0..KnUnreadable
  <2>1. 0 \in 0..KnMaxChunks
    BY KnNumbers
  <2> QED BY <1>1, <2>1 DEF KnRows
<1>3. /\ KnQueues(s, old.agent, old.text, j)
      /\ UNCHANGED <<knStore, knMsg, knFound, knFaults, knFaulted, knLost>>
  BY DEF KnReindex
<1>4. knSrc' = [knSrc EXCEPT ![s] = row]
  <2>1. knSrc \in [KnSources -> KnRows \union {KnNoRow}]
    BY DEF KnInv, KnTypeInv
  <2> QED BY <2>1 DEF KnReindex
<1>5. \A i \in KnJobs : knJob[i].at # "free" /\ knJob[i].src = s =>
        knJob[i].agent = old.agent /\ knJob[i].text = old.text
  BY <1>1 DEF KnInv, KnJobInv, KnJobOK
<1> HIDE DEF row
<1> QED BY <1>1, <1>2, <1>3, <1>4, <1>5, KnQueueStep, ZenonT(60)

LEMMA KnDeleteKeeps == ASSUME KnInv, NEW s \in KnSources, KnDelete(s) PROVE KnInv'
<1>1. /\ KnTypeInv /\ KnJobInv /\ KnOneAgent /\ KnRowInv /\ KnPursuedInv /\ KnStoreInv /\ KnFoundInv
  BY DEF KnInv
<1>2. /\ knSrc' = [knSrc EXCEPT ![s] = KnNoRow]
      /\ UNCHANGED <<knJob, knStore, knMsg, knFound, knFaults, knFaulted, knLost>>
  BY DEF KnDelete
<1>3. knSrc \in [KnSources -> KnRows \union {KnNoRow}]
  BY <1>1 DEF KnTypeInv
<1>4. /\ knSrc'[s] = KnNoRow /\ knSrc'[s].status = "NONE"
      /\ \A t \in KnSources : t # s => knSrc'[t] = knSrc[t]
  BY <1>2, <1>3 DEF KnNoRow
<1>5. KnTypeInv'
  <2>1. knSrc' \in [KnSources -> KnRows \union {KnNoRow}]
    BY <1>2, <1>3
  <2> QED BY <1>1, <1>2, <2>1 DEF KnTypeInv, KnJobType, KnRows, KnEntries
<1>6. KnJobInv'
  <2> SUFFICES ASSUME NEW i \in KnJobs, knJob[i].at # "free"
               PROVE  KnJobOK(knJob[i], knSrc'[knJob[i].src], knStore, knFaulted)
    BY <1>2 DEF KnJobInv
  <2>1. KnJobOK(knJob[i], knSrc[knJob[i].src], knStore, knFaulted) /\ knJob[i].src \in KnSources
    BY <1>1, KnTyped DEF KnJobInv, KnJobType
  <2>2. CASE knJob[i].src = s
    BY <2>1, <2>2, <1>4 DEF KnJobOK
  <2>3. CASE knJob[i].src # s
    BY <2>1, <2>3, <1>4
  <2> QED BY <2>2, <2>3
<1>7. KnRowInv' /\ KnPursuedInv'
  BY <1>1, <1>2, <1>4 DEF KnRowInv, KnRowOK, KnPursuedInv
<1>8. KnOneAgent' /\ KnStoreInv' /\ KnFoundInv'
  BY <1>1, <1>2 DEF KnOneAgent, KnStoreInv, KnFoundInv, KnJobOf
<1> QED BY <1>5, <1>6, <1>7, <1>8 DEF KnInv

\* The messages add entries without chunks, and mark no document that was unmarked before,
\* unless the fault is one of a message with a document's name.
LEMMA KnMessageKeeps ==
  ASSUME KnInv, NEW m \in KnMessages, KnRunEnds(m) \/ KnIndexMessage(m) PROVE KnInv'
<1>1. /\ KnTypeInv /\ KnJobInv /\ KnOneAgent /\ KnRowInv /\ KnPursuedInv /\ KnStoreInv /\ KnFoundInv
  BY DEF KnInv
<1>2. UNCHANGED <<knSrc, knJob, knFound, knLost>>
  BY DEF KnRunEnds, KnIndexMessage
<1>3. /\ knMsg' \in [KnMessages -> {"none", "queued", "stored", "failed"}]
      /\ knStore \subseteq knStore' /\ knStore' \subseteq knStore \union {<<m, 0>>}
      /\ knFaulted \subseteq knFaulted' /\ knFaulted' \subseteq KnSources \union KnMessages
      /\ knFaults' \in 0..KnMaxFaults
  <2>1. /\ knMsg \in [KnMessages -> {"none", "queued", "stored", "failed"}]
        /\ knFaulted \subseteq KnSources \union KnMessages /\ knFaults \in 0..KnMaxFaults
    BY <1>1 DEF KnTypeInv
  <2>2. KnFault(m) => /\ knFaulted \subseteq knFaulted' /\ knFaulted' \subseteq KnSources \union KnMessages
                      /\ knFaults' \in 0..KnMaxFaults
    BY <2>1, KnNumbers DEF KnFault
  <2>3. CASE KnRunEnds(m)
    BY <2>1, <2>2, <2>3 DEF KnRunEnds
  <2>4. CASE KnIndexMessage(m)
    BY <2>1, <2>2, <2>4 DEF KnIndexMessage
  <2> QED BY <2>3, <2>4
<1>4. knStore' \subseteq KnEntries
  BY <1>1, <1>3 DEF KnTypeInv, KnEntries
<1>5. KnTypeInv'
  BY <1>1, <1>2, <1>3, <1>4 DEF KnTypeInv, KnJobType, KnRows, KnEntries
<1>6. KnJobInv' /\ KnRowInv' /\ KnPursuedInv'
  <2>1. KnJobInv'
    BY <1>1, <1>2, <1>3 DEF KnJobInv, KnJobOK
  <2>2. KnRowInv'
    BY <1>1, <1>2, <1>3 DEF KnRowInv, KnRowOK
  <2> QED BY <2>1, <2>2, <1>1, <1>2 DEF KnPursuedInv
<1>7. KnOneAgent' /\ KnFoundInv'
  BY <1>1, <1>2 DEF KnOneAgent, KnFoundInv, KnJobOf
<1>8. KnStoreInv'
  <2> SUFFICES ASSUME NEW e \in knStore', e[2] > 0 PROVE KnJobOf(e[1])
    BY <1>2 DEF KnStoreInv, KnJobOf
  <2>1. e # <<m, 0>>
    OBVIOUS
  <2> QED BY <2>1, <1>1, <1>3 DEF KnStoreInv
<1> QED BY <1>5, <1>6, <1>7, <1>8 DEF KnInv

LEMMA KnAskKeeps == ASSUME KnInv, NEW a \in KnAgents, KnAsk(a) PROVE KnInv'
<1>1. /\ KnTypeInv /\ KnJobInv /\ KnOneAgent /\ KnRowInv /\ KnPursuedInv /\ KnStoreInv /\ KnFoundInv
  BY DEF KnInv
<1>2. UNCHANGED <<knSrc, knJob, knStore, knMsg, knFaults, knFaulted, knLost>>
  BY DEF KnAsk
<1>3. PICK close \in SUBSET knStore :
        knFound' = [agent |-> a, entries |-> KnDocuments(a, close) \union {e \in close : e[2] = 0}]
  BY DEF KnAsk
<1>4. /\ knFound'.agent = a /\ knFound'.entries \subseteq close
      /\ \A e \in knFound'.entries : e[2] > 0 => e \in KnDocuments(a, close)
  BY <1>3 DEF KnDocuments
<1>5. KnTypeInv'
  <2>1. knFound' \in [agent : KnAgents, entries : SUBSET KnEntries]
    BY <1>1, <1>3, <1>4 DEF KnTypeInv
  <2> QED BY <1>1, <1>2, <2>1 DEF KnTypeInv, KnJobType, KnRows, KnEntries
<1>6. KnFoundInv'
  <2> SUFFICES ASSUME NEW e \in knFound'.entries, e[2] > 0
               PROVE  /\ KnJobOf(e[1])
                      /\ \A j \in KnJobs : knJob[j].at # "free" /\ knJob[j].src = e[1] =>
                           knJob[j].agent \in {a, KnOrgWide}
    BY <1>2, <1>4 DEF KnFoundInv, KnJobOf
  <2>1. e \in knStore /\ KnJobOf(e[1])
    BY <1>1, <1>4 DEF KnStoreInv
  <2>2. PICK o \in KnJobs : knJob[o] # KnFree /\ knJob[o].src = e[1] /\ knJob[o].agent \in {a, KnOrgWide}
    BY <1>4 DEF KnDocuments, KnAgentsOf
  <2>3. knJob[o].at # "free"
    BY <2>2, <1>1, KnTyped
  <2> QED BY <2>1, <2>2, <2>3, <1>1 DEF KnOneAgent
<1>7. KnJobInv' /\ KnOneAgent' /\ KnRowInv' /\ KnPursuedInv' /\ KnStoreInv'
  BY <1>1, <1>2 DEF KnJobInv, KnOneAgent, KnRowInv, KnPursuedInv, KnStoreInv, KnJobOf
<1> QED BY <1>5, <1>6, <1>7 DEF KnInv

LEMMA KnStutterKeeps == ASSUME KnInv, UNCHANGED knVars PROVE KnInv'
BY DEF knVars, KnInv, KnTypeInv, KnJobInv, KnOneAgent, KnRowInv, KnPursuedInv, KnStoreInv, KnFoundInv,
   KnJobOf

LEMMA KnStep == KnInv /\ [KnNext]_knVars => KnInv'
<1> SUFFICES ASSUME KnInv, [KnNext]_knVars PROVE KnInv'
  OBVIOUS
<1>1. CASE \E s \in KnSources, j \in KnJobs :
             \/ \E agent \in KnAgents \union {KnOrgWide}, text \in 0..KnUnreadable :
                  KnCreate(s, agent, text, j)
             \/ KnReindex(s, j)
  BY <1>1, KnCreateKeeps, KnReindexKeeps
<1>2. CASE \E s \in KnSources : KnDelete(s)
  BY <1>2, KnDeleteKeeps
<1>3. CASE \E j \in KnJobs :
             KnAdd(j) \/ KnMark(j) \/ KnEmbed(j) \/ KnUpsert(j) \/ KnReady(j) \/ KnFail(j) \/ KnDie(j)
  BY <1>3, KnAddKeeps, KnMarkKeeps, KnEmbedKeeps, KnUpsertKeeps, KnReadyKeeps, KnFailKeeps, KnDieKeeps
<1>4. CASE \E m \in KnMessages : KnRunEnds(m) \/ KnIndexMessage(m)
  BY <1>4, KnMessageKeeps
<1>5. CASE \E a \in KnAgents : KnAsk(a)
  BY <1>5, KnAskKeeps
<1>6. CASE UNCHANGED knVars
  BY <1>6, KnStutterKeeps
<1> QED BY <1>1, <1>2, <1>3, <1>4, <1>5, <1>6 DEF KnNext

LEMMA KnInvGives ==
  ASSUME KnInv
  PROVE  /\ KnTypeOK /\ KnReadyIsWhole /\ KnUnfinishedIsPursued /\ KnFindsOwn
         /\ KnScopedTable => KnFailureNeedsFault
<1>1. /\ KnTypeInv /\ KnJobInv /\ KnOneAgent /\ KnRowInv /\ KnPursuedInv /\ KnStoreInv /\ KnFoundInv
  BY DEF KnInv
<1>2. KnTypeOK
  <2>1. \A j \in KnJobs : knJob[j] = KnFree \/ knJob[j] \in KnJobType
    BY <1>1 DEF KnTypeInv
  <2>2. \A s \in KnSources : knSrc[s] \in KnRows \union {KnNoRow}
    BY <1>1 DEF KnTypeInv
  <2>3. knFound.entries \subseteq KnEntries
    BY <1>1 DEF KnTypeInv
  <2> QED BY <1>1, <2>1, <2>2, <2>3 DEF KnTypeInv, KnTypeOK, KnJobType
<1>3. KnReadyIsWhole /\ (KnScopedTable => KnFailureNeedsFault)
  BY <1>1 DEF KnRowInv, KnRowOK, KnReadyIsWhole, KnFailureNeedsFault
<1>4. KnUnfinishedIsPursued
  BY <1>1, KnTyped DEF KnPursuedInv, KnUnfinishedIsPursued, KnLive
<1>5. KnFindsOwn
  <2> SUFFICES ASSUME NEW e \in knFound.entries, e[2] > 0, NEW j \in KnJobs, knJob[j] # KnFree,
                      knJob[j].src = e[1]
               PROVE  knJob[j].agent \in {knFound.agent, KnOrgWide}
    BY DEF KnFindsOwn, KnAgentsOf
  <2> QED BY <1>1, KnTyped DEF KnFoundInv
<1> QED BY <1>2, <1>3, <1>4, <1>5

\* For any documents, agents, jobs, attempts and faults: a READY document is whole, an unfinished
\* one is pursued, and a run finds the documents it may see; where the table has the columns the
\* code writes, a document fails only for what cannot be read or for a fault.
THEOREM KnSafeCorrect == ASSUME KnScopedTable PROVE KnSpec => []KnSafe
<1>1. KnInv => KnSafe
  BY KnInvGives DEF KnSafe
<1> QED BY <1>1, KnInitInv, KnStep, PTL DEF KnSpec

\* Whatever the table has, every part of it but the failures holds.
THEOREM KnScopelessCorrect == KnSpec => [](KnReadyIsWhole /\ KnUnfinishedIsPursued /\ KnFindsOwn)
<1>1. KnInv => KnReadyIsWhole /\ KnUnfinishedIsPursued /\ KnFindsOwn
  BY KnInvGives
<1> QED BY <1>1, KnInitInv, KnStep, PTL DEF KnSpec

\* Documents, jobs, entries and messages keep their shapes.
THEOREM KnTypeCorrect == KnSpec => []KnTypeOK
<1>1. KnInv => KnTypeOK
  BY KnInvGives
<1> QED BY <1>1, KnInitInv, KnStep, PTL DEF KnSpec

-----------------------------------------------------------------------------
(* What an agent remembers: any workers, jobs and answers *)

MmRowType == [facts : Seq(MmFacts), count : Nat, there : BOOLEAN]
MmWorkType ==
  [at : {"idle", "begin", "create", "ask", "sum"}]
    \union [at : {"merge"}, answer : MmAnswers]
    \union [at : {"write"}, answer : MmAnswers, facts : Seq(MmFacts)]

MmTypeInv ==
  /\ mmRow \in MmRowType /\ mmWork \in [MmWorkers -> MmWorkType]
  /\ mmQueued \in 0..MmMaxJobs /\ mmJobs \in 0..MmMaxJobs /\ mmFaults \in 0..MmMaxFaults
  /\ mmLearned \subseteq MmFacts /\ mmDropped \subseteq MmFacts
  /\ mmWritten \in Nat /\ mmOverlap \in BOOLEAN /\ mmTwins \in BOOLEAN

\* A sequence without twins.
MmOnce(s) == \A i, j \in DOMAIN s : s[i] = s[j] => i = j

\* A job waits or is under way once.
MmBusy == {w \in MmWorkers : mmWork[w].at # "idle"}
MmBudget == IsFiniteSet(MmBusy) /\ mmQueued + Cardinality(MmBusy) <= mmJobs

\* Until two jobs overlap, the one that is about to write read the row as it is.
MmKeptInv ==
  mmOverlap \/
    /\ mmLearned \subseteq Range(mmRow.facts) /\ mmDropped \intersect Range(mmRow.facts) = {}
    /\ \A w \in MmWorkers : mmWork[w].at = "write" =>
         /\ mmWork[w].facts = MmMerged(mmRow.facts, mmWork[w].answer)
         /\ \A v \in MmWorkers : mmWork[v].at = "write" => v = w

MmTwinsInv ==
  mmTwins \/
    /\ MmOnce(mmRow.facts)
    /\ \A w \in MmWorkers : /\ mmWork[w].at \in {"merge", "write"} => MmOnce(mmWork[w].answer.new)
                            /\ mmWork[w].at = "write" => MmOnce(mmWork[w].facts)

MmInv == MmTypeInv /\ MmBudget /\ MmKeptInv /\ MmTwinsInv /\ mmRow.count = mmWritten

\* What is picked of a sequence is what stands at those positions, once if it was there once.
LEMMA PickedRange ==
  ASSUME NEW T, NEW s \in Seq(T), NEW at \in SUBSET (DOMAIN s)
  PROVE  /\ Picked(s, at) \in Seq(T)
         /\ Range(Picked(s, at)) = {s[i] : i \in at}
         /\ (\A i, j \in DOMAIN s : s[i] = s[j] => i = j) =>
              \A i, j \in DOMAIN Picked(s, at) : Picked(s, at)[i] = Picked(s, at)[j] => i = j
<1> DEFINE p == Picked(s, at)
           n == Cardinality(at)
<1>1. p \in Seq(T) /\ Len(p) = n /\ n \in Nat
  BY PickedIs
<1> DEFINE f == PickedAt(at)
<1>2. /\ f \in [1..n -> at] /\ p = [k \in 1..n |-> s[f[k]]]
      /\ \A j, k \in 1..n : j < k => f[j] < f[k]
      /\ \A i \in at : \E k \in 1..n : f[k] = i
  BY PickedIs
<1> HIDE DEF p, n, f
<1>3. DOMAIN p = 1..n
  BY <1>1
<1>4. Range(p) = {s[i] : i \in at}
  BY <1>2, <1>3 DEF Range
<1>5. ASSUME \A i, j \in DOMAIN s : s[i] = s[j] => i = j, NEW j \in 1..n, NEW k \in 1..n, p[j] = p[k]
      PROVE  j = k
  <2>1. f[j] = f[k] /\ f[j] \in Nat
    BY <1>2, <1>5
  <2>2. ~(f[j] < f[k]) /\ ~(f[k] < f[j])
    BY <2>1
  <2>3. ~(j < k) /\ ~(k < j)
    BY <2>2, <1>2
  <2> QED BY <2>3, <1>1
<1> QED BY <1>1, <1>3, <1>4, <1>5 DEF p

\* Appending puts the ranges together, and makes no twins of two that share nothing.
LEMMA MmAppended ==
  ASSUME NEW T, NEW s \in Seq(T), NEW t \in Seq(T)
  PROVE  /\ s \o t \in Seq(T) /\ Range(s \o t) = Range(s) \union Range(t)
         /\ MmOnce(s) /\ MmOnce(t) /\ Range(s) \intersect Range(t) = {} => MmOnce(s \o t)
<1> DEFINE u == s \o t
<1>1. /\ u \in Seq(T) /\ Len(u) = Len(s) + Len(t) /\ Len(s) \in Nat /\ Len(t) \in Nat
      /\ DOMAIN u = 1..(Len(s) + Len(t)) /\ DOMAIN s = 1..Len(s) /\ DOMAIN t = 1..Len(t)
  OBVIOUS
<1>2. /\ \A i \in 1..Len(s) : u[i] = s[i]
      /\ \A i \in 1..(Len(s) + Len(t)) : i > Len(s) => u[i] = t[i - Len(s)]
  OBVIOUS
<1> HIDE DEF u
<1>3. \A i \in DOMAIN u : (i \in DOMAIN s /\ u[i] = s[i]) \/
                          (i > Len(s) /\ i - Len(s) \in DOMAIN t /\ u[i] = t[i - Len(s)])
  BY <1>1, <1>2
<1>4. \A i \in DOMAIN t : i + Len(s) \in DOMAIN u /\ u[i + Len(s)] = t[i]
  <2> TAKE i \in DOMAIN t
  <2>1. i + Len(s) \in 1..(Len(s) + Len(t)) /\ i + Len(s) > Len(s) /\ (i + Len(s)) - Len(s) = i
    BY <1>1
  <2> QED BY <2>1, <1>1, <1>2
<1>5. \A i \in DOMAIN s : i \in DOMAIN u /\ u[i] = s[i]
  BY <1>1, <1>2
<1>6. Range(u) = Range(s) \union Range(t)
  <2>1. Range(u) \subseteq Range(s) \union Range(t)
    BY <1>3 DEF Range
  <2>2. Range(s) \subseteq Range(u)
    BY <1>5 DEF Range
  <2>3. Range(t) \subseteq Range(u)
    BY <1>4 DEF Range
  <2> QED BY <2>1, <2>2, <2>3
<1>7. ASSUME MmOnce(s), MmOnce(t), Range(s) \intersect Range(t) = {}, NEW i \in DOMAIN u, NEW j \in DOMAIN u,
             u[i] = u[j]
      PROVE  i = j
  <2>1. CASE i \in DOMAIN s /\ u[i] = s[i] /\ j \in DOMAIN s /\ u[j] = s[j]
    BY <1>7, <2>1 DEF MmOnce
  <2>2. CASE /\ i > Len(s) /\ i - Len(s) \in DOMAIN t /\ u[i] = t[i - Len(s)]
             /\ j > Len(s) /\ j - Len(s) \in DOMAIN t /\ u[j] = t[j - Len(s)]
    <3>1. i - Len(s) = j - Len(s)
      BY <1>7, <2>2 DEF MmOnce
    <3> QED BY <3>1, <1>1
  <2>3. CASE i \in DOMAIN s /\ u[i] = s[i] /\ j - Len(s) \in DOMAIN t /\ u[j] = t[j - Len(s)]
    BY <1>7, <2>3 DEF Range
  <2>4. CASE j \in DOMAIN s /\ u[j] = s[j] /\ i - Len(s) \in DOMAIN t /\ u[i] = t[i - Len(s)]
    BY <1>7, <2>4 DEF Range
  <2> QED BY <1>3, <2>1, <2>2, <2>3, <2>4
<1> QED BY <1>1, <1>6, <1>7 DEF MmOnce, u

\* What is left of the facts and what is new, and no twins that were not there.
LEMMA MmMergedIs ==
  ASSUME NEW facts \in Seq(MmFacts), NEW answer \in MmAnswers
  PROVE  /\ MmMerged(facts, answer) \in Seq(MmFacts)
         /\ Range(MmMerged(facts, answer)) = (Range(facts) \ answer.gone) \union Range(answer.new)
         /\ MmOnce(facts) /\ MmOnce(answer.new) => MmOnce(MmMerged(facts, answer))
<1> DEFINE left == {i \in DOMAIN facts : facts[i] \notin answer.gone}
           kept == Picked(facts, left)
           fresh == {i \in DOMAIN answer.new : answer.new[i] \notin Range(kept)}
           added == Picked(answer.new, fresh)
<1>1. answer.new \in Seq(MmFacts)
  <2>1. PICK m \in 0..2 : answer.new \in [1..m -> MmFacts]
    BY DEF MmAnswers
  <2> QED BY <2>1
<1>2. left \in SUBSET (DOMAIN facts) /\ fresh \in SUBSET (DOMAIN answer.new)
  OBVIOUS
<1>3. MmMerged(facts, answer) = kept \o added
  BY DEF MmMerged
<1>4. /\ kept \in Seq(MmFacts) /\ Range(kept) = {facts[i] : i \in left}
      /\ MmOnce(facts) => MmOnce(kept)
  <2> HIDE DEF left
  <2>1. /\ Picked(facts, left) \in Seq(MmFacts)
        /\ Range(Picked(facts, left)) = {facts[i] : i \in left}
    BY <1>2, PickedRange
  <2>2. (\A i, j \in DOMAIN facts : facts[i] = facts[j] => i = j) =>
           \A i, j \in DOMAIN Picked(facts, left) : Picked(facts, left)[i] = Picked(facts, left)[j] => i = j
    BY <1>2, PickedRange
  <2> QED BY <2>1, <2>2 DEF MmOnce
<1>5. Range(kept) = Range(facts) \ answer.gone
  BY <1>4 DEF Range
<1> HIDE DEF kept, left
<1>6. /\ added \in Seq(MmFacts) /\ Range(added) = {answer.new[i] : i \in fresh}
      /\ MmOnce(answer.new) => MmOnce(added)
  <2> HIDE DEF fresh
  <2> QED BY <1>1, <1>2, PickedRange DEF MmOnce
<1>7. Range(added) = Range(answer.new) \ Range(kept)
  BY <1>6 DEF Range
<1> HIDE DEF added, fresh
<1>8. /\ kept \o added \in Seq(MmFacts) /\ Range(kept \o added) = Range(kept) \union Range(added)
      /\ MmOnce(kept) /\ MmOnce(added) /\ Range(kept) \intersect Range(added) = {} => MmOnce(kept \o added)
  BY <1>4, <1>6, MmAppended
<1> QED BY <1>3, <1>4, <1>5, <1>6, <1>7, <1>8

LEMMA MmInitInv == MmInit => MmInv
<1> SUFFICES ASSUME MmInit PROVE MmInv
  OBVIOUS
<1>1. mmRow = [facts |-> <<>>, count |-> 0, there |-> FALSE] /\ \A w \in MmWorkers : mmWork[w] = MmIdle
  BY DEF MmInit, MmNone
<1>2. mmRow \in MmRowType /\ MmIdle \in MmWorkType /\ MmIdle.at = "idle"
  BY <1>1 DEF MmRowType, MmWorkType, MmIdle
<1>3. MmTypeInv
  <2>1. 0 \in 0..MmMaxJobs /\ 0 \in 0..MmMaxFaults
    BY MmAssumption
  <2>2. mmWork \in [MmWorkers -> MmWorkType]
    BY <1>2 DEF MmInit
  <2> QED BY <1>1, <1>2, <2>1, <2>2 DEF MmInit, MmTypeInv
<1>5. MmBudget
  <2>1. MmBusy = {}
    BY <1>1, <1>2 DEF MmBusy
  <2> QED BY <2>1, FS_EmptySet DEF MmBudget, MmInit
<1>4. MmKeptInv /\ MmTwinsInv
  BY <1>1, <1>2 DEF MmInit, MmKeptInv, MmTwinsInv, MmOnce
<1> QED BY <1>1, <1>3, <1>4, <1>5 DEF MmInv, MmInit

\* A worker that neither writes the row nor is about to write it.
LEMMA MmWorkerStep ==
  ASSUME MmInv, NEW w \in MmWorkers, NEW k \in MmWorkType, mmWork' = [mmWork EXCEPT ![w] = k],
         k.at # "write", k.at = "merge" => mmTwins' \/ MmOnce(k.answer.new),
         mmRow' \in MmRowType, mmRow'.facts = mmRow.facts, mmRow'.count = mmWritten', mmWritten' \in Nat,
         mmTwins' \in BOOLEAN, mmTwins => mmTwins',
         mmQueued' \in 0..MmMaxJobs, mmJobs' \in 0..MmMaxJobs, mmFaults' \in 0..MmMaxFaults,
         MmBudget', UNCHANGED <<mmLearned, mmDropped, mmOverlap>>
  PROVE  MmInv'
<1>1. MmTypeInv /\ MmKeptInv /\ MmTwinsInv
  BY DEF MmInv
<1>2. /\ mmWork \in [MmWorkers -> MmWorkType] /\ mmWork'[w] = k
      /\ \A v \in MmWorkers : v # w => mmWork'[v] = mmWork[v]
  BY <1>1 DEF MmTypeInv
<1>3. MmTypeInv'
  <2>1. mmWork' \in [MmWorkers -> MmWorkType]
    BY <1>2
  <2>2. mmRow' \in MmRowType
    OBVIOUS
  <2> QED BY <1>1, <2>1, <2>2 DEF MmTypeInv, MmRowType, MmWorkType
<1>4. MmKeptInv'
  <2> SUFFICES ASSUME ~mmOverlap
               PROVE  /\ mmLearned \subseteq Range(mmRow.facts) /\ mmDropped \intersect Range(mmRow.facts) = {}
                      /\ \A u \in MmWorkers : mmWork'[u].at = "write" =>
                           /\ mmWork'[u].facts = MmMerged(mmRow.facts, mmWork'[u].answer)
                           /\ \A v \in MmWorkers : mmWork'[v].at = "write" => v = u
    BY DEF MmKeptInv
  <2>1. \A u \in MmWorkers : mmWork'[u].at = "write" => mmWork'[u] = mmWork[u]
    BY <1>2
  <2> QED BY <2>1, <1>1 DEF MmKeptInv
<1>5. MmTwinsInv'
  BY <1>1, <1>2 DEF MmTwinsInv
<1> QED BY <1>3, <1>4, <1>5 DEF MmInv

\* The types of the queue and of a worker, one by one.
LEMMA MmTyped ==
  ASSUME MmInv
  PROVE  /\ mmQueued \in 0..MmMaxJobs /\ mmJobs \in 0..MmMaxJobs /\ mmFaults \in 0..MmMaxFaults
         /\ MmMaxJobs \in Nat /\ MmMaxFaults \in Nat
         /\ mmRow \in MmRowType /\ mmRow.count = mmWritten /\ mmWritten \in Nat
         /\ mmTwins \in BOOLEAN /\ mmOverlap \in BOOLEAN
         /\ mmWork \in [MmWorkers -> MmWorkType]
         /\ \A w \in MmWorkers : mmWork[w] \in MmWorkType
         /\ MmIdle \in MmWorkType /\ MmIdle.at = "idle"
         /\ \A p \in {"begin", "create", "ask", "sum"} : [at |-> p] \in MmWorkType /\ [at |-> p].at = p
BY MmAssumption DEF MmInv, MmTypeInv, MmWorkType, MmIdle

\* A worker goes on with its job, or ends it.
LEMMA MmBusyStep ==
  ASSUME MmInv, NEW w \in MmWorkers, NEW k \in MmWorkType, mmWork[w].at # "idle",
         mmWork' = [mmWork EXCEPT ![w] = k], UNCHANGED <<mmQueued, mmJobs>>
  PROVE  MmBudget'
<1>1. MmBudget /\ mmWork \in [MmWorkers -> MmWorkType] /\ mmQueued \in Nat /\ mmJobs \in Nat
  BY DEF MmInv, MmTypeInv
<1>2. MmBusy' \subseteq MmBusy
  BY <1>1 DEF MmBusy
<1>3. IsFiniteSet(MmBusy') /\ Cardinality(MmBusy') <= Cardinality(MmBusy)
  BY <1>1, <1>2, FS_Subset DEF MmBudget
<1>4. Cardinality(MmBusy') \in Nat /\ Cardinality(MmBusy) \in Nat
  BY <1>1, <1>3, FS_CardinalityType DEF MmBudget
<1> QED BY <1>1, <1>3, <1>4 DEF MmBudget

LEMMA MmSummarizeKeeps == ASSUME MmInv, NEW w \in MmWorkers, MmSummarize(w) PROVE MmInv'
<1>1. /\ mmRow' = [mmRow EXCEPT !.count = mmRow.count + 1] /\ mmWritten' = mmWritten + 1
      /\ mmWork' = [mmWork EXCEPT ![w] = MmIdle] /\ mmWork[w].at # "idle"
      /\ UNCHANGED <<mmQueued, mmJobs, mmFaults, mmLearned, mmDropped, mmOverlap, mmTwins>>
  BY DEF MmSummarize
<1>2. mmRow \in MmRowType /\ mmRow.count = mmWritten /\ mmWritten \in Nat
  BY MmTyped
<1>3. /\ mmRow' \in MmRowType /\ mmRow'.facts = mmRow.facts /\ mmRow'.count = mmWritten'
      /\ mmWritten' \in Nat
  BY <1>1, <1>2 DEF MmRowType
<1>4. MmBudget'
  BY <1>1, MmTyped, MmBusyStep
<1> QED BY <1>1, <1>3, <1>4, MmTyped, MmWorkerStep

LEMMA MmFindKeeps == ASSUME MmInv, NEW w \in MmWorkers, MmFind(w) PROVE MmInv'
<1> DEFINE p == IF mmRow.there THEN "ask" ELSE "create"
           k == [mmWork[w] EXCEPT !.at = p]
<1>1. /\ mmWork' = [mmWork EXCEPT ![w] = k] /\ mmWork[w].at = "begin"
      /\ UNCHANGED <<mmRow, mmQueued, mmJobs, mmFaults, mmLearned, mmDropped, mmWritten, mmOverlap, mmTwins>>
  BY DEF MmFind, MmHistory
<1>2. p \in {"ask", "create"}
  OBVIOUS
<1>3. k \in MmWorkType /\ k.at = p
  <2>1. mmWork[w] \in [at : {"idle", "begin", "create", "ask", "sum"}]
    BY <1>1, MmTyped DEF MmWorkType
  <2> QED BY <1>2, <2>1 DEF MmWorkType
<1> HIDE DEF k, p
<1>4. MmBudget'
  BY <1>1, <1>3, MmBusyStep
<1> QED BY <1>1, <1>2, <1>3, <1>4, MmTyped, MmWorkerStep

LEMMA MmCreateKeeps == ASSUME MmInv, NEW w \in MmWorkers, MmCreate(w) PROVE MmInv'
<1> DEFINE k == IF mmRow.there THEN MmIdle ELSE [at |-> "ask"]
<1>1. /\ mmRow' = [mmRow EXCEPT !.there = TRUE] /\ mmWork' = [mmWork EXCEPT ![w] = k]
      /\ mmWork[w].at # "idle"
      /\ UNCHANGED <<mmQueued, mmJobs, mmFaults, mmLearned, mmDropped, mmWritten, mmOverlap, mmTwins>>
  BY DEF MmCreate, MmHistory
<1>2. k \in MmWorkType /\ k.at \in {"idle", "ask"}
  BY MmTyped
<1>3. mmRow' \in MmRowType /\ mmRow'.facts = mmRow.facts /\ mmRow'.count = mmRow.count
  BY <1>1, MmTyped DEF MmRowType
<1> HIDE DEF k
<1>4. MmBudget'
  BY <1>1, <1>2, MmBusyStep
<1> QED BY <1>1, <1>2, <1>3, <1>4, MmTyped, MmWorkerStep

LEMMA MmRunEndsKeeps == ASSUME MmInv, MmRunEnds PROVE MmInv'
<1>1. /\ mmJobs < MmMaxJobs /\ mmJobs' = mmJobs + 1 /\ mmQueued' = mmQueued + 1
      /\ UNCHANGED <<mmRow, mmWork, mmFaults, mmLearned, mmDropped, mmWritten, mmOverlap, mmTwins>>
  BY DEF MmRunEnds, MmHistory
<1>2. MmTypeInv /\ MmBudget /\ MmKeptInv /\ MmTwinsInv
  BY DEF MmInv
<1>3. /\ mmQueued \in Nat /\ mmJobs \in Nat /\ MmMaxJobs \in Nat /\ IsFiniteSet(MmBusy)
      /\ mmQueued + Cardinality(MmBusy) <= mmJobs
  BY <1>2, MmTyped DEF MmBudget
<1>4. Cardinality(MmBusy) \in Nat
  BY <1>3, FS_CardinalityType
<1>5. mmQueued' \in 0..MmMaxJobs /\ mmJobs' \in 0..MmMaxJobs
  BY <1>1, <1>3, <1>4
<1>6. MmBudget'
  <2>1. MmBusy' = MmBusy
    BY <1>1 DEF MmBusy
  <2> QED BY <2>1, <1>1, <1>3, <1>4 DEF MmBudget
<1>7. MmTypeInv' /\ MmKeptInv' /\ MmTwinsInv'
  BY <1>1, <1>2, <1>5 DEF MmTypeInv, MmKeptInv, MmTwinsInv
<1> QED BY <1>1, <1>6, <1>7, MmTyped DEF MmInv

LEMMA MmTakeKeeps == ASSUME MmInv, NEW w \in MmWorkers, MmTake(w) PROVE MmInv'
<1>1. /\ mmWork[w] = MmIdle /\ mmQueued > 0 /\ mmQueued' = mmQueued - 1
      /\ UNCHANGED <<mmRow, mmJobs, mmFaults, mmLearned, mmDropped, mmWritten, mmOverlap, mmTwins>>
      /\ mmWork' \in {mmWork, [mmWork EXCEPT ![w] = [at |-> "begin"]]}
  BY DEF MmTake, MmHistory
<1>2. /\ mmQueued \in 0..MmMaxJobs /\ mmJobs \in 0..MmMaxJobs /\ MmMaxJobs \in Nat
      /\ mmWork \in [MmWorkers -> MmWorkType] /\ MmIdle \in MmWorkType /\ MmIdle.at = "idle"
  BY MmTyped
<1>3. PICK p \in {"idle", "begin"} : mmWork' = [mmWork EXCEPT ![w] = [at |-> p]]
  <2>1. mmWork = [mmWork EXCEPT ![w] = [at |-> "idle"]]
    BY <1>1, <1>2 DEF MmIdle
  <2> QED BY <1>1, <2>1
<1> DEFINE k == [at |-> p]
<1>4. k \in MmWorkType /\ k.at = p
  BY DEF MmWorkType
<1>5. mmWork' = [mmWork EXCEPT ![w] = k]
  BY <1>3
<1> HIDE DEF k
<1>6. IsFiniteSet(MmBusy) /\ mmQueued + Cardinality(MmBusy) <= mmJobs /\ Cardinality(MmBusy) \in Nat
  BY FS_CardinalityType DEF MmInv, MmBudget
<1>7. MmBusy' \subseteq MmBusy \union {w}
  BY <1>2, <1>5 DEF MmBusy
<1>8. IsFiniteSet(MmBusy') /\ Cardinality(MmBusy') <= Cardinality(MmBusy) + 1 /\ Cardinality(MmBusy') \in Nat
  <2>1. /\ IsFiniteSet(MmBusy \union {w}) /\ Cardinality(MmBusy \union {w}) <= Cardinality(MmBusy) + 1
        /\ Cardinality(MmBusy \union {w}) \in Nat
    <3>1. /\ IsFiniteSet(MmBusy \union {w})
          /\ Cardinality(MmBusy \union {w}) =
               IF w \in MmBusy THEN Cardinality(MmBusy) ELSE Cardinality(MmBusy) + 1
      BY <1>6, FS_AddElement
    <3>2. Cardinality(MmBusy \union {w}) \in Nat
      BY <3>1, FS_CardinalityType
    <3>3. Cardinality(MmBusy \union {w}) <= Cardinality(MmBusy) + 1
      <4> DEFINE a == Cardinality(MmBusy)
                 b == Cardinality(MmBusy \union {w})
      <4>1. a \in Nat /\ (b = a \/ b = a + 1)
        BY <1>6, <3>1
      <4> HIDE DEF a, b
      <4>2. b <= a + 1
        BY <4>1
      <4> QED BY <4>2 DEF a, b
    <3> QED BY <3>1, <3>2, <3>3
  <2>2. IsFiniteSet(MmBusy') /\ Cardinality(MmBusy') <= Cardinality(MmBusy \union {w})
    BY <2>1, <1>7, FS_Subset
  <2>3. Cardinality(MmBusy') \in Nat
    BY <2>2, FS_CardinalityType
  <2> QED BY <1>6, <2>1, <2>2, <2>3
<1>9. MmBudget' /\ mmQueued' \in 0..MmMaxJobs
  <2>1. mmQueued' \in 0..MmMaxJobs
    BY <1>1, <1>2
  <2>2. mmQueued' + Cardinality(MmBusy') <= mmJobs'
    BY <1>1, <1>2, <1>6, <1>8
  <2> QED BY <2>1, <2>2, <1>8 DEF MmBudget
<1> QED BY <1>1, <1>3, <1>4, <1>5, <1>9, MmTyped, MmWorkerStep

LEMMA MmDieKeeps == ASSUME MmInv, NEW w \in MmWorkers, MmDie(w) PROVE MmInv'
<1>1. /\ mmWork[w] # MmIdle /\ mmFaults < MmMaxFaults /\ mmWork' = [mmWork EXCEPT ![w] = MmIdle]
      /\ mmQueued' = mmQueued + 1 /\ mmFaults' = mmFaults + 1
      /\ UNCHANGED <<mmRow, mmJobs, mmLearned, mmDropped, mmWritten, mmOverlap, mmTwins>>
  BY DEF MmDie, MmHistory
<1>2. /\ mmQueued \in 0..MmMaxJobs /\ mmJobs \in 0..MmMaxJobs /\ MmMaxJobs \in Nat
      /\ mmFaults \in 0..MmMaxFaults /\ MmMaxFaults \in Nat
      /\ mmWork \in [MmWorkers -> MmWorkType] /\ MmIdle \in MmWorkType /\ MmIdle.at = "idle"
  BY MmTyped
<1>3. mmWork[w].at # "idle"
  <2>1. mmWork[w] \in MmWorkType
    BY <1>2
  <2>2. \A k \in [at : {"idle", "begin", "create", "ask", "sum"}] : k = [at |-> k.at]
    OBVIOUS
  <2>3. \A k \in MmWorkType : k.at = "idle" => k = MmIdle
    BY <2>2 DEF MmWorkType, MmIdle
  <2> QED BY <1>1, <2>1, <2>3
<1>4. IsFiniteSet(MmBusy) /\ mmQueued + Cardinality(MmBusy) <= mmJobs /\ Cardinality(MmBusy) \in Nat
  BY FS_CardinalityType DEF MmInv, MmBudget
<1>5. MmBusy' = MmBusy \ {w} /\ w \in MmBusy
  BY <1>1, <1>2, <1>3 DEF MmBusy
<1>6. IsFiniteSet(MmBusy') /\ Cardinality(MmBusy') = Cardinality(MmBusy) - 1 /\ Cardinality(MmBusy') \in Nat
  <2>1. IsFiniteSet(MmBusy') /\ Cardinality(MmBusy') = Cardinality(MmBusy) - 1
    BY <1>4, <1>5, FS_RemoveElement
  <2> QED BY <2>1, FS_CardinalityType
<1>7. MmBudget' /\ mmQueued' \in 0..MmMaxJobs /\ mmFaults' \in 0..MmMaxFaults
  <2>1. mmQueued' + Cardinality(MmBusy') <= mmJobs'
    BY <1>1, <1>2, <1>4, <1>6
  <2>2. mmQueued' \in 0..MmMaxJobs /\ mmFaults' \in 0..MmMaxFaults
    BY <1>1, <1>2, <1>6, <2>1
  <2> QED BY <2>1, <2>2, <1>6 DEF MmBudget
<1> QED BY <1>1, <1>2, <1>7, MmTyped, MmWorkerStep

LEMMA MmAskKeeps == ASSUME MmInv, NEW w \in MmWorkers, MmAsk(w) PROVE MmInv'
<1>1. PICK answer \in MmAnswers :
        /\ mmWork' = [mmWork EXCEPT ![w] =
             IF answer.new # <<>> \/ answer.gone # {} THEN [at |-> "merge", answer |-> answer]
             ELSE IF answer.sum THEN [at |-> "sum"] ELSE MmIdle]
        /\ mmTwins' = (mmTwins \/ (Len(answer.new) = 2 /\ answer.new[1] = answer.new[2]))
  BY DEF MmAsk
<1>2. /\ mmWork[w].at = "ask"
      /\ UNCHANGED <<mmRow, mmQueued, mmJobs, mmFaults, mmLearned, mmDropped, mmWritten, mmOverlap>>
  BY DEF MmAsk
<1> DEFINE k == IF answer.new # <<>> \/ answer.gone # {} THEN [at |-> "merge", answer |-> answer]
                ELSE IF answer.sum THEN [at |-> "sum"] ELSE MmIdle
<1>3. k \in MmWorkType /\ k.at # "write" /\ (k.at = "merge" => k.answer = answer)
  <2>1. [at |-> "merge", answer |-> answer] \in MmWorkType
    BY DEF MmWorkType
  <2> QED BY <2>1, MmTyped
<1>4. mmWork' = [mmWork EXCEPT ![w] = k]
  BY <1>1
<1> HIDE DEF k
<1>5. mmTwins' \/ MmOnce(answer.new)
  <2>1. PICK m \in 0..2 : answer.new \in [1..m -> MmFacts]
    BY DEF MmAnswers
  <2>2. CASE m = 2
    <3>1. Len(answer.new) = 2 /\ DOMAIN answer.new = 1..2
      BY <2>1, <2>2
    <3>2. mmTwins' \/ answer.new[1] # answer.new[2]
      BY <1>1, <3>1
    <3>3. \A i \in 1..2 : i = 1 \/ i = 2
      OBVIOUS
    <3> QED BY <3>1, <3>2, <3>3 DEF MmOnce
  <2>3. CASE m < 2
    <3>1. \A i, j \in 1..m : i = j
      BY <2>3
    <3>2. DOMAIN answer.new = 1..m
      BY <2>1
    <3> QED BY <3>1, <3>2 DEF MmOnce
  <2> QED BY <2>2, <2>3
<1>6. mmTwins' \in BOOLEAN /\ (mmTwins => mmTwins')
  BY <1>1, MmTyped
<1>7. MmBudget'
  BY <1>2, <1>3, <1>4, MmBusyStep
<1> QED BY <1>2, <1>3, <1>4, <1>5, <1>6, <1>7, MmTyped, MmWorkerStep

LEMMA MmMergeKeeps == ASSUME MmInv, NEW w \in MmWorkers, MmMerge(w) PROVE MmInv'
<1> DEFINE answer == mmWork[w].answer
           merged == MmMerged(mmRow.facts, answer)
           k == [at |-> "write", answer |-> answer, facts |-> merged]
<1>1. /\ mmWork[w].at = "merge" /\ mmWork' = [mmWork EXCEPT ![w] = k]
      /\ mmOverlap' = (mmOverlap \/ \E v \in MmWorkers : mmWork[v].at = "write")
      /\ UNCHANGED <<mmRow, mmQueued, mmJobs, mmFaults, mmLearned, mmDropped, mmWritten, mmTwins>>
  BY DEF MmMerge
<1>2. /\ mmRow.facts \in Seq(MmFacts) /\ mmWork \in [MmWorkers -> MmWorkType]
      /\ MmTypeInv /\ MmKeptInv /\ MmTwinsInv
  BY MmTyped DEF MmInv, MmRowType
<1>3. answer \in MmAnswers
  <2>1. mmWork[w] \in [at : {"merge"}, answer : MmAnswers]
    BY <1>1, <1>2 DEF MmWorkType
  <2> QED BY <2>1
<1>4. /\ merged \in Seq(MmFacts)
      /\ MmOnce(mmRow.facts) /\ MmOnce(answer.new) => MmOnce(merged)
  BY <1>2, <1>3, MmMergedIs
<1>5. k \in MmWorkType
  <2> HIDE DEF answer, merged
  <2> QED BY <1>3, <1>4 DEF MmWorkType
<1>6. k.at = "write" /\ k.answer = answer /\ k.facts = merged
  OBVIOUS
<1> HIDE DEF k
<1>7. MmBudget'
  BY <1>1, <1>5, MmBusyStep
<1>8. mmWork'[w] = k /\ \A v \in MmWorkers : v # w => mmWork'[v] = mmWork[v]
  BY <1>1, <1>2
<1>9. MmTypeInv'
  <2>1. mmWork' \in [MmWorkers -> MmWorkType]
    BY <1>1, <1>2, <1>5
  <2>2. mmOverlap' \in BOOLEAN
    BY <1>1, <1>2 DEF MmTypeInv
  <2> QED BY <1>1, <1>2, <2>1, <2>2 DEF MmTypeInv
<1>10. MmKeptInv'
  <2> SUFFICES ASSUME ~mmOverlap'
               PROVE  /\ mmLearned \subseteq Range(mmRow.facts) /\ mmDropped \intersect Range(mmRow.facts) = {}
                      /\ \A u \in MmWorkers : mmWork'[u].at = "write" =>
                           /\ mmWork'[u].facts = MmMerged(mmRow.facts, mmWork'[u].answer)
                           /\ \A v \in MmWorkers : mmWork'[v].at = "write" => v = u
    BY <1>1 DEF MmKeptInv
  <2>1. ~mmOverlap /\ \A v \in MmWorkers : mmWork[v].at # "write"
    BY <1>1
  <2>2. \A u \in MmWorkers : mmWork'[u].at = "write" => u = w
    BY <2>1, <1>8
  <2>3. mmWork'[w].facts = MmMerged(mmRow.facts, mmWork'[w].answer)
    BY <1>6, <1>8
  <2> QED BY <1>2, <2>1, <2>2, <2>3 DEF MmKeptInv
<1>11. MmTwinsInv'
  <2> SUFFICES ASSUME ~mmTwins
               PROVE  /\ MmOnce(mmRow.facts)
                      /\ \A u \in MmWorkers :
                            /\ mmWork'[u].at \in {"merge", "write"} => MmOnce(mmWork'[u].answer.new)
                            /\ mmWork'[u].at = "write" => MmOnce(mmWork'[u].facts)
    BY <1>1 DEF MmTwinsInv
  <2>1. MmOnce(mmRow.facts) /\ MmOnce(answer.new)
    BY <1>1, <1>2 DEF MmTwinsInv
  <2>2. MmOnce(merged)
    BY <2>1, <1>4
  <2>3. MmOnce(mmWork'[w].answer.new) /\ MmOnce(mmWork'[w].facts)
    BY <1>6, <1>8, <2>1, <2>2
  <2> QED BY <1>2, <1>8, <2>1, <2>3 DEF MmTwinsInv
<1> QED BY <1>1, <1>7, <1>9, <1>10, <1>11, MmTyped DEF MmInv

LEMMA MmWriteKeeps == ASSUME MmInv, NEW w \in MmWorkers, MmWrite(w) PROVE MmInv'
<1> DEFINE answer == mmWork[w].answer
           facts == mmWork[w].facts
           k == IF answer.sum THEN [at |-> "sum"] ELSE MmIdle
<1>1. /\ mmWork[w].at = "write" /\ mmRow' = [mmRow EXCEPT !.facts = facts]
      /\ mmWork' = [mmWork EXCEPT ![w] = k]
      /\ mmLearned' = (mmLearned \ answer.gone) \union Range(answer.new)
      /\ mmDropped' = (mmDropped \union answer.gone) \ Range(answer.new)
      /\ UNCHANGED <<mmQueued, mmJobs, mmFaults, mmWritten, mmOverlap, mmTwins>>
  BY DEF MmWrite
<1>2. /\ mmRow \in MmRowType /\ mmWork \in [MmWorkers -> MmWorkType]
      /\ MmTypeInv /\ MmKeptInv /\ MmTwinsInv
  BY MmTyped DEF MmInv
<1>3. answer \in MmAnswers /\ facts \in Seq(MmFacts)
  <2>1. mmWork[w] \in [at : {"write"}, answer : MmAnswers, facts : Seq(MmFacts)]
    BY <1>1, <1>2 DEF MmWorkType
  <2> QED BY <2>1
<1>4. k \in MmWorkType /\ k.at \in {"sum", "idle"}
  BY MmTyped
<1> HIDE DEF k
<1>5. mmRow' \in MmRowType /\ mmRow'.facts = facts /\ mmRow'.count = mmRow.count
  <2> HIDE DEF facts
  <2> QED BY <1>1, <1>2, <1>3 DEF MmRowType
<1>6. MmBudget'
  BY <1>1, <1>4, MmBusyStep
<1>7. mmWork'[w] = k /\ \A v \in MmWorkers : v # w => mmWork'[v] = mmWork[v]
  BY <1>1, <1>2
<1>8. MmTypeInv'
  <2>1. mmWork' \in [MmWorkers -> MmWorkType]
    BY <1>1, <1>2, <1>4
  <2>2. Range(answer.new) \subseteq MmFacts /\ answer.gone \subseteq MmFacts
    <3>1. answer.gone \subseteq MmFacts
      BY <1>3 DEF MmAnswers
    <3>2. PICK m \in 0..2 : answer.new \in [1..m -> MmFacts]
      BY <1>3 DEF MmAnswers
    <3>3. Range(answer.new) \subseteq MmFacts
      BY <3>2 DEF Range
    <3> QED BY <3>1, <3>3
  <2>3. mmLearned' \subseteq MmFacts /\ mmDropped' \subseteq MmFacts
    BY <1>1, <1>2, <2>2 DEF MmTypeInv
  <2> QED BY <1>1, <1>2, <1>5, <2>1, <2>3 DEF MmTypeInv
<1>9. MmKeptInv'
  <2> SUFFICES ASSUME ~mmOverlap
               PROVE  /\ mmLearned' \subseteq Range(mmRow'.facts)
                      /\ mmDropped' \intersect Range(mmRow'.facts) = {}
                      /\ \A u \in MmWorkers : mmWork'[u].at # "write"
    BY <1>1 DEF MmKeptInv
  <2>1. /\ mmLearned \subseteq Range(mmRow.facts) /\ mmDropped \intersect Range(mmRow.facts) = {}
        /\ facts = MmMerged(mmRow.facts, answer)
        /\ \A v \in MmWorkers : mmWork[v].at = "write" => v = w
    BY <1>1, <1>2 DEF MmKeptInv
  <2>2. Range(facts) = (Range(mmRow.facts) \ answer.gone) \union Range(answer.new)
    <3>1. mmRow.facts \in Seq(MmFacts)
      BY <1>2 DEF MmRowType
    <3> HIDE DEF answer, facts
    <3> QED BY <3>1, <1>3, <2>1, MmMergedIs
  <2>3. \A u \in MmWorkers : mmWork'[u].at # "write"
    BY <1>4, <1>7, <2>1
  <2>4. mmLearned' \subseteq Range(mmRow'.facts) /\ mmDropped' \intersect Range(mmRow'.facts) = {}
    <3> HIDE DEF answer, facts
    <3> QED BY <1>1, <1>5, <2>1, <2>2
  <2> QED BY <2>3, <2>4
<1>10. MmTwinsInv'
  <2> SUFFICES ASSUME ~mmTwins
               PROVE  /\ MmOnce(mmRow'.facts)
                      /\ \A u \in MmWorkers :
                            /\ mmWork'[u].at \in {"merge", "write"} => MmOnce(mmWork'[u].answer.new)
                            /\ mmWork'[u].at = "write" => MmOnce(mmWork'[u].facts)
    BY <1>1 DEF MmTwinsInv
  <2>1. MmOnce(facts)
    BY <1>1, <1>2 DEF MmTwinsInv
  <2> QED BY <1>2, <1>4, <1>5, <1>7, <2>1 DEF MmTwinsInv
<1> QED BY <1>1, <1>5, <1>6, <1>8, <1>9, <1>10, MmTyped DEF MmInv

LEMMA MmStep == ASSUME MmInv, [MmNext]_mmVars PROVE MmInv'
<1>1. CASE MmNext
  BY <1>1, MmRunEndsKeeps, MmTakeKeeps, MmDieKeeps, MmFindKeeps, MmCreateKeeps, MmAskKeeps,
     MmMergeKeeps, MmWriteKeeps, MmSummarizeKeeps DEF MmNext
<1>2. CASE UNCHANGED mmVars
  BY <1>2 DEF mmVars, MmInv, MmTypeInv, MmBudget, MmBusy, MmKeptInv, MmTwinsInv
<1> QED BY <1>1, <1>2

LEMMA MmInvGives == MmInv => MmTypeOK /\ MmSafe
<1> SUFFICES ASSUME MmInv PROVE MmTypeOK /\ MmSafe
  OBVIOUS
<1>1. MmTypeInv /\ MmKeptInv /\ MmTwinsInv /\ mmRow.count = mmWritten
  BY DEF MmInv
<1>2. Range(mmRow.facts) \subseteq MmFacts /\ mmRow.count \in Nat /\ mmRow.there \in BOOLEAN
  BY <1>1 DEF MmTypeInv, MmRowType, Range
<1>3. \A w \in MmWorkers : mmWork[w].at \in MmPlaces
  <2>1. \A k \in MmWorkType : k.at \in MmPlaces
    BY DEF MmWorkType, MmPlaces
  <2> QED BY <1>1, <2>1 DEF MmTypeInv
<1>4. MmTypeOK
  BY <1>1, <1>2, <1>3 DEF MmTypeOK, MmTypeInv
<1>5. MmSafe
  BY <1>1 DEF MmSafe, MmKeepsWhatItLearned, MmTwinsNeedTwins, MmCountIsExact, MmKeptInv, MmTwinsInv, MmOnce
<1> QED BY <1>4, <1>5

\* A fact that was learned stays until an answer takes it out, a text is there twice only when
\* one answer listed it twice, and every summary is counted (memory-extractor's job).
THEOREM MmSafeCorrect == MmSpec => []MmSafe
<1>1. MmInit => MmInv
  BY MmInitInv
<1>2. MmInv /\ [MmNext]_mmVars => MmInv'
  BY MmStep
<1>3. MmInv => MmSafe
  BY MmInvGives
<1> QED BY <1>1, <1>2, <1>3, PTL DEF MmSpec

\* The row, the queue, the workers and the histories keep their types.
THEOREM MmTypeCorrect == MmSpec => []MmTypeOK
<1>1. MmInit => MmInv
  BY MmInitInv
<1>2. MmInv /\ [MmNext]_mmVars => MmInv'
  BY MmStep
<1>3. MmInv => MmTypeOK
  BY MmInvGives
<1> QED BY <1>1, <1>2, <1>3, PTL DEF MmSpec

-----------------------------------------------------------------------------
(* The prompt: any messages, window, pictures and calls *)

PrTurnType == [role : {"user", "assistant", "tool"}, parts : Seq(PrParts), ids : Seq(PrNames)]
PrOpenType == [role : {"user", "assistant"}, parts : Seq(PrParts), ids : {<<>>}]

\* The turns say the messages from first to n that have something to say, once each and in
\* order, and change sides with every turn.
PrTold(log, turns, first, n) ==
  /\ turns \in Seq(PrOpenType)
  /\ \A k \in DOMAIN turns : turns[k].parts # <<>>
  /\ \A k \in 1..(Len(turns) - 1) : turns[k].role # turns[k + 1].role
  /\ \A k \in DOMAIN turns : \A m \in DOMAIN turns[k].parts :
       /\ turns[k].parts[m].msg \in first..n
       /\ turns[k].role = PrRole(log[turns[k].parts[m].msg])
  /\ \A k, l \in DOMAIN turns : \A m \in DOMAIN turns[k].parts, j \in DOMAIN turns[l].parts :
       k < l \/ (k = l /\ m < j) => turns[k].parts[m].msg < turns[l].parts[j].msg
  /\ \A i \in first..n : PrPartsOf(log, i) # <<>> =>
       \E k \in DOMAIN turns : \E m \in DOMAIN turns[k].parts : turns[k].parts[m].msg = i

\* A message has one part or none.
LEMMA PrPartsIs ==
  ASSUME NEW log \in Seq(PrMessage), Len(log) <= PrMaxLog, NEW i \in DOMAIN log
  PROVE  PrPartsOf(log, i) = <<>> \/ \E p \in PrParts : p.msg = i /\ PrPartsOf(log, i) = <<p>>
<1>1. i \in 0..PrMaxLog
  BY PrAssumption
<1>2. \A as \in {"text", "image", "note"} : [msg |-> i, as |-> as] \in PrParts
  BY <1>1 DEF PrParts
<1>3. PrPartsOf(log, i) \in {<<>>, <<[msg |-> i, as |-> "text"]>>, <<[msg |-> i, as |-> "image"]>>,
                             <<[msg |-> i, as |-> "note"]>>}
  BY DEF PrPartsOf
<1> QED BY <1>2, <1>3

\* u is the turns with message n added: its part comes last, in a turn of its side.
PrAdded(log, turns, n, u) ==
  /\ u # <<>>
  /\ u[Len(u)].role = PrRole(log[n])
  /\ Len(u) \in {Len(turns), Len(turns) + 1}
  /\ Len(u) = Len(turns) + 1 /\ turns # <<>> => turns[Len(turns)].role # u[Len(u)].role
  /\ \A k \in DOMAIN turns :
       /\ turns[k].role = u[k].role
       /\ \A m \in DOMAIN turns[k].parts :
            m \in DOMAIN u[k].parts /\ u[k].parts[m] = turns[k].parts[m]
  /\ \A k \in DOMAIN u : \A m \in DOMAIN u[k].parts :
       \/ k \in DOMAIN turns /\ m \in DOMAIN turns[k].parts /\ u[k].parts[m] = turns[k].parts[m]
       \/ k = Len(u) /\ m = Len(u[k].parts) /\ u[k].parts[m].msg = n
  /\ \A k \in DOMAIN u : u[k].parts # <<>>
  /\ u[Len(u)].parts[Len(u[Len(u)].parts)].msg = n

\* What a message adds to the turns.
LEMMA PrAddIs ==
  ASSUME NEW log \in Seq(PrMessage), Len(log) <= PrMaxLog, NEW n \in DOMAIN log,
         NEW turns \in Seq(PrOpenType), \A k \in DOMAIN turns : turns[k].parts # <<>>,
         PrPartsOf(log, n) # <<>>
  PROVE  \E u \in Seq(PrOpenType) : PrAdd(log, turns, n) = u /\ PrAdded(log, turns, n, u)
<1> DEFINE role == PrRole(log[n])
           L == Len(turns)
<1>1. PICK p \in PrParts : p.msg = n /\ PrPartsOf(log, n) = <<p>>
  BY PrPartsIs
<1>2. role \in {"user", "assistant"} /\ L \in Nat /\ DOMAIN turns = 1..L
  BY DEF PrRole
<1>3. PrAdd(log, turns, n) =
        IF turns # <<>> /\ turns[L].role = role
        THEN [turns EXCEPT ![L].parts = @ \o <<p>>]
        ELSE Append(turns, [role |-> role, parts |-> <<p>>, ids |-> <<>>])
  BY <1>1 DEF PrAdd, PrTurn, Last
<1> HIDE DEF role
<1>4. CASE turns # <<>> /\ turns[L].role = role
  <2> DEFINE q == turns[L].parts
             t == [turns[L] EXCEPT !.parts = q \o <<p>>]
             u == [turns EXCEPT ![L] = t]
  <2>1. L \in 1..L /\ turns[L] \in PrOpenType /\ L >= 1
    BY <1>2, <1>4
  <2>2. q \in Seq(PrParts) /\ q # <<>>
    BY <1>2, <2>1 DEF PrOpenType
  <2> HIDE DEF q
  <2> DEFINE r == q \o <<p>>
  <2>3. /\ r \in Seq(PrParts) /\ r # <<>> /\ Len(r) = Len(q) + 1 /\ r[Len(r)] = p
        /\ \A m \in DOMAIN q : m \in DOMAIN r /\ r[m] = q[m]
        /\ \A m \in DOMAIN r : m = Len(r) \/ (m \in DOMAIN q /\ r[m] = q[m])
    BY <1>1, <2>2
  <2>4. t = [turns[L] EXCEPT !.parts = r]
    OBVIOUS
  <2> HIDE DEF r, t
  <2>5. t \in PrOpenType /\ t.role = role /\ t.parts = r
    BY <2>1, <2>3, <2>4, <1>4 DEF PrOpenType
  <2>6. /\ u \in Seq(PrOpenType) /\ Len(u) = L /\ u # <<>> /\ u[L] = t
        /\ \A k \in DOMAIN turns : k # L => u[k] = turns[k]
        /\ DOMAIN u = DOMAIN turns
    BY <1>2, <1>4, <2>1, <2>5
  <2>7. PrAdd(log, turns, n) = u
    BY <1>3, <1>4, <2>4 DEF q, r
  <2> HIDE DEF u, L
  <2>8. u[Len(u)].parts[Len(u[Len(u)].parts)].msg = n
    BY <1>1, <2>3, <2>5, <2>6
  <2>9. \A k \in DOMAIN turns : /\ turns[k].role = u[k].role
                                /\ \A m \in DOMAIN turns[k].parts :
                                     m \in DOMAIN u[k].parts /\ u[k].parts[m] = turns[k].parts[m]
    <3> SUFFICES ASSUME NEW k \in DOMAIN turns
                 PROVE  /\ turns[k].role = u[k].role
                        /\ \A m \in DOMAIN turns[k].parts :
                             m \in DOMAIN u[k].parts /\ u[k].parts[m] = turns[k].parts[m]
      OBVIOUS
    <3>1. CASE k = L
      BY <1>4, <2>3, <2>5, <2>6, <3>1 DEF q
    <3>2. CASE k # L
      BY <2>6, <3>2
    <3> QED BY <3>1, <3>2
  <2>10. \A k \in DOMAIN u : \A m \in DOMAIN u[k].parts :
           \/ k \in DOMAIN turns /\ m \in DOMAIN turns[k].parts /\ u[k].parts[m] = turns[k].parts[m]
           \/ k = Len(u) /\ m = Len(u[k].parts) /\ u[k].parts[m].msg = n
    <3> SUFFICES ASSUME NEW k \in DOMAIN u, NEW m \in DOMAIN u[k].parts
                 PROVE  \/ k \in DOMAIN turns /\ m \in DOMAIN turns[k].parts /\ u[k].parts[m] = turns[k].parts[m]
                        \/ k = Len(u) /\ m = Len(u[k].parts) /\ u[k].parts[m].msg = n
      OBVIOUS
    <3>1. CASE k = L
      BY <1>1, <2>3, <2>5, <2>6, <3>1 DEF q
    <3>2. CASE k # L
      BY <2>6, <3>2
    <3> QED BY <3>1, <3>2
  <2>11. \A k \in DOMAIN u : u[k].parts # <<>>
    BY <2>3, <2>5, <2>6
  <2>12. u[Len(u)].role = PrRole(log[n])
    BY <2>5, <2>6 DEF role
  <2>13. Len(u) = Len(turns) /\ Len(turns) # Len(turns) + 1
    <3>1. L # L + 1
      BY <1>2
    <3>2. Len(u) = L /\ L = Len(turns)
      BY <2>6 DEF L
    <3> QED BY <3>1, <3>2
  <2>14. PrAdded(log, turns, n, u)
    BY <2>6, <2>8, <2>9, <2>10, <2>11, <2>12, <2>13 DEF PrAdded
  <2> QED BY <2>6, <2>7, <2>14
<1>5. CASE ~(turns # <<>> /\ turns[L].role = role)
  <2> DEFINE t == [role |-> role, parts |-> <<p>>, ids |-> <<>>]
             u == Append(turns, t)
  <2>1. t \in PrOpenType /\ t.role = role /\ t.parts = <<p>>
    BY <1>1, <1>2 DEF PrOpenType
  <2> HIDE DEF t
  <2>2. /\ u \in Seq(PrOpenType) /\ Len(u) = L + 1 /\ u # <<>> /\ u[L + 1] = t
        /\ \A k \in DOMAIN turns : u[k] = turns[k]
        /\ DOMAIN u = 1..(L + 1)
    BY <1>2, <2>1
  <2>3. PrAdd(log, turns, n) = u
    BY <1>3, <1>5 DEF t
  <2> HIDE DEF u
  <2>4. \A k \in DOMAIN u : k \in DOMAIN turns \/ k = Len(u)
    BY <1>2, <2>2
  <2>5. /\ <<p>> # <<>> /\ Len(<<p>>) = 1 /\ <<p>>[1] = p /\ DOMAIN <<p>> = {1}
    OBVIOUS
  <2>6. u[Len(u)] = t
    BY <2>2
  <2>7. u[Len(u)].parts[Len(u[Len(u)].parts)].msg = n
    BY <1>1, <2>1, <2>5, <2>6
  <2>8. \A k \in DOMAIN u : u[k].parts # <<>>
    BY <2>1, <2>2, <2>4, <2>5, <2>6
  <2>9. \A k \in DOMAIN u : \A m \in DOMAIN u[k].parts :
           \/ k \in DOMAIN turns /\ m \in DOMAIN turns[k].parts /\ u[k].parts[m] = turns[k].parts[m]
           \/ k = Len(u) /\ m = Len(u[k].parts) /\ u[k].parts[m].msg = n
    <3> SUFFICES ASSUME NEW k \in DOMAIN u, NEW m \in DOMAIN u[k].parts, k \notin DOMAIN turns
                 PROVE  k = Len(u) /\ m = Len(u[k].parts) /\ u[k].parts[m].msg = n
      BY <2>2
    <3>1. k = Len(u) /\ u[k].parts = <<p>>
      BY <2>1, <2>4, <2>6
    <3> QED BY <1>1, <2>5, <3>1
  <2>10. u[Len(u)].role = PrRole(log[n])
    BY <2>1, <2>6 DEF role
  <2>11. turns # <<>> => turns[Len(turns)].role # u[Len(u)].role
    BY <1>5, <2>1, <2>6
  <2>12. Len(u) = Len(turns) + 1
    BY <2>2 DEF L
  <2>13. PrAdded(log, turns, n, u)
    BY <2>2, <2>7, <2>8, <2>9, <2>10, <2>11, <2>12 DEF PrAdded
  <2> QED BY <2>2, <2>3, <2>13
<1> QED BY <1>4, <1>5

\* One message more.
LEMMA PrAddTells ==
  ASSUME NEW log \in Seq(PrMessage), Len(log) <= PrMaxLog, NEW n \in DOMAIN log, NEW first \in 1..n,
         NEW turns, PrTold(log, turns, first, n - 1)
  PROVE  PrTold(log, PrAdd(log, turns, n), first, n)
<1>1. /\ turns \in Seq(PrOpenType) /\ \A k \in DOMAIN turns : turns[k].parts # <<>>
      /\ \A k \in DOMAIN turns : turns[k].parts \in Seq(PrParts)
      /\ Len(turns) \in Nat /\ DOMAIN turns = 1..Len(turns) /\ n \in Nat /\ first \in Nat /\ first <= n
      /\ \A i \in first..(n - 1) : i \in first..n /\ i < n
      /\ \A i \in first..n : i \in first..(n - 1) \/ i = n
  <2>1. turns \in Seq(PrOpenType) /\ \A k \in DOMAIN turns : turns[k].parts # <<>>
    BY DEF PrTold
  <2>2. \A k \in DOMAIN turns : turns[k] \in PrOpenType
    BY <2>1
  <2>3. \A k \in DOMAIN turns : turns[k].parts \in Seq(PrParts)
    BY <2>2 DEF PrOpenType
  <2>4. Len(turns) \in Nat /\ DOMAIN turns = 1..Len(turns)
    BY <2>1
  <2>5. n \in Nat /\ first \in Nat /\ first <= n
    OBVIOUS
  <2>6. /\ \A i \in first..(n - 1) : i \in first..n /\ i < n
        /\ \A i \in first..n : i \in first..(n - 1) \/ i = n
    BY <2>5
  <2> QED BY <2>1, <2>3, <2>4, <2>5, <2>6
<1>2. CASE PrPartsOf(log, n) = <<>>
  <2>1. PrAdd(log, turns, n) = turns
    BY <1>2 DEF PrAdd
  <2> QED BY <1>1, <1>2, <2>1 DEF PrTold
<1>3. CASE PrPartsOf(log, n) # <<>>
  <2>0. PICK u \in Seq(PrOpenType) : PrAdd(log, turns, n) = u /\ PrAdded(log, turns, n, u)
    BY <1>1, <1>3, PrAddIs
  <2>1. /\ PrAdd(log, turns, n) = u
        /\ u # <<>>
        /\ u[Len(u)].role = PrRole(log[n])
        /\ Len(u) \in {Len(turns), Len(turns) + 1}
        /\ Len(u) = Len(turns) + 1 /\ turns # <<>> => turns[Len(turns)].role # u[Len(u)].role
        /\ \A k \in DOMAIN turns :
             /\ turns[k].role = u[k].role
             /\ \A m \in DOMAIN turns[k].parts :
                  m \in DOMAIN u[k].parts /\ u[k].parts[m] = turns[k].parts[m]
        /\ \A k \in DOMAIN u : \A m \in DOMAIN u[k].parts :
             \/ k \in DOMAIN turns /\ m \in DOMAIN turns[k].parts /\ u[k].parts[m] = turns[k].parts[m]
             \/ k = Len(u) /\ m = Len(u[k].parts) /\ u[k].parts[m].msg = n
        /\ \A k \in DOMAIN u : u[k].parts # <<>>
        /\ u[Len(u)].parts[Len(u[Len(u)].parts)].msg = n
    BY <2>0 DEF PrAdded
  <2>2. /\ Len(u) \in Nat /\ DOMAIN u = 1..Len(u) /\ Len(u) >= 1 /\ Len(u) \in DOMAIN u
        /\ \A k \in DOMAIN u : u[k].parts \in Seq(PrParts)
    <3>1. u \in Seq(PrOpenType) /\ u # <<>>
      BY <2>0, <2>1
    <3>2. Len(u) \in Nat /\ DOMAIN u = 1..Len(u) /\ Len(u) >= 1 /\ Len(u) \in DOMAIN u
      BY <3>1
    <3>3. \A k \in DOMAIN u : u[k] \in PrOpenType
      BY <3>1
    <3> QED BY <3>2, <3>3 DEF PrOpenType
  <2>3. \A k \in DOMAIN u : /\ Len(u[k].parts) \in Nat /\ DOMAIN u[k].parts = 1..Len(u[k].parts)
                            /\ Len(u[k].parts) >= 1 /\ Len(u[k].parts) \in DOMAIN u[k].parts
    <3> TAKE k \in DOMAIN u
    <3>1. u[k].parts \in Seq(PrParts) /\ u[k].parts # <<>>
      BY <2>1, <2>2
    <3> QED BY <3>1
  <2>4. \A k \in 1..(Len(u) - 1) : u[k].role # u[k + 1].role
    <3> TAKE k \in 1..(Len(u) - 1)
    <3>1. k \in Nat /\ k >= 1 /\ k + 1 <= Len(u)
      BY <2>2
    <3>2. CASE k + 1 \in DOMAIN turns
      <4>1. k \in 1..(Len(turns) - 1) /\ k \in DOMAIN turns
        BY <1>1, <3>1, <3>2
      <4>2. turns[k].role # turns[k + 1].role
        BY <4>1 DEF PrTold
      <4> QED BY <2>1, <3>2, <4>1, <4>2
    <3>3. CASE k + 1 \notin DOMAIN turns
      <4>1. k + 1 > Len(turns)
        BY <1>1, <3>1, <3>3
      <4>2. Len(u) = Len(turns) + 1 /\ k = Len(turns)
        <5> DEFINE a == Len(turns)
                   b == Len(u)
        <5>1. a \in Nat /\ b \in {a, a + 1} /\ b \in Nat
          BY <1>1, <2>1, <2>2
        <5>2. k \in Nat /\ k + 1 <= b /\ k + 1 > a
          BY <3>1, <4>1
        <5> HIDE DEF a, b
        <5>3. b = a + 1 /\ k = a
          BY <5>1, <5>2
        <5> QED BY <5>3 DEF a, b
      <4>3. k \in DOMAIN turns /\ turns # <<>>
        BY <1>1, <3>1, <4>2
      <4> QED BY <2>1, <4>2, <4>3
    <3> QED BY <3>2, <3>3
  <2>5. \A k \in DOMAIN u : \A m \in DOMAIN u[k].parts :
          /\ u[k].parts[m].msg \in first..n
          /\ u[k].role = PrRole(log[u[k].parts[m].msg])
    <3> SUFFICES ASSUME NEW k \in DOMAIN u, NEW m \in DOMAIN u[k].parts
                 PROVE  /\ u[k].parts[m].msg \in first..n
                        /\ u[k].role = PrRole(log[u[k].parts[m].msg])
      OBVIOUS
    <3>1. CASE k \in DOMAIN turns /\ m \in DOMAIN turns[k].parts /\ u[k].parts[m] = turns[k].parts[m]
      <4>1. /\ turns[k].parts[m].msg \in first..(n - 1)
            /\ turns[k].role = PrRole(log[turns[k].parts[m].msg])
        BY <3>1 DEF PrTold
      <4> QED BY <1>1, <2>1, <3>1, <4>1
    <3>2. CASE k = Len(u) /\ u[k].parts[m].msg = n
      <4>1. n \in first..n
        BY <1>1
      <4> QED BY <2>1, <3>2, <4>1
    <3> QED BY <2>1, <3>1, <3>2
  <2>6. \A k, l \in DOMAIN u : \A m \in DOMAIN u[k].parts, j \in DOMAIN u[l].parts :
          k < l \/ (k = l /\ m < j) => u[k].parts[m].msg < u[l].parts[j].msg
    <3> SUFFICES ASSUME NEW k \in DOMAIN u, NEW l \in DOMAIN u, NEW m \in DOMAIN u[k].parts,
                        NEW j \in DOMAIN u[l].parts, k < l \/ (k = l /\ m < j)
                 PROVE  u[k].parts[m].msg < u[l].parts[j].msg
      OBVIOUS
    <3>1. ~(k = Len(u) /\ m = Len(u[k].parts))
      <4>1. k \in Nat /\ l \in Nat /\ l <= Len(u)
        BY <2>2
      <4>2. k < l => k # Len(u)
        BY <2>2, <4>1
      <4>3. j \in Nat /\ m \in Nat /\ j <= Len(u[l].parts) /\ Len(u[l].parts) \in Nat
        BY <2>3, SMTT(30)
      <4>4. k = l /\ m < j => m # Len(u[k].parts)
        BY <4>3
      <4> QED BY <4>2, <4>4
    <3>2. k \in DOMAIN turns /\ m \in DOMAIN turns[k].parts /\ u[k].parts[m] = turns[k].parts[m]
      BY <2>1, <3>1
    <3>3. turns[k].parts[m].msg \in first..(n - 1)
      BY <3>2 DEF PrTold
    <3>4. CASE l \in DOMAIN turns /\ j \in DOMAIN turns[l].parts /\ u[l].parts[j] = turns[l].parts[j]
      <4>1. turns[k].parts[m].msg < turns[l].parts[j].msg
        BY <3>2, <3>4 DEF PrTold
      <4> QED BY <3>2, <3>4, <4>1
    <3>5. CASE u[l].parts[j].msg = n
      BY <1>1, <3>2, <3>3, <3>5
    <3> QED BY <2>1, <3>4, <3>5
  <2>7. \A i \in first..n : PrPartsOf(log, i) # <<>> =>
          \E k \in DOMAIN u : \E m \in DOMAIN u[k].parts : u[k].parts[m].msg = i
    <3> SUFFICES ASSUME NEW i \in first..n, PrPartsOf(log, i) # <<>>
                 PROVE  \E k \in DOMAIN u : \E m \in DOMAIN u[k].parts : u[k].parts[m].msg = i
      OBVIOUS
    <3>1. CASE i = n
      BY <2>1, <2>2, <2>3, <3>1
    <3>2. CASE i # n
      <4>1. i \in first..(n - 1)
        BY <1>1, <3>2
      <4>2. PICK k \in DOMAIN turns : \E m \in DOMAIN turns[k].parts : turns[k].parts[m].msg = i
        BY <4>1 DEF PrTold
      <4>3. k \in DOMAIN u
        <5>1. Len(turns) <= Len(u)
          BY <1>1, <2>1
        <5> QED BY <1>1, <2>2, <5>1
      <4> QED BY <2>1, <4>2, <4>3, SMTT(30)
    <3> QED BY <3>1, <3>2
  <2> QED BY <2>1, <2>4, <2>5, <2>6, <2>7 DEF PrTold
<1> QED BY <1>2, <1>3

\* The turns of a window, message by message.
PrIsUpTo(log, k, f) ==
  f = [n \in 0..k |-> IF n < PrFirst(log) THEN <<>> ELSE PrAdd(log, f[n - 1], n)]

\* They are there: they are built step by step.
LEMMA PrUpToIsThere ==
  ASSUME NEW log, PrFirst(log) \in Nat \ {0}
  PROVE  \A k \in Nat : \E f : PrIsUpTo(log, k, f)
<1> DEFINE Step(x, n) == IF n < PrFirst(log) THEN <<>> ELSE PrAdd(log, x, n)
           Bad == {k \in Nat : ~\E f : PrIsUpTo(log, k, f)}
<1> SUFFICES ASSUME Bad # {} PROVE FALSE
  OBVIOUS
<1>1. PICK k \in Bad : \A j \in Bad : k <= j
  <2>1. Bad \subseteq Nat
    OBVIOUS
  <2> HIDE DEF Bad
  <2> QED BY <2>1, LeastNatural
<1>2. k \in Nat /\ ~\E f : PrIsUpTo(log, k, f)
  BY <1>1
<1>3. CASE k = 0
  <2> DEFINE f == [n \in 0..0 |-> <<>>]
  <2>1. \A n \in 0..0 : n = 0 /\ n < PrFirst(log)
    OBVIOUS
  <2>2. PrIsUpTo(log, 0, f)
    BY <2>1 DEF PrIsUpTo
  <2> QED BY <1>2, <1>3, <2>2
<1>4. CASE k # 0
  <2>1. k - 1 \in Nat /\ ~(k <= k - 1)
    BY <1>2, <1>4
  <2>2. PICK g : PrIsUpTo(log, k - 1, g)
    BY <1>1, <2>1
  <2>3. \A n \in 0..(k - 1) : g[n] = Step(g[n - 1], n)
    BY <2>2 DEF PrIsUpTo
  <2> HIDE DEF Bad
  <2>8. \A x, y : Step(x, 0) = Step(y, 0)
    OBVIOUS
  <2> HIDE DEF Step
  <2> DEFINE f == [n \in 0..k |-> IF n = k THEN Step(g[k - 1], k) ELSE g[n]]
  <2>4. f[k] = Step(g[k - 1], k) /\ \A n \in 0..(k - 1) : f[n] = g[n]
    BY <1>2, <2>1
  <2>5. \A n \in 0..k : f[n] = Step(f[n - 1], n)
    <3> SUFFICES ASSUME NEW n \in 0..k PROVE f[n] = Step(f[n - 1], n)
      OBVIOUS
    <3> HIDE DEF f
    <3>1. CASE n = k
      <4>1. k - 1 \in 0..(k - 1)
        BY <2>1
      <4> QED BY <2>4, <3>1, <4>1
    <3>2. CASE n = 0
      <4>1. 0 \in 0..(k - 1)
        BY <2>1
      <4> QED BY <2>3, <2>4, <2>8, <3>2, <4>1
    <3>3. CASE n # k /\ n # 0
      <4>1. n \in 0..(k - 1) /\ n - 1 \in 0..(k - 1)
        BY <1>2, <3>3
      <4> QED BY <2>3, <2>4, <4>1
    <3> QED BY <3>1, <3>2, <3>3
  <2>6. f = [n \in 0..k |-> f[n]]
    OBVIOUS
  <2> HIDE DEF f
  <2>7. PrIsUpTo(log, k, f)
    BY <2>5, <2>6 DEF PrIsUpTo, Step
  <2> QED BY <1>2, <2>7
<1> QED BY <1>3, <1>4

\* The history says what the window has to say.
LEMMA PrHistoryTells ==
  ASSUME NEW log \in Seq(PrMessage), Len(log) <= PrMaxLog
  PROVE  PrTold(log, PrHistory(log), PrFirst(log), Len(log))
<1> DEFINE first == PrFirst(log)
           L == Len(log)
           f == CHOOSE f : PrIsUpTo(log, L, f)
<1>1. /\ L \in Nat /\ DOMAIN log = 1..L /\ first \in Nat \ {0} /\ first <= L + 1
  BY PrAssumption DEF PrFirst
<1>2. PrHistory(log) = f[L]
  BY DEF PrHistory, PrIsUpTo
<1>3. PrIsUpTo(log, L, f)
  <2>1. \E g : PrIsUpTo(log, L, g)
    BY <1>1, PrUpToIsThere
  <2> QED BY <2>1
<1> HIDE DEF f, first, L
<1>4. \A n \in 0..L : f[n] = IF n < first THEN <<>> ELSE PrAdd(log, f[n - 1], n)
  BY <1>3 DEF PrIsUpTo, first
<1> DEFINE Bad == {n \in (first - 1)..L : ~PrTold(log, f[n], first, n)}
<1>5. Bad = {}
  <2> SUFFICES ASSUME Bad # {} PROVE FALSE
    OBVIOUS
  <2>1. Bad \subseteq Nat
    BY <1>1
  <2>2. PICK n \in Bad : \A j \in Bad : n <= j
    <3> HIDE DEF Bad
    <3> QED BY <2>1, LeastNatural
  <2>3. n \in (first - 1)..L /\ n \in Nat /\ ~PrTold(log, f[n], first, n)
    BY <1>1, <2>2
  <2>4. CASE n < first
    <3>1. f[n] = <<>> /\ first..n = {}
      BY <1>1, <1>4, <2>3, <2>4
    <3>2. /\ <<>> \in Seq(PrOpenType) /\ DOMAIN <<>> = {} /\ Len(<<>>) = 0 /\ 1..(0 - 1) = {}
      OBVIOUS
    <3> QED BY <2>3, <3>1, <3>2 DEF PrTold
  <2>5. CASE ~(n < first)
    <3>1. n \in DOMAIN log /\ first \in 1..n /\ n \in 0..L /\ n - 1 \in (first - 1)..L /\ ~(n <= n - 1)
      BY <1>1, <2>3, <2>5
    <3>2. PrTold(log, f[n - 1], first, n - 1)
      BY <2>2, <3>1
    <3>3. f[n] = PrAdd(log, f[n - 1], n)
      BY <1>4, <2>5, <3>1
    <3>4. PrTold(log, PrAdd(log, f[n - 1], n), first, n)
      <4> HIDE DEF Bad
      <4> QED BY <3>1, <3>2, PrAddTells DEF L
    <3> QED BY <2>3, <3>3, <3>4
  <2> QED BY <2>4, <2>5
<1>6. L \in (first - 1)..L
  BY <1>1
<1> QED BY <1>2, <1>5, <1>6 DEF first, L

\* What a prompt opens with.
PrOpened(turns) == Picked(turns, {k \in DOMAIN turns : turns[k].role # "tool" /\ turns[k].ids = <<>>})
PrOpens(turns, log, trigger) ==
  /\ turns # <<>>
  /\ \A k \in 1..(Len(turns) - 1) : turns[k].role # turns[k + 1].role
  /\ Last(turns).role = "user"
  /\ PrPartsOf(log, trigger) # <<>> => \E p \in Range(Last(turns).parts) : p.msg >= trigger
  /\ \A i \in DOMAIN log : i + PrWindow > Len(log) /\ PrPartsOf(log, i) # <<>> =>
       \E t \in Range(turns) : \E p \in Range(t.parts) : p.msg = i
  /\ \A k, l \in DOMAIN turns :
       \A m \in DOMAIN turns[k].parts, n \in DOMAIN turns[l].parts :
         LET later == turns[l].parts[n].msg IN
         (k < l \/ (k = l /\ m < n)) /\ turns[k].parts[m].msg >= later =>
           /\ l = Len(turns) /\ n = Len(turns[l].parts)
           /\ later \in {0, trigger}

\* A turn that answers a call, or makes one, is not part of the opening.
LEMMA PrOpenedAll ==
  ASSUME NEW turns \in Seq(PrTurnType), \A k \in DOMAIN turns : turns[k].role # "tool" /\ turns[k].ids = <<>>
  PROVE  PrOpened(turns) = turns
<1>1. {k \in DOMAIN turns : turns[k].role # "tool" /\ turns[k].ids = <<>>} = DOMAIN turns
  OBVIOUS
<1> QED BY <1>1, PickedAll DEF PrOpened

LEMMA PrOpenedKept ==
  ASSUME NEW turns \in Seq(PrTurnType), NEW more \in Seq(PrTurnType), \A k \in DOMAIN more : more[k].ids # <<>>
  PROVE  PrOpened(turns \o more) = PrOpened(turns)
<1> DEFINE u == turns \o more
           at == {k \in DOMAIN turns : turns[k].role # "tool" /\ turns[k].ids = <<>>}
<1>1. /\ u \in Seq(PrTurnType) /\ Len(turns) \in Nat /\ Len(more) \in Nat
      /\ DOMAIN turns = 1..Len(turns) /\ DOMAIN more = 1..Len(more)
      /\ DOMAIN u = 1..(Len(turns) + Len(more))
  OBVIOUS
<1>2. /\ \A k \in 1..Len(turns) : u[k] = turns[k]
      /\ \A k \in 1..(Len(turns) + Len(more)) : k > Len(turns) => u[k] = more[k - Len(turns)]
  OBVIOUS
<1> HIDE DEF u
<1>3. {k \in DOMAIN u : u[k].role # "tool" /\ u[k].ids = <<>>} = at
  <2>1. ASSUME NEW k \in DOMAIN u, k \notin DOMAIN turns
        PROVE  u[k].ids # <<>>
    <3>1. k > Len(turns) /\ k - Len(turns) \in DOMAIN more
      BY <1>1, <2>1
    <3> QED BY <1>1, <1>2, <3>1
  <2>2. \A k \in DOMAIN turns : k \in DOMAIN u /\ u[k] = turns[k]
    BY <1>1, <1>2
  <2> QED BY <2>1, <2>2
<1>4. at \in SUBSET (DOMAIN turns) /\ at \subseteq DOMAIN u /\ \A k \in at : turns[k] = u[k]
  BY <1>1, <1>2
<1> HIDE DEF at
<1>5. Picked(turns, at) = Picked(u, at)
  BY <1>1, <1>4, PickedSame
<1> QED BY <1>3, <1>5 DEF PrOpened, u, at

\* The opening of a prompt ends with the customer, with the trigger or later.
LEMMA PrClosedTells ==
  ASSUME NEW log \in Seq(PrMessage), Len(log) <= PrMaxLog, NEW trigger \in DOMAIN log,
         log[trigger].from = "customer", NEW turns, PrTold(log, turns, PrFirst(log), Len(log))
  PROVE  \E u \in Seq(PrOpenType) :
           /\ PrClosed(turns, PrPartsOf(log, trigger)) = u
           /\ \A k \in DOMAIN u : u[k].parts # <<>>
           /\ PrOpens(u, log, trigger)
<1> DEFINE first == PrFirst(log)
           L == Len(log)
           parts == PrPartsOf(log, trigger)
           N == Len(turns)
<1>1. /\ L \in Nat /\ DOMAIN log = 1..L /\ first \in Nat \ {0} /\ trigger \in 1..L
      /\ \A i \in 1..L : i + PrWindow > L => i \in first..L
  BY PrAssumption DEF PrFirst
<1>2. /\ turns \in Seq(PrOpenType) /\ N \in Nat /\ DOMAIN turns = 1..N
      /\ \A k \in DOMAIN turns : turns[k].parts # <<>>
  BY DEF PrTold
<1>3. \A k \in DOMAIN turns : /\ turns[k].parts \in Seq(PrParts) /\ Len(turns[k].parts) \in Nat
                              /\ Len(turns[k].parts) >= 1
                              /\ DOMAIN turns[k].parts = 1..Len(turns[k].parts)
                              /\ Len(turns[k].parts) \in DOMAIN turns[k].parts
  <2> TAKE k \in DOMAIN turns
  <2>1. turns[k] \in PrOpenType
    BY <1>2
  <2>2. turns[k].parts \in Seq(PrParts) /\ turns[k].parts # <<>>
    BY <1>2, <2>1 DEF PrOpenType
  <2> QED BY <2>2
<1>4. \A k \in DOMAIN turns : \A m \in DOMAIN turns[k].parts :
        /\ turns[k].parts[m].msg \in first..L
        /\ turns[k].role = PrRole(log[turns[k].parts[m].msg])
  BY DEF PrTold
<1>5. \A k, l \in DOMAIN turns : \A m \in DOMAIN turns[k].parts, j \in DOMAIN turns[l].parts :
        k < l \/ (k = l /\ m < j) => turns[k].parts[m].msg < turns[l].parts[j].msg
  BY DEF PrTold
<1>6. \A i \in first..L : PrPartsOf(log, i) # <<>> =>
        \E k \in DOMAIN turns : \E m \in DOMAIN turns[k].parts : turns[k].parts[m].msg = i
  BY DEF PrTold
<1>7. \A k \in 1..(N - 1) : turns[k].role # turns[k + 1].role
  BY DEF PrTold
<1>8. parts = <<>> \/ \E p \in PrParts : p.msg = trigger /\ parts = <<p>>
  BY PrPartsIs
<1>9. PrRole(log[trigger]) = "user"
  BY DEF PrRole
<1> HIDE DEF first, L, parts, N
<1>10. CASE turns # <<>> /\ Last(turns).role = "user"
  <2>1. PrClosed(turns, parts) = turns
    BY <1>10 DEF PrClosed
  <2>2. Last(turns) = turns[N] /\ N \in DOMAIN turns /\ N >= 1
    BY <1>2, <1>10 DEF Last, N
  <2>3. ASSUME parts # <<>> PROVE \E p \in Range(turns[N].parts) : p.msg >= trigger
    <3>1. CASE trigger \in first..L
      <4>1. PICK k \in DOMAIN turns : \E m \in DOMAIN turns[k].parts : turns[k].parts[m].msg = trigger
        BY <1>6, <2>3, <3>1 DEF parts
      <4>2. CASE k = N
        BY <4>1, <4>2 DEF Range
      <4>3. CASE k # N
        <5>1. k < N
          BY <1>2, <4>3
        <5>2. PICK m \in DOMAIN turns[k].parts : turns[k].parts[m].msg = trigger
          BY <4>1
        <5>3. 1 \in DOMAIN turns[N].parts
          BY <1>3, <2>2
        <5>4. trigger < turns[N].parts[1].msg
          BY <1>5, <2>2, <5>1, <5>2, <5>3
        <5>5. turns[N].parts[1].msg \in Nat /\ trigger \in Nat
          BY <1>1, <1>4, <2>2, <5>3
        <5> QED BY <5>3, <5>4, <5>5 DEF Range
      <4> QED BY <4>2, <4>3
    <3>2. CASE trigger \notin first..L
      <4>1. 1 \in DOMAIN turns[N].parts
        BY <1>3, <2>2
      <4>2. turns[N].parts[1].msg \in first..L
        BY <1>4, <2>2, <4>1
      <4>3. turns[N].parts[1].msg >= trigger
        BY <1>1, <3>2, <4>2
      <4> QED BY <4>1, <4>3 DEF Range
    <3> QED BY <3>1, <3>2
  <2>4. \A i \in DOMAIN log : i + PrWindow > Len(log) /\ PrPartsOf(log, i) # <<>> =>
          \E t \in Range(turns) : \E p \in Range(t.parts) : p.msg = i
    <3> SUFFICES ASSUME NEW i \in DOMAIN log, i + PrWindow > Len(log), PrPartsOf(log, i) # <<>>
                 PROVE  \E t \in Range(turns) : \E p \in Range(t.parts) : p.msg = i
      OBVIOUS
    <3>1. i \in first..L
      BY <1>1 DEF L
    <3>2. PICK k \in DOMAIN turns : \E m \in DOMAIN turns[k].parts : turns[k].parts[m].msg = i
      BY <1>6, <3>1
    <3>3. turns[k] \in Range(turns) /\ \E p \in Range(turns[k].parts) : p.msg = i
      BY <3>2 DEF Range
    <3> QED BY <3>3
  <2>5. \A k, l \in DOMAIN turns : \A m \in DOMAIN turns[k].parts, n \in DOMAIN turns[l].parts :
          k < l \/ (k = l /\ m < n) => ~(turns[k].parts[m].msg >= turns[l].parts[n].msg)
    <3> SUFFICES ASSUME NEW k \in DOMAIN turns, NEW l \in DOMAIN turns, NEW m \in DOMAIN turns[k].parts,
                        NEW n \in DOMAIN turns[l].parts, k < l \/ (k = l /\ m < n)
                 PROVE  ~(turns[k].parts[m].msg >= turns[l].parts[n].msg)
      OBVIOUS
    <3>1. turns[k].parts[m].msg \in first..L /\ turns[l].parts[n].msg \in first..L
      BY <1>4
    <3>2. turns[k].parts[m].msg < turns[l].parts[n].msg
      BY <1>5
    <3> QED BY <1>1, <3>1, <3>2
  <2>6. PrOpens(turns, log, trigger)
    BY <1>7, <1>10, <2>2, <2>3, <2>4, <2>5 DEF PrOpens, parts, N
  <2> QED BY <1>2, <2>1, <2>6 DEF parts
<1>11. CASE ~(turns # <<>> /\ Last(turns).role = "user")
  <2> DEFINE said == IF parts = <<>> THEN <<[msg |-> 0, as |-> "text"]>> ELSE parts
             t == [role |-> "user", parts |-> said, ids |-> <<>>]
             u == Append(turns, t)
  <2>1. PICK p \in PrParts : p.msg \in {0, trigger} /\ said = <<p>> /\ (parts # <<>> => p.msg = trigger)
    <3>1. [msg |-> 0, as |-> "text"] \in PrParts
      BY PrAssumption DEF PrParts
    <3> QED BY <1>8, <3>1
  <2>2. PrClosed(turns, parts) = u
    BY <1>11 DEF PrClosed, PrTurn
  <2> HIDE DEF said
  <2>3. t \in PrOpenType /\ t.role = "user" /\ t.parts = <<p>>
    BY <2>1 DEF PrOpenType
  <2> HIDE DEF t
  <2>4. /\ u \in Seq(PrOpenType) /\ Len(u) = N + 1 /\ u # <<>> /\ u[N + 1] = t /\ DOMAIN u = 1..(N + 1)
        /\ \A k \in DOMAIN turns : u[k] = turns[k]
    BY <1>2, <2>3 DEF N
  <2> HIDE DEF u
  <2>5. \A k \in DOMAIN u : k \in DOMAIN turns \/ k = N + 1
    BY <1>2, <2>4
  <2>6. <<p>> # <<>> /\ Len(<<p>>) = 1 /\ <<p>>[1] = p /\ DOMAIN <<p>> = {1}
    OBVIOUS
  <2>7. Last(u) = t
    BY <2>4 DEF Last
  <2>8. \A k \in DOMAIN u : u[k].parts # <<>>
    BY <1>2, <2>3, <2>4, <2>5, <2>6
  <2>9. \A k \in 1..(Len(u) - 1) : u[k].role # u[k + 1].role
    <3> TAKE k \in 1..(Len(u) - 1)
    <3>1. k \in DOMAIN turns /\ u[k] = turns[k]
      BY <1>2, <2>4
    <3>2. CASE k = N
      <4>1. turns # <<>> /\ Last(turns) = turns[N]
        BY <1>2, <3>1, <3>2 DEF Last, N
      <4>2. turns[N].role # "user"
        BY <1>11, <4>1
      <4> QED BY <2>3, <2>4, <3>1, <3>2, <4>2
    <3>3. CASE k # N
      <4>1. k \in 1..(N - 1) /\ k + 1 \in DOMAIN turns
        BY <1>2, <3>1, <3>3
      <4> QED BY <1>7, <2>4, <3>1, <4>1
    <3> QED BY <3>2, <3>3
  <2>10. parts # <<>> => \E q \in Range(Last(u).parts) : q.msg >= trigger
    <3>1. p \in Range(Last(u).parts)
      BY <2>3, <2>6, <2>7 DEF Range
    <3>2. trigger >= trigger
      BY <1>1
    <3> QED BY <2>1, <3>1, <3>2
  <2>11. \A i \in DOMAIN log : i + PrWindow > Len(log) /\ PrPartsOf(log, i) # <<>> =>
           \E x \in Range(u) : \E q \in Range(x.parts) : q.msg = i
    <3> SUFFICES ASSUME NEW i \in DOMAIN log, i + PrWindow > Len(log), PrPartsOf(log, i) # <<>>
                 PROVE  \E x \in Range(u) : \E q \in Range(x.parts) : q.msg = i
      OBVIOUS
    <3>1. i \in first..L
      BY <1>1 DEF L
    <3>2. PICK k \in DOMAIN turns : \E m \in DOMAIN turns[k].parts : turns[k].parts[m].msg = i
      BY <1>6, <3>1
    <3>3. k \in DOMAIN u /\ u[k] = turns[k]
      BY <1>2, <2>4
    <3>4. u[k] \in Range(u) /\ \E q \in Range(u[k].parts) : q.msg = i
      BY <3>2, <3>3 DEF Range
    <3> QED BY <3>4
  <2>12. \A k, l \in DOMAIN u : \A m \in DOMAIN u[k].parts, n \in DOMAIN u[l].parts :
           (k < l \/ (k = l /\ m < n)) /\ u[k].parts[m].msg >= u[l].parts[n].msg =>
             l = N + 1 /\ n = 1
    <3> SUFFICES ASSUME NEW k \in DOMAIN u, NEW l \in DOMAIN u, NEW m \in DOMAIN u[k].parts,
                        NEW n \in DOMAIN u[l].parts, k < l \/ (k = l /\ m < n),
                        u[k].parts[m].msg >= u[l].parts[n].msg
                 PROVE  l = N + 1 /\ n = 1
      OBVIOUS
    <3>1. CASE l = N + 1
      BY <2>3, <2>4, <2>6, <3>1
    <3>2. CASE l # N + 1
      <4>1. l \in DOMAIN turns /\ k \in DOMAIN turns
        BY <1>2, <2>4, <2>5, <3>2
      <4>2. u[k] = turns[k] /\ u[l] = turns[l]
        BY <2>4, <4>1
      <4>3. turns[k].parts[m].msg \in first..L /\ turns[l].parts[n].msg \in first..L
        BY <1>4, <4>1, <4>2
      <4>4. turns[k].parts[m].msg < turns[l].parts[n].msg
        BY <1>5, <4>1, <4>2
      <4> QED BY <1>1, <4>2, <4>3, <4>4
    <3> QED BY <3>1, <3>2
  <2>13. u[N + 1].parts = <<p>> /\ u[N + 1].parts[1].msg \in {0, trigger}
    BY <2>1, <2>3, <2>4, <2>6
  <2>14. PrOpens(u, log, trigger)
    <3>1. \A k, l \in DOMAIN u : \A m \in DOMAIN u[k].parts, n \in DOMAIN u[l].parts :
            (k < l \/ (k = l /\ m < n)) /\ u[k].parts[m].msg >= u[l].parts[n].msg =>
              l = Len(u) /\ n = Len(u[l].parts) /\ u[l].parts[n].msg \in {0, trigger}
      <4>1. Len(u) = N + 1 /\ Len(u[N + 1].parts) = 1
        BY <2>4, <2>6, <2>13
      <4> QED BY <2>12, <2>13, <4>1
    <3>2. Last(u).role = "user"
      BY <2>3, <2>7
    <3> QED BY <2>4, <2>9, <2>10, <2>11, <3>1, <3>2 DEF PrOpens, parts
  <2> QED BY <2>2, <2>4, <2>8, <2>14 DEF parts
<1> QED BY <1>10, <1>11

\* A run finds pictures, and changes nothing else.
LEMMA PrResolvedIs ==
  ASSUME NEW log \in Seq(PrMessage), NEW found \in PrResolved(log)
  PROVE  /\ found \in Seq(PrMessage) /\ Len(found) = Len(log) /\ DOMAIN found = DOMAIN log
         /\ \A i \in DOMAIN log : found[i].from = log[i].from
<1>1. PICK s \in SUBSET (DOMAIN log) :
        found = [i \in DOMAIN log |-> IF i \in s THEN [log[i] EXCEPT !.shows = "ours"] ELSE log[i]]
  BY DEF PrResolved
<1>2. \A i \in DOMAIN log : found[i] \in PrMessage /\ found[i].from = log[i].from
  <2> TAKE i \in DOMAIN log
  <2>1. log[i] \in PrMessage
    OBVIOUS
  <2>2. [log[i] EXCEPT !.shows = "ours"] \in PrMessage /\ [log[i] EXCEPT !.shows = "ours"].from = log[i].from
    BY <2>1 DEF PrMessage, PrPictures
  <2> QED BY <1>1, <2>1, <2>2
<1>3. DOMAIN log = 1..Len(log) /\ Len(log) \in Nat /\ DOMAIN found = DOMAIN log
      /\ found = [i \in 1..Len(log) |-> found[i]]
  BY <1>1
<1> QED BY <1>2, <1>3

\* Results answer calls, one for each.
PrPaired(r) ==
  \A k \in DOMAIN r :
    /\ r[k].role = "assistant" => \A n \in DOMAIN r[k].ids :
         k + n \in DOMAIN r /\ r[k + n].role = "tool" /\ r[k + n].ids = <<r[k].ids[n]>>
    /\ \A n, o \in DOMAIN r[k].ids : r[k].ids[n] = r[k].ids[o] => n = o
    /\ r[k].role = "tool" => k > 1 /\ r[k - 1].role \in {"tool", "assistant"}

PrTypeInv ==
  /\ prLog \in Seq(PrMessage) /\ Len(prLog) <= PrMaxLog
  /\ prModel \in [provider : {"openai", "sakana", "unsupported"}, priced : BOOLEAN]
  /\ prRun \in {"none", "read", "call", "again", "done", "failed"}
  /\ prTrigger \in 0..PrMaxLog
  /\ prTurns \in Seq(PrTurnType)
  /\ prSent \in Seq(Seq(PrTurnType)) /\ Len(prSent) <= 2
  /\ prCalls \in 0..PrMaxCalls /\ prCost \in {"nothing", "something"}

\* The turns begin with the opening and go on with calls and results; what was sent is the
\* turns, and the second time without pictures.
PrTurnsInv ==
  /\ prRun \in {"none", "read"} => prTurns = <<>> /\ prSent = <<>>
  /\ prRun \in {"call", "again"} => prTurns # <<>>
  /\ prRun # "none" => prTrigger \in DOMAIN prLog /\ prLog[prTrigger].from = "customer"
  /\ \A k \in DOMAIN prTurns : prTurns[k].parts # <<>> \/ prTurns[k].ids # <<>>
  /\ prTurns # <<>> => PrOpens(PrOpened(prTurns), prLog, prTrigger)
  /\ PrPaired(prTurns)
PrSentInv ==
  /\ Len(prSent) >= 1 => prSent[1] = prTurns
  /\ Len(prSent) = 2 => prSent[2] = PrStripped(prTurns) /\ PrHasImage(prTurns)

PrInv == PrTypeInv /\ PrTurnsInv /\ PrSentInv

\* Without pictures the turns are the same but for their parts.
LEMMA PrStrippedIs ==
  ASSUME NEW r \in Seq(PrTurnType)
  PROVE  /\ PrStripped(r) \in Seq(PrTurnType) /\ DOMAIN PrStripped(r) = DOMAIN r
         /\ \A k \in DOMAIN r : PrStripped(r)[k].role = r[k].role /\ PrStripped(r)[k].ids = r[k].ids
         /\ ~PrHasImage(PrStripped(r))
<1> DEFINE Strip(p) == IF p.as = "image" THEN [p EXCEPT !.as = "note"] ELSE p
           NewParts(q) == [j \in DOMAIN q |-> Strip(q[j])]
           Turn(t) == [t EXCEPT !.parts = NewParts(t.parts)]
           s == [k \in DOMAIN r |-> Turn(r[k])]
<1>1. PrStripped(r) = s
  BY DEF PrStripped
<1>2. \A p \in PrParts : Strip(p) \in PrParts /\ Strip(p).as # "image"
  BY DEF PrParts
<1> HIDE DEF Strip
<1>3. \A q \in Seq(PrParts) : NewParts(q) \in Seq(PrParts) /\ \A j \in DOMAIN NewParts(q) : NewParts(q)[j].as # "image"
  <2> TAKE q \in Seq(PrParts)
  <2>1. \A j \in DOMAIN q : q[j] \in PrParts /\ Strip(q[j]) \in PrParts /\ Strip(q[j]).as # "image"
    BY <1>2
  <2> QED BY <2>1
<1> HIDE DEF NewParts
<1>4. \A t \in PrTurnType : /\ Turn(t) \in PrTurnType /\ Turn(t).role = t.role /\ Turn(t).ids = t.ids
                            /\ Turn(t).parts = NewParts(t.parts) /\ t.parts \in Seq(PrParts)
  BY <1>3 DEF PrTurnType
<1> HIDE DEF Turn
<1>5. \A k \in DOMAIN r : r[k] \in PrTurnType /\ s[k] = Turn(r[k])
  OBVIOUS
<1>6. s \in Seq(PrTurnType) /\ DOMAIN s = DOMAIN r
  BY <1>4, <1>5
<1>7. \A k \in DOMAIN r : s[k].role = r[k].role /\ s[k].ids = r[k].ids
  BY <1>4, <1>5
<1>8. ~PrHasImage(s)
  <2>1. \A k \in DOMAIN s : \A j \in DOMAIN s[k].parts : s[k].parts[j].as # "image"
    BY <1>3, <1>4, <1>5, <1>6
  <2> HIDE DEF s
  <2> QED BY <2>1 DEF PrHasImage, Range
<1> QED BY <1>1, <1>6, <1>7, <1>8

\* Calls that were numbered have different ids.
LEMMA PrIdsAre ==
  ASSUME NEW answer \in PrAnswers, answer # <<>>
  PROVE  /\ PrIds(answer) \in Seq(PrNames) /\ DOMAIN PrIds(answer) = DOMAIN answer
         /\ DOMAIN answer \in {1..1, 1..2} /\ PrIds(answer) # <<>>
         /\ \A n, o \in DOMAIN PrIds(answer) : PrIds(answer)[n] = PrIds(answer)[o] => n = o
<1> DEFINE T == <<"tool_1", "tool_2">>
           ids == PrIds(answer)
<1>1. T[1] = "tool_1" /\ T[2] = "tool_2"
  OBVIOUS
<1>2. ids = [k \in DOMAIN answer |-> IF answer[k] = "no_id" THEN T[k] ELSE answer[k]]
  BY DEF PrIds
<1> HIDE DEF T, ids
<1>3. ASSUME NEW a \in {"no_id", "call_a"}, answer = <<a>>
      PROVE  /\ ids \in Seq(PrNames) /\ DOMAIN ids = DOMAIN answer
             /\ DOMAIN answer \in {1..1, 1..2} /\ ids # <<>>
             /\ \A n, o \in DOMAIN ids : ids[n] = ids[o] => n = o
  <2>1. DOMAIN answer = 1..1 /\ answer[1] = a
    BY <1>3
  <2>2. DOMAIN ids = 1..1 /\ ids[1] = IF a = "no_id" THEN "tool_1" ELSE a
    BY <1>1, <1>2, <2>1
  <2>3. ids[1] \in PrNames
    BY <2>2 DEF PrNames
  <2>4. ids = [k \in 1..1 |-> ids[k]]
    BY <1>2, <2>1
  <2>5. \A k \in 1..1 : ids[k] \in PrNames
    BY <2>3
  <2>6. ids \in Seq(PrNames) /\ Len(ids) = 1
    BY <2>2, <2>4, <2>5
  <2>7. \A n, o \in DOMAIN ids : n = o
    BY <2>2
  <2>8. ids # <<>>
    BY <2>6
  <2> QED BY <2>1, <2>2, <2>6, <2>7, <2>8
<1>4. ASSUME NEW a \in {"no_id", "call_a"}, NEW b \in {"no_id", "call_b"}, answer = <<a, b>>
      PROVE  /\ ids \in Seq(PrNames) /\ DOMAIN ids = DOMAIN answer
             /\ DOMAIN answer \in {1..1, 1..2} /\ ids # <<>>
             /\ \A n, o \in DOMAIN ids : ids[n] = ids[o] => n = o
  <2>1. DOMAIN answer = 1..2 /\ answer[1] = a /\ answer[2] = b
    BY <1>4
  <2>2. /\ DOMAIN ids = 1..2
        /\ ids[1] = IF a = "no_id" THEN "tool_1" ELSE a
        /\ ids[2] = IF b = "no_id" THEN "tool_2" ELSE b
    BY <1>1, <1>2, <2>1
  <2>3. ids[1] \in PrNames /\ ids[2] \in PrNames /\ ids[1] # ids[2]
    BY <2>2 DEF PrNames
  <2>4. ids = [k \in 1..2 |-> ids[k]]
    BY <1>2, <2>1
  <2>5. \A k \in 1..2 : k = 1 \/ k = 2
    OBVIOUS
  <2>6. \A k \in 1..2 : ids[k] \in PrNames
    BY <2>3, <2>5
  <2>7. ids \in Seq(PrNames) /\ Len(ids) = 2
    BY <2>2, <2>4, <2>6
  <2>8. \A n, o \in DOMAIN ids : ids[n] = ids[o] => n = o
    BY <2>2, <2>3, <2>5
  <2>9. ids # <<>>
    <3>1. 1 \in DOMAIN ids /\ 1 \notin DOMAIN <<>>
      BY <2>2
    <3> QED BY <3>1
  <2> QED BY <2>1, <2>2, <2>7, <2>8, <2>9
<1>5. \/ \E a \in {"no_id", "call_a"} : answer = <<a>>
      \/ \E a \in {"no_id", "call_a"}, b \in {"no_id", "call_b"} : answer = <<a, b>>
  BY DEF PrAnswers
<1> QED BY <1>3, <1>4, <1>5 DEF ids

\* The turns with calls and their results.
PrCalling(ids) == [role |-> "assistant", parts |-> <<>>, ids |-> ids]
PrResult(id) == [role |-> "tool", parts |-> <<>>, ids |-> <<id>>]
PrCalled(turns, ids) == turns \o (<<PrCalling(ids)>> \o [k \in DOMAIN ids |-> PrResult(ids[k])])

LEMMA PrCalledIs ==
  ASSUME NEW turns \in Seq(PrTurnType), NEW answer \in PrAnswers, answer # <<>>
  PROVE  Append(turns, PrTurn("assistant", <<>>, PrIds(answer)))
           \o [k \in DOMAIN answer |-> PrTurn("tool", <<>>, <<PrIds(answer)[k]>>)]
         = PrCalled(turns, PrIds(answer))
<1> DEFINE ids == PrIds(answer)
           call == PrCalling(ids)
           results == [k \in DOMAIN ids |-> PrResult(ids[k])]
<1>1. ids \in Seq(PrNames) /\ DOMAIN ids = DOMAIN answer
  BY PrIdsAre
<1>2. /\ PrTurn("assistant", <<>>, ids) = call
      /\ [k \in DOMAIN answer |-> PrTurn("tool", <<>>, <<ids[k]>>)] = results
  BY <1>1 DEF PrTurn, PrCalling, PrResult
<1> HIDE DEF ids
<1>3. call \in PrTurnType
  BY <1>1 DEF PrCalling, PrTurnType
<1>4. results \in Seq(PrTurnType)
  <2>1. \A x \in PrNames : PrResult(x) \in PrTurnType
    BY DEF PrResult, PrTurnType
  <2> QED BY <1>1, <2>1
<1> HIDE DEF call, results
<1>5. Append(turns, call) \o results = turns \o (<<call>> \o results)
  BY <1>3, <1>4
<1> QED BY <1>2, <1>5 DEF PrCalled, ids, call, results

\* Calls and their results keep the pairs, and the opening.
LEMMA PrCallsPair ==
  ASSUME NEW turns \in Seq(PrTurnType), PrPaired(turns), NEW ids \in Seq(PrNames), ids # <<>>,
         \A n, o \in DOMAIN ids : ids[n] = ids[o] => n = o
  PROVE  LET u == PrCalled(turns, ids) IN
         /\ u \in Seq(PrTurnType) /\ u # <<>> /\ PrPaired(u) /\ PrOpened(u) = PrOpened(turns)
         /\ \A k \in DOMAIN u : (k \in DOMAIN turns /\ u[k] = turns[k]) \/ u[k].ids # <<>>
<1> DEFINE u == PrCalled(turns, ids)
           L == Len(turns)
           call == PrCalling(ids)
           results == [k \in DOMAIN ids |-> PrResult(ids[k])]
           more == <<call>> \o results
           N == Len(ids)
<1>1. ids \in Seq(PrNames) /\ ids # <<>> /\ \A n, o \in DOMAIN ids : ids[n] = ids[o] => n = o
  OBVIOUS
<1>3. /\ N \in Nat /\ DOMAIN ids = 1..N /\ L \in Nat /\ DOMAIN turns = 1..L
      /\ \A n \in DOMAIN ids : ids[n] \in PrNames
  BY <1>1
<1>4. call \in PrTurnType /\ call.role = "assistant" /\ call.ids = ids
  BY <1>1 DEF PrTurnType, PrCalling
<1>7. u = turns \o more
  BY DEF PrCalled
<1> HIDE DEF N, L, call, u
<1>5. /\ results \in Seq(PrTurnType) /\ Len(results) = N
      /\ \A n \in 1..N : results[n].role = "tool" /\ results[n].ids = <<ids[n]>>
  <2>1. \A x \in PrNames : PrResult(x) \in PrTurnType /\ PrResult(x).role = "tool" /\ PrResult(x).ids = <<x>>
    BY DEF PrTurnType, PrResult
  <2>2. results \in [1..N -> PrTurnType]
    BY <1>3, <2>1
  <2>4. \A n \in 1..N : results[n] = PrResult(ids[n])
    BY <1>3
  <2>3. results \in Seq(PrTurnType) /\ Len(results) = N
    <3> HIDE DEF results
    <3> QED BY <1>3, <2>2
  <2> QED BY <1>3, <2>1, <2>3, <2>4
<1> HIDE DEF results
<1>6. /\ more \in Seq(PrTurnType) /\ Len(more) = N + 1 /\ DOMAIN more = 1..(N + 1) /\ more[1] = call
      /\ \A n \in 1..N : more[n + 1] = results[n]
  BY <1>3, <1>4, <1>5
<1> HIDE DEF more
<1>8. /\ u \in Seq(PrTurnType) /\ DOMAIN u = 1..(L + N + 1) /\ u # <<>>
      /\ \A k \in DOMAIN turns : u[k] = turns[k]
      /\ \A n \in 1..(N + 1) : u[L + n] = more[n]
  <2>1. /\ u \in Seq(PrTurnType) /\ Len(u) = L + (N + 1) /\ DOMAIN u = 1..(L + (N + 1))
        /\ \A k \in 1..L : u[k] = turns[k]
        /\ \A k \in 1..(L + (N + 1)) : k > L => u[k] = more[k - L]
    <3>1. L = Len(turns)
      BY DEF L
    <3>2. Len(turns \o more) = L + (N + 1) /\ turns \o more \in Seq(PrTurnType)
      <4>1. Len(turns \o more) = Len(turns) + Len(more)
        BY <1>6, SMTT(30)
      <4>2. turns \o more \in Seq(PrTurnType)
        BY <1>6
      <4> QED BY <1>6, <3>1, <4>1, <4>2
    <3>3. \A k \in 1..(L + (N + 1)) : u[k] = IF k <= L THEN turns[k] ELSE more[k - L]
      <4>1. \A k \in 1..(Len(turns) + Len(more)) :
              (turns \o more)[k] = IF k <= Len(turns) THEN turns[k] ELSE more[k - Len(turns)]
        BY <1>6
      <4> QED BY <1>6, <1>7, <3>1, <4>1
    <3>4. u \in Seq(PrTurnType) /\ Len(u) = L + (N + 1)
      BY <1>7, <3>2
    <3>5. DOMAIN u = 1..(L + (N + 1))
      BY <3>4
    <3>6. \A k \in 1..L : k \in 1..(L + (N + 1)) /\ k <= L
      BY <1>3
    <3>7. \A k \in 1..(L + (N + 1)) : k > L => ~(k <= L)
      BY <1>3
    <3> QED BY <3>3, <3>4, <3>5, <3>6, <3>7
  <2>2. \A n \in 1..(N + 1) : u[L + n] = more[n]
    <3> TAKE n \in 1..(N + 1)
    <3>1. L + n \in 1..(L + (N + 1)) /\ L + n > L /\ (L + n) - L = n
      BY <1>3
    <3> QED BY <2>1, <3>1
  <2>3. L + (N + 1) = L + N + 1 /\ L + (N + 1) >= 1
    BY <1>3
  <2>4. u # <<>>
    BY <2>1, <2>3
  <2> QED BY <1>3, <2>1, <2>2, <2>3, <2>4
<1>9. u[L + 1] = call /\ \A n \in 1..N : u[L + 1 + n].role = "tool" /\ u[L + 1 + n].ids = <<ids[n]>>
  <2>1. u[L + 1] = call
    BY <1>3, <1>6, <1>8
  <2>2. ASSUME NEW n \in 1..N PROVE u[L + 1 + n].role = "tool" /\ u[L + 1 + n].ids = <<ids[n]>>
    <3>1. n + 1 \in 1..(N + 1) /\ L + (n + 1) = L + 1 + n
      BY <1>3
    <3>2. u[L + 1 + n] = results[n]
      BY <1>6, <1>8, <3>1
    <3> QED BY <1>5, <3>2
  <2> QED BY <2>1, <2>2
<1>10. \A k \in DOMAIN u : \/ k \in DOMAIN turns
                           \/ k = L + 1
                           \/ \E n \in 1..N : k = L + 1 + n
  <2> SUFFICES ASSUME NEW k \in DOMAIN u, k \notin DOMAIN turns, k # L + 1
               PROVE  \E n \in 1..N : k = L + 1 + n
    OBVIOUS
  <2>1. k - (L + 1) \in 1..N /\ k = L + 1 + (k - (L + 1))
    BY <1>3, <1>8
  <2> QED BY <2>1
<1>14. \A x : <<x>> # <<>> /\ DOMAIN <<x>> = {1}
  OBVIOUS
<1>11. \A k \in DOMAIN u : (k \in DOMAIN turns /\ u[k] = turns[k]) \/ u[k].ids # <<>>
  <2> SUFFICES ASSUME NEW k \in DOMAIN u, k \notin DOMAIN turns PROVE u[k].ids # <<>>
    BY <1>8
  <2>1. CASE k = L + 1
    BY <1>1, <1>4, <1>9, <2>1
  <2>2. CASE \E n \in 1..N : k = L + 1 + n
    BY <1>9, <1>14, <2>2
  <2> QED BY <1>10, <2>1, <2>2
<1>12. PrOpened(u) = PrOpened(turns)
  <2>1. \A n \in DOMAIN more : more[n].ids # <<>>
    <3> TAKE n \in DOMAIN more
    <3>1. L + n \in DOMAIN u /\ u[L + n] = more[n] /\ L + n \notin DOMAIN turns
      BY <1>3, <1>6, <1>8
    <3> QED BY <1>11, <3>1
  <2> QED BY <1>6, <1>7, <2>1, PrOpenedKept
<1>13. PrPaired(u)
  <2> SUFFICES ASSUME NEW k \in DOMAIN u
               PROVE  /\ u[k].role = "assistant" => \A n \in DOMAIN u[k].ids :
                           k + n \in DOMAIN u /\ u[k + n].role = "tool" /\ u[k + n].ids = <<u[k].ids[n]>>
                      /\ \A n, o \in DOMAIN u[k].ids : u[k].ids[n] = u[k].ids[o] => n = o
                      /\ u[k].role = "tool" => k > 1 /\ u[k - 1].role \in {"tool", "assistant"}
    BY DEF PrPaired
  <2>1. CASE k \in DOMAIN turns
    <3>1. /\ turns[k].role = "assistant" => \A n \in DOMAIN turns[k].ids :
               k + n \in DOMAIN turns /\ turns[k + n].role = "tool" /\ turns[k + n].ids = <<turns[k].ids[n]>>
          /\ \A n, o \in DOMAIN turns[k].ids : turns[k].ids[n] = turns[k].ids[o] => n = o
          /\ turns[k].role = "tool" => k > 1 /\ turns[k - 1].role \in {"tool", "assistant"}
      BY <2>1 DEF PrPaired
    <3>2. u[k] = turns[k] /\ DOMAIN turns \subseteq DOMAIN u
      BY <1>3, <1>8, <2>1
    <3>3. k > 1 => k - 1 \in DOMAIN turns
      BY <1>3, <2>1
    <3> QED BY <1>8, <3>1, <3>2, <3>3
  <2>2. CASE k = L + 1
    <3>1. u[k] = call /\ u[k].role = "assistant" /\ u[k].ids = ids
      BY <1>4, <1>9, <2>2
    <3>2. \A n \in DOMAIN ids : k + n \in DOMAIN u /\ u[k + n].role = "tool" /\ u[k + n].ids = <<ids[n]>>
      <4> TAKE n \in DOMAIN ids
      <4>1. L + 1 + n \in DOMAIN u
        BY <1>3, <1>8
      <4> QED BY <1>3, <1>9, <2>2, <4>1
    <3> QED BY <1>1, <3>1, <3>2
  <2>3. CASE \E n \in 1..N : k = L + 1 + n
    <3>1. PICK n \in 1..N : k = L + 1 + n
      BY <2>3
    <3>2. u[k].role = "tool" /\ u[k].ids = <<ids[n]>>
      BY <1>9, <3>1
    <3>3. \A x, y \in DOMAIN u[k].ids : x = y
      BY <1>14, <3>2
    <3>4. k > 1 /\ (k - 1 = L + 1 \/ (n - 1 \in 1..N /\ k - 1 = L + 1 + (n - 1)))
      BY <1>3, <3>1
    <3>5. u[k - 1].role \in {"tool", "assistant"}
      BY <1>4, <1>9, <3>4
    <3> QED BY <3>2, <3>3, <3>4, <3>5
  <2> QED BY <1>10, <2>1, <2>2, <2>3
<1> QED BY <1>8, <1>11, <1>12, <1>13 DEF u
LEMMA PrInitInv == PrInit => PrInv
<1> SUFFICES ASSUME PrInit PROVE PrInv
  OBVIOUS
<1>1. Len(prLog) = 0 /\ Len(prSent) = 0 /\ DOMAIN prTurns = {} /\ prLog \in Seq(PrMessage)
      /\ prTurns \in Seq(PrTurnType) /\ prSent \in Seq(Seq(PrTurnType))
  BY DEF PrInit
<1>2. PrTypeInv
  <2>1. 0 <= PrMaxLog /\ 0 \in 0..PrMaxLog /\ 0 \in 0..PrMaxCalls /\ 0 <= 2
    BY PrAssumption
  <2> QED BY <1>1, <2>1 DEF PrInit, PrTypeInv
<1>3. PrTurnsInv
  BY <1>1 DEF PrInit, PrTurnsInv, PrPaired
<1>4. PrSentInv
  BY <1>1 DEF PrInit, PrSentInv
<1> QED BY <1>2, <1>3, <1>4 DEF PrInv

LEMMA PrArriveKeeps ==
  ASSUME PrInv, NEW m \in PrMessage, PrArrive(m)
  PROVE  PrInv'
<1>1. /\ prLog' = Append(prLog, m) /\ Len(prLog) < PrMaxLog /\ prRun \in {"none", "read"}
      /\ UNCHANGED <<prModel, prRun, prTrigger, prTurns, prSent, prCalls, prCost>>
  BY DEF PrArrive
<1>2. PrTypeInv /\ PrTurnsInv /\ PrSentInv
  BY DEF PrInv
<1>3. /\ prLog \in Seq(PrMessage) /\ prLog' \in Seq(PrMessage) /\ Len(prLog') = Len(prLog) + 1
      /\ Len(prLog) \in Nat /\ \A k \in DOMAIN prLog : k \in DOMAIN prLog' /\ prLog'[k] = prLog[k]
  BY <1>1, <1>2 DEF PrTypeInv
<1>4. PrTypeInv'
  <2>1. Len(prLog') <= PrMaxLog
    BY <1>1, <1>3, PrAssumption
  <2> QED BY <1>1, <1>2, <1>3, <2>1 DEF PrTypeInv
<1>5. PrTurnsInv'
  <2>1. prTurns = <<>> /\ prTurns' = <<>>
    BY <1>1, <1>2 DEF PrTurnsInv
  <2>2. prRun' # "none" => prTrigger' \in DOMAIN prLog' /\ prLog'[prTrigger'].from = "customer"
    BY <1>1, <1>2, <1>3 DEF PrTurnsInv
  <2> QED BY <1>1, <1>2, <2>1, <2>2 DEF PrTurnsInv, PrPaired
<1>6. PrSentInv'
  BY <1>1, <1>2 DEF PrSentInv, PrStripped, PrHasImage
<1> QED BY <1>4, <1>5, <1>6 DEF PrInv

LEMMA PrLoseKeeps ==
  ASSUME PrInv, NEW i \in 1..PrMaxLog, PrLose(i)
  PROVE  PrInv'
<1>1. /\ i \in DOMAIN prLog /\ prRun = "none" /\ prLog' = [prLog EXCEPT ![i].shows = "lost"]
      /\ UNCHANGED <<prModel, prRun, prTrigger, prTurns, prSent, prCalls, prCost>>
  BY DEF PrLose
<1>2. PrTypeInv /\ PrTurnsInv /\ PrSentInv
  BY DEF PrInv
<1>3. prLog' \in Seq(PrMessage) /\ Len(prLog') = Len(prLog)
  <2>1. prLog \in Seq(PrMessage) /\ prLog[i] \in PrMessage
    BY <1>1, <1>2 DEF PrTypeInv
  <2>2. [prLog[i] EXCEPT !.shows = "lost"] \in PrMessage
    BY <2>1 DEF PrMessage, PrPictures
  <2>3. prLog' = [prLog EXCEPT ![i] = [prLog[i] EXCEPT !.shows = "lost"]]
    BY <1>1
  <2> DEFINE lost == [prLog[i] EXCEPT !.shows = "lost"]
  <2> HIDE DEF lost
  <2> QED BY <1>1, <2>1, <2>2, <2>3
<1>4. PrTypeInv'
  BY <1>1, <1>2, <1>3 DEF PrTypeInv
<1>5. PrTurnsInv'
  BY <1>1, <1>2 DEF PrTurnsInv, PrPaired
<1>6. PrSentInv'
  BY <1>1, <1>2 DEF PrSentInv, PrStripped, PrHasImage
<1> QED BY <1>4, <1>5, <1>6 DEF PrInv

LEMMA PrStartKeeps ==
  ASSUME PrInv, PrStart
  PROVE  PrInv'
<1>1. /\ prRun = "none" /\ prRun' = "read"
      /\ \E i \in DOMAIN prLog : prLog[i].from = "customer" /\ prTrigger' = i
      /\ UNCHANGED <<prLog, prModel, prTurns, prSent, prCalls, prCost>>
  BY DEF PrStart
<1>2. PrTypeInv /\ PrTurnsInv /\ PrSentInv
  BY DEF PrInv
<1>3. prTrigger' \in DOMAIN prLog /\ prTrigger' \in 0..PrMaxLog /\ prLog[prTrigger'].from = "customer"
  <2>1. prLog \in Seq(PrMessage) /\ Len(prLog) <= PrMaxLog
    BY <1>2 DEF PrTypeInv
  <2>2. \A i \in DOMAIN prLog : i \in 0..PrMaxLog
    BY <2>1, PrAssumption
  <2> QED BY <1>1, <2>2
<1>4. PrTypeInv'
  BY <1>1, <1>2, <1>3 DEF PrTypeInv
<1>5. PrTurnsInv'
  BY <1>1, <1>2, <1>3 DEF PrTurnsInv, PrPaired
<1>6. PrSentInv'
  BY <1>1, <1>2 DEF PrSentInv, PrStripped, PrHasImage
<1> QED BY <1>4, <1>5, <1>6 DEF PrInv

\* Turns without calls have nothing to pair.
LEMMA PrOpenIsTurns ==
  ASSUME NEW u \in Seq(PrOpenType)
  PROVE  u \in Seq(PrTurnType) /\ PrPaired(u) /\ PrOpened(u) = u
<1>1. \A t \in PrOpenType : t \in PrTurnType /\ t.role # "tool" /\ t.ids = <<>>
  <2> TAKE t \in PrOpenType
  <2>1. t.role \in {"user", "assistant"} /\ t.ids = <<>> /\ t \in [role : {"user", "assistant"}, parts : Seq(PrParts), ids : {<<>>}]
    BY DEF PrOpenType
  <2>2. <<>> \in Seq(PrNames)
    OBVIOUS
  <2> QED BY <2>1, <2>2 DEF PrTurnType
<1>2. \A k \in DOMAIN u : u[k] \in PrOpenType
  OBVIOUS
<1>3. u \in Seq(PrTurnType)
  BY <1>1, <1>2
<1>4. PrOpened(u) = u
  BY <1>1, <1>2, <1>3, PrOpenedAll
<1>5. DOMAIN <<>> = {}
  OBVIOUS
<1>6. PrPaired(u)
  BY <1>1, <1>2, <1>5 DEF PrPaired
<1> QED BY <1>3, <1>4, <1>6

LEMMA PrBuildKeeps ==
  ASSUME PrInv, PrBuild
  PROVE  PrInv'
<1>1. /\ prRun = "read" /\ prRun' = "call" /\ UNCHANGED <<prModel, prTrigger, prSent, prCalls, prCost>>
      /\ \E log \in PrResolved(prLog) :
           prLog' = log /\ prTurns' = PrClosed(PrHistory(log), PrPartsOf(log, prTrigger))
  BY DEF PrBuild
<1>2. PrTypeInv /\ PrTurnsInv /\ PrSentInv
  BY DEF PrInv
<1>3. PICK log \in PrResolved(prLog) :
        prLog' = log /\ prTurns' = PrClosed(PrHistory(log), PrPartsOf(log, prTrigger))
  BY <1>1
<1>4. /\ log \in Seq(PrMessage) /\ Len(log) <= PrMaxLog
      /\ prTrigger \in DOMAIN log /\ log[prTrigger].from = "customer"
  <2>1. prLog \in Seq(PrMessage) /\ Len(prLog) <= PrMaxLog
    BY <1>2 DEF PrTypeInv
  <2>2. prTrigger \in DOMAIN prLog /\ prLog[prTrigger].from = "customer"
    BY <1>1, <1>2 DEF PrTurnsInv
  <2> QED BY <2>1, <2>2, PrResolvedIs
<1>5. PICK u \in Seq(PrOpenType) :
        /\ prTurns' = u /\ (\A k \in DOMAIN u : u[k].parts # <<>>) /\ PrOpens(u, log, prTrigger)
  BY <1>3, <1>4, PrHistoryTells, PrClosedTells
<1>6. u \in Seq(PrTurnType) /\ PrPaired(u) /\ PrOpened(u) = u
  BY PrOpenIsTurns
<1>7. u # <<>>
  BY <1>5 DEF PrOpens
<1>8. PrTypeInv'
  BY <1>1, <1>2, <1>3, <1>4, <1>5, <1>6 DEF PrTypeInv
<1>9. PrTurnsInv'
  BY <1>1, <1>3, <1>4, <1>5, <1>6, <1>7 DEF PrTurnsInv
<1>10. PrSentInv'
  <2>1. prSent' = <<>> /\ Len(<<>>) = 0
    BY <1>1, <1>2 DEF PrTurnsInv
  <2>2. Len(prSent') = 0
    BY <2>1
  <2> QED BY <2>2 DEF PrSentInv
<1> QED BY <1>8, <1>9, <1>10 DEF PrInv

LEMMA PrCallKeeps ==
  ASSUME PrInv, PrCall
  PROVE  PrInv'
<1>1. /\ prRun = "call" /\ prSent = <<>> /\ UNCHANGED <<prLog, prModel, prTrigger, prTurns, prCost>>
      /\ \/ prRun' = "done" /\ UNCHANGED <<prSent, prCalls>>
         \/ prCalls # PrMaxCalls /\ prCalls' = prCalls + 1 /\ prSent' = <<PrRequest>> /\ UNCHANGED prRun
         \/ prCalls # PrMaxCalls /\ prCalls' = prCalls + 1 /\ prRun' = "failed" /\ UNCHANGED prSent
  BY DEF PrCall
<1>2. PrTypeInv /\ PrTurnsInv /\ PrSentInv
  BY DEF PrInv
<1>3. prTurns \in Seq(PrTurnType) /\ prTurns # <<>>
  BY <1>1, <1>2 DEF PrTypeInv, PrTurnsInv
<1>4. PrRequest = prTurns
  <2>1. {k \in DOMAIN prTurns : prTurns[k].parts # <<>> \/ prTurns[k].ids # <<>>} = DOMAIN prTurns
    BY <1>2 DEF PrTurnsInv
  <2> QED BY <1>3, <2>1, PickedAll DEF PrRequest
<1>5. prCalls' \in 0..PrMaxCalls
  <2>1. prCalls \in 0..PrMaxCalls
    BY <1>2 DEF PrTypeInv
  <2> QED BY <1>1, <2>1, PrAssumption
<1>6. /\ prSent' \in Seq(Seq(PrTurnType)) /\ Len(prSent') <= 1 /\ Len(prSent') \in Nat
      /\ Len(prSent') >= 1 => prSent'[1] = prTurns
  <2>1. <<prTurns>> \in Seq(Seq(PrTurnType)) /\ Len(<<prTurns>>) = 1 /\ <<prTurns>>[1] = prTurns
    BY <1>3
  <2>2. <<>> \in Seq(Seq(PrTurnType)) /\ Len(<<>>) = 0
    OBVIOUS
  <2>3. CASE prSent' = prSent
    <3>1. prSent' = <<>>
      BY <1>1, <2>3
    <3> QED BY <2>2, <3>1
  <2>4. CASE prSent' = <<PrRequest>>
    <3>1. prSent' = <<prTurns>>
      BY <1>4, <2>4
    <3> QED BY <2>1, <3>1
  <2> QED BY <1>1, <2>3, <2>4
<1>7. prRun' \in {"call", "done", "failed"}
  BY <1>1
<1>8. PrTypeInv'
  <2>1. Len(prSent') <= 2
    BY <1>6
  <2> QED BY <1>1, <1>2, <1>5, <1>6, <1>7, <2>1 DEF PrTypeInv
<1>9. PrTurnsInv'
  BY <1>1, <1>2, <1>3, <1>7 DEF PrTurnsInv
<1>10. PrSentInv'
  <2>1. ~(Len(prSent') = 2)
    <3>1. Len(prSent') \in Nat /\ Len(prSent') <= 1
      BY <1>6
    <3>2. \A n \in Nat : n <= 1 => ~(n = 2)
      OBVIOUS
    <3> QED BY <3>1, <3>2
  <2>2. prTurns' = prTurns
    BY <1>1
  <2> QED BY <1>6, <2>1, <2>2 DEF PrSentInv
<1> QED BY <1>8, <1>9, <1>10 DEF PrInv

LEMMA PrAnsweredKeeps ==
  ASSUME PrInv, prRun \in {"call", "again"}, PrAnswered
  PROVE  PrInv'
<1>1. PICK answer \in PrAnswers, told \in {"absent", "null", "number"} :
        /\ prCost' = IF PrCostOf(told) = "something" THEN "something" ELSE prCost
        /\ IF answer = <<>>
           THEN prRun' = "done" /\ UNCHANGED <<prTurns, prSent>>
           ELSE /\ prRun' = "call" /\ prSent' = <<>>
                /\ prTurns' = Append(prTurns, PrTurn("assistant", <<>>, PrIds(answer)))
                              \o [k \in DOMAIN answer |-> PrTurn("tool", <<>>, <<PrIds(answer)[k]>>)]
  BY DEF PrAnswered
<1>2. PrTypeInv /\ PrTurnsInv /\ PrSentInv /\ UNCHANGED <<prLog, prModel, prTrigger, prCalls>>
  BY DEF PrInv, PrAnswered
<1>3. prTurns \in Seq(PrTurnType) /\ prTurns # <<>> /\ PrPaired(prTurns)
  BY <1>2 DEF PrTypeInv, PrTurnsInv
<1>4. prCost' \in {"nothing", "something"}
  BY <1>1, <1>2 DEF PrTypeInv
<1>5. CASE answer = <<>>
  <2>1. prRun' = "done" /\ UNCHANGED <<prTurns, prSent>>
    BY <1>1, <1>5
  <2>2. PrTypeInv'
    BY <1>2, <1>4, <2>1 DEF PrTypeInv
  <2>3. PrTurnsInv'
    BY <1>2, <2>1 DEF PrTurnsInv
  <2>4. PrSentInv'
    BY <1>2, <2>1 DEF PrSentInv, PrStripped, PrHasImage
  <2> QED BY <2>2, <2>3, <2>4 DEF PrInv
<1>6. CASE answer # <<>>
  <2> DEFINE u == PrCalled(prTurns, PrIds(answer))
  <2>1. prRun' = "call" /\ prSent' = <<>> /\ prTurns' = u
    <3>1. Append(prTurns, PrTurn("assistant", <<>>, PrIds(answer)))
            \o [k \in DOMAIN answer |-> PrTurn("tool", <<>>, <<PrIds(answer)[k]>>)] = u
      BY <1>3, <1>6, PrCalledIs
    <3> QED BY <1>1, <1>6, <3>1
  <2>2. /\ PrIds(answer) \in Seq(PrNames) /\ PrIds(answer) # <<>>
        /\ \A n, o \in DOMAIN PrIds(answer) : PrIds(answer)[n] = PrIds(answer)[o] => n = o
    BY <1>6, PrIdsAre
  <2>3. /\ u \in Seq(PrTurnType) /\ u # <<>> /\ PrPaired(u) /\ PrOpened(u) = PrOpened(prTurns)
        /\ \A k \in DOMAIN u : (k \in DOMAIN prTurns /\ u[k] = prTurns[k]) \/ u[k].ids # <<>>
    BY <1>3, <2>2, PrCallsPair
  <2> HIDE DEF u
  <2>4. Len(prSent') = 0 /\ prSent' \in Seq(Seq(PrTurnType))
    BY <2>1
  <2>5. PrTypeInv'
    BY <1>2, <1>4, <2>1, <2>3, <2>4 DEF PrTypeInv
  <2>6. PrTurnsInv'
    <3>1. PrOpens(PrOpened(u), prLog, prTrigger)
      BY <1>2, <1>3, <2>3 DEF PrTurnsInv
    <3>2. \A k \in DOMAIN u : u[k].parts # <<>> \/ u[k].ids # <<>>
      BY <1>2, <2>3 DEF PrTurnsInv
    <3>3. prTrigger \in DOMAIN prLog /\ prLog[prTrigger].from = "customer"
      BY <1>2 DEF PrTurnsInv
    <3> QED BY <1>2, <2>1, <2>3, <3>1, <3>2, <3>3 DEF PrTurnsInv
  <2>7. PrSentInv'
    BY <2>4 DEF PrSentInv
  <2> QED BY <2>5, <2>6, <2>7 DEF PrInv
<1> QED BY <1>5, <1>6

LEMMA PrAppendedLast ==
  ASSUME NEW T, NEW q \in Seq(T), NEW x
  PROVE  Append(q, x)[Len(q) + 1] = x
OBVIOUS

LEMMA PrAppended ==
  ASSUME NEW T, NEW q \in Seq(T), NEW x \in T, Len(q) = 1
  PROVE  /\ Append(q, x) \in Seq(T) /\ Len(Append(q, x)) = 2
         /\ Append(q, x)[1] = q[1] /\ Append(q, x)[2] = x
<1>1. 1 \in 1..Len(q) /\ Len(q) + 1 = 2
  OBVIOUS
<1>2. Append(q, x)[1] = q[1]
  BY <1>1
<1>3. Append(q, x)[Len(q) + 1] = x
  BY PrAppendedLast, Zenon
<1>4. Append(q, x) \in Seq(T)
  OBVIOUS
<1>5. Len(Append(q, x)) = Len(q) + 1
  OBVIOUS
<1>6. Append(q, x)[2] = x
  BY <1>1, <1>3, Zenon
<1> QED BY <1>1, <1>2, <1>4, <1>5, <1>6

LEMMA PrRefusedKeeps ==
  ASSUME PrInv, NEW status \in {400, 500}, PrRefused(status)
  PROVE  PrInv'
<1>1. /\ prRun = "call" /\ Len(prSent) = 1
      /\ UNCHANGED <<prLog, prModel, prTrigger, prTurns, prCalls, prCost>>
      /\ \/ PrHasImage(prSent[1]) /\ prRun' = "again" /\ prSent' = Append(prSent, PrStripped(prSent[1]))
         \/ prRun' = "failed" /\ UNCHANGED prSent
  BY DEF PrRefused
<1>2. PrTypeInv /\ PrTurnsInv /\ PrSentInv
  BY DEF PrInv
<1>3. /\ prTurns \in Seq(PrTurnType) /\ prSent \in Seq(Seq(PrTurnType)) /\ prSent[1] = prTurns
      /\ PrStripped(prTurns) \in Seq(PrTurnType) /\ prTurns # <<>>
  BY <1>1, <1>2, PrStrippedIs DEF PrTypeInv, PrSentInv, PrTurnsInv
<1>7. /\ prRun = "call" /\ prRun' \in {"again", "failed"}
      /\ UNCHANGED <<prLog, prModel, prTrigger, prTurns, prCalls, prCost>>
  BY <1>1
<1>4. PrTurnsInv'
  BY <1>2, <1>7 DEF PrTurnsInv
<1>5. CASE PrHasImage(prSent[1]) /\ prRun' = "again" /\ prSent' = Append(prSent, PrStripped(prSent[1]))
  <2> DEFINE s == PrStripped(prTurns)
  <2>1. prSent' = Append(prSent, s) /\ PrHasImage(prTurns)
    BY <1>3, <1>5
  <2>2. s \in Seq(PrTurnType)
    BY <1>3
  <2> HIDE DEF s
  <2>3. /\ prSent' \in Seq(Seq(PrTurnType)) /\ Len(prSent') = 2
        /\ prSent'[1] = prTurns /\ prSent'[2] = s
    <3>1. Len(prSent) = 1 /\ prSent \in Seq(Seq(PrTurnType)) /\ prSent[1] = prTurns
      BY <1>1, <1>3
    <3>2. /\ Append(prSent, s) \in Seq(Seq(PrTurnType)) /\ Len(Append(prSent, s)) = 2
          /\ Append(prSent, s)[1] = prSent[1] /\ Append(prSent, s)[2] = s
      BY <2>2, <3>1, PrAppended
    <3> QED BY <2>1, <3>1, <3>2
  <2>4. PrTypeInv'
    BY <1>2, <1>7, <2>3 DEF PrTypeInv
  <2>5. PrSentInv'
    <3>1. s' = s /\ PrHasImage(prTurns)'
      BY <1>7, <2>1 DEF s, PrStripped, PrHasImage
    <3> QED BY <1>7, <2>3, <3>1 DEF PrSentInv, s
  <2> QED BY <1>4, <2>4, <2>5 DEF PrInv
<1>6. CASE prRun' = "failed" /\ UNCHANGED prSent
  <2>1. PrTypeInv'
    BY <1>2, <1>6, <1>7 DEF PrTypeInv
  <2>2. PrSentInv'
    BY <1>2, <1>6, <1>7 DEF PrSentInv, PrStripped, PrHasImage
  <2> QED BY <1>4, <2>1, <2>2 DEF PrInv
<1> QED BY <1>1, <1>5, <1>6

LEMMA PrRefusedAgainKeeps ==
  ASSUME PrInv, PrRefusedAgain
  PROVE  PrInv'
<1>1. /\ prRun = "again" /\ prRun' = "failed"
      /\ UNCHANGED <<prLog, prModel, prTrigger, prTurns, prSent, prCalls, prCost>>
  BY DEF PrRefusedAgain
<1>2. PrTypeInv /\ PrTurnsInv /\ PrSentInv
  BY DEF PrInv
<1>3. PrTypeInv'
  BY <1>1, <1>2 DEF PrTypeInv
<1>4. PrTurnsInv'
  BY <1>1, <1>2 DEF PrTurnsInv
<1>5. PrSentInv'
  BY <1>1, <1>2 DEF PrSentInv, PrStripped, PrHasImage
<1> QED BY <1>3, <1>4, <1>5 DEF PrInv

LEMMA PrInvKept == PrInv /\ [PrNext]_prVars => PrInv'
<1> SUFFICES ASSUME PrInv, [PrNext]_prVars PROVE PrInv'
  OBVIOUS
<1>1. ASSUME NEW m \in PrMessage, PrArrive(m) PROVE PrInv'
  BY <1>1, PrArriveKeeps
<1>2. ASSUME NEW i \in 1..PrMaxLog, PrLose(i) PROVE PrInv'
  BY <1>2, PrLoseKeeps
<1>3. CASE PrStart
  BY <1>3, PrStartKeeps
<1>4. CASE PrBuild
  BY <1>4, PrBuildKeeps
<1>5. CASE PrCall
  BY <1>5, PrCallKeeps
<1>6. CASE PrAnswer
  BY <1>6, PrAnsweredKeeps DEF PrAnswer
<1>7. CASE PrAnswerAgain
  BY <1>7, PrAnsweredKeeps DEF PrAnswerAgain
<1>8. CASE PrRefusedAgain
  BY <1>8, PrRefusedAgainKeeps
<1>9. ASSUME NEW status \in {400, 500}, PrRefused(status) PROVE PrInv'
  BY <1>9, PrRefusedKeeps
<1>10. CASE UNCHANGED prVars
  <2>1. UNCHANGED <<prLog, prModel, prRun, prTrigger, prTurns, prSent, prCalls, prCost>>
    BY <1>10 DEF prVars
  <2>2. PrTypeInv'
    BY <2>1 DEF PrInv, PrTypeInv
  <2>3. PrTurnsInv'
    BY <2>1 DEF PrInv, PrTurnsInv
  <2>4. PrSentInv'
    BY <2>1 DEF PrInv, PrSentInv, PrStripped, PrHasImage
  <2> QED BY <2>2, <2>3, <2>4 DEF PrInv
<1> QED BY <1>1, <1>2, <1>3, <1>4, <1>5, <1>6, <1>7, <1>8, <1>9, <1>10 DEF PrNext

LEMMA PrInvGives == PrInv => PrTypeOK /\ PrSafe
<1> SUFFICES ASSUME PrInv PROVE PrTypeOK /\ PrSafe
  OBVIOUS
<1>1. PrTypeInv /\ PrTurnsInv /\ PrSentInv
  BY DEF PrInv
<1>2. /\ prTurns \in Seq(PrTurnType) /\ prSent \in Seq(Seq(PrTurnType))
      /\ Len(prSent) \in Nat /\ Len(prSent) <= 2 /\ DOMAIN prSent = 1..Len(prSent)
  BY <1>1 DEF PrTypeInv
<1>3. \A r \in Seq(PrTurnType) : \A t \in Range(r) : PrTurnOK(t)
  <2> TAKE r \in Seq(PrTurnType)
  <2> TAKE t \in Range(r)
  <2>1. t \in PrTurnType
    BY DEF Range
  <2>2. t.parts \in Seq(PrParts) /\ t.ids \in Seq(PrNames) /\ t.role \in {"user", "assistant", "tool"}
    BY <2>1 DEF PrTurnType
  <2>3. \A S : \A q \in Seq(S) : Range(q) \subseteq S
    BY DEF Range
  <2> QED BY <2>2, <2>3 DEF PrTurnOK
<1>4. \A r \in Range(prSent) : r \in Seq(PrTurnType)
  BY <1>2 DEF Range
<1>5. PrTypeOK
  BY <1>1, <1>2, <1>3, <1>4 DEF PrTypeInv, PrTypeOK
<1>6. PrOpening = PrOpened(prTurns)
  BY DEF PrOpening, PrOpened
<1>7. PrEndsWithCustomer /\ PrSaysAll
  BY <1>1, <1>6 DEF PrTurnsInv, PrOpens, PrEndsWithCustomer, PrSaysAll
<1>8. PrSecondIsLeaner
  <2> SUFFICES ASSUME Len(prSent) = 2
               PROVE  /\ PrHasImage(prSent[1]) /\ ~PrHasImage(prSent[2])
                      /\ [k \in DOMAIN prSent[1] |-> prSent[1][k].role]
                         = [k \in DOMAIN prSent[2] |-> prSent[2][k].role]
    BY DEF PrSecondIsLeaner
  <2>1. prSent[1] = prTurns /\ prSent[2] = PrStripped(prTurns) /\ PrHasImage(prTurns)
    BY <1>1 DEF PrSentInv
  <2>2. /\ DOMAIN prSent[2] = DOMAIN prSent[1] /\ ~PrHasImage(prSent[2])
        /\ \A k \in DOMAIN prSent[1] : prSent[2][k].role = prSent[1][k].role
    BY <1>2, <2>1, PrStrippedIs
  <2> QED BY <2>1, <2>2
<1>9. PrToolsArePaired
  <2>1. \A r \in Range(prSent) : PrPaired(r)
    <3>1. PrPaired(prTurns)
      BY <1>1 DEF PrTurnsInv
    <3>2. /\ DOMAIN PrStripped(prTurns) = DOMAIN prTurns
          /\ \A k \in DOMAIN prTurns : /\ PrStripped(prTurns)[k].role = prTurns[k].role
                                       /\ PrStripped(prTurns)[k].ids = prTurns[k].ids
      BY <1>2, PrStrippedIs
    <3>3. PrPaired(PrStripped(prTurns))
      <4> DEFINE s == PrStripped(prTurns)
      <4> HIDE DEF s
      <4>1. /\ DOMAIN s = DOMAIN prTurns
            /\ \A k \in DOMAIN prTurns : s[k].role = prTurns[k].role /\ s[k].ids = prTurns[k].ids
        BY <3>2 DEF s
      <4>2. \A k \in DOMAIN prTurns : k > 1 => k - 1 \in DOMAIN prTurns
        BY <1>2
      <4>3. PrPaired(s)
        BY <3>1, <4>1, <4>2 DEF PrPaired
      <4> QED BY <4>3 DEF s
    <3>4. \A r \in Range(prSent) : r = prTurns \/ r = PrStripped(prTurns)
      <4> TAKE r \in Range(prSent)
      <4>1. PICK k \in DOMAIN prSent : r = prSent[k]
        BY DEF Range
      <4>2. (k = 1 /\ Len(prSent) >= 1) \/ (k = 2 /\ Len(prSent) = 2)
        BY <1>2
      <4> QED BY <1>1, <4>1, <4>2 DEF PrSentInv
    <3> QED BY <3>1, <3>3, <3>4
  <2> QED BY <2>1 DEF PrToolsArePaired, PrPaired
<1> QED BY <1>5, <1>7, <1>8, <1>9 DEF PrSafe

\* The prompt says the window, once and in order, and ends with the customer; a second
\* request only leaves the pictures out; every request pairs the calls with their results.
THEOREM PrSafeCorrect == PrSpec => [](PrTypeOK /\ PrSafe)
<1>1. PrSpec => []PrInv
  BY PrInitInv, PrInvKept, PTL DEF PrSpec
<1> QED BY <1>1, PrInvGives, PTL

-----------------------------------------------------------------------------
(* The chart of agents: any agents, editors and depth of the walk *)

\* A walk of n steps from x to y in the chart of the live agents; f names the agents it meets.
AtLeads(parent, live, f, n) ==
  \A i \in 0..(n - 1) : f[i] \in live /\ parent[f[i]] = f[i + 1]
AtPath(parent, live, x, y, n) ==
  \E f \in [0..n -> AtAgents] : f[0] = x /\ f[n] = y /\ AtLeads(parent, live, f, n)

\* The walk of AtAbove in a chart that is given.
AtWalked(parent, live, a) ==
  LET walk[n \in 0..AtMaxDepth] ==
        IF n = 0 THEN a
        ELSE IF walk[n - 1] = AtNobody THEN AtNobody
        ELSE IF walk[n - 1] \in live THEN parent[walk[n - 1]] ELSE AtNobody
  IN  {walk[n] : n \in 1..AtMaxDepth} \ {AtNobody}

AtIsWalk(parent, live, a, k, f) ==
  f = [n \in 0..k |->
         IF n = 0 THEN a
         ELSE IF f[n - 1] = AtNobody THEN AtNobody
         ELSE IF f[n - 1] \in live THEN parent[f[n - 1]] ELSE AtNobody]

\* There is one such walk: it is built step by step.
LEMMA AtWalkIsThere ==
  ASSUME NEW parent, NEW live, NEW a
  PROVE  \A k \in Nat : \E f : AtIsWalk(parent, live, a, k, f)
<1> DEFINE Next(x) == IF x = AtNobody THEN AtNobody
                      ELSE IF x \in live THEN parent[x] ELSE AtNobody
           Is(f, k) == AtIsWalk(parent, live, a, k, f)
           Bad == {k \in Nat : ~\E f : Is(f, k)}
<1>1. Bad = {}
  <2> SUFFICES ASSUME Bad # {} PROVE FALSE
    OBVIOUS
  <2>1. PICK k \in Bad : \A j \in Bad : k <= j
    <3>1. Bad \subseteq Nat
      OBVIOUS
    <3> HIDE DEF Bad
    <3> QED BY <3>1, LeastNatural
  <2>2. CASE k = 0
    <3> DEFINE f == [n \in 0..0 |-> a]
    <3>1. Is(f, 0)
      <4>1. \A n \in 0..0 : n = 0
        OBVIOUS
      <4> QED BY <4>1 DEF AtIsWalk
    <3> QED BY <2>1, <2>2, <3>1
  <2>3. CASE k # 0
    <3>1. k \in Nat /\ k - 1 \in Nat /\ k - 1 \notin Bad
      <4>1. k \in Nat /\ Bad \subseteq Nat
        BY <2>1
      <4> HIDE DEF Bad
      <4> QED BY <2>1, <2>3, <4>1
    <3>2. PICK g : Is(g, k - 1)
      BY <3>1
    <3> HIDE DEF Next, Bad
    <3> DEFINE f == [n \in 0..k |-> IF n = k THEN Next(g[k - 1]) ELSE g[n]]
    <3>3. \A n \in 0..(k - 1) : f[n] = g[n] /\ g[n] = IF n = 0 THEN a ELSE Next(g[n - 1])
      <4> SUFFICES ASSUME NEW n \in 0..(k - 1)
                   PROVE  f[n] = g[n] /\ g[n] = IF n = 0 THEN a ELSE Next(g[n - 1])
        OBVIOUS
      <4>1. n \in 0..k /\ n # k
        BY <3>1
      <4>2. g[n] = IF n = 0 THEN a ELSE Next(g[n - 1])
        BY <3>2 DEF AtIsWalk, Next
      <4>3. f[n] = g[n]
        BY <4>1
      <4> QED BY <4>2, <4>3
    <3>4. \A n \in 0..k : f[n] = IF n = 0 THEN a ELSE Next(f[n - 1])
      <4> SUFFICES ASSUME NEW n \in 0..k PROVE f[n] = IF n = 0 THEN a ELSE Next(f[n - 1])
        OBVIOUS
      <4>1. CASE n = k
        <5>1. f[k] = Next(g[k - 1]) /\ f[k - 1] = g[k - 1]
          BY <3>1, <3>3
        <5> QED BY <4>1, <5>1, <2>3
      <4>2. CASE n # k
        <5>1. n \in 0..(k - 1) /\ (n # 0 => n - 1 \in 0..(k - 1))
          BY <4>2, <3>1
        <5> QED BY <5>1, <3>3
      <4> QED BY <4>1, <4>2
    <3>5. f = [n \in 0..k |-> f[n]]
      OBVIOUS
    <3> HIDE DEF f
    <3>6. Is(f, k)
      BY <3>4, <3>5 DEF AtIsWalk, Next
    <3> QED BY <2>1, <3>6 DEF Bad
  <2> QED BY <2>2, <2>3
<1> QED BY <1>1

\* Who a walk meets is who a path leads to.
LEMMA AtWalkedIsPaths ==
  ASSUME NEW parent \in [AtAgents -> AtPlaces], NEW live \in SUBSET AtAgents,
         NEW a \in AtAgents
  PROVE  AtWalked(parent, live, a) =
           {y \in AtAgents : \E n \in 1..AtMaxDepth : AtPath(parent, live, a, y, n)}
<1> DEFINE Next(x) == IF x = AtNobody THEN AtNobody
                      ELSE IF x \in live THEN parent[x] ELSE AtNobody
           D == AtMaxDepth
           walk == CHOOSE f : AtIsWalk(parent, live, a, D, f)
<1>1. AtWalked(parent, live, a) = {walk[n] : n \in 1..D} \ {AtNobody}
  BY DEF AtWalked, AtIsWalk
<1>2. \E f : AtIsWalk(parent, live, a, D, f)
  BY AtWalkIsThere, AtAssumption
<1>3. AtIsWalk(parent, live, a, D, walk)
  BY <1>2
<1> HIDE DEF walk
<1>4. walk[0] = a /\ \A n \in 1..D : walk[n] = Next(walk[n - 1])
  <2>1. 0 \in 0..D /\ D \in Nat
    BY AtAssumption
  <2>2. walk[0] = a
    BY <1>3, <2>1 DEF AtIsWalk
  <2>3. ASSUME NEW n \in 1..D PROVE walk[n] = Next(walk[n - 1])
    <3>1. n \in 0..D /\ n # 0
      BY <2>1
    <3> QED BY <1>3, <3>1 DEF AtIsWalk
  <2> QED BY <2>2, <2>3
<1> HIDE DEF Next
<1>5. \A x : x \in AtAgents => /\ Next(x) \in AtPlaces
                               /\ Next(x) # AtNobody => x \in live /\ parent[x] = Next(x)
                               /\ x \in live => Next(x) = parent[x]
  BY AtAssumption DEF Next, AtPlaces
<1>6. Next(AtNobody) = AtNobody
  BY DEF Next
\* The walk stays where it is once it is with nobody.
<1>7. \A n \in 0..D : walk[n] \in AtPlaces /\
        (walk[n] # AtNobody => \A i \in 0..n : walk[i] \in AtAgents)
  <2> DEFINE OK(n) == walk[n] \in AtPlaces /\
               (walk[n] # AtNobody => \A i \in 0..n : walk[i] \in AtAgents)
             Bad == {n \in 0..D : ~OK(n)}
  <2> SUFFICES ASSUME Bad # {} PROVE FALSE
    OBVIOUS
  <2>1. PICK k \in Bad : \A j \in Bad : k <= j
    <3>1. Bad \subseteq Nat
      BY AtAssumption
    <3> HIDE DEF Bad
    <3> QED BY <3>1, LeastNatural
  <2>2. k \in 0..D /\ ~OK(k) /\ D \in Nat
    BY AtAssumption
  <2>3. k # 0
    BY <1>4, <2>2 DEF AtPlaces
  <2>4. k - 1 \in 0..D /\ k \in 1..D
    BY <2>2, <2>3
  <2>5. OK(k - 1)
    BY <2>1, <2>4
  <2>6. walk[k] = Next(walk[k - 1])
    BY <1>4, <2>4
  <2>7. CASE walk[k - 1] = AtNobody
    BY <1>6, <2>2, <2>6, <2>7 DEF AtPlaces
  <2>8. CASE walk[k - 1] # AtNobody
    <3>1. \A i \in 0..(k - 1) : walk[i] \in AtAgents
      BY <2>5, <2>8
    <3>2. walk[k - 1] \in AtAgents
      BY <3>1, <2>4
    <3>3. walk[k] \in AtPlaces
      BY <1>5, <2>6, <3>2
    <3>4. \A i \in 0..k : i \in 0..(k - 1) \/ i = k
      BY <2>4
    <3> QED BY <2>2, <3>1, <3>3, <3>4 DEF AtPlaces
  <2> QED BY <2>7, <2>8
<1>8. ASSUME NEW n \in 1..D, walk[n] # AtNobody
      PROVE  walk[n] \in AtAgents /\ AtPath(parent, live, a, walk[n], n)
  <2> DEFINE f == [i \in 0..n |-> walk[i]]
  <2>0. n \in 0..D /\ n \in Nat /\ D \in Nat /\ 0 \in 0..n /\ n \in 0..n
    BY AtAssumption
  <2>1. \A i \in 0..n : walk[i] \in AtAgents
    BY <1>7, <1>8, <2>0
  <2>2. f \in [0..n -> AtAgents] /\ f[0] = a /\ f[n] = walk[n]
    BY <1>4, <2>0, <2>1
  <2>3. AtLeads(parent, live, f, n)
    <3> SUFFICES ASSUME NEW i \in 0..(n - 1) PROVE f[i] \in live /\ parent[f[i]] = f[i + 1]
      BY DEF AtLeads
    <3>1. i \in 0..n /\ i + 1 \in 0..n /\ i + 1 \in 1..D /\ (i + 1) - 1 = i
      BY <2>0
    <3>2. walk[i + 1] = Next(walk[i])
      BY <1>4, <3>1
    <3>3. walk[i] \in AtAgents /\ walk[i + 1] \in AtAgents
      BY <2>1, <3>1
    <3>4. walk[i] \in live /\ parent[walk[i]] = walk[i + 1]
      BY <1>5, <3>2, <3>3, AtAssumption
    <3> QED BY <3>1, <3>4
  <2> HIDE DEF f
  <2> QED BY <2>0, <2>1, <2>2, <2>3 DEF AtPath
<1>9. ASSUME NEW y \in AtAgents, NEW n \in 1..D, AtPath(parent, live, a, y, n)
      PROVE  walk[n] = y
  <2>1. PICK f \in [0..n -> AtAgents] : f[0] = a /\ f[n] = y /\ AtLeads(parent, live, f, n)
    BY <1>9 DEF AtPath
  <2> DEFINE Bad == {i \in 0..n : walk[i] # f[i]}
  <2>2. Bad = {}
    <3> SUFFICES ASSUME Bad # {} PROVE FALSE
      OBVIOUS
    <3>1. PICK k \in Bad : \A j \in Bad : k <= j
      <4>1. Bad \subseteq Nat
        OBVIOUS
      <4> HIDE DEF Bad
      <4> QED BY <4>1, LeastNatural
    <3>2. k \in 0..n /\ walk[k] # f[k] /\ k # 0
      BY <1>4, <2>1
    <3>3. n \in Nat /\ D \in Nat /\ n <= D
      BY AtAssumption
    <3>4. k - 1 \in 0..n /\ k - 1 \in 0..(n - 1) /\ k \in 1..D /\ (k - 1) + 1 = k
      BY <3>2, <3>3
    <3>5. walk[k - 1] = f[k - 1]
      BY <3>1, <3>4
    <3>6. f[k - 1] \in live /\ parent[f[k - 1]] = f[k] /\ f[k - 1] \in AtAgents
      BY <2>1, <3>4 DEF AtLeads
    <3>7. walk[k] = Next(walk[k - 1])
      BY <1>4, <3>4
    <3> QED BY <1>5, <3>2, <3>5, <3>6, <3>7
  <2>3. n \in 0..n
    BY AtAssumption
  <2> QED BY <2>1, <2>2, <2>3
<1>10. \A y : y \in {walk[n] : n \in 1..D} \ {AtNobody} <=>
         y \in AtAgents /\ \E n \in 1..D : AtPath(parent, live, a, y, n)
  BY <1>8, <1>9, AtAssumption
<1> QED BY <1>1, <1>10

-----------------------------------------------------------------------------
(* Paths *)

\* A part of a path is a path.
LEMMA AtCut ==
  ASSUME NEW parent, NEW live, NEW n \in Nat, NEW f \in [0..n -> AtAgents],
         AtLeads(parent, live, f, n), NEW i \in 0..n, NEW j \in i..n
  PROVE  AtPath(parent, live, f[i], f[j], j - i)
<1> DEFINE h == [k \in 0..(j - i) |-> f[i + k]]
<1>1. i \in Nat /\ j \in Nat /\ i <= j /\ j <= n /\ j - i \in Nat
  OBVIOUS
<1>2. \A k \in 0..(j - i) : i + k \in 0..n
  BY <1>1
<1>3. h \in [0..(j - i) -> AtAgents]
  BY <1>2
<1>4. 0 \in 0..(j - i) /\ j - i \in 0..(j - i) /\ i + 0 = i /\ i + (j - i) = j
  BY <1>1
<1>5. h[0] = f[i] /\ h[j - i] = f[j]
  BY <1>4
<1>6. AtLeads(parent, live, h, j - i)
  <2> SUFFICES ASSUME NEW k \in 0..((j - i) - 1) PROVE h[k] \in live /\ parent[h[k]] = h[k + 1]
    BY DEF AtLeads
  <2>1. /\ k \in 0..(j - i) /\ k + 1 \in 0..(j - i) /\ i + k \in 0..(n - 1)
        /\ i + (k + 1) = (i + k) + 1
    BY <1>1
  <2>2. f[i + k] \in live /\ parent[f[i + k]] = f[(i + k) + 1]
    BY <2>1 DEF AtLeads
  <2> QED BY <2>1, <2>2
<1> HIDE DEF h
<1> QED BY <1>3, <1>5, <1>6 DEF AtPath

\* A path goes on with another.
LEMMA AtJoin ==
  ASSUME NEW parent, NEW live, NEW x, NEW y, NEW z, NEW n \in Nat, NEW m \in Nat,
         AtPath(parent, live, x, y, n), AtPath(parent, live, y, z, m)
  PROVE  AtPath(parent, live, x, z, n + m)
<1>1. PICK f \in [0..n -> AtAgents] : f[0] = x /\ f[n] = y /\ AtLeads(parent, live, f, n)
  BY DEF AtPath
<1>2. PICK g \in [0..m -> AtAgents] : g[0] = y /\ g[m] = z /\ AtLeads(parent, live, g, m)
  BY DEF AtPath
<1> DEFINE h == [k \in 0..(n + m) |-> IF k <= n THEN f[k] ELSE g[k - n]]
<1>3. \A k \in 0..(n + m) : (k <= n => k \in 0..n) /\ (~(k <= n) => k - n \in 0..m)
  OBVIOUS
<1>4. h \in [0..(n + m) -> AtAgents]
  BY <1>1, <1>2, <1>3
<1>5. \A k \in 0..n : h[k] = f[k]
  OBVIOUS
<1>6. \A k \in 0..m : h[n + k] = g[k]
  <2> SUFFICES ASSUME NEW k \in 0..m PROVE h[n + k] = g[k]
    OBVIOUS
  <2>1. n + k \in 0..(n + m) /\ (n + k <= n => k = 0) /\ (n + k) - n = k
    OBVIOUS
  <2>2. CASE k = 0
    <3>1. n + k = n /\ n \in 0..n
      BY <2>2
    <3> QED BY <1>1, <1>2, <1>5, <2>2, <3>1
  <2>3. CASE k # 0
    BY <2>1, <2>3
  <2> QED BY <2>2, <2>3
<1>7. h[0] = x /\ h[n + m] = z
  <2>1. 0 \in 0..n /\ m \in 0..m
    OBVIOUS
  <2> QED BY <1>1, <1>2, <1>5, <1>6, <2>1
<1> HIDE DEF h
<1>8. AtLeads(parent, live, h, n + m)
  <2> SUFFICES ASSUME NEW k \in 0..((n + m) - 1) PROVE h[k] \in live /\ parent[h[k]] = h[k + 1]
    BY DEF AtLeads
  <2>1. CASE k < n
    <3>1. k \in 0..n /\ k + 1 \in 0..n /\ k \in 0..(n - 1)
      BY <2>1
    <3> QED BY <1>1, <1>5, <3>1 DEF AtLeads
  <2>2. CASE ~(k < n)
    <3>1. k - n \in 0..m /\ (k - n) + 1 \in 0..m /\ k - n \in 0..(m - 1)
          /\ n + (k - n) = k /\ n + ((k - n) + 1) = k + 1
      BY <2>2
    <3>2. g[k - n] \in live /\ parent[g[k - n]] = g[(k - n) + 1]
      BY <1>2, <3>1 DEF AtLeads
    <3>3. h[n + (k - n)] = g[k - n] /\ h[n + ((k - n) + 1)] = g[(k - n) + 1]
      BY <1>6, <3>1
    <3> QED BY <3>1, <3>2, <3>3
  <2> QED BY <2>1, <2>2
<1> QED BY <1>4, <1>7, <1>8 DEF AtPath

\* Nobody is above itself; p is not below a.
AtNoLoop(parent, live) ==
  \A a \in AtAgents, n \in 1..AtMaxDepth : ~AtPath(parent, live, a, a, n)
AtApart(parent, live, p, a) ==
  p # a /\ \A n \in 1..AtMaxDepth : ~AtPath(parent, live, p, a, n)

\* The new superior of an agent makes no loop when it is not below the agent.
LEMMA AtWriteMakesNoLoop ==
  ASSUME NEW parent \in [AtAgents -> AtPlaces], NEW live \in SUBSET AtAgents,
         NEW a \in AtAgents, NEW p \in AtPlaces,
         AtNoLoop(parent, live), p \in AtAgents => AtApart(parent, live, p, a)
  PROVE  AtNoLoop([parent EXCEPT ![a] = p], live)
<1> DEFINE next == [parent EXCEPT ![a] = p]
<1>1. next[a] = p /\ \A b \in AtAgents : b # a => next[b] = parent[b]
  OBVIOUS
<1> HIDE DEF next
\* A path that leaves a alone was there before.
<1>2. ASSUME NEW n \in Nat, NEW f \in [0..n -> AtAgents], AtLeads(next, live, f, n),
             \A i \in 0..(n - 1) : f[i] # a
      PROVE  AtLeads(parent, live, f, n)
  <2>1. \A i \in 0..(n - 1) : f[i] \in AtAgents
    <3>1. \A i \in 0..(n - 1) : i \in 0..n
      OBVIOUS
    <3> QED BY <3>1
  <2> QED BY <1>1, <1>2, <2>1 DEF AtLeads
\* A loop through a starts at a.
<1>3. ASSUME NEW n \in 1..AtMaxDepth, AtPath(next, live, a, a, n)
      PROVE  FALSE
  <2>0. n \in Nat /\ 1 <= n /\ n <= AtMaxDepth /\ AtMaxDepth \in Nat
    BY AtAssumption
  <2>1. PICK f \in [0..n -> AtAgents] : f[0] = a /\ f[n] = a /\ AtLeads(next, live, f, n)
    BY <1>3 DEF AtPath
  <2>2. f[1] = p /\ p \in AtAgents
    <3>1. 0 \in 0..(n - 1) /\ 1 \in 0..n /\ 0 + 1 = 1
      BY <2>0
    <3>2. next[f[0]] = f[1]
      BY <2>1, <3>1 DEF AtLeads
    <3> QED BY <1>1, <2>1, <3>1, <3>2
  <2>3. PICK j \in {i \in 1..n : f[i] = a} : \A k \in {i \in 1..n : f[i] = a} : j <= k
    <3>1. {i \in 1..n : f[i] = a} \subseteq Nat /\ n \in {i \in 1..n : f[i] = a}
      BY <2>0, <2>1
    <3> QED BY <3>1, LeastNatural
  <2>4. j \in 1..n /\ f[j] = a /\ j \in Nat /\ j - 1 \in Nat
    BY <2>0, <2>3
  <2>5. \A k \in 1..(j - 1) : f[k] # a
    BY <2>0, <2>3, <2>4
  <2> DEFINE g == [k \in 0..(j - 1) |-> f[k + 1]]
  <2>6. \A k \in 0..(j - 1) : k + 1 \in 0..n /\ k + 1 \in 1..j
    BY <2>0, <2>4
  <2>7. g \in [0..(j - 1) -> AtAgents]
    BY <2>6
  <2>8. g[0] = p /\ g[j - 1] = a
    <3>1. 0 \in 0..(j - 1) /\ j - 1 \in 0..(j - 1) /\ 0 + 1 = 1 /\ (j - 1) + 1 = j
      BY <2>4
    <3> QED BY <2>2, <2>4, <3>1
  <2>9. AtLeads(parent, live, g, j - 1)
    <3> SUFFICES ASSUME NEW k \in 0..((j - 1) - 1)
                 PROVE  g[k] \in live /\ parent[g[k]] = g[k + 1]
      BY DEF AtLeads
    <3>1. /\ k \in 0..(j - 1) /\ k + 1 \in 0..(j - 1) /\ k + 1 \in 0..(n - 1)
          /\ k + 1 \in 1..(j - 1) /\ k + 1 \in 0..n
      BY <2>0, <2>4
    <3>2. f[k + 1] \in live /\ next[f[k + 1]] = f[(k + 1) + 1]
      BY <2>1, <3>1 DEF AtLeads
    <3>3. f[k + 1] # a /\ f[k + 1] \in AtAgents
      BY <2>5, <3>1
    <3> QED BY <1>1, <3>1, <3>2, <3>3
  <2> HIDE DEF g
  <2>10. AtPath(parent, live, p, a, j - 1)
    BY <2>7, <2>8, <2>9 DEF AtPath
  <2>11. CASE j = 1
    BY <2>2, <2>4, <2>11 DEF AtApart
  <2>12. CASE j # 1
    <3>1. j - 1 \in 1..AtMaxDepth
      BY <2>0, <2>4, <2>12
    <3> QED BY <2>2, <2>10, <3>1 DEF AtApart
  <2> QED BY <2>11, <2>12
<1>4. ASSUME NEW x \in AtAgents, NEW n \in 1..AtMaxDepth, AtPath(next, live, x, x, n)
      PROVE  FALSE
  <2>0. n \in Nat /\ 1 <= n /\ n <= AtMaxDepth /\ AtMaxDepth \in Nat
    BY AtAssumption
  <2>1. PICK f \in [0..n -> AtAgents] : f[0] = x /\ f[n] = x /\ AtLeads(next, live, f, n)
    BY <1>4 DEF AtPath
  <2>2. CASE \A i \in 0..(n - 1) : f[i] # a
    <3>1. AtPath(parent, live, x, x, n)
      BY <1>2, <2>0, <2>1, <2>2 DEF AtPath
    <3> QED BY <3>1 DEF AtNoLoop
  <2>3. CASE \E i \in 0..(n - 1) : f[i] = a
    <3>1. PICK i \in 0..(n - 1) : f[i] = a
      BY <2>3
    <3>2. i \in 0..n /\ n \in i..n /\ i \in 0..i /\ 0 \in 0..n /\ i \in Nat /\ n - i \in Nat
          /\ i \in 0..n /\ (n - i) + i = n /\ i - 0 = i /\ i \in 0..n
      BY <2>0
    <3>3. AtPath(next, live, f[i], f[n], n - i)
      BY <2>0, <2>1, <3>2, AtCut
    <3>4. AtPath(next, live, f[0], f[i], i - 0)
      BY <2>0, <2>1, <3>2, AtCut
    <3>5. AtPath(next, live, a, x, n - i) /\ AtPath(next, live, x, a, i)
      BY <2>1, <3>1, <3>2, <3>3, <3>4
    <3>6. AtPath(next, live, a, a, (n - i) + i)
      BY <3>2, <3>5, AtJoin
    <3> QED BY <1>3, <3>2, <3>6
  <2> QED BY <2>2, <2>3
<1> QED BY <1>4 DEF AtNoLoop, next

\* An agent that is gone cuts paths.
LEMMA AtDeletedCuts ==
  ASSUME NEW parent, NEW live, NEW left \in SUBSET live
  PROVE  /\ AtNoLoop(parent, live) => AtNoLoop(parent, left)
         /\ \A p, a \in AtAgents : AtApart(parent, live, p, a) => AtApart(parent, left, p, a)
<1>1. \A x, y \in AtAgents, n \in 1..AtMaxDepth :
        AtPath(parent, left, x, y, n) => AtPath(parent, live, x, y, n)
  BY DEF AtPath, AtLeads
<1> QED BY <1>1 DEF AtNoLoop, AtApart

\* An agent that is new is above nobody.
LEMMA AtCreatedIsBelow ==
  ASSUME NEW parent \in [AtAgents -> AtPlaces], NEW live \in SUBSET AtAgents,
         NEW b \in AtAgents, NEW q \in AtPlaces,
         q # b, \A c \in AtAgents : parent[c] # b
  PROVE  LET next == [parent EXCEPT ![b] = q] IN
         /\ AtNoLoop(parent, live) => AtNoLoop(next, live \union {b})
         /\ \A p, a \in AtAgents : p # b /\ AtApart(parent, live, p, a) =>
              AtApart(next, live \union {b}, p, a)
<1> DEFINE next == [parent EXCEPT ![b] = q]
           more == live \union {b}
<1>1. next[b] = q /\ \A c \in AtAgents : c # b => next[c] = parent[c]
  OBVIOUS
<1>2. \A c \in more : c # b => c \in live
  OBVIOUS
<1> HIDE DEF next, more
<1>3. ASSUME NEW x \in AtAgents, NEW y \in AtAgents, NEW n \in 1..AtMaxDepth,
             AtPath(next, more, x, y, n)
      PROVE  y # b /\ (x # b => AtPath(parent, live, x, y, n))
  <2>0. n \in Nat /\ 1 <= n
    BY AtAssumption
  <2>1. PICK f \in [0..n -> AtAgents] : f[0] = x /\ f[n] = y /\ AtLeads(next, more, f, n)
    BY <1>3 DEF AtPath
  <2>2. ASSUME NEW i \in 1..n PROVE f[i] # b
    <3>1. i - 1 \in 0..(n - 1) /\ i - 1 \in 0..n /\ (i - 1) + 1 = i
      BY <2>0
    <3>2. next[f[i - 1]] = f[i] /\ f[i - 1] \in AtAgents
      BY <2>1, <3>1 DEF AtLeads
    <3> QED BY <1>1, <3>2
  <2>3. n \in 1..n
    BY <2>0
  <2>4. ASSUME x # b PROVE AtLeads(parent, live, f, n)
    <3> SUFFICES ASSUME NEW i \in 0..(n - 1) PROVE f[i] \in live /\ parent[f[i]] = f[i + 1]
      BY DEF AtLeads
    <3>1. i \in 0..n /\ (i = 0 \/ i \in 1..n)
      BY <2>0
    <3>2. f[i] # b /\ f[i] \in AtAgents
      BY <2>1, <2>2, <2>4, <3>1
    <3>3. f[i] \in more /\ next[f[i]] = f[i + 1]
      BY <2>1 DEF AtLeads
    <3> QED BY <1>1, <1>2, <3>2, <3>3
  <2> QED BY <2>1, <2>2, <2>3, <2>4 DEF AtPath
<1>4. AtNoLoop(parent, live) => AtNoLoop(next, more)
  BY <1>3 DEF AtNoLoop
<1>5. \A p, a \in AtAgents : p # b /\ AtApart(parent, live, p, a) => AtApart(next, more, p, a)
  BY <1>3 DEF AtApart
<1> QED BY <1>4, <1>5 DEF next, more

-----------------------------------------------------------------------------
(* The inductive invariant *)

\* Nobody reports, or is about to report, to an agent that was not created.
AtKnown ==
  /\ \A a, b \in AtAgents : atRow[b] = "none" => atParent[a] # b
  /\ \A u \in AtEditors : atEdit[u] # AtNoEdit =>
       /\ atEdit[u].agent \in AtAgents
       /\ \A b \in {atEdit[u].agent, atEdit[u].to} \intersect AtAgents : atRow[b] # "none"

\* Without an overlap there is one update at a time, and what its walk found still holds:
\* the new superior is not below the agent, and nobody is below itself.
AtLoopless ==
  ~atOverlap =>
    /\ \A u, v \in AtEditors : atEdit[u] # AtNoEdit /\ atEdit[v] # AtNoEdit => u = v
    /\ \A u \in AtEditors : atEdit[u] # AtNoEdit /\ atEdit[u].to \in AtAgents =>
         AtApart(atParent, AtLive, atEdit[u].to, atEdit[u].agent)
    /\ AtNoLoop(atParent, AtLive)

AtInv == AtTypeOK /\ AtKnown /\ AtLoopless

\* What the walk of the code meets, as paths.
LEMMA AtAboveIsPaths ==
  ASSUME AtTypeOK, NEW a \in AtAgents
  PROVE  AtAbove(a) =
           {y \in AtAgents : \E n \in 1..AtMaxDepth : AtPath(atParent, AtLive, a, y, n)}
<1>1. AtAbove(a) = AtWalked(atParent, AtLive, a)
  BY DEF AtAbove, AtUp, AtWalked
<1>2. atParent \in [AtAgents -> AtPlaces] /\ AtLive \in SUBSET AtAgents
  BY DEF AtTypeOK, AtLive
<1> QED BY <1>1, <1>2, AtWalkedIsPaths

LEMMA AtStarts == AtInit => AtInv
<1> SUFFICES ASSUME AtInit PROVE AtInv
  OBVIOUS
<1>1. AtTypeOK
  <2>1. AtNoEdit \in [agent : AtPlaces, to : AtPlaces] /\ 0 \in 0..AtMaxEdits
    BY AtAssumption DEF AtPlaces, AtNoEdit
  <2>2. AtNobody \in AtPlaces
    BY DEF AtPlaces
  <2> QED BY <2>1, <2>2 DEF AtInit, AtTypeOK
<1>2. AtKnown
  BY AtAssumption DEF AtInit, AtKnown
<1>3. AtLive = {}
  BY DEF AtInit, AtLive
<1>4. AtNoLoop(atParent, {})
  <2> SUFFICES ASSUME NEW a \in AtAgents, NEW n \in 1..AtMaxDepth,
                      AtPath(atParent, {}, a, a, n)
               PROVE  FALSE
    BY DEF AtNoLoop
  <2>1. 0 \in 0..(n - 1)
    BY AtAssumption
  <2> QED BY <2>1 DEF AtPath, AtLeads
<1>5. AtLoopless
  BY <1>3, <1>4 DEF AtInit, AtLoopless
<1> QED BY <1>1, <1>2, <1>5 DEF AtInv

LEMMA AtCreateKeeps ==
  ASSUME AtInv, NEW a \in AtAgents, NEW p \in AtPlaces, AtCreate(a, p)
  PROVE  AtInv'
<1>1. /\ atEdit' = atEdit /\ atEdits' = atEdits /\ atOverlap' = atOverlap
      /\ atParent' = [atParent EXCEPT ![a] = p] /\ atRow' = [atRow EXCEPT ![a] = "live"]
      /\ atRow[a] = "none"
  BY DEF AtCreate
<1>2. p \in AtAgents => atRow[p] = "live"
  BY AtAssumption DEF AtCreate, AtLive
<1>3. /\ atParent' \in [AtAgents -> AtPlaces] /\ atParent'[a] = p
      /\ \A c \in AtAgents : c # a => atParent'[c] = atParent[c]
  BY <1>1 DEF AtInv, AtTypeOK
<1>4. /\ atRow' \in [AtAgents -> {"none", "live", "deleted"}] /\ atRow'[a] = "live"
      /\ \A c \in AtAgents : c # a => atRow'[c] = atRow[c]
  BY <1>1 DEF AtInv, AtTypeOK
<1>5. AtTypeOK'
  BY <1>1, <1>3, <1>4 DEF AtInv, AtTypeOK
<1>6. AtKnown'
  <2>1. \A b, c \in AtAgents : atRow'[b] = "none" => atParent'[c] # b
    BY <1>1, <1>2, <1>3, <1>4 DEF AtInv, AtKnown
  <2>2. \A u \in AtEditors : atEdit'[u] # AtNoEdit =>
       /\ atEdit'[u].agent \in AtAgents
       /\ \A b \in {atEdit'[u].agent, atEdit'[u].to} \intersect AtAgents : atRow'[b] # "none"
    BY <1>1, <1>4 DEF AtInv, AtKnown
  <2> QED BY <2>1, <2>2 DEF AtKnown, AtNoEdit
<1>7. AtLive' = AtLive \union {a} /\ AtLive \in SUBSET AtAgents
  BY <1>4 DEF AtLive
<1>8. p # a /\ \A c \in AtAgents : atParent[c] # a
  BY <1>1, <1>2 DEF AtInv, AtKnown
<1>9. /\ AtNoLoop(atParent, AtLive) => AtNoLoop(atParent', AtLive')
      /\ \A q, b \in AtAgents : q # a /\ AtApart(atParent, AtLive, q, b) =>
           AtApart(atParent', AtLive', q, b)
  <2>1. atParent \in [AtAgents -> AtPlaces]
    BY DEF AtInv, AtTypeOK
  <2> QED BY <1>1, <1>7, <1>8, <2>1, AtCreatedIsBelow
<1>10. ASSUME ~atOverlap', NEW u \in AtEditors, atEdit[u] # AtNoEdit, atEdit[u].to \in AtAgents
       PROVE  AtApart(atParent', AtLive', atEdit[u].to, atEdit[u].agent)
  <2>1. atEdit[u].to # a /\ atEdit[u].agent \in AtAgents
    BY <1>1, <1>10 DEF AtInv, AtKnown
  <2>2. AtApart(atParent, AtLive, atEdit[u].to, atEdit[u].agent)
    BY <1>1, <1>10 DEF AtInv, AtLoopless
  <2> QED BY <1>9, <1>10, <2>1, <2>2
<1>11. AtLoopless'
  BY <1>1, <1>9, <1>10 DEF AtInv, AtLoopless, AtNoEdit
<1> QED BY <1>5, <1>6, <1>11 DEF AtInv

LEMMA AtCheckKeeps ==
  ASSUME AtInv, NEW u \in AtEditors, NEW a \in AtAgents, NEW p \in AtPlaces, AtCheck(u, a, p)
  PROVE  AtInv'
<1> DEFINE edit == [agent |-> a, to |-> p]
<1>1. /\ atParent' = atParent /\ atRow' = atRow /\ AtLive' = AtLive
      /\ atEdit' = [atEdit EXCEPT ![u] = edit] /\ atRow[a] = "live"
      /\ atOverlap' = (atOverlap \/ \E v \in AtEditors : atEdit[v] # AtNoEdit)
  BY DEF AtCheck, AtLive
<1>2. edit \in [agent : AtPlaces, to : AtPlaces] /\ edit.agent = a /\ edit.to = p
  BY DEF AtPlaces
<1> HIDE DEF edit
<1>3. /\ atEdit' \in [AtEditors -> [agent : AtPlaces, to : AtPlaces]] /\ atEdit'[u] = edit
      /\ \A v \in AtEditors : v # u => atEdit'[v] = atEdit[v]
  BY <1>1, <1>2 DEF AtInv, AtTypeOK
<1>4. atEdits' \in 0..AtMaxEdits
  BY AtAssumption DEF AtInv, AtTypeOK, AtCheck
<1>5. AtTypeOK'
  BY <1>1, <1>3, <1>4 DEF AtInv, AtTypeOK
<1>6. p \in AtAgents => atRow[p] = "live" /\ p # a /\ ~AtWouldCycle(a, p)
  BY AtAssumption DEF AtCheck, AtLive
<1>7. AtKnown'
  <2>1. \A b \in {edit.agent, edit.to} \intersect AtAgents : atRow[b] # "none"
    BY <1>1, <1>2, <1>6
  <2>2. \A v \in AtEditors : atEdit'[v] # AtNoEdit =>
       /\ atEdit'[v].agent \in AtAgents
       /\ \A b \in {atEdit'[v].agent, atEdit'[v].to} \intersect AtAgents : atRow[b] # "none"
    BY <1>2, <1>3, <2>1 DEF AtInv, AtKnown
  <2> QED BY <1>1, <2>2 DEF AtInv, AtKnown, AtNoEdit
<1>8. p \in AtAgents => AtApart(atParent, AtLive, p, a)
  <2>1. ASSUME p \in AtAgents PROVE a \notin AtAbove(p)
    BY <1>6, <2>1 DEF AtWouldCycle
  <2>2. p \in AtAgents => AtAbove(p) =
          {y \in AtAgents : \E n \in 1..AtMaxDepth : AtPath(atParent, AtLive, p, y, n)}
    BY AtAboveIsPaths DEF AtInv
  <2> QED BY <1>6, <2>1, <2>2 DEF AtApart
<1>9. AtLoopless'
  <2> SUFFICES ASSUME ~atOverlap'
               PROVE  /\ \A v, w \in AtEditors :
                           atEdit'[v] # AtNoEdit /\ atEdit'[w] # AtNoEdit => v = w
                      /\ \A v \in AtEditors :
                           atEdit'[v] # AtNoEdit /\ atEdit'[v].to \in AtAgents =>
                             AtApart(atParent, AtLive, atEdit'[v].to, atEdit'[v].agent)
                      /\ AtNoLoop(atParent, AtLive)
    BY <1>1 DEF AtLoopless, AtNoEdit
  <2>1. ~atOverlap /\ \A v \in AtEditors : v # u => atEdit'[v] = AtNoEdit
    BY <1>1, <1>3
  <2>2. AtNoLoop(atParent, AtLive)
    BY <2>1 DEF AtInv, AtLoopless
  <2> QED BY <1>2, <1>3, <1>8, <2>1, <2>2
<1> QED BY <1>5, <1>7, <1>9 DEF AtInv

LEMMA AtWriteKeeps ==
  ASSUME AtInv, NEW u \in AtEditors, AtWrite(u)
  PROVE  AtInv'
<1> DEFINE a == atEdit[u].agent
           p == atEdit[u].to
<1>1. /\ atRow' = atRow /\ AtLive' = AtLive /\ atEdits' = atEdits /\ atOverlap' = atOverlap
      /\ atParent' = [atParent EXCEPT ![a] = p] /\ atEdit' = [atEdit EXCEPT ![u] = AtNoEdit]
      /\ atEdit[u] # AtNoEdit
  BY DEF AtWrite, AtLive
<1>2. a \in AtAgents /\ p \in AtPlaces /\ (p \in AtAgents => atRow[p] # "none")
  BY <1>1 DEF AtInv, AtTypeOK, AtKnown
<1>3. AtNoEdit \in [agent : AtPlaces, to : AtPlaces]
  BY DEF AtNoEdit, AtPlaces
<1> HIDE DEF a, p
<1>4. /\ atParent' \in [AtAgents -> AtPlaces] /\ atParent'[a] = p
      /\ \A c \in AtAgents : c # a => atParent'[c] = atParent[c]
  BY <1>1, <1>2 DEF AtInv, AtTypeOK
<1>5. /\ atEdit' \in [AtEditors -> [agent : AtPlaces, to : AtPlaces]] /\ atEdit'[u] = AtNoEdit
      /\ \A v \in AtEditors : v # u => atEdit'[v] = atEdit[v]
  BY <1>1, <1>3 DEF AtInv, AtTypeOK
<1>6. AtTypeOK'
  BY <1>1, <1>4, <1>5 DEF AtInv, AtTypeOK
<1>7. AtKnown'
  <2>1. \A b, c \in AtAgents : atRow[b] = "none" => atParent'[c] # b
    BY <1>2, <1>4 DEF AtInv, AtKnown
  <2>2. \A v \in AtEditors : atEdit'[v] # AtNoEdit =>
       /\ atEdit'[v].agent \in AtAgents
       /\ \A b \in {atEdit'[v].agent, atEdit'[v].to} \intersect AtAgents : atRow[b] # "none"
    BY <1>5 DEF AtInv, AtKnown
  <2> QED BY <1>1, <2>1, <2>2 DEF AtKnown, AtNoEdit
<1>8. AtLoopless'
  <2> SUFFICES ASSUME ~atOverlap
               PROVE  (\A v \in AtEditors : atEdit'[v] = AtNoEdit) /\ AtNoLoop(atParent', AtLive)
    BY <1>1 DEF AtLoopless, AtNoEdit
  <2>1. \A v \in AtEditors : atEdit'[v] = AtNoEdit
    BY <1>1, <1>5 DEF AtInv, AtLoopless
  <2>2. p \in AtAgents => AtApart(atParent, AtLive, p, a)
    BY <1>1 DEF AtInv, AtLoopless, a, p
  <2>3. atParent \in [AtAgents -> AtPlaces] /\ AtLive \in SUBSET AtAgents /\ AtNoLoop(atParent, AtLive)
    BY DEF AtInv, AtTypeOK, AtLoopless, AtLive
  <2> QED BY <1>1, <1>2, <2>1, <2>2, <2>3, AtWriteMakesNoLoop
<1> QED BY <1>6, <1>7, <1>8 DEF AtInv

LEMMA AtDeleteKeeps ==
  ASSUME AtInv, NEW a \in AtAgents, AtDelete(a)
  PROVE  AtInv'
<1>1. /\ atParent' = atParent /\ atEdit' = atEdit /\ atEdits' = atEdits /\ atOverlap' = atOverlap
      /\ atRow' = [atRow EXCEPT ![a] = "deleted"] /\ atRow[a] = "live"
  BY DEF AtDelete, AtLive
<1>2. /\ atRow' \in [AtAgents -> {"none", "live", "deleted"}] /\ atRow'[a] = "deleted"
      /\ \A c \in AtAgents : c # a => atRow'[c] = atRow[c]
  BY <1>1 DEF AtInv, AtTypeOK
<1>3. AtTypeOK'
  BY <1>1, <1>2 DEF AtInv, AtTypeOK
<1>4. AtKnown'
  <2>1. \A b \in AtAgents : atRow'[b] = "none" => atRow[b] = "none"
    BY <1>2
  <2>2. \A b \in AtAgents : atRow[b] # "none" => atRow'[b] # "none"
    BY <1>2
  <2>3. \A u \in AtEditors : atEdit[u] # AtNoEdit =>
       /\ atEdit[u].agent \in AtAgents
       /\ \A b \in {atEdit[u].agent, atEdit[u].to} \intersect AtAgents : atRow'[b] # "none"
    BY <2>2 DEF AtInv, AtKnown
  <2> QED BY <1>1, <2>1, <2>3 DEF AtInv, AtKnown, AtNoEdit
<1>5. AtLive' \in SUBSET AtLive
  BY <1>2 DEF AtLive
<1>6. /\ AtNoLoop(atParent, AtLive) => AtNoLoop(atParent, AtLive')
      /\ \A p, b \in AtAgents : AtApart(atParent, AtLive, p, b) => AtApart(atParent, AtLive', p, b)
  BY <1>5, AtDeletedCuts
<1>7. \A u \in AtEditors : atEdit[u] # AtNoEdit => atEdit[u].agent \in AtAgents
  BY DEF AtInv, AtKnown
<1>8. AtLoopless'
  BY <1>1, <1>6, <1>7 DEF AtInv, AtLoopless, AtNoEdit
<1> QED BY <1>3, <1>4, <1>8 DEF AtInv

LEMMA AtStep == AtInv /\ [AtNext]_atVars => AtInv'
<1> SUFFICES ASSUME AtInv, [AtNext]_atVars PROVE AtInv'
  OBVIOUS
<1>1. ASSUME NEW a \in AtAgents, NEW p \in AtPlaces, AtCreate(a, p) PROVE AtInv'
  BY <1>1, AtCreateKeeps
<1>2. ASSUME NEW u \in AtEditors, NEW a \in AtAgents, NEW p \in AtPlaces, AtCheck(u, a, p)
      PROVE  AtInv'
  BY <1>2, AtCheckKeeps
<1>3. ASSUME NEW u \in AtEditors, AtWrite(u) PROVE AtInv'
  BY <1>3, AtWriteKeeps
<1>4. ASSUME NEW a \in AtAgents, AtDelete(a) PROVE AtInv'
  BY <1>4, AtDeleteKeeps
<1>5. CASE UNCHANGED atVars
  BY <1>5 DEF atVars, AtInv, AtTypeOK, AtKnown, AtLoopless, AtLive, AtNoEdit
<1> QED BY <1>1, <1>2, <1>3, <1>4, <1>5 DEF AtNext

\* The chart and the updates under way stay within their types.
THEOREM AtTypeCorrect == AtSpec => []AtTypeOK
<1>1. AtInv => AtTypeOK
  BY DEF AtInv
<1> QED BY <1>1, AtStarts, AtStep, PTL DEF AtSpec

\* However agents are created, moved and deleted, no live agent comes to report to itself
\* within the depth the walk looks at, unless two updates overlap.
THEOREM AtNoCycleCorrect == AtSpec => []AtNoCycle
<1>1. AtInv => AtNoCycle
  <2> SUFFICES ASSUME AtInv, ~atOverlap, NEW a \in AtLive PROVE a \notin AtAbove(a)
    BY DEF AtNoCycle
  <2>1. a \in AtAgents /\ AtTypeOK
    BY DEF AtLive, AtInv
  <2>2. AtNoLoop(atParent, AtLive)
    BY DEF AtInv, AtLoopless
  <2> QED BY <2>1, <2>2, AtAboveIsPaths DEF AtNoLoop
<1> QED BY <1>1, AtStarts, AtStep, PTL DEF AtSpec

-----------------------------------------------------------------------------
(* The parts together *)

\* The composition adds nothing to a part: each one behaves as its own specification says.
LEMMA PartsMove ==
  /\ MCSpec => ArSpec
  /\ MCSpec => PaSpec
  /\ MCSpec => SkSpec
  /\ MCSpec => AtSpec
  /\ MCSpec => SrSpec
  /\ MCSpec => KnSpec
  /\ MCSpec => MmSpec
  /\ MCSpec => PrSpec
<1>1. MCInit => ArInit /\ PaInit /\ SkInit /\ AtInit /\ SrInit /\ KnInit /\ MmInit /\ PrInit
  BY DEF MCInit
<1>2. [MCNext]_mcVars => [ArNext]_arVars
  BY DEF MCNext, mcVars
<1>3. [MCNext]_mcVars => [PaNext]_paVars
  BY DEF MCNext, mcVars
<1>4. [MCNext]_mcVars => [SkNext]_skVars
  BY DEF MCNext, mcVars
<1>5. [MCNext]_mcVars => [AtNext]_atVars
  BY DEF MCNext, mcVars
<1>6. [MCNext]_mcVars => [SrNext]_srVars
  BY DEF MCNext, mcVars
<1>7. [MCNext]_mcVars => [KnNext]_knVars
  BY DEF MCNext, mcVars
<1>8. [MCNext]_mcVars => [MmNext]_mmVars
  BY DEF MCNext, mcVars
<1>9. [MCNext]_mcVars => [PrNext]_prVars
  BY DEF MCNext, mcVars
<1> QED BY <1>1, <1>2, <1>3, <1>4, <1>5, <1>6, <1>7, <1>8, <1>9, PTL
        DEF MCSpec, ArSpec, PaSpec, SkSpec, AtSpec, SrSpec, KnSpec, MmSpec, PrSpec

\* A run leaves the conversation with the agent it pinned, and an approved action is not
\* approved again, whichever part of the agents moves.
THEOREM AgentStepsCorrect == MCSpec => AgentSteps
<1>1. [ArPinSurvives]_arVars /\ [PaNoSecondApproval]_paVars =>
        [ArPinSurvives /\ PaNoSecondApproval]_mcVars
  <2>1. UNCHANGED arVars => ArPinSurvives
    BY DEF arVars, ArPinSurvives
  <2>2. UNCHANGED paVars => PaNoSecondApproval
    BY DEF paVars, PaNoSecondApproval
  <2> QED BY <2>1, <2>2
<1> QED BY <1>1, PartsMove, ArPinSurvivesCorrect, PaNoSecondApprovalCorrect, PTL DEF AgentSteps

\* Every version of a skill is kept and no gated call runs unapproved or twice; no live agent
\* comes to report to itself.
THEOREM ToolsSafeCorrect == MCSpec => []ToolsSafe
BY PartsMove, SkSafeCorrect, AtNoCycleCorrect, PTL DEF ToolsSafe

\* Documents, memories and prompts are what the code promises, whichever part moves.
THEOREM KnowledgeSafeCorrect == ASSUME KnScopedTable PROVE MCSpec => []KnowledgeSafe
BY PartsMove, KnSafeCorrect, MmSafeCorrect, PrSafeCorrect, PTL DEF KnowledgeSafe

\* The variables of every part keep their types.
THEOREM AgentTypeCorrect == MCSpec => []AgentTypeOK
<1>1. MCSpec => [](focus \in Parts)
  <2>1. MCInit => focus \in Parts
    BY DEF MCInit
  <2>2. focus \in Parts /\ [MCNext]_mcVars => (focus \in Parts)'
    BY DEF MCNext, mcVars
  <2> QED BY <2>1, <2>2, PTL DEF MCSpec
<1>2. /\ focus \in Parts /\ ArTypeOK /\ PaTypeOK /\ SkTypeOK /\ AtTypeOK
      /\ KnTypeOK /\ MmTypeOK /\ PrTypeOK /\ SrTypeOK
      => AgentTypeOK
  BY DEF Parts, AgentTypeOK
<1> QED BY <1>1, <1>2, PartsMove, ArTypeCorrect, PaTypeCorrect, SkTypeCorrect, AtTypeCorrect,
        KnTypeCorrect, MmTypeCorrect, PrSafeCorrect, SrTypeCorrect, PTL
=============================================================================
