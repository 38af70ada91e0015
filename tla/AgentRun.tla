-------------------------------- MODULE AgentRun --------------------------------
(***************************************************************************)
(* The inside of an agent run: choice of the agent, the loop of model      *)
(* calls and tools, the one-reply guard, the fallback for text without a   *)
(* tool, the second synthesis call, the nudge, delegation and the chained  *)
(* run, while operators switch the conversation and its agents.            *)
(***************************************************************************)
EXTENDS Naturals, FiniteSets, Sequences

CONSTANTS
  ArOrchestrator, ArWorkers,   \* the agents of the channel
  ArNoAgent,
  ArRuns,            \* run slots
  ArMaxIterations,   \* MAX_TOOL_ITERATIONS
  ArMaxChain,        \* MAX_CHAIN_DEPTH
  ArMaxSwitches      \* bound: switches operators make

ASSUME ArAssumption ==
  /\ ArNoAgent \notin ArWorkers \union {ArOrchestrator}
  /\ ArOrchestrator \notin ArWorkers
  /\ {ArMaxIterations, ArMaxChain, ArMaxSwitches} \subseteq Nat

VARIABLES
  arActive,    \* conversation.activeAgentId
  arAi,        \* conversation.aiEnabled, "null" when it follows the rest
  arEnabled,   \* agents with isActive
  arRun,       \* arRun[r]: the run's locals and its row
  arQueued,    \* replies of each run handed to the outbound queue
  arStale,     \* history: runs that chose their agent before the active one changed
  arSwitched   \* switches made so far

arVars == <<arActive, arAi, arEnabled, arRun, arQueued, arStale, arSwitched>>

ArAgents == ArWorkers \union {ArOrchestrator}
ArSwitch == {"null", "on", "off"}
ArTools == {"reply", "delegate", "handBack", "transfer", "prep"}
ArFinals == {"NO_ACTION", "REPLIED", "DELEGATED", "HANDED_BACK",
             "TRANSFERRED_TO_HUMAN"}
ArBatches == {<<>>} \union {<<t>> : t \in ArTools}
             \union (ArTools \X ArTools)

ArTypeOK ==
  /\ arActive \in ArAgents \union {ArNoAgent}
  /\ arAi \in ArSwitch
  /\ arEnabled \subseteq ArAgents
  /\ arRun \in [ArRuns ->
       [pc : {"none", "prepare", "mark", "model", "text", "tools", "end", "over"},
        agent : ArAgents \union {ArNoAgent}, depth : 0..ArMaxChain,
        status : {"NONE", "RUNNING", "COMPLETED", "FAILED"},
        iter : 0..ArMaxIterations, final : ArFinals, todo : ArBatches,
        replied : BOOLEAN, tried : BOOLEAN, prepared : BOOLEAN, nudged : BOOLEAN,
        synthesis : BOOLEAN, strong : BOOLEAN,
        spoke : BOOLEAN, lost : BOOLEAN]]
  /\ arQueued \in [ArRuns -> 0..(2 * ArMaxIterations)]
  /\ arStale \subseteq ArRuns
  /\ arSwitched \in 0..ArMaxSwitches

ArNoRun ==
  [pc |-> "none", agent |-> ArNoAgent, depth |-> 0, status |-> "NONE", iter |-> 0,
   final |-> "NO_ACTION", todo |-> <<>>, replied |-> FALSE, tried |-> FALSE,
   prepared |-> FALSE,
   nudged |-> FALSE, synthesis |-> FALSE, strong |-> FALSE,
   spoke |-> FALSE, lost |-> FALSE]

ArInit ==
  /\ arActive = ArNoAgent
  /\ arAi = "null"
  /\ arEnabled = ArAgents
  /\ arRun = [r \in ArRuns |-> ArNoRun]
  /\ arQueued = [r \in ArRuns |-> 0]
  /\ arStale = {}
  /\ arSwitched = 0

\* A finished run keeps what its row says (and its locals no more).
ArOver(run, status) ==
  [ArNoRun EXCEPT !.pc = "over", !.status = status, !.final = run.final,
                  !.depth = run.depth, !.spoke = run.spoke, !.lost = run.lost,
                  !.iter = IF run.lost THEN run.iter ELSE 0]

ArAt(r, pc) == arRun[r].pc = pc
ArSet(r, rec) == arRun' = [arRun EXCEPT ![r] = rec]

-----------------------------------------------------------------------------
(* AgentRouterService *)

\* shouldHandle: conversation over channel over organization and its hours; the
\* monthly cap always counts (an agent of the channel is assumed to be there).
ArShouldHandle(conv, channel, org, hours, capped) ==
  /\ conv # "off"
  /\ conv # "on" => channel # "off"
  /\ conv # "on" /\ channel # "on" => org /\ hours
  /\ ~capped

\* resolveChannelAgent: the orchestrator, else any worker, of those active.
ArChannelAgents ==
  IF ArOrchestrator \in arEnabled THEN {ArOrchestrator}
  ELSE IF arEnabled # {} THEN arEnabled ELSE {ArNoAgent}

\* The first run asks selectAgent, which does not look at isActive (the run then
\* finds no agent); a chained run asks resolveAgent, which falls back.
ArSelect(depth) ==
  IF arActive = ArNoAgent THEN ArChannelAgents
  ELSE IF arActive \in arEnabled THEN {arActive}
  ELSE IF depth = 0 THEN {ArNoAgent} ELSE ArChannelAgents

-----------------------------------------------------------------------------
(* AiAgentRunnerService.run *)

\* The agent is chosen and the row written; nothing happens without an agent.
ArStarted(agent, depth, strong) ==
  IF agent = ArNoAgent THEN [ArNoRun EXCEPT !.pc = "over"]
  ELSE [ArNoRun EXCEPT !.pc = "prepare", !.agent = agent, !.depth = depth,
                       !.status = "RUNNING", !.strong = strong]

\* ModelRouterService: a worker may be given a stronger model to answer with.
ArStrong(agent) == IF agent \in ArWorkers THEN BOOLEAN ELSE {FALSE}

\* Whoever asks for a run asks shouldHandle first.
\* Runs that overlap are the subject of AgentTurns; here one is live at a time.
ArStart(r) ==
  /\ ArAt(r, "none")
  /\ \E channel \in ArSwitch, org, hours, capped \in BOOLEAN :
       ArShouldHandle(arAi, channel, org, hours, capped)
  /\ \A s \in ArRuns \ {r} : arRun[s].pc \in {"none", "over"}
  /\ \E a \in ArSelect(0) : \E strong \in ArStrong(a) :
       ArSet(r, ArStarted(a, 0, strong))
  /\ UNCHANGED <<arActive, arEnabled, arQueued, arSwitched>>

\* Tools, media and prompt are prepared outside the try: a failure there leaves
\* the row RUNNING.
ArPrepare(r) ==
  /\ ArAt(r, "prepare")
  /\ \/ ArSet(r, [arRun[r] EXCEPT !.pc = "mark"])
     \/ ArSet(r, ArOver(arRun[r], "RUNNING"))
  /\ UNCHANGED <<arActive, arEnabled, arQueued, arSwitched>>

\* The run writes its agent into the conversation, whatever is there by now.
ArMark(r) ==
  /\ ArAt(r, "mark")
  /\ arActive' = arRun[r].agent
  /\ ArSet(r, [arRun[r] EXCEPT !.pc = "model"])
  /\ UNCHANGED <<arEnabled, arQueued, arSwitched>>

\* Mutant: one more turn than the bound.
ArModelOffByOne(r) ==
  LET run == [arRun[r] EXCEPT !.iter = @ + 1] IN
  /\ ArAt(r, "model")
  /\ arRun[r].iter <= ArMaxIterations
  /\ \/ ArSet(r, ArOver(run, "FAILED"))
     \/ \E spoke \in BOOLEAN : ArSet(r, [run EXCEPT !.pc = "text", !.spoke = spoke])
     \/ \E todo \in ArBatches \ {<<>>} :
          ArSet(r, [run EXCEPT !.pc = "tools", !.todo = todo, !.synthesis = FALSE])
  /\ UNCHANGED <<arActive, arEnabled, arQueued, arSwitched>>

\* One call of the model: it throws, ends its turn with a text that can be sent
\* (spoke) or cannot, or asks for tools.
ArModel(r) ==
  LET run == [arRun[r] EXCEPT !.iter = @ + 1] IN
  /\ ArAt(r, "model")
  /\ arRun[r].iter < ArMaxIterations
  /\ \/ ArSet(r, ArOver(run, "FAILED"))
     \/ \E spoke \in BOOLEAN : ArSet(r, [run EXCEPT !.pc = "text", !.spoke = spoke])
     \/ \E todo \in ArBatches \ {<<>>} :
          ArSet(r, [run EXCEPT !.pc = "tools", !.todo = todo, !.synthesis = FALSE])
  /\ UNCHANGED <<arActive, arEnabled, arQueued, arSwitched>>

\* The loop's bound: what was to be said again by the synthesis model is lost.
ArModelBound(r) ==
  /\ ArAt(r, "model")
  /\ arRun[r].iter = ArMaxIterations
  /\ ArSet(r, [arRun[r] EXCEPT !.pc = "end",
                               !.lost = arRun[r].synthesis /\ arRun[r].spoke])
  /\ UNCHANGED <<arActive, arEnabled, arQueued, arSwitched>>

\* replyToConversation: a guard blocks it, it fails (twice, when the failure is
\* transient) or its job is queued.
ArReplies(r, sent) ==
  arQueued' = [arQueued EXCEPT ![r] = @ + (IF sent THEN 1 ELSE 0)]

\* A text without a tool: said again by the stronger model if the run has
\* one and this was the cheap one; else sent as a reply when nothing else
\* has happened; then the nudge, once, or the end.
ArText(r) ==
  LET run == arRun[r]
      escalates == run.strong /\ ~run.synthesis
      replies == run.spoke /\ run.final = "NO_ACTION"
  IN
  /\ ArAt(r, "text")
  /\ \/ /\ escalates
        /\ ArSet(r, [run EXCEPT !.pc = "model", !.synthesis = TRUE])
        /\ UNCHANGED arQueued
     \/ /\ ~escalates
        /\ \E sent \in (IF replies THEN BOOLEAN ELSE {FALSE}) :
             LET final == IF sent THEN "REPLIED" ELSE run.final
                 nudges == run.prepared /\ ~run.tried /\ ~run.nudged
                           /\ final = "NO_ACTION"
             IN
             /\ ArSet(r, [run EXCEPT !.pc = IF nudges THEN "model" ELSE "end",
                                     !.final = final, !.synthesis = FALSE,
                                     !.nudged = @ \/ nudges,
                                     !.spoke = @ /\ ~replies])
             /\ ArReplies(r, sent)
  /\ UNCHANGED <<arActive, arEnabled, arSwitched>>

\* After a call: the next of the batch, or the loop, which a transfer ends.
ArCalled(run, final, replied, prepared) ==
  LET done == Len(run.todo) = 1
      first == IF run.final = "NO_ACTION" THEN final ELSE run.final
  IN [run EXCEPT
        !.todo = Tail(@), !.final = first, !.replied = @ \/ replied,
        !.prepared = @ \/ prepared,
        !.tried = @ \/ Head(run.todo) = "reply", !.spoke = FALSE,
        !.pc = IF ~done THEN "tools"
               ELSE IF first = "TRANSFERRED_TO_HUMAN" THEN "end" ELSE "model"]

\* Mutant: the guard does not see the replies of the batch it is in.
ArReplyToolUnguarded(r) ==
  LET run == arRun[r]
      guarded == run.replied /\ Len(run.todo) = 2
  IN
  /\ Head(run.todo) = "reply"
  /\ \E sent \in (IF guarded THEN {FALSE} ELSE BOOLEAN) :
       /\ ArSet(r, ArCalled(run, IF sent THEN "REPLIED" ELSE "NO_ACTION", sent, FALSE))
       /\ ArReplies(r, sent)
  /\ UNCHANGED arActive

\* One successful reply per run: a later call gets a soft error.
ArReplyTool(r) ==
  LET run == arRun[r] IN
  /\ Head(run.todo) = "reply"
  /\ \E sent \in (IF run.replied THEN {FALSE} ELSE BOOLEAN) :
       /\ ArSet(r, ArCalled(run, IF sent THEN "REPLIED" ELSE "NO_ACTION", sent, FALSE))
       /\ ArReplies(r, sent)
  /\ UNCHANGED arActive

\* delegateToAgent, registered for the orchestrator: an active worker, or an
\* error the model reads.  A transition message (not counted with the replies)
\* that cannot be queued fails the tool when the delegation is committed.
ArDelegate(r) ==
  LET run == arRun[r] IN
  /\ Head(run.todo) = "delegate"
  /\ \E to \in (ArWorkers \intersect arEnabled) \union {ArNoAgent} :
       IF run.agent # ArOrchestrator \/ to = ArNoAgent
       THEN ArSet(r, ArCalled(run, "NO_ACTION", FALSE, FALSE)) /\ UNCHANGED arActive
       ELSE /\ \E final \in {"DELEGATED", "NO_ACTION"} :
                 ArSet(r, ArCalled(run, final, FALSE, FALSE))
            /\ arActive' = to
  /\ UNCHANGED arQueued

\* handBackToOrchestrator, registered for workers.
ArHandBack(r) ==
  LET run == arRun[r] IN
  /\ Head(run.todo) = "handBack"
  /\ IF run.agent = ArOrchestrator
     THEN ArSet(r, ArCalled(run, "NO_ACTION", FALSE, FALSE)) /\ UNCHANGED arActive
     ELSE /\ ArSet(r, ArCalled(run, "HANDED_BACK", FALSE, FALSE))
          /\ arActive' = ArNoAgent
  /\ UNCHANGED arQueued

\* transferToHuman only asks for approval; a lookup only reads.
ArAskOrRead(r) ==
  LET run == arRun[r] IN
  /\ \/ /\ Head(run.todo) = "transfer"
        /\ ArSet(r, ArCalled(run, "TRANSFERRED_TO_HUMAN", FALSE, FALSE))
     \/ /\ Head(run.todo) = "prep"
        /\ ArSet(r, ArCalled(run, "NO_ACTION", FALSE, TRUE))
  /\ UNCHANGED <<arActive, arQueued>>

ArTool(r) ==
  /\ ArAt(r, "tools")
  /\ ArReplyTool(r) \/ ArDelegate(r) \/ ArHandBack(r) \/ ArAskOrRead(r)
  /\ UNCHANGED <<arEnabled, arSwitched>>

\* The row is closed; a run that delegated first of all chains the new agent.
ArEnd(r) ==
  LET run == arRun[r]
      over == [arRun EXCEPT ![r] = ArOver(run, "COMPLETED")]
      chains == /\ run.final = "DELEGATED"
                /\ run.depth < ArMaxChain
                /\ arActive \notin {ArNoAgent, run.agent}
  IN
  /\ ArAt(r, "end")
  /\ IF chains
     THEN \E s \in ArRuns \ {r}, a \in ArSelect(run.depth + 1) : \E strong \in ArStrong(a) :
            /\ arRun[s].pc \in {"none", "over"}
            /\ arRun' = [over EXCEPT ![s] = ArStarted(a, run.depth + 1, strong)]
            /\ arQueued' = [arQueued EXCEPT ![s] = 0]
     ELSE arRun' = over /\ UNCHANGED arQueued
  /\ UNCHANGED <<arActive, arEnabled, arSwitched>>

-----------------------------------------------------------------------------
(* Operators *)

ArCountSwitch == arSwitched < ArMaxSwitches /\ arSwitched' = arSwitched + 1

\* setActiveAgent pins an active agent and forces the conversation on.
ArPinAgent(a) ==
  /\ ArCountSwitch
  /\ a \in arEnabled
  /\ arActive' = a
  /\ arAi' = "on"
  /\ UNCHANGED <<arEnabled, arRun, arQueued>>

\* toggleAi: forced off, the conversation has no agent either.
ArToggleAi(ai) ==
  /\ ArCountSwitch
  /\ arAi' = ai
  /\ arActive' = IF ai = "off" THEN ArNoAgent ELSE arActive
  /\ UNCHANGED <<arEnabled, arRun, arQueued>>

\* The agent is switched off in the panel.
ArDeactivate(a) ==
  /\ ArCountSwitch
  /\ a \in arEnabled
  /\ arEnabled' = arEnabled \ {a}
  /\ UNCHANGED <<arActive, arAi, arRun, arQueued>>

ArChosen == {"prepare", "mark"}

ArRunStep(r) ==
  /\ \/ ArStart(r) \/ ArPrepare(r) \/ ArMark(r) \/ ArModel(r) \/ ArModelBound(r)
     \/ ArText(r) \/ ArTool(r) \/ ArEnd(r)
  /\ UNCHANGED arAi

ArOperatorStep ==
  \/ \E a \in ArAgents : ArPinAgent(a) \/ ArDeactivate(a)
  \/ \E ai \in ArSwitch : ArToggleAi(ai)

ArNext ==
  /\ ArOperatorStep \/ \E r \in ArRuns : ArRunStep(r)
  /\ arStale' = {r \in ArRuns : /\ arRun[r].pc \in ArChosen
                                /\ arRun'[r].pc \in ArChosen
                                /\ r \in arStale \/ arActive' # arActive}

ArSpec == ArInit /\ [][ArNext]_arVars

-----------------------------------------------------------------------------
(* Properties *)

\* However replies are spread over batches, retries, the fallback and the nudge,
\* at most one reply of a run is queued for the customer.
ArOneReply == \A r \in ArRuns : arQueued[r] <= 1

\* A text the model produced is dropped without an action only at the bound of
\* the loop, between the cheap answer and its synthesis.
ArDroppedOnlyAtBound ==
  \A r \in ArRuns :
    /\ arRun[r].status = "COMPLETED"
    /\ arRun[r].final = "NO_ACTION"
    /\ arRun[r].spoke
    => arRun[r].lost /\ arRun[r].iter = ArMaxIterations

\* Chains stay one worker deep: only a worker that was deactivated under its
\* chained run lets the orchestrator take over and delegate again.
ArChainIsOneDeep ==
  \A r \in ArRuns : arRun[r].depth > 1 => ArWorkers \ arEnabled # {}

\* The opening write of a run takes the conversation from another agent only when
\* the run had chosen before that agent got it: otherwise only operators and
\* the tools of a run move a conversation (or the agent it had is inactive).
ArPinSurvives ==
  arActive' # arActive =>
     \/ arSwitched' > arSwitched
     \/ \E r \in ArRuns : ArAt(r, "tools")
     \/ arActive \notin arEnabled
     \/ \E r \in arStale : ArAt(r, "mark")

\* The cascade of shouldHandle: the most specific switch that is set decides.
ArMostSpecificWins ==
  \A channel \in ArSwitch, org, hours, capped \in BOOLEAN :
    LET decides == IF arAi # "null" THEN arAi ELSE channel IN
    ArShouldHandle(arAi, channel, org, hours, capped) <=>
      /\ ~capped
      /\ IF decides = "null" THEN org /\ hours ELSE decides = "on"

\* A run answers once, within its bounds, by the most specific switch.
ArSafe == ArOneReply /\ ArDroppedOnlyAtBound /\ ArChainIsOneDeep /\ ArMostSpecificWins
=============================================================================
