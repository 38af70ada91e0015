------------------------------ MODULE MCAgents ------------------------------
(* TLC instances of what the AI agents do: one part moves, the others rest. *)
EXTENDS AgentRun, PendingActions, SkillCalls, AgentTree, Knowledge, Memory, Prompt,
        SalesRecovery

VARIABLE focus  \* the part that moves in this behaviour

Parts == {"run", "approvals", "skills", "tree", "knowledge", "memory", "prompt", "sales"}

\* The other parts rest in the first of their initial states.
MCInit ==
  /\ focus \in Parts
  /\ ArInit
  /\ PaInit
  /\ SkInit
  /\ focus = "skills" \/ skKind = CHOOSE k \in [source : SkSources, mapped : BOOLEAN] : TRUE
  /\ AtInit
  /\ KnInit
  /\ focus = "knowledge" \/ knFound = [agent |-> CHOOSE a \in KnAgents : TRUE, entries |-> {}]
  /\ MmInit
  /\ PrInit
  /\ focus = "prompt" \/ prModel = [provider |-> "openai", priced |-> TRUE]
  /\ SrInit

\* Bound of the runs: an operator makes a switch while no run is past its first completion.
ArBound == arSwitched > 0 => \A r \in ArRuns : arRun[r].iter <= 1

\* Bound of the memory: a worker dies while there is one job at most.
MmBound == mmFaults > 0 => mmJobs <= 1

Arrived == {e \in SrEvents : srEvent[e].kind # "none"}

\* Bounds of the sales: a step throws while one event has arrived at most, and the events of
\* two checkouts come with one message to each card at most.
SrBound ==
  /\ srFaults > 0 => Cardinality(Arrived) <= 1
  /\ Cardinality({srEvent[e].checkout : e \in Arrived}) > 1 =>
       \A d \in SrCards : srCard[d].attempts <= 1

mcVars == <<focus, arVars, paVars, skVars, atVars, knVars, mmVars, prVars, srVars>>

MCNext ==
  \/ /\ focus = "run" /\ ArNext /\ ArBound'
     /\ UNCHANGED <<focus, paVars, skVars, atVars, knVars, mmVars, prVars, srVars>>
  \/ /\ focus = "approvals" /\ PaNext
     /\ UNCHANGED <<focus, arVars, skVars, atVars, knVars, mmVars, prVars, srVars>>
  \/ /\ focus = "skills" /\ SkNext
     /\ UNCHANGED <<focus, arVars, paVars, atVars, knVars, mmVars, prVars, srVars>>
  \/ /\ focus = "tree" /\ AtNext
     /\ UNCHANGED <<focus, arVars, paVars, skVars, knVars, mmVars, prVars, srVars>>
  \/ /\ focus = "knowledge" /\ KnNext
     /\ UNCHANGED <<focus, arVars, paVars, skVars, atVars, mmVars, prVars, srVars>>
  \/ /\ focus = "memory" /\ MmNext /\ MmBound'
     /\ UNCHANGED <<focus, arVars, paVars, skVars, atVars, knVars, prVars, srVars>>
  \/ /\ focus = "prompt" /\ PrNext
     /\ UNCHANGED <<focus, arVars, paVars, skVars, atVars, knVars, mmVars, srVars>>
  \/ /\ focus = "sales" /\ SrNext /\ SrBound'
     /\ UNCHANGED <<focus, arVars, paVars, skVars, atVars, knVars, mmVars, prVars>>

MCSpec == MCInit /\ [][MCNext]_mcVars

-----------------------------------------------------------------------------
(* Properties: of the part that moves, for the others rest *)

\* Every variable has its type.
AgentTypeOK ==
  CASE focus = "run" -> ArTypeOK [] focus = "approvals" -> PaTypeOK [] focus = "skills" -> SkTypeOK
    [] focus = "tree" -> AtTypeOK [] focus = "knowledge" -> KnTypeOK [] focus = "memory" -> MmTypeOK
    [] focus = "prompt" -> PrTypeOK [] focus = "sales" -> SrTypeOK

\* A run leaves the conversation with the agent it pinned, and an action under way is not
\* approved again.
AgentSteps == [][ArPinSurvives /\ PaNoSecondApproval]_mcVars

\* What a run reads and keeps: documents, memories, and the turns of its prompt.
KnowledgeSafe ==
  /\ focus = "knowledge" => KnSafe
  /\ focus = "memory" => MmSafe
  /\ focus = "prompt" => PrSafe

\* What a run may use: the skills and the tree of agents.
ToolsSafe ==
  /\ focus = "skills" => SkSafe
  /\ focus = "tree" => AtNoCycle
=============================================================================
