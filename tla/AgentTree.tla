------------------------------- MODULE AgentTree -------------------------------
(***************************************************************************)
(* The chart of an organization's agents: who reports to whom.  A new       *)
(* superior is accepted after a walk up the chart, and written in a later   *)
(* statement.                                                               *)
(***************************************************************************)
EXTENDS Naturals, FiniteSets

CONSTANTS
  AtAgents,
  AtNobody,     \* no superior
  AtEditors,    \* operators who edit the chart
  AtMaxDepth,   \* steps of the walk (50)
  AtMaxEdits    \* bound: changes of a superior

ASSUME AtAssumption == AtMaxDepth \in Nat /\ AtMaxEdits \in Nat /\ AtNobody \notin AtAgents

VARIABLES
  atParent,   \* atParent[a]: parentAgentId
  atRow,      \* atRow[a]: none, live or deleted
  atEdit,     \* atEdit[u]: the update of an operator between its check and its write
  atEdits,    \* changes of a superior so far
  atOverlap   \* history: an update began while another was between its two steps

atVars == <<atParent, atRow, atEdit, atEdits, atOverlap>>

AtPlaces == AtAgents \union {AtNobody}
AtNoEdit == [agent |-> AtNobody, to |-> AtNobody]
AtLive == {a \in AtAgents : atRow[a] = "live"}

AtTypeOK ==
  /\ atParent \in [AtAgents -> AtPlaces]
  /\ atRow \in [AtAgents -> {"none", "live", "deleted"}]
  /\ atEdit \in [AtEditors -> [agent : AtPlaces, to : AtPlaces]]
  /\ atEdits \in 0..AtMaxEdits
  /\ atOverlap \in BOOLEAN

AtInit ==
  /\ atParent = [a \in AtAgents |-> AtNobody]
  /\ atRow = [a \in AtAgents |-> "none"]
  /\ atEdit = [u \in AtEditors |-> AtNoEdit]
  /\ atEdits = 0
  /\ atOverlap = FALSE

\* create: the superior must be a live agent.
AtCreate(a, p) ==
  /\ atRow[a] = "none"
  /\ p \in AtLive \union {AtNobody}
  /\ atRow' = [atRow EXCEPT ![a] = "live"]
  /\ atParent' = [atParent EXCEPT ![a] = p]
  /\ UNCHANGED <<atEdit, atEdits, atOverlap>>

\* The superior of a as a query for live agents shows it.
AtUp(a) == IF a \in AtLive THEN atParent[a] ELSE AtNobody

\* The agents a walk up from a meets; it ends at a deleted agent, and after
\* AtMaxDepth steps.
AtAbove(a) ==
  LET walk[n \in 0..AtMaxDepth] ==
        IF n = 0 THEN a
        ELSE IF walk[n - 1] = AtNobody THEN AtNobody ELSE AtUp(walk[n - 1])
  IN  {walk[n] : n \in 1..AtMaxDepth} \ {AtNobody}

\* isDescendantOf: p already reports to a, at any distance.
AtWouldCycle(a, p) == a \in AtAbove(p)

\* update checks the new superior ...
AtCheck(u, a, p) ==
  /\ atEdits < AtMaxEdits
  /\ atEdit[u] = AtNoEdit
  /\ a \in AtLive
  /\ \/ p = AtNobody
     \/ p \in AtLive \ {a} /\ ~AtWouldCycle(a, p)
  /\ atEdit' = [atEdit EXCEPT ![u] = [agent |-> a, to |-> p]]
  /\ atEdits' = atEdits + 1
  /\ atOverlap' = (atOverlap \/ \E v \in AtEditors : atEdit[v] # AtNoEdit)
  /\ UNCHANGED <<atParent, atRow>>

\* ... and writes it.
AtWrite(u) ==
  /\ atEdit[u] # AtNoEdit
  /\ atParent' = [atParent EXCEPT ![atEdit[u].agent] = atEdit[u].to]
  /\ atEdit' = [atEdit EXCEPT ![u] = AtNoEdit]
  /\ UNCHANGED <<atRow, atEdits, atOverlap>>

\* softDelete leaves the agent's own superior and its subordinates as they are.
AtDelete(a) ==
  /\ a \in AtLive
  /\ atRow' = [atRow EXCEPT ![a] = "deleted"]
  /\ UNCHANGED <<atParent, atEdit, atEdits, atOverlap>>

AtNext ==
  \/ \E a \in AtAgents, p \in AtPlaces :
       AtCreate(a, p) \/ (\E u \in AtEditors : AtCheck(u, a, p))
  \/ \E u \in AtEditors : AtWrite(u)
  \/ \E a \in AtAgents : AtDelete(a)

AtSpec == AtInit /\ [][AtNext]_atVars

-----------------------------------------------------------------------------
(* Properties *)

\* No live agent is its own superior at some distance: the walk before an update
\* is enough, unless two updates overlap.  A deleted agent cuts the chain, for the
\* walk and for every later reader, so it hides no cycle of live agents.
AtNoCycle == ~atOverlap => \A a \in AtLive : a \notin AtAbove(a)
=============================================================================
