--------------------------------- MODULE Kanban ---------------------------------
(***************************************************************************)
(* The board of one pipeline: cards in the columns of its stages, dragged, *)
(* created, linked and removed by several operators.  createCard and       *)
(* moveCard read before the transaction that writes; the statements of one *)
(* transaction are not interleaved with another's.                         *)
(***************************************************************************)
EXTENDS Naturals, FiniteSets, FiniteSetsExt

CONSTANTS
  KbCards,    \* cards
  KbStages,   \* stages of the pipeline
  KbCallers,  \* operators and the recovery tool
  KbMaxCalls, \* bound: calls
  KbMaxOrder  \* bound: the index of a drop, and of a card that is created

ASSUME KbAssumption == KbMaxCalls \in Nat /\ KbMaxOrder \in Nat

VARIABLES
  kbType,     \* kbType[s]: type of a stage, or "GONE"
  kbCard,     \* the cards
  kbCall,     \* kbCall[p]: what a call has read
  kbCalls,    \* calls so far
  kbRetyped,  \* history: stages whose type has been changed
  kbRelinked, \* history: updateCard linked a card to a conversation
  kbRaced     \* history: a call wrote between the read and the write of another

kbVars == <<kbType, kbCard, kbCall, kbCalls, kbRetyped, kbRelinked, kbRaced>>

KbTypes == {"NORMAL", "WON", "LOST"}
KbStatus == {"OPEN", "WON", "LOST"}

\* linked: to the one conversation that is looked at.  moved: history.
KbCardRecord ==
  [stage : KbStages, order : Nat, status : KbStatus, closed : BOOLEAN, linked : BOOLEAN, moved : BOOLEAN]
KbNoCard == [stage |-> "none"]
KbIdle == [op |-> "idle", stale |-> FALSE]

KbTypeOK ==
  /\ kbType \in [KbStages -> KbTypes \union {"GONE"}]
  /\ \A c \in KbCards : kbCard[c] = KbNoCard \/ kbCard[c] \in KbCardRecord
  /\ \A p \in KbCallers : kbCall[p].op \in {"idle", "create", "move"}
  /\ kbCalls \in 0..KbMaxCalls
  /\ kbRetyped \subseteq KbStages
  /\ {kbRelinked, kbRaced} \subseteq BOOLEAN

KbInit ==
  /\ kbType \in [KbStages -> KbTypes]
  /\ kbCard = [c \in KbCards |-> KbNoCard]
  /\ kbCall = [p \in KbCallers |-> KbIdle]
  /\ kbCalls = 0
  /\ kbRetyped = {} /\ kbRelinked = FALSE /\ kbRaced = FALSE

KbIn(stage) == {c \in KbCards : kbCard[c] # KbNoCard /\ kbCard[c].stage = stage}
KbLinked == {c \in KbCards : kbCard[c] # KbNoCard /\ kbCard[c].linked}

\* The calls in flight are stale once somebody has written.
kbStale(p) ==
  /\ kbCall' = [x \in KbCallers |->
       IF x = p THEN KbIdle ELSE [kbCall[x] EXCEPT !.stale = kbCall[x].op # "idle"]]
  /\ kbRaced' = (kbRaced \/ kbCall[p].stale)

kbStart(p) ==
  /\ kbCall[p] = KbIdle /\ kbCalls < KbMaxCalls
  /\ kbCalls' = kbCalls + 1

-----------------------------------------------------------------------------
(* Cards *)

\* createCard: one card a conversation, at the end of the column.
KbCreateRead(p) ==
  /\ kbStart(p)
  /\ \E s \in KbStages, linked \in BOOLEAN :
       /\ kbType[s] # "GONE"
       /\ linked => KbLinked = {}
       /\ kbCall' = [kbCall EXCEPT ![p] =
            [op |-> "create", stale |-> FALSE, stage |-> s, linked |-> linked,
             order |-> IF KbIn(s) = {} THEN 0 ELSE Max({kbCard[c].order : c \in KbIn(s)}) + 1]]
  /\ UNCHANGED <<kbType, kbCard, kbRetyped, kbRelinked, kbRaced>>

\* A stage that has gone since refuses the card; a card in a WON stage starts OPEN.
KbCreateWrite(p) ==
  /\ kbCall[p].op = "create"
  /\ kbCall[p].order <= KbMaxOrder
  /\ IF kbType[kbCall[p].stage] = "GONE" THEN UNCHANGED kbCard
     ELSE \E c \in KbCards :
            /\ kbCard[c] = KbNoCard
            /\ kbCard' = [kbCard EXCEPT ![c] =
                 [stage |-> kbCall[p].stage, order |-> kbCall[p].order, status |-> "OPEN",
                  closed |-> FALSE, linked |-> kbCall[p].linked, moved |-> FALSE]]
  /\ kbStale(p)
  /\ UNCHANGED <<kbType, kbCalls, kbRetyped, kbRelinked>>

\* updateCard writes the conversation with no look at the others.
KbLink(p, c) ==
  /\ kbStart(p) /\ kbCard[c] # KbNoCard
  /\ \E linked \in BOOLEAN :
       /\ kbCard' = [kbCard EXCEPT ![c].linked = linked]
       /\ kbRelinked' = (kbRelinked \/ linked)
  /\ kbStale(p)
  /\ UNCHANGED <<kbType, kbRetyped>>

\* removeCard leaves the gap open.
KbRemove(p, c) ==
  /\ kbStart(p) /\ kbCard[c] # KbNoCard
  /\ kbCard' = [kbCard EXCEPT ![c] = KbNoCard]
  /\ kbStale(p)
  /\ UNCHANGED <<kbType, kbRetyped, kbRelinked>>

\* moveCard reads the card and the type of the target stage.
KbMoveRead(p, c) ==
  /\ kbStart(p) /\ kbCard[c] # KbNoCard
  /\ \E s \in KbStages, i \in 0..KbMaxOrder :
       /\ kbType[s] # "GONE"
       /\ kbCall' = [kbCall EXCEPT ![p] =
            [op |-> "move", stale |-> FALSE, card |-> c, from |-> kbCard[c].stage,
             at |-> kbCard[c].order, to |-> s, index |-> i, type |-> kbType[s]]]
  /\ UNCHANGED <<kbType, kbCard, kbRetyped, kbRelinked, kbRaced>>

\* Mutant: the slot opens after the card that is there.
KbShiftedPast(m, stage, order) ==
  CASE m.from # m.to /\ stage = m.from /\ order > m.at -> order - 1
    [] m.from # m.to /\ stage = m.to /\ order > m.index -> order + 1
    [] OTHER -> order

\* Where a card of the two columns goes: the gap it leaves is closed, a slot opened.
KbShifted(m, stage, order) ==
  CASE m.from = m.to /\ stage = m.to /\ m.at < m.index /\ order > m.at /\ order <= m.index -> order - 1
    [] m.from = m.to /\ stage = m.to /\ m.at > m.index /\ order >= m.index /\ order < m.at -> order + 1
    [] m.from # m.to /\ stage = m.from /\ order > m.at -> order - 1
    [] m.from # m.to /\ stage = m.to /\ order >= m.index -> order + 1
    [] OTHER -> order

KbStatusIn(type, status) == IF type = "NORMAL" THEN "OPEN" ELSE type

\* The transaction, from what was read; a drop where the card lies changes nothing.
KbMoveWrite(p) ==
  /\ kbCall[p].op = "move"
  /\ LET m == kbCall[p]
         c == m.card
     IN IF kbCard[c] = KbNoCard \/ kbType[m.to] = "GONE" \/ (m.from = m.to /\ m.at = m.index)
        THEN UNCHANGED kbCard
        ELSE kbCard' = [x \in KbCards |->
               CASE kbCard[x] = KbNoCard -> KbNoCard
                 [] x = c ->
                      [kbCard[c] EXCEPT !.stage = m.to, !.order = m.index, !.moved = TRUE,
                         !.status = KbStatusIn(m.type, @), !.closed = m.type # "NORMAL"]
                 [] OTHER ->
                      [kbCard[x] EXCEPT !.order = KbShifted(m, kbCard[x].stage, @)]]
  /\ kbStale(p)
  /\ UNCHANGED <<kbType, kbCalls, kbRetyped, kbRelinked>>

-----------------------------------------------------------------------------
(* Stages *)

\* upsertStages: other types, and the stages left out deleted if they have no card.
KbUpsert(p) ==
  /\ kbStart(p)
  /\ \E types \in [KbStages -> KbTypes \union {"GONE"}] :
       /\ \A s \in KbStages : kbType[s] = "GONE" => types[s] = "GONE"
       /\ \A s \in KbStages : types[s] = "GONE" => KbIn(s) = {}
       /\ kbType' = types
       /\ kbRetyped' = kbRetyped \union {s \in KbStages : types[s] # kbType[s]}
  /\ kbStale(p)
  /\ UNCHANGED <<kbCard, kbRelinked>>

KbNext ==
  \E p \in KbCallers :
    \/ KbCreateRead(p) \/ KbCreateWrite(p) \/ KbMoveWrite(p) \/ KbUpsert(p)
    \/ \E c \in KbCards : KbMoveRead(p, c) \/ KbLink(p, c) \/ KbRemove(p, c)

KbSpec == KbInit /\ [][KbNext]_kbVars

-----------------------------------------------------------------------------
(* Properties *)

\* A drag and drop leaves every column with one card a position.
KbNoTies ==
  \A s \in KbStages : \A c, d \in KbIn(s) : c # d => kbCard[c].order # kbCard[d].order

\* Two cards at one position need two calls that overlap.
KbTieNeedsRace == kbRaced \/ KbNoTies

\* A card that was dropped somewhere has the status of its column, as long as nobody
\* gave the column another type.
KbStatusFollowsStage ==
  \A c \in KbCards : kbCard[c] # KbNoCard /\ kbCard[c].moved /\ kbCard[c].stage \notin kbRetyped =>
    /\ kbCard[c].status = KbStatusIn(kbType[kbCard[c].stage], "OPEN")
    /\ kbCard[c].closed = (kbCard[c].status # "OPEN")

\* A conversation has two cards only if two were created at once, or updateCard linked one.
KbOneCard == kbRaced \/ kbRelinked \/ Cardinality(KbLinked) <= 1

\* A card lies in a column that is there.
KbStageIsThere == \A s \in KbStages : kbType[s] = "GONE" => KbIn(s) = {}

\* The board stays in order, whatever overlaps but the drops themselves.
KbSafe == KbTieNeedsRace /\ KbStatusFollowsStage /\ KbOneCard /\ KbStageIsThere
=============================================================================
