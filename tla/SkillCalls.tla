------------------------------ MODULE SkillCalls ------------------------------
(***************************************************************************)
(* One custom skill of one agent: the catalog that versions it, the row    *)
(* that attaches it to the agent and says whether a human must approve a   *)
(* call, and the calls that runs make of it.                               *)
(***************************************************************************)
EXTENDS Naturals

CONSTANTS
  SkEditors,      \* operators of the catalog
  SkRuns,         \* runs of the agent
  SkMaxVersions,  \* bound: versions of the skill
  SkMaxChanges    \* bound: changes of the attachment

ASSUME SkAssumption == SkMaxVersions \in Nat \ {0} /\ SkMaxChanges \in Nat

VARIABLES
  skKind,     \* the skill: HTTP or SQL, and whether its response map hides the status
  skRow,      \* version and content of the ai_skills row, deleted or not
  skSnaps,    \* rows of ai_skill_versions: the content of each version
  skEdit,     \* skEdit[u]: the version an update read
  skLink,     \* the ai_agent_skills row
  skChanges,  \* changes of the attachment so far
  skCall,     \* skCall[r]: the call a run makes
  skWanted,   \* history: the operator asked for approval and did not take it back
  skResaved,  \* history: the agent's skills were saved since
  skBypassed  \* history: an HTTP call went ahead though the last change asked for approval

skVars == <<skKind, skRow, skSnaps, skEdit, skLink, skChanges, skCall, skWanted,
            skResaved, skBypassed>>
skCatalog == <<skRow, skSnaps, skEdit>>
skAttachment == <<skLink, skChanges, skWanted, skResaved>>

SkSources == {"HTTP", "SQL"}
SkNoCall == [pc |-> "idle", tries |-> 0, effects |-> 0, seen5xx |-> FALSE, gated |-> FALSE]
SkNoEdit == [pc |-> "idle", read |-> 0]

SkTypeOK ==
  /\ skKind \in [source : SkSources, mapped : BOOLEAN]
  /\ skRow \in [version : 1..SkMaxVersions, content : 1..SkMaxVersions, deleted : BOOLEAN]
  /\ \A s \in skSnaps : s \in [version : 1..SkMaxVersions, content : 1..SkMaxVersions]
  /\ skEdit \in [SkEditors -> [pc : {"idle", "read"}, read : 0..SkMaxVersions]]
  /\ skLink \in [attached : BOOLEAN, gate : BOOLEAN]
  /\ skChanges \in 0..SkMaxChanges
  /\ skCall \in [SkRuns -> [pc : {"idle", "offered", "gate", "send", "done"}, tries : 0..2,
                            effects : 0..2, seen5xx : BOOLEAN, gated : BOOLEAN]]
  /\ {skWanted, skResaved, skBypassed} \subseteq BOOLEAN

SkInit ==
  /\ skKind \in [source : SkSources, mapped : BOOLEAN]
  /\ skRow = [version |-> 1, content |-> 1, deleted |-> FALSE]
  /\ skSnaps = {[version |-> 1, content |-> 1]}
  /\ skEdit = [u \in SkEditors |-> SkNoEdit]
  /\ skLink = [attached |-> FALSE, gate |-> FALSE]
  /\ skChanges = 0
  /\ skCall = [r \in SkRuns |-> SkNoCall]
  /\ skWanted = FALSE /\ skResaved = FALSE /\ skBypassed = FALSE

-----------------------------------------------------------------------------
(* SkillsService: the catalog *)

\* update reads the row ...
SkRead(u) ==
  /\ skEdit[u].pc = "idle"
  /\ ~skRow.deleted
  /\ skRow.version < SkMaxVersions
  /\ skEdit' = [skEdit EXCEPT ![u] = [pc |-> "read", read |-> skRow.version]]
  /\ UNCHANGED <<skKind, skRow, skSnaps, skAttachment, skCall, skBypassed>>

\* Every update brings a content of its own.
SkContents == {c \in 1..SkMaxVersions : \A s \in skSnaps : s.content # c}

\* ... and writes the next version and its snapshot in one transaction, which fails
\* when another update has taken that version.
SkWrite(u) ==
  LET v == skEdit[u].read + 1 IN
  /\ skEdit[u].pc = "read"
  /\ skEdit' = [skEdit EXCEPT ![u] = SkNoEdit]
  /\ \/ /\ \E s \in skSnaps : s.version = v
        /\ UNCHANGED <<skRow, skSnaps>>
     \/ /\ \A s \in skSnaps : s.version # v
        /\ \E c \in SkContents :
             /\ skRow' = [skRow EXCEPT !.version = v, !.content = c]
             /\ skSnaps' = skSnaps \union {[version |-> v, content |-> c]}
  /\ UNCHANGED <<skKind, skAttachment, skCall, skBypassed>>

\* softDelete keeps the attachment and the snapshots.
SkDelete ==
  /\ ~skRow.deleted
  /\ skRow' = [skRow EXCEPT !.deleted = TRUE]
  /\ UNCHANGED <<skKind, skSnaps, skEdit, skAttachment, skCall, skBypassed>>

-----------------------------------------------------------------------------
(* The attachment *)

\* setAgentSkills deletes the agent's rows and creates the new list: a row that
\* stays on the list comes back with its default, no approval.
SkSetSkills(keep) ==
  /\ skChanges < SkMaxChanges
  /\ keep => ~skRow.deleted
  /\ skChanges' = skChanges + 1
  /\ skLink' = [attached |-> keep, gate |-> FALSE]
  /\ skResaved' = TRUE
  /\ UNCHANGED <<skKind, skCatalog, skCall, skWanted, skBypassed>>

\* setSkillApproval: 404 for a skill that is not attached.
SkSetApproval(flag) ==
  /\ skChanges < SkMaxChanges
  /\ skLink.attached
  /\ skChanges' = skChanges + 1
  /\ skLink' = [skLink EXCEPT !.gate = flag]
  /\ skWanted' = flag
  /\ skResaved' = FALSE
  /\ UNCHANGED <<skKind, skCatalog, skCall, skBypassed>>

-----------------------------------------------------------------------------
(* Calls *)

\* resolveToolsAndSkills, when the run begins: what it offers stays offered until
\* the run ends.
SkOffer(r) ==
  /\ skCall[r].pc = "idle"
  /\ skLink.attached /\ ~skRow.deleted
  /\ skCall' = [skCall EXCEPT ![r].pc = "offered", ![r].gated = skLink.gate]
  /\ UNCHANGED <<skKind, skCatalog, skAttachment, skBypassed>>

\* executeToolCalls begins a call of the model.
SkBegin(r) ==
  /\ skCall[r].pc = "offered"
  /\ skCall' = [skCall EXCEPT ![r].pc = "gate", ![r].tries = 0, ![r].effects = 0,
                              ![r].seen5xx = FALSE]
  /\ UNCHANGED <<skKind, skCatalog, skAttachment, skBypassed>>

\* Mutant: the gate is the one that was read when the run began.
SkGateOfOffer(r) == skCall[r].gated

\* The gate is read at every attempt; a row that is gone gates nothing.
SkGateOf(r) == skLink.attached /\ skLink.gate

\* HttpToolExecutor creates a pending action, or goes on to the request; the
\* SqlToolExecutor asks for no approval.
SkGate(r) ==
  /\ skCall[r].pc = "gate"
  /\ IF skKind.source = "HTTP" /\ SkGateOf(r)
     THEN skCall' = [skCall EXCEPT ![r].pc = "done"] /\ UNCHANGED skBypassed
     ELSE /\ skCall' = [skCall EXCEPT ![r].pc = "send", ![r].tries = @ + 1]
          /\ skBypassed' = (skBypassed \/ (skKind.source = "HTTP" /\ skWanted /\ ~skResaved))
  /\ UNCHANGED <<skKind, skCatalog, skAttachment>>

SkOutcomes ==
  IF skKind.source = "HTTP" THEN {"2xx", "4xx", "5xx", "timeout", "refused"}
  ELSE {"2xx", "noConnection", "sqlError"}

\* A service that answers with a server error, or not in time, may have done it all
\* the same. A connection that the pool does not give is thrown before the query.
SkMayAct(outcome) == outcome \in {"2xx", "5xx", "timeout"}

\* isTransientFailure: failures that were thrown (the executors return theirs
\* without a status), and 5xx or 429 where the response map shows them.
SkTransient(outcome) == outcome = "noConnection" \/ (outcome = "5xx" /\ ~skKind.mapped)

\* The request, and the retry of executeToolCalls.
SkSend(r) ==
  /\ skCall[r].pc = "send"
  /\ \E outcome \in SkOutcomes, acts \in BOOLEAN :
       /\ acts => SkMayAct(outcome)
       /\ outcome = "2xx" => acts
       /\ skCall' = [skCall EXCEPT
            ![r].pc = IF SkTransient(outcome) /\ skCall[r].tries < 2 THEN "gate" ELSE "done",
            ![r].effects = IF acts THEN @ + 1 ELSE @,
            ![r].seen5xx = @ \/ outcome = "5xx"]
  /\ UNCHANGED <<skKind, skCatalog, skAttachment, skBypassed>>

\* The model calls again, or the run ends.
SkDone(r) ==
  /\ skCall[r].pc \in {"offered", "done"}
  /\ skCall' = [skCall EXCEPT ![r] = IF skCall[r].pc = "done" THEN [@ EXCEPT !.pc = "offered"]
                                     ELSE SkNoCall]
  /\ UNCHANGED <<skKind, skCatalog, skAttachment, skBypassed>>

SkNext ==
  \/ \E u \in SkEditors : SkRead(u) \/ SkWrite(u)
  \/ SkDelete
  \/ \E b \in BOOLEAN : SkSetSkills(b) \/ SkSetApproval(b)
  \/ \E r \in SkRuns : SkOffer(r) \/ SkBegin(r) \/ SkGate(r) \/ SkSend(r) \/ SkDone(r)

SkSpec == SkInit /\ [][SkNext]_skVars

-----------------------------------------------------------------------------
(* Properties *)

\* The catalog's history is whole: every version of the skill has its snapshot,
\* and the row holds what the newest says, whatever updates overlap.
SkHistoryIsWhole ==
  /\ {s.version : s \in skSnaps} = 1..skRow.version
  /\ \A s \in skSnaps : s.version = skRow.version => s.content = skRow.content

\* An HTTP skill that was put behind approval runs without one only after the
\* agent's list of skills was saved again: that resets or removes the attachment,
\* and a run that already offers the skill goes on.
SkGateHolds == ~skBypassed

\* One call acts twice only when the service answered with a server error.
SkTwiceNeedsServerError ==
  \A r \in SkRuns : skCall[r].effects > 1 => skCall[r].seen5xx /\ ~skKind.mapped

\* Every version of a skill is kept, and no gated call runs unapproved or twice.
SkSafe == SkHistoryIsWhole /\ SkGateHolds /\ SkTwiceNeedsServerError
=============================================================================
