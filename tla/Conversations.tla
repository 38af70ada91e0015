----------------------------- MODULE Conversations -----------------------------
(***************************************************************************)
(* The conversations of one contact on one channel: the resolver that      *)
(* finds, reopens or creates one for a message (a Redis lock around the    *)
(* slow path), the status machine, assignment, the agent switch, replies   *)
(* of operators and the history import.  Every service call reads a row,   *)
(* awaits, and writes without a condition on what it read.                 *)
(***************************************************************************)
EXTENDS Naturals, FiniteSets

CONSTANTS
  CvConvs,     \* conversation ids
  CvUsers,     \* operators
  CvCallers,   \* concurrent calls: inbound jobs, requests, imports
  CvNobody,    \* no user, no lock holder, no conversation
  CvMaxCalls   \* bound: calls that are made

ASSUME CvAssumption ==
  /\ CvNobody \notin CvUsers \union CvCallers \union CvConvs
  /\ CvMaxCalls \in Nat

VARIABLES
  cvRow,    \* cvRow[c]: the row, st = "NONE" when there is none
  cvCall,   \* cvCall[p]: the call in flight, with the row it read
  cvLock,   \* lock:conv:<channel>:<contact>
  cvTold,   \* the status the last outbox event of the row told automations
  cvCause,  \* history: what happened that can leave two open conversations
  cvRaced,  \* history: rows that a call wrote after their status had changed
  cvMade    \* calls made so far

cvVars == <<cvRow, cvCall, cvLock, cvTold, cvCause, cvRaced, cvMade>>

CvOpen == {"PENDING", "OPEN", "BOT", "WAITING"}
CvStatus == CvOpen \union {"CLOSED"}

\* ai is aiEnabled: "null" follows the organization, "on" and "off" are forced.
\* recent: closed less than 24 hours ago.  pinned: activeAgentId is set.
CvRowType ==
  [st : CvStatus \union {"NONE"}, closedAt : BOOLEAN, recent : BOOLEAN,
   who : CvUsers \union {CvNobody}, ai : {"null", "on", "off"},
   pinned : BOOLEAN]

CvNoRow == [st |-> "NONE", closedAt |-> FALSE, recent |-> FALSE,
            who |-> CvNobody, ai |-> "null", pinned |-> FALSE]

CvPCs == {"idle", "lock", "inside", "touch", "reopen", "create", "fsm",
          "transition", "assign", "send"}
CvOps == {"none", "inbound", "operator", "import"}

CvTypeOK ==
  /\ cvRow \in [CvConvs -> CvRowType]
  /\ cvCall \in [CvCallers ->
       [pc : CvPCs, op : CvOps, conv : CvConvs \union {CvNobody},
        seen : CvRowType, user : CvUsers \union {CvNobody},
        to : CvStatus \union {"NONE"}]]
  /\ cvLock \in CvCallers \union {CvNobody}
  /\ cvTold \in [CvConvs -> CvStatus \union {"NONE"}]
  /\ cvCause \subseteq {"reopen", "import", "expiry", "raced"}
  /\ cvRaced \subseteq CvConvs
  /\ cvMade \in 0..CvMaxCalls

CvIdle == [pc |-> "idle", op |-> "none", conv |-> CvNobody, seen |-> CvNoRow,
           user |-> CvNobody, to |-> "NONE"]

CvInit ==
  /\ cvRow = [c \in CvConvs |-> CvNoRow]
  /\ cvCall = [p \in CvCallers |-> CvIdle]
  /\ cvLock = CvNobody
  /\ cvTold = [c \in CvConvs |-> "NONE"]
  /\ cvCause = {}
  /\ cvRaced = {}
  /\ cvMade = 0

CvAt(p, pc) == cvCall[p].pc = pc
CvFound == {c \in CvConvs : cvRow[c].st \in CvOpen}

\* Bound: CvMaxCalls calls are made.
CvCount == cvMade < CvMaxCalls /\ cvMade' = cvMade + 1

\* A call begins with the row it reads; rows and events are as they were.
CvBegin(p, rec) ==
  /\ CvAt(p, "idle")
  /\ CvCount
  /\ cvCall' = [cvCall EXCEPT ![p] = rec]
  /\ UNCHANGED <<cvRow, cvLock, cvTold, cvCause, cvRaced>>

CvGoTo(p, rec) ==
  /\ cvCall' = [cvCall EXCEPT ![p] = rec]
  /\ UNCHANGED <<cvRow, cvLock, cvTold, cvCause, cvRaced, cvMade>>

CvRelease(p) == cvLock' = IF cvLock = p THEN CvNobody ELSE cvLock

\* The call p writes row r over conversation c and returns (a lock it still has
\* is released in the finally block); t is what the outbox tells of the status.
CvWrite(p, c, r, t, causes) ==
  LET raced == cvRow[c].st # cvCall[p].seen.st IN
  /\ cvRow' = [cvRow EXCEPT ![c] = r]
  /\ cvTold' = [cvTold EXCEPT ![c] = t]
  /\ cvRaced' = IF raced THEN cvRaced \union {c} ELSE cvRaced
  /\ cvCause' = cvCause \union causes \union (IF raced THEN {"raced"} ELSE {})
  /\ cvCall' = [cvCall EXCEPT ![p] = CvIdle]
  /\ CvRelease(p)
  /\ UNCHANGED cvMade

\* The call throws, or has nothing to write.
CvReturn(p) ==
  /\ cvCall' = [cvCall EXCEPT ![p] = CvIdle]
  /\ CvRelease(p)
  /\ UNCHANGED <<cvRow, cvTold, cvCause, cvRaced, cvMade>>

-----------------------------------------------------------------------------
(* ConversationResolverService: resolve and resolveForOperator *)

\* Fast path: an open conversation is found without the lock.
CvResolve(p, op, u) ==
  /\ op \in {"inbound", "operator"}
  /\ \/ \E c \in CvFound :
          CvBegin(p, [CvIdle EXCEPT !.pc = "touch", !.op = op, !.conv = c,
                                    !.seen = cvRow[c], !.user = u])
     \/ /\ CvFound = {}
        /\ CvBegin(p, [CvIdle EXCEPT !.pc = "lock", !.op = op, !.user = u])

\* Mutant: the lock is taken without NX.
CvTakeLockAlways(p) ==
  /\ CvAt(p, "lock")
  /\ cvLock' = p
  /\ cvCall' = [cvCall EXCEPT ![p].pc = "inside"]
  /\ UNCHANGED <<cvRow, cvTold, cvCause, cvRaced, cvMade>>

CvTakeLock(p) ==
  /\ CvAt(p, "lock")
  /\ cvLock = CvNobody
  /\ cvLock' = p
  /\ cvCall' = [cvCall EXCEPT ![p].pc = "inside"]
  /\ UNCHANGED <<cvRow, cvTold, cvCause, cvRaced, cvMade>>

\* Five seconds of polling the lock: withLock throws.
CvLockTimesOut(p) ==
  /\ CvAt(p, "lock")
  /\ cvLock # CvNobody
  /\ CvReturn(p)

\* The lock's ten seconds are over under its holder.
CvExpireLock ==
  /\ cvLock # CvNobody
  /\ cvLock' = CvNobody
  /\ cvCause' = cvCause \union {"expiry"}
  /\ UNCHANGED <<cvRow, cvCall, cvTold, cvRaced, cvMade>>

\* A conversation of the contact that was closed less than 24 hours ago.
CvReopenable == {c \in CvConvs : cvRow[c].st = "CLOSED" /\ cvRow[c].recent}

\* Under the lock: look again, then touch, reopen (messages only) or create.
CvRecheck(p) ==
  LET reopens == cvCall[p].op = "inbound" /\ CvReopenable # {}
      Seen(c, pc) == [cvCall[p] EXCEPT !.pc = pc, !.conv = c, !.seen = cvRow[c]]
  IN
  /\ CvAt(p, "inside")
  /\ \/ \E c \in CvFound : CvGoTo(p, Seen(c, "touch"))
     \/ /\ CvFound = {}
        /\ reopens
        /\ \E c \in CvReopenable : CvGoTo(p, Seen(c, "reopen"))
     \/ /\ CvFound = {}
        /\ ~reopens
        /\ CvGoTo(p, [cvCall[p] EXCEPT !.pc = "create"])

\* touchOpen: only a WAITING conversation is written, and no event tells it.
CvTouch(p) ==
  LET c == cvCall[p].conv IN
  /\ CvAt(p, "touch")
  /\ IF cvCall[p].seen.st = "WAITING" /\ cvRow[c].st # "NONE"
     THEN CvWrite(p, c, [cvRow[c] EXCEPT !.st = "OPEN"], cvTold[c], {})
     ELSE CvReturn(p)

CvReopen(p) ==
  LET c == cvCall[p].conv IN
  /\ CvAt(p, "reopen")
  /\ IF cvRow[c].st # "NONE"
     THEN CvWrite(p, c, [cvRow[c] EXCEPT !.st = "PENDING", !.closedAt = FALSE,
                                         !.recent = FALSE, !.who = CvNobody],
                  cvTold[c], {})
     ELSE CvReturn(p)

\* A new row: PENDING for a message; OPEN, assigned and without the agent for an
\* operator; an import creates PENDING or OPEN and takes no lock.
CvNewRow(op, u) ==
  CASE op = "inbound"  -> {[CvNoRow EXCEPT !.st = "PENDING"]}
    [] op = "operator" -> {[CvNoRow EXCEPT !.st = "OPEN", !.who = u, !.ai = "off"]}
    [] op = "import"   -> {[CvNoRow EXCEPT !.st = s] : s \in {"PENDING", "OPEN"}}

CvCreate(p) ==
  /\ CvAt(p, "create")
  /\ \E c \in CvConvs, r \in CvNewRow(cvCall[p].op, cvCall[p].user) :
       /\ cvRow[c].st = "NONE"
       /\ CvWrite(p, c, r, r.st,
                  IF cvCall[p].op = "import" THEN {"import"} ELSE {})

\* Every id is in use: beyond the bound on conversations.
CvCreateBound(p) ==
  /\ CvAt(p, "create")
  /\ \A c \in CvConvs : cvRow[c].st # "NONE"
  /\ CvReturn(p)

\* HistoryImportService.importConversation: no lock between find and create.
CvImport(p) ==
  /\ CvFound = {}
  /\ CvBegin(p, [CvIdle EXCEPT !.pc = "create", !.op = "import"])

\* A day passes after the close.
CvAge(c) ==
  /\ cvRow[c].recent
  /\ cvRow' = [cvRow EXCEPT ![c].recent = FALSE]
  /\ UNCHANGED <<cvCall, cvLock, cvTold, cvCause, cvRaced, cvMade>>

-----------------------------------------------------------------------------
(* ConversationFsmService and ConversationsService *)

\* VALID_TRANSITIONS.
CvTransitions ==
  {<<"PENDING", "OPEN">>, <<"PENDING", "BOT">>, <<"PENDING", "CLOSED">>,
   <<"BOT", "PENDING">>, <<"OPEN", "WAITING">>, <<"OPEN", "CLOSED">>,
   <<"WAITING", "OPEN">>, <<"WAITING", "CLOSED">>, <<"CLOSED", "OPEN">>,
   <<"CLOSED", "PENDING">>}

\* close, update with a status, or reopen, whose target depends on the assignee
\* read by findOne.
CvAskStatus(p, c, to) ==
  /\ cvRow[c].st # "NONE"
  /\ CvBegin(p, [CvIdle EXCEPT !.pc = "fsm", !.conv = c, !.to = to])

CvAskReopen(p, c) ==
  CvAskStatus(p, c, IF cvRow[c].who = CvNobody THEN "PENDING" ELSE "OPEN")

\* transition reads the row again and validates the move, or throws.
CvValidate(p) ==
  LET c == cvCall[p].conv IN
  /\ CvAt(p, "fsm")
  /\ IF <<cvRow[c].st, cvCall[p].to>> \in CvTransitions
     THEN CvGoTo(p, [cvCall[p] EXCEPT !.pc = "transition", !.seen = cvRow[c]])
     ELSE CvReturn(p)

\* The transaction: row, audit and event together; what happens to closedAt is
\* decided by the status that was read.
CvTransition(p) ==
  LET c == cvCall[p].conv
      to == cvCall[p].to
      row == [cvRow[c] EXCEPT
                !.st = to,
                !.closedAt = to = "CLOSED" \/ (@ /\ cvCall[p].seen.st # "CLOSED"),
                !.recent = to = "CLOSED" \/ (@ /\ cvCall[p].seen.st # "CLOSED")]
  IN
  /\ CvAt(p, "transition")
  /\ IF cvRow[c].st = "NONE" THEN CvReturn(p)
     ELSE CvWrite(p, c, row, to,
                  IF cvCall[p].seen.st = "CLOSED" THEN {"reopen"} ELSE {})

\* assign, assignToMe: reads the row first.
CvAskAssign(p, c, u) ==
  /\ cvRow[c].st # "NONE"
  /\ CvBegin(p, [CvIdle EXCEPT !.pc = "assign", !.conv = c, !.user = u,
                               !.seen = cvRow[c]])

\* Mutant: assigning opens whatever the status was.
CvAssignOpens(p) ==
  LET c == cvCall[p].conv IN
  /\ CvAt(p, "assign")
  /\ IF cvRow[c].st = "NONE" THEN CvReturn(p)
     ELSE CvWrite(p, c, [cvRow[c] EXCEPT !.who = cvCall[p].user, !.st = "OPEN"],
                  "OPEN", {})

\* A PENDING conversation opens, and both facts are told in the transaction.
CvAssign(p) ==
  LET c == cvCall[p].conv
      opens == cvCall[p].seen.st = "PENDING"
  IN
  /\ CvAt(p, "assign")
  /\ IF cvRow[c].st = "NONE" THEN CvReturn(p)
     ELSE CvWrite(p, c,
            [cvRow[c] EXCEPT !.who = cvCall[p].user,
                             !.st = IF opens THEN "OPEN" ELSE @],
            IF opens THEN "OPEN" ELSE cvTold[c], {})

\* toggleAi and setActiveAgent write without looking at the row.
CvSwitch(c, ai, pinned) ==
  /\ cvRow[c].st # "NONE"
  /\ CvCount
  /\ cvRow' = [cvRow EXCEPT ![c].ai = ai, ![c].pinned = pinned]
  /\ UNCHANGED <<cvCall, cvLock, cvTold, cvCause, cvRaced>>

CvToggleAi(c) ==
  \E ai \in {"null", "on", "off"} :
    CvSwitch(c, ai, IF ai = "off" THEN FALSE ELSE cvRow[c].pinned)

CvSetActiveAgent(c) == CvSwitch(c, "on", TRUE)

\* An operator replies: MessagesService.send reads the conversation ...
CvAskSend(p, c, u) ==
  /\ cvRow[c].st # "NONE"
  /\ CvBegin(p, [CvIdle EXCEPT !.pc = "send", !.conv = c, !.user = u,
                               !.seen = cvRow[c]])

\* ... and makes the sender its assignee; the agent is paused unless it was
\* forced on or off when it was read, or the organization does not pause.
CvSend(p) ==
  LET c == cvCall[p].conv
      seen == cvCall[p].seen
      owner == IF seen.who = cvCall[p].user THEN cvRow[c].who ELSE cvCall[p].user
  IN
  /\ CvAt(p, "send")
  /\ IF cvRow[c].st = "NONE" THEN CvReturn(p)
     ELSE \E pauses \in (IF seen.ai = "null" THEN BOOLEAN ELSE {FALSE}) :
            CvWrite(p, c,
              [cvRow[c] EXCEPT !.who = owner,
                               !.ai = IF pauses THEN "off" ELSE @,
                               !.pinned = @ /\ ~pauses],
              cvTold[c], {})

\* hardDelete, with the confirmation that the contact's name or phone gives.
CvHardDelete(c) ==
  /\ cvRow[c].st # "NONE"
  /\ CvCount
  /\ cvRow' = [cvRow EXCEPT ![c] = CvNoRow]
  /\ cvTold' = [cvTold EXCEPT ![c] = "NONE"]
  /\ cvRaced' = cvRaced \ {c}
  /\ UNCHANGED <<cvCall, cvLock, cvCause>>

CvCallerStep(p) ==
  \/ CvTakeLock(p) \/ CvLockTimesOut(p) \/ CvRecheck(p) \/ CvTouch(p)
  \/ CvReopen(p) \/ CvCreate(p) \/ CvCreateBound(p) \/ CvValidate(p)
  \/ CvTransition(p) \/ CvAssign(p) \/ CvSend(p)

CvNext ==
  \/ \E p \in CvCallers :
       \/ CvCallerStep(p)
       \/ CvImport(p)
       \/ CvResolve(p, "inbound", CvNobody)
       \/ \E u \in CvUsers : CvResolve(p, "operator", u)
       \/ \E c \in CvConvs :
            \/ CvAskReopen(p, c)
            \/ \E to \in CvStatus : CvAskStatus(p, c, to)
            \/ \E u \in CvUsers : CvAskAssign(p, c, u) \/ CvAskSend(p, c, u)
  \/ \E c \in CvConvs :
       CvAge(c) \/ CvToggleAi(c) \/ CvSetActiveAgent(c) \/ CvHardDelete(c)
  \/ CvExpireLock

CvSpec == CvInit /\ [][CvNext]_cvVars

-----------------------------------------------------------------------------
(* Properties *)

\* The lock and the second look under it keep a contact at one open
\* conversation: two of them need an expired lock, an import (which takes no
\* lock), a manual reopening, or a write over a status that had changed.
CvOneOpen == Cardinality(CvFound) > 1 => cvCause # {}

\* closedAt says whether a conversation is closed, except in a row that was
\* written by a call that had read another status.
CvClosedAtMatches ==
  \A c \in CvConvs \ cvRaced : cvRow[c].closedAt <=> cvRow[c].st = "CLOSED"

\* Automations know the status of every conversation that no customer message
\* changed (the resolver reopens and resumes without an event) and no race hit:
\* the status differs from what was told only in the two ways the resolver has.
CvStatusTold ==
  \A c \in CvConvs \ cvRaced :
    \/ cvTold[c] = cvRow[c].st
    \/ cvTold[c] = "WAITING" /\ cvRow[c].st = "OPEN"
    \/ cvTold[c] = "CLOSED" /\ cvRow[c].st = "PENDING"

\* Whatever calls interleave, a row whose readers were not overtaken moves along
\* VALID_TRANSITIONS; creation and deletion are the only other changes.
CvLegalMoves ==
  \A c \in CvConvs :
     \/ cvRow'[c].st = cvRow[c].st
     \/ "NONE" \in {cvRow[c].st, cvRow'[c].st}
     \/ <<cvRow[c].st, cvRow'[c].st>> \in CvTransitions
     \/ c \in cvRaced'

\* An agent that a human forced on is switched off by a human again, or by a
\* reply that read the conversation before it was forced on.
CvForcedOnSurvives ==
  \A c \in CvConvs : cvRow[c].ai = "on" /\ cvRow'[c].ai = "off" =>
     \/ cvMade' > cvMade
     \/ \E p \in CvCallers : /\ cvCall[p].conv = c
                            /\ cvCall[p].seen.ai = "null"
                            /\ cvCall'[p] = CvIdle

\* One open conversation of a thread, with its closing date, its status told to its viewers.
CvSafe == CvOneOpen /\ CvClosedAtMatches /\ CvStatusTold
=============================================================================
