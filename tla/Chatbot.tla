-------------------------------- MODULE Chatbot --------------------------------
(***************************************************************************)
(* The decision-tree bot of one conversation: the flow an operator draws   *)
(* and saves, the session in Redis, and the jobs that run the engine, five *)
(* at a time and without a lock.                                           *)
(***************************************************************************)
EXTENDS Naturals, Sequences, FiniteSets

CONSTANTS
  CbWorkers,      \* slots of the chatbot-processor
  CbNoNode,
  CbAttempts,     \* attempts of a job
  CbMaxSaves,     \* bound: times the drawing is saved
  CbMaxMessages   \* bound: messages of the customer

ASSUME CbAssumption ==
  /\ CbAttempts \in Nat \ {0}
  /\ {CbMaxSaves, CbMaxMessages} \subseteq Nat

VARIABLES
  cbNodes,     \* rows of the flow: position in the drawing, kind, edge
  cbSave,      \* saves made, and the drawing of a save that has deleted the rows
  cbActive,    \* the flow is active and linked to the channel
  cbStatus,    \* status of the conversation
  cbSession,   \* bot:session:<conversation>
  cbJobs,      \* jobs waiting: the message and the attempts made
  cbWork,      \* cbWork[w]: what a slot does
  cbSent,      \* messages of the customer so far
  cbSpoke,     \* history: positions of the nodes whose text was sent
  cbMisread,   \* history: a menu took a message that does not follow its question
  cbOwed,      \* history: a transfer was decided and not yet written
  cbEvents     \* history: bursts of messages, failed attempts

cbVars == <<cbNodes, cbSave, cbActive, cbStatus, cbSession, cbJobs, cbWork,
            cbSent, cbSpoke, cbMisread, cbOwed, cbEvents>>

\* A WAIT node is a MENU that takes any answer, a CONDITION a silent MESSAGE, an
\* END_FLOW ends a session as a missing node does.
CbKinds == {"START", "MESSAGE", "MENU", "TRANSFER"}
CbDrawings == {<<k>> : k \in CbKinds \ {"START"}} \union
              (CbKinds \X (CbKinds \ {"START"}))

\* The id of a row: the save that created it and its place in the drawing.
CbIds == (0..CbMaxSaves) \X (1..2)
CbNodeIds == CbIds \union {CbNoNode}
CbRows == [id : CbIds, kind : CbKinds, next : CbNodeIds]
CbJobType == [msg : 1..CbMaxMessages, tries : 0..CbAttempts]
CbNoSession == [node |-> CbNoNode, waiting |-> FALSE, asked |-> 0, live |-> FALSE]

CbIdle == [pc |-> "idle", msg |-> 1, tries |-> 0, node |-> CbNoNode,
           input |-> FALSE, asked |-> 0, said |-> <<>>, rows |-> {}, transfer |-> FALSE]

CbTypeOK ==
  /\ cbNodes \subseteq CbRows
  /\ cbSave.made \in 0..CbMaxSaves
  /\ cbSave.drawing \in CbDrawings \union {<<>>}
  /\ cbActive \in BOOLEAN
  /\ cbStatus \in {"PENDING", "BOT", "OPEN", "CLOSED"}
  /\ cbSession \in [node : CbNodeIds, waiting : BOOLEAN, asked : 0..CbMaxMessages,
                    live : BOOLEAN]
  /\ cbJobs \subseteq CbJobType
  /\ \A w \in CbWorkers :
       /\ cbWork[w].pc \in {"idle", "run", "say"}
       /\ cbWork[w].tries \in 0..CbAttempts
       /\ cbWork[w].node \in CbNodeIds
       /\ cbWork[w].rows \subseteq CbRows
       /\ Len(cbWork[w].said) <= 2
  /\ cbSent \in 0..CbMaxMessages
  /\ cbSpoke \subseteq 1..2
  /\ cbMisread \in BOOLEAN /\ cbOwed \in BOOLEAN
  /\ cbEvents \subseteq {"burst", "failure"}

CbInit ==
  /\ cbNodes = {}
  /\ cbSave = [made |-> 0, drawing |-> <<>>]
  /\ cbActive = FALSE
  /\ cbStatus = "PENDING"
  /\ cbSession = CbNoSession
  /\ cbJobs = {}
  /\ cbWork = [w \in CbWorkers |-> CbIdle]
  /\ cbSent = 0
  /\ cbSpoke = {}
  /\ cbMisread = FALSE
  /\ cbOwed = FALSE
  /\ cbEvents = {}

CbHistory == <<cbSent, cbSpoke, cbMisread, cbOwed, cbEvents>>
CbRun == <<cbStatus, cbSession, cbJobs, cbWork>>

-----------------------------------------------------------------------------
(* ChatbotFlowsService *)

\* saveNodes: the rows are deleted first, in a statement of their own ...
CbDelete(drawing) ==
  /\ cbSave.drawing = <<>>
  /\ cbSave.made < CbMaxSaves
  /\ cbNodes' = {}
  /\ cbSave' = [cbSave EXCEPT !.drawing = drawing]
  /\ UNCHANGED <<cbActive, CbRun, CbHistory>>

\* The node at place i of a drawing whose nodes the operator's client knows by the
\* ids of save s; its edge names the client's id of the next node.
CbRow(drawing, i, id, s) ==
  [id |-> id, kind |-> drawing[i],
   next |-> IF i < Len(drawing) THEN <<s, i + 1>> ELSE CbNoNode]

\* ... then created, all or (an unknown kind of node) none, with ids of their own:
\* the id a client sent is not passed on.
CbCreate ==
  LET d == cbSave.drawing
      s == cbSave.made
  IN
  /\ d # <<>>
  /\ \/ cbNodes' = {CbRow(d, i, <<s + 1, i>>, s) : i \in 1..Len(d)}
     \/ UNCHANGED cbNodes
  /\ cbSave' = [made |-> s + 1, drawing |-> <<>>]
  /\ UNCHANGED <<cbActive, CbRun, CbHistory>>

\* update, remove, linkChannels: the flow answers for the channel, or not.
CbSwitch ==
  /\ cbActive' = ~cbActive
  /\ UNCHANGED <<cbNodes, cbSave, CbRun, CbHistory>>

-----------------------------------------------------------------------------
(* The conversation *)

\* InboundMessageProcessor: a message of a PENDING or BOT conversation becomes a
\* job of the bot.
CbReceive ==
  /\ cbSent < CbMaxMessages
  /\ cbStatus \in {"PENDING", "BOT"}
  /\ cbActive
  /\ cbStatus' = "BOT"
  /\ cbSent' = cbSent + 1
  /\ cbJobs' = cbJobs \union {[msg |-> cbSent + 1, tries |-> 0]}
  /\ cbEvents' = cbEvents \union
       (IF cbJobs # {} \/ \E w \in CbWorkers : cbWork[w].pc # "idle"
        THEN {"burst"} ELSE {})
  /\ UNCHANGED <<cbNodes, cbSave, cbActive, cbSession, cbWork, cbSpoke, cbMisread,
                 cbOwed>>

\* An operator moves the conversation, along the transitions of the status machine.
CbHuman ==
  /\ \/ cbStatus = "PENDING" /\ cbStatus' \in {"OPEN", "CLOSED"}
     \/ cbStatus = "BOT" /\ cbStatus' = "PENDING"
     \/ cbStatus = "OPEN" /\ cbStatus' = "CLOSED"
     \/ cbStatus = "CLOSED" /\ cbStatus' = "PENDING"
  /\ UNCHANGED <<cbNodes, cbSave, cbActive, cbSession, cbJobs, cbWork, CbHistory>>

\* 24 hours without a word.
CbExpire ==
  /\ cbSession.live
  /\ cbSession' = CbNoSession
  /\ UNCHANGED <<cbNodes, cbSave, cbActive, cbStatus, cbJobs, cbWork, CbHistory>>

-----------------------------------------------------------------------------
(* ChatbotProcessor and ChatbotEngineService *)

\* The START node, else the node that was created first.
CbFirst(rows) ==
  LET starts == {r \in rows : r.kind = "START"}
      pool == IF starts # {} THEN starts ELSE rows
  IN  CHOOSE r \in pool : \A q \in pool : r.id[2] <= q.id[2]

\* Where a new session stands: past the START node when that has an edge.
CbOpening(rows) ==
  LET first == CbFirst(rows) IN
  IF first.kind = "START" /\ first.next # CbNoNode THEN first.next ELSE first.id

\* The message is an answer to a session that waits for one.
CbListens(session) == session.waiting

\* A job begins: its session, else a new one on the active flow, else nothing.
CbTake(w, job) ==
  LET rec == [CbIdle EXCEPT !.pc = "run", !.msg = job.msg, !.tries = job.tries + 1,
                            !.rows = cbNodes]
      new == [CbNoSession EXCEPT !.node = CbOpening(cbNodes), !.live = TRUE]
  IN
  /\ cbWork[w].pc = "idle"
  /\ job \in cbJobs
  /\ cbJobs' = cbJobs \ {job}
  /\ IF cbSession.live
     THEN /\ cbWork' = [cbWork EXCEPT ![w] =
               [rec EXCEPT !.node = cbSession.node, !.input = CbListens(cbSession),
                           !.asked = cbSession.asked]]
          /\ UNCHANGED cbSession
     ELSE IF cbActive /\ cbNodes # {}
     THEN /\ cbSession' = new
          /\ cbWork' = [cbWork EXCEPT ![w] =
               [rec EXCEPT !.node = new.node, !.input = CbListens(new)]]
     ELSE UNCHANGED <<cbSession, cbWork>>
  /\ UNCHANGED <<cbNodes, cbSave, cbActive, cbStatus, CbHistory>>

\* A MENU asks when it has no answer, and again when the answer is invalid.
CbAsks(kind, input, valid) == kind = "MENU" /\ ~(input /\ valid)

\* Mutant: a transfer ends the flow like any other end.
CbTransfersNothing(kind) == FALSE

CbTransfers(kind) == kind = "TRANSFER"

\* What a visited node says before it stops or goes on.
CbSays(row, asks) ==
  IF asks \/ row.kind \in {"MESSAGE", "TRANSFER"} THEN <<row.id[2]>> ELSE <<>>

\* One turn of the loop of processMessage.
CbVisit(w) ==
  LET work == cbWork[w]
      here == {r \in work.rows : r.id = work.node}
      Stop(says) == [work EXCEPT !.pc = "say", !.said = @ \o says]
  IN
  /\ work.pc = "run"
  /\ \/ \* The node is not there (or START has no executor): the session ends.
        /\ \A r \in here : r.kind \in {"START", "END_FLOW"}
        /\ cbSession' = CbNoSession
        /\ cbWork' = [cbWork EXCEPT ![w] = Stop(<<>>)]
        /\ UNCHANGED <<cbMisread, cbOwed>>
     \/ \E r \in here, valid \in BOOLEAN :
          LET asks == CbAsks(r.kind, work.input, valid) IN
          /\ r.kind # "START"
          /\ cbMisread' = (cbMisread \/ (/\ r.kind = "MENU"
                                          /\ work.input
                                          /\ \/ work.asked = 0
                                             \/ work.msg <= work.asked))
          /\ cbOwed' = (cbOwed \/ r.kind = "TRANSFER")
          /\ IF asks
             THEN /\ cbSession' = IF ~cbSession.live THEN cbSession
                       ELSE [cbSession EXCEPT !.node = r.id, !.waiting = TRUE,
                                              !.asked = cbSent]
                  /\ cbWork' = [cbWork EXCEPT ![w] = Stop(CbSays(r, TRUE))]
             ELSE IF CbTransfers(r.kind) \/ r.next = CbNoNode
             THEN /\ cbSession' = CbNoSession
                  /\ cbWork' = [cbWork EXCEPT ![w] =
                       [Stop(CbSays(r, FALSE)) EXCEPT !.transfer = CbTransfers(r.kind)]]
             ELSE \* The session must still be there to move on (CbFail otherwise).
                  /\ cbSession.live
                  /\ cbSession' = [cbSession EXCEPT !.node = r.next, !.waiting = FALSE]
                  /\ cbWork' = [cbWork EXCEPT ![w] =
                       [work EXCEPT !.node = r.next, !.input = FALSE,
                                    !.said = @ \o CbSays(r, FALSE)]]
  /\ UNCHANGED <<cbNodes, cbSave, cbActive, cbStatus, cbJobs, cbSent, cbSpoke, cbEvents>>

\* The messages are stored and queued one by one ...
CbSay(w) ==
  /\ cbWork[w].pc = "say"
  /\ cbWork[w].said # <<>>
  /\ cbSpoke' = cbSpoke \union {Head(cbWork[w].said)}
  /\ cbWork' = [cbWork EXCEPT ![w].said = Tail(@)]
  /\ UNCHANGED <<cbNodes, cbSave, cbActive, cbStatus, cbSession, cbJobs, cbSent,
                 cbMisread, cbOwed, cbEvents>>

\* ... then a transfer makes the conversation PENDING, whatever it is by now.
CbEnd(w) ==
  /\ cbWork[w].pc = "say"
  /\ cbWork[w].said = <<>>
  /\ cbStatus' = IF cbWork[w].transfer THEN "PENDING" ELSE cbStatus
  /\ cbOwed' = (cbOwed /\ ~cbWork[w].transfer)
  /\ cbWork' = [cbWork EXCEPT ![w] = CbIdle]
  /\ UNCHANGED <<cbNodes, cbSave, cbActive, cbSession, cbJobs, cbSent, cbSpoke,
                 cbMisread, cbEvents>>

\* A failed job waits for its next attempt, up to the last.
CbRetry(w) ==
  IF cbWork[w].tries < CbAttempts
  THEN {[msg |-> cbWork[w].msg, tries |-> cbWork[w].tries]} ELSE {}

\* An await throws (or the session has gone under the loop).
CbFail(w) ==
  /\ cbWork[w].pc # "idle"
  /\ "failure" \in cbEvents => cbWork[w].pc = "run" /\ ~cbSession.live
  /\ cbJobs' = cbJobs \union CbRetry(w)
  /\ cbEvents' = cbEvents \union {"failure"}
  /\ cbWork' = [cbWork EXCEPT ![w] = CbIdle]
  /\ UNCHANGED <<cbNodes, cbSave, cbActive, cbStatus, cbSession, cbSent, cbSpoke,
                 cbMisread, cbOwed>>

CbNext ==
  \/ \E d \in CbDrawings : CbDelete(d)
  \/ CbCreate \/ CbSwitch \/ CbReceive \/ CbHuman \/ CbExpire
  \/ \E w \in CbWorkers :
       \/ \E job \in cbJobs : CbTake(w, job)
       \/ CbVisit(w) \/ CbSay(w) \/ CbEnd(w) \/ CbFail(w)

CbSpec == CbInit /\ [][CbNext]_cbVars

-----------------------------------------------------------------------------
(* Properties *)

\* The edges of a saved flow name ids that no row has: whatever is drawn, saved
\* and answered, only a first node ever speaks, and none after a START.
CbOnlyFirstNodeSpeaks == cbSpoke \subseteq {1}

\* A menu takes a message as its answer that was written before it asked only
\* when messages come in a burst or an attempt failed.
CbAnswerFollowsQuestion == cbMisread => cbEvents # {}

\* A transfer the flow decided on reaches the conversation: its job is about to
\* write it, unless an attempt failed.
CbTransferIsPursued ==
  cbOwed => "failure" \in cbEvents \/ \E w \in CbWorkers : cbWork[w].transfer

\* The bot answers where it asked, and hands over when it says so.
CbSafe == CbOnlyFirstNodeSpeaks /\ CbAnswerFollowsQuestion /\ CbTransferIsPursued
=============================================================================
