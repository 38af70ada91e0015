----------------------------- MODULE GmailPolling -----------------------------
(***************************************************************************)
(* One Gmail mailbox and its poller (concurrency 1): the watermarks in the *)
(* channel's config, the incremental scan of the history, the full scan    *)
(* when there is no history to start from, and the queueing of what is     *)
(* found. Messages are numbered as they arrive; a history id is the number of *)
(* the next one.                                                           *)
(***************************************************************************)
EXTENDS Naturals, FiniteSets, FiniteSetsExt

CONSTANTS
  GpMaxMail,    \* bound: messages that arrive
  GpBackfill,   \* GMAIL_INITIAL_BACKFILL_MAX
  GpMaxFaults,  \* bound: requests that fail
  GpMaxEdits    \* bound: edits of the channel's config

ASSUME GpAssumption ==
  {GpMaxMail, GpBackfill, GpMaxFaults, GpMaxEdits} \subseteq Nat

VARIABLES
  gpMail,     \* number of messages that arrived
  gpSkip,     \* messages with a label of GMAIL_SKIP_LABELS
  gpGone,     \* messages deleted for good
  gpRetained, \* history before this id has expired
  gpMark,     \* config.lastHistoryId; 0 when there is none
  gpDate,     \* config.lastInternalDate
  gpEdits,    \* version of the rest of the config
  gpPoll,     \* the scan in flight
  gpQueued,   \* messages handed to the inbound pipeline
  gpCut,      \* history: messages a full scan left out at the backfill limit
  gpFaults,   \* history: requests that failed
  gpMadeEdits \* history: edits made; the last one is this version

gpVars == <<gpMail, gpSkip, gpGone, gpRetained, gpMark, gpDate, gpEdits, gpPoll,
            gpQueued, gpCut, gpFaults, gpMadeEdits>>

GpIdle == [step |-> "idle", todo |-> {}, next |-> 0, date |-> 0, edits |-> 0,
           edited |-> FALSE]

GpTypeOK ==
  /\ gpMail \in 0..GpMaxMail /\ gpMark \in 0..(gpMail + 1) /\ gpDate \in 0..gpMail
  /\ gpSkip \union gpGone \union gpQueued \union gpCut \subseteq 1..gpMail
  /\ gpRetained \in 0..(gpMail + 1)
  /\ gpPoll.step \in {"idle", "list", "get"} /\ gpPoll.todo \subseteq 1..gpMail
  /\ gpFaults \in 0..GpMaxFaults /\ gpMadeEdits \in 0..GpMaxEdits /\ gpEdits \in 0..gpMadeEdits

GpInit ==
  /\ gpMail = 0 /\ gpRetained = 0 /\ gpMark = 0 /\ gpDate = 0
  /\ gpSkip = {} /\ gpGone = {} /\ gpQueued = {} /\ gpCut = {}
  /\ gpPoll = GpIdle
  /\ gpFaults = 0 /\ gpEdits = 0 /\ gpMadeEdits = 0

\* The scan is over; what is kept is that the last edit fell into one.
GpRest == [GpIdle EXCEPT !.edited = gpPoll.edited]

GpBox == <<gpMail, gpSkip, gpGone, gpRetained>>
GpConfig == <<gpMark, gpDate, gpEdits>>

\* The mailbox: a message arrives (as spam, a draft, one we sent, or an ordinary
\* one), is deleted, or the provider forgets history.
GpArrive ==
  /\ gpMail < GpMaxMail
  /\ gpMail' = gpMail + 1
  /\ gpSkip' \in {gpSkip, gpSkip \union {gpMail + 1}}
  /\ UNCHANGED <<gpGone, gpRetained, GpConfig, gpPoll, gpQueued, gpCut, gpFaults, gpMadeEdits>>

GpDelete(m) ==
  /\ m \notin gpGone
  /\ gpGone' = gpGone \union {m}
  /\ UNCHANGED <<gpMail, gpSkip, gpRetained, GpConfig, gpPoll, gpQueued, gpCut, gpFaults, gpMadeEdits>>

GpForget ==
  /\ gpRetained <= gpMail
  /\ gpRetained' = gpMail + 1
  /\ UNCHANGED <<gpMail, gpSkip, gpGone, GpConfig, gpPoll, gpQueued, gpCut, gpFaults, gpMadeEdits>>

\* update of the channel: the config gets a new version.
GpEdit ==
  /\ gpMadeEdits < GpMaxEdits
  /\ gpMadeEdits' = gpMadeEdits + 1
  /\ gpEdits' = gpMadeEdits + 1
  /\ gpPoll' = [gpPoll EXCEPT !.edited = gpPoll.step # "idle"]
  /\ UNCHANGED <<GpBox, gpMark, gpDate, gpQueued, gpCut, gpFaults>>

\* pollChannel begins with the channel it read. incrementalSync drains the history
\* since the watermark; fullSync reads the profile's history id first. The stubs
\* of the history carry their labels.
GpTick ==
  /\ gpPoll.step = "idle"
  /\ gpPoll' = [GpIdle EXCEPT !.edits = gpEdits, !.date = gpDate, !.next = gpMail + 1,
       !.edited = gpPoll.edited,
       !.step = IF gpMark = 0 \/ gpMark < gpRetained THEN "list" ELSE "get",
       !.todo = IF gpMark = 0 \/ gpMark < gpRetained THEN {}
                ELSE (gpMark..gpMail) \ gpSkip]
  /\ UNCHANGED <<GpBox, GpConfig, gpQueued, gpCut, gpFaults, gpMadeEdits>>

\* fullSync then lists what came since the last date, newest first, up to the
\* limit; a deleted message is not listed.
GpList ==
  LET since == {m \in 1..gpMail : m >= gpPoll.date} \ gpGone
      cut == {m \in since : Cardinality({n \in since : n > m}) >= GpBackfill} IN
  /\ gpPoll.step = "list"
  /\ gpPoll' = [gpPoll EXCEPT !.step = "get", !.todo = since \ cut]
  /\ gpCut' = gpCut \union cut
  /\ UNCHANGED <<GpBox, GpConfig, gpQueued, gpFaults, gpMadeEdits>>

\* A message is read in full: one that is gone (404) or has a label to skip is
\* passed over, any other is queued like a webhook's.
GpGet(m) ==
  /\ gpPoll.step = "get" /\ m \in gpPoll.todo
  /\ gpPoll' = [gpPoll EXCEPT !.todo = @ \ {m},
                  !.date = IF m \in gpGone \union gpSkip THEN @ ELSE Max({@, m})]
  /\ gpQueued' = gpQueued \union ({m} \ (gpGone \union gpSkip))
  /\ UNCHANGED <<GpBox, GpConfig, gpCut, gpFaults, gpMadeEdits>>

\* Any other failure ends the scan of this channel before the watermark moves.
GpFail ==
  /\ gpPoll.step # "idle"
  /\ gpFaults < GpMaxFaults
  /\ gpFaults' = gpFaults + 1
  /\ gpPoll' = GpRest
  /\ UNCHANGED <<GpBox, GpConfig, gpQueued, gpCut, gpMadeEdits>>

\* Mutant: the watermark moves as soon as the list is known.
GpCommitEarly ==
  /\ gpPoll.step = "get"
  /\ gpMark' = gpPoll.next /\ gpDate' = gpPoll.date /\ gpEdits' = gpPoll.edits
  /\ gpPoll' = IF gpPoll.todo = {} THEN GpRest ELSE gpPoll
  /\ UNCHANGED <<GpBox, gpQueued, gpCut, gpFaults, gpMadeEdits>>

\* Both watermarks are written, with the config as it was read at the start.
GpCommit ==
  /\ gpPoll.step = "get" /\ gpPoll.todo = {}
  /\ gpMark' = gpPoll.next /\ gpDate' = gpPoll.date /\ gpEdits' = gpPoll.edits
  /\ gpPoll' = GpRest
  /\ UNCHANGED <<GpBox, gpQueued, gpCut, gpFaults, gpMadeEdits>>

GpNext ==
  \/ GpArrive \/ GpForget \/ GpEdit \/ GpTick \/ GpList \/ GpFail \/ GpCommit
  \/ \E m \in 1..gpMail : GpDelete(m) \/ GpGet(m)

GpSpec == GpInit /\ [][GpNext]_gpVars

-----------------------------------------------------------------------------
(* Properties *)

\* The watermark never passes a message that was not queued: requests that fail,
\* expired history and mail that arrives during a scan lose nothing. What is left
\* out is mail to skip, mail deleted before it was read, and what a full scan cut
\* at its limit.
GpNothingLost == \A m \in 1..gpMail :
  m < gpMark => m \in gpQueued \union gpSkip \union gpGone \union gpCut

\* A scan ends without moving the watermark only when a request failed: a deleted
\* message (404) does not make the next tick scan the same ids for ever.
GpScanMoves ==
  gpPoll.step # "idle" /\ gpPoll'.step = "idle" =>
     gpFaults' = gpFaults + 1 \/ gpMark' = gpPoll.next

\* An edit of the channel's config is only lost when it was made during a scan,
\* whose watermark update writes the whole config back.
GpEditSurvives == gpEdits # gpMadeEdits => gpPoll.edited

\* No mail is skipped, and no edit of the channel undone by the poll.
GpSafe == GpNothingLost /\ GpEditSurvives
=============================================================================
