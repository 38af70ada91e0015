--------------------------- MODULE MessageDelivery ---------------------------
(***************************************************************************)
(* One message an operator sends: the row MessagesService creates, the     *)
(* outbound job that hands it to the provider, the echo of it that the     *)
(* provider may send back as a webhook, the status webhooks, and a revoke. *)
(* The row that MessagesService created and the row of an echo may both    *)
(* stand for the same message; the outbound worker merges them.            *)
(***************************************************************************)
EXTENDS Naturals

CONSTANTS
  MaxSends,   \* bound: copies the provider may accept; Attempts + MaxStalls
  Attempts,   \* attempts of the outbound job
  MaxStalls,  \* BullMQ's maxStalledCount
  MaxFaults,  \* bound: failing awaits
  Reports     \* the statuses the provider's webhooks report

ASSUME DeliveryAssumption ==
  /\ Attempts \in Nat \ {0}
  /\ MaxStalls \in Nat
  /\ MaxFaults \in Nat
  /\ MaxSends \in Nat
  /\ MaxSends >= Attempts + MaxStalls
  /\ Reports \subseteq {"SENT", "DELIVERED", "READ", "FAILED"}

Copies == 1..MaxSends

\* Row 0 is the row MessagesService.send creates, row k the row the echo of
\* copy k creates.
RowIds == 0..MaxSends
NoRow == "none"
Status == {"QUEUED", "SENT", "DELIVERED", "READ", "FAILED"}

VARIABLES
  status,   \* the status of each row that stands for this message, or NoRow
  ext,      \* the copy whose external id a row has, or 0
  sender,   \* the rows that name the operator
  quote,    \* the rows that have metadata.replyTo
  revoked,  \* how a row was revoked: not, only here, or at the provider too; and
            \* what the provider said while that is not recorded yet
  pc,       \* the outbound job: where it is
  tries,    \* its failed attempts
  stalls,   \* how often it stalled
  cur,      \* the copy it works on
  sends,    \* number of copies the provider accepted
  visible,  \* the copies the customer sees
  claims,   \* Redis idempotency keys, by external id
  echo,     \* the echo webhook of each copy
  report,   \* the status webhooks of each copy, as process-status jobs
  faults    \* history: failing awaits and crashes so far

rows == <<status, ext, sender, quote, revoked>>
job == <<pc, tries, stalls, cur>>
vars == <<rows, job, sends, visible, claims, echo, report, faults>>

Running == {"sent", "patch", "delete", "mark", "catch"}
PCs == Running \union {"created", "waiting", "done", "failed"}

\* A status job that looked its row up holds the row's id and status.
ReportState ==
  [pc : {"none", "queued", "found", "done"}, row : RowIds, seen : Status]

RowTypes ==
  /\ status \in [RowIds -> Status \union {NoRow}]
  /\ ext \in [RowIds -> 0..MaxSends]
  /\ sender \subseteq RowIds
  /\ quote \subseteq RowIds
  /\ revoked \in [RowIds -> {"no", "deleted", "refused", "local", "remote"}]

JobTypes ==
  /\ pc \in PCs
  /\ tries \in 0..Attempts
  /\ stalls \in 0..(MaxStalls + 1)
  /\ cur \in 0..MaxSends
  /\ faults \in Nat

WireTypes ==
  /\ sends \in 0..MaxSends
  /\ visible \subseteq 1..sends
  /\ claims \subseteq Copies
  /\ echo \in [Copies -> {"none", "due", "claimed", "done"}]

ReportTypes == report \in [Copies \X Reports -> ReportState]

TypeOK == RowTypes /\ JobTypes /\ WireTypes /\ ReportTypes

Exists(r) == status[r] # NoRow
RowsOf(k) == {r \in RowIds : Exists(r) /\ ext[r] = k}

At(p, r, seen) == [pc |-> p, row |-> r, seen |-> seen]
Reported == At("done", 0, "QUEUED")

\* MessagesService.send has created the row of a reply, and not queued it yet.
Init ==
  /\ status = [r \in RowIds |-> IF r = 0 THEN "QUEUED" ELSE NoRow]
  /\ ext = [r \in RowIds |-> 0]
  /\ sender = {0}
  /\ quote = {0}
  /\ revoked = [r \in RowIds |-> "no"]
  /\ pc = "created"
  /\ tries = 0
  /\ stalls = 0
  /\ cur = 0
  /\ sends = 0
  /\ visible = {}
  /\ claims = {}
  /\ echo = [k \in Copies |-> "none"]
  /\ report = [x \in Copies \X Reports |-> At("none", 0, "QUEUED")]
  /\ faults = 0

Goto(next) == pc' = next /\ UNCHANGED <<tries, stalls, cur>>

CanFail == faults < MaxFaults
Fail == CanFail /\ faults' = faults + 1

-----------------------------------------------------------------------------
(* MessagesService.send *)

\* The conversation was updated; the job goes to the outbound queue.
Enqueue ==
  /\ pc = "created"
  /\ Goto("waiting")
  /\ UNCHANGED <<rows, sends, visible, claims, echo, report, faults>>

\* The request dies between the row and the queue: nobody will send the row.
EnqueueFails ==
  /\ pc = "created"
  /\ Fail
  /\ Goto("failed")
  /\ UNCHANGED <<rows, sends, visible, claims, echo, report>>

-----------------------------------------------------------------------------
(* The outbound job *)

\* A failed attempt: BullMQ retries the job or gives it up.
Retry ==
  /\ pc' = IF tries + 1 < Attempts THEN "waiting" ELSE "failed"
  /\ tries' = tries + 1
  /\ cur' = 0
  /\ UNCHANGED stalls

\* The channel cannot be read: thrown before the try, the row is left alone.
EarlyThrow ==
  /\ pc = "waiting"
  /\ Fail
  /\ Retry
  /\ UNCHANGED <<rows, sends, visible, claims, echo, report>>

Accept ==
  /\ sends < MaxSends
  /\ sends' = sends + 1
  /\ visible' = visible \union {sends + 1}
  /\ echo' = [echo EXCEPT ![sends + 1] = "due"]

\* The adapter's call succeeds: the provider has the message and its id.
Send ==
  /\ pc = "waiting"
  /\ Accept
  /\ pc' = "sent"
  /\ cur' = sends + 1
  /\ UNCHANGED <<tries, stalls>>
  /\ UNCHANGED <<rows, claims, report, faults>>

\* The adapter's call throws, and the provider may have accepted it all the same.
SendFails ==
  /\ pc = "waiting"
  /\ Fail
  /\ Goto("catch")
  /\ \/ Accept
     \/ UNCHANGED <<sends, visible, echo>>
  /\ UNCHANGED <<rows, claims, report>>

\* Mutant: the external id is recorded, the status is left to the webhooks.
RecordIdOnly(k) ==
  /\ ext' = [ext EXCEPT ![0] = k]
  /\ quote' = quote \ {0}
  /\ UNCHANGED <<status, sender, revoked>>

\* The update that records SENT and the external id; it replaces the metadata.
RecordOn(k) ==
  /\ status' = [status EXCEPT ![0] = "SENT"]
  /\ ext' = [ext EXCEPT ![0] = k]
  /\ quote' = quote \ {0}
  /\ UNCHANGED <<sender, revoked>>

\* Mutant: a unique violation is handled like every other error.
RecordWithoutMerge ==
  /\ pc = "sent"
  /\ IF Exists(0) /\ RowsOf(cur) = {}
     THEN /\ RecordOn(cur)
          /\ Goto("mark")
     ELSE /\ Goto("catch")
          /\ UNCHANGED rows
  /\ UNCHANGED <<sends, visible, claims, echo, report, faults>>

\* Record the external id, unless the echo's row has it (P2002): then merge.  A
\* row that an earlier attempt merged away cannot be updated.
Record ==
  /\ pc = "sent"
  /\ IF ~Exists(0)
     THEN /\ Goto("catch")
          /\ UNCHANGED rows
     ELSE IF RowsOf(cur) = {}
     THEN /\ RecordOn(cur)
          /\ Goto("mark")
     ELSE /\ Goto("patch")
          /\ UNCHANGED rows
  /\ UNCHANGED <<sends, visible, claims, echo, report, faults>>

\* Mutant: the sender is not copied to the echo's row.
MergePatchNothing ==
  /\ pc = "patch"
  /\ Goto("delete")
  /\ UNCHANGED <<rows, sends, visible, claims, echo, report, faults>>

\* The echo's row gets the sender of ours.
MergePatch ==
  /\ pc = "patch"
  /\ sender' = sender \union {cur}
  /\ Goto("delete")
  /\ UNCHANGED <<status, ext, quote, revoked, sends, visible, claims, echo, report, faults>>

\* Mutant: the merge forgets to delete our row.
MergeKeepsBoth ==
  /\ pc = "delete"
  /\ Goto("mark")
  /\ UNCHANGED <<rows, sends, visible, claims, echo, report, faults>>

\* Our row is deleted; an error is swallowed.
MergeDelete ==
  /\ pc = "delete"
  /\ \/ status' = [status EXCEPT ![0] = NoRow] /\ UNCHANGED faults
     \/ Fail /\ UNCHANGED status
  /\ Goto("mark")
  /\ UNCHANGED <<ext, sender, quote, revoked, sends, visible, claims, echo, report>>

\* The external id is marked processed: an echo still to come is skipped.
MarkSent ==
  /\ pc = "mark"
  /\ claims' = claims \union {cur}
  /\ Goto("done")
  /\ UNCHANGED <<rows, sends, visible, echo, report, faults>>

\* Anything after the adapter's call throws.
StepFails ==
  /\ pc \in Running \ {"catch"}
  /\ Fail
  /\ Goto("catch")
  /\ UNCHANGED <<rows, sends, visible, claims, echo, report>>

\* Mutant: an attempt that failed is not counted.
CatchForever ==
  /\ pc = "catch"
  /\ status' = IF Exists(0) THEN [status EXCEPT ![0] = "FAILED"] ELSE status
  /\ Goto("waiting")
  /\ UNCHANGED <<ext, sender, quote, revoked, sends, visible, claims, echo,
                 report, faults>>

\* The catch block: the row becomes FAILED, if it is still there, and the error
\* is thrown again for the queue to retry.
Catch ==
  /\ pc = "catch"
  /\ status' = IF Exists(0) THEN [status EXCEPT ![0] = "FAILED"] ELSE status
  /\ Retry
  /\ UNCHANGED <<ext, sender, quote, revoked, sends, visible, claims, echo,
                 report, faults>>

\* The worker dies: BullMQ runs the job again, or gives it up without a word.
Stall ==
  /\ pc \in Running
  /\ faults' = faults + 1
  /\ pc' = IF stalls < MaxStalls THEN "waiting" ELSE "failed"
  /\ stalls' = stalls + 1
  /\ cur' = 0
  /\ UNCHANGED tries
  /\ UNCHANGED <<rows, sends, visible, claims, echo, report>>

-----------------------------------------------------------------------------
(* The echo, in the inbound pipeline *)

EchoClaim(k) ==
  /\ echo[k] = "due"
  /\ claims' = claims \union {k}
  /\ echo' = [echo EXCEPT ![k] = IF k \in claims THEN "done" ELSE "claimed"]
  /\ UNCHANGED <<rows, job, sends, visible, report, faults>>

\* upsertMessage: a row with this external id is found, or one is created.
EchoStore(k) ==
  /\ echo[k] = "claimed"
  /\ IF RowsOf(k) # {} THEN UNCHANGED rows
     ELSE /\ status' = [status EXCEPT ![k] = "SENT"]
          /\ ext' = [ext EXCEPT ![k] = k]
          /\ quote' = quote \union {k}
          /\ UNCHANGED <<sender, revoked>>
  /\ echo' = [echo EXCEPT ![k] = "done"]
  /\ UNCHANGED <<job, sends, visible, claims, report, faults>>

\* The inbound job fails: its retries meet the claim and skip.
EchoFails(k) ==
  /\ echo[k] = "claimed"
  /\ Fail
  /\ echo' = [echo EXCEPT ![k] = "done"]
  /\ UNCHANGED <<rows, job, sends, visible, claims, report>>

-----------------------------------------------------------------------------
(* Status webhooks *)

\* The provider reports that a copy was sent, delivered or read.
Report(k, s) ==
  /\ k <= sends
  /\ report[<<k, s>>].pc = "none"
  /\ report' = [report EXCEPT ![<<k, s>>] = At("queued", 0, "QUEUED")]
  /\ UNCHANGED <<rows, job, sends, visible, claims, echo, faults>>

\* processStatus looks the row up; without one the report is dropped.
FindReported(k, s) ==
  /\ report[<<k, s>>].pc = "queued"
  /\ IF RowsOf(k) = {}
     THEN report' = [report EXCEPT ![<<k, s>>] = Reported]
     ELSE \E r \in RowsOf(k) :
            report' = [report EXCEPT ![<<k, s>>] =
                         At("found", r, status[r])]
  /\ UNCHANGED <<rows, job, sends, visible, claims, echo, faults>>

Rank(s) ==
  IF s = "QUEUED" THEN 0 ELSE IF s = "SENT" THEN 1 ELSE IF s = "DELIVERED" THEN 2
  ELSE IF s = "READ" THEN 3 ELSE 4

MaxStatus(current, next) ==
  IF current = "READ" /\ next # "READ" THEN current
  ELSE IF Rank(next) >= Rank(current) THEN next ELSE current

\* The status computed from what was read is written.  If the row was merged away
\* meanwhile the update throws, and the job is run again.
WriteReported(k, s) ==
  /\ report[<<k, s>>].pc = "found"
  /\ LET r == report[<<k, s>>].row
         m == MaxStatus(report[<<k, s>>].seen, s)
     IN IF Exists(r)
        THEN /\ status' = [status EXCEPT ![r] = m]
             /\ report' = [report EXCEPT ![<<k, s>>] = Reported]
        ELSE /\ report' = [report EXCEPT ![<<k, s>>] = At("queued", 0, "QUEUED")]
             /\ UNCHANGED status
  /\ UNCHANGED <<ext, sender, quote, revoked, job, sends, visible, claims,
                 echo, faults>>

-----------------------------------------------------------------------------
(* revokeForEveryone *)

\* A row with an external id is to be revoked: at the provider, if it can.
RevokeAtProvider(r) ==
  /\ Exists(r)
  /\ ext[r] # 0
  /\ revoked[r] = "no"
  /\ \/ /\ visible' = visible \ {ext[r]}
        /\ revoked' = [revoked EXCEPT ![r] = "deleted"]
     \/ /\ revoked' = [revoked EXCEPT ![r] = "refused"]
        /\ UNCHANGED visible
  /\ UNCHANGED <<status, ext, sender, quote, job, sends, claims, echo, report,
                 faults>>

\* What the provider said is recorded, if the row is still there.
RevokeRecord(r) ==
  /\ revoked[r] \in {"deleted", "refused"}
  /\ revoked' = [revoked EXCEPT ![r] =
                   IF ~Exists(r) THEN "no"
                   ELSE IF revoked[r] = "deleted" THEN "remote" ELSE "local"]
  /\ UNCHANGED <<status, ext, sender, quote, job, sends, visible, claims, echo,
                 report, faults>>

-----------------------------------------------------------------------------

JobStep ==
  \/ Enqueue \/ Send \/ Record \/ MergePatch \/ MergeDelete \/ MarkSent \/ Catch

Next ==
  \/ JobStep
  \/ EnqueueFails \/ EarlyThrow \/ SendFails \/ StepFails \/ Stall
  \/ \E k \in Copies : EchoClaim(k) \/ EchoStore(k) \/ EchoFails(k)
  \/ \E k \in Copies, s \in Reports :
       Report(k, s) \/ FindReported(k, s) \/ WriteReported(k, s)
  \/ \E r \in RowIds : RevokeAtProvider(r) \/ RevokeRecord(r)

\* Workers take and run the job.  The provider owes nothing.
Spec == Init /\ [][Next]_vars /\ WF_vars(JobStep)

-----------------------------------------------------------------------------
(* Properties *)

\* "A subsequent echo webhook is recognised as a duplicate instead of creating
\* a phantom row": a job that is done without a failure on its way leaves one
\* row for the one copy, whichever of the worker and the echo came first.
NoPhantomRow ==
  pc = "done" /\ faults = 0 =>
    /\ sends = 1
    /\ \E r \in RowsOf(1) : \A q \in RowIds : Exists(q) => q = r

\* The customer gets a second copy only after a failure or a crash: losing the
\* race against the echo is not one.
ResendNeedsFault == sends > 1 => faults > 0

\* Whatever the merges and retries do, a row that names the operator is left.
OperatorIsKnown == \E r \in sender : Exists(r)

\* A job that ended leaves its row QUEUED only if something failed on the way.
QueuedForeverNeedsFault ==
  pc \in {"done", "failed"} /\ Exists(0) /\ status[0] = "QUEUED" =>
    faults > 0

\* The job is done with or given up.
JobEnds == <>(pc \in {"done", "failed"})

\* "Never regress status: QUEUED, SENT, DELIVERED, READ. FAILED wins unless
\* already READ."
NeverRegress ==
  [][\A r \in RowIds :
       NoRow \notin {status[r], status'[r]} =>
         status'[r] = MaxStatus(status[r], status'[r])]_vars

\* A reply that was sent still shows what it answers: the UI reads
\* metadata.replyTo.
QuoteIsKept ==
  \A r \in sender : Exists(r) => r \in quote

\* revokeSucceededRemote = true: the message is gone from the customer's app.
RevokedIsGone ==
  \A r \in RowIds :
    Exists(r) /\ revoked[r] = "remote" => ext[r] \notin visible
=============================================================================
