------------------------------ MODULE MediaMessages ------------------------------
(***************************************************************************)
(* One message with a voice note, and what operators and agents do with    *)
(* it: its file is fetched again from the provider, it is transcribed, and *)
(* it is forwarded to other conversations and numbers.                     *)
(***************************************************************************)
EXTENDS Naturals, FiniteSets, Sequences, SequencesExt

CONSTANTS
  MdWorkers,    \* calls of resolve() and transcribe() under way
  MdConvs,      \* WhatsApp conversations of the organization
  MdNumbers,    \* those of them that a telephone number typed by an operator leads to
  MdMaxAsks,    \* bound: calls of the workers
  MdMaxRequests \* bound: forwards and conversations started

ASSUME MdAssumption ==
  /\ MdConvs # {} /\ MdMaxAsks \in Nat /\ MdMaxRequests \in Nat
  /\ MdNumbers \subseteq MdConvs

VARIABLES
  mdRow,    \* the message
  mdWork,   \* mdWork[w]: a call of resolve() or transcribe()
  mdAsks,   \* calls so far
  mdReq,    \* the request of an operator under way
  mdReqs,   \* requests so far
  mdCopies, \* rows written by the requests, oldest first
  mdHeard,  \* history: a transcript has been written
  mdExcuse  \* history: a forced call, two calls at once, or SENT recorded after a transcript

mdVars == <<mdRow, mdWork, mdAsks, mdReq, mdReqs, mdCopies, mdHeard, mdExcuse>>

\* "none": no mediaUrl; "enc": the encrypted file of WhatsApp's CDN; "file": one that plays
MdMedia == {"none", "enc", "file"}
\* "plain": text or a place; "nothing": a reaction, an empty text; "audio": a voice note
MdRow == [kind : {"plain", "nothing", "audio"}, media : MdMedia, id : BOOLEAN,
          ext : BOOLEAN, text : {"none", "empty", "heard"}]
MdIdle == [at |-> "idle"]

\* a target of a request: a conversation, or a number with the conversation it leads to
MdTargets == (MdConvs \X {"conversation"}) \union (MdNumbers \X {"number"})
MdLeadsTo(t) == t[1]

MdCopy == [req : 1..MdMaxRequests, conv : MdConvs, media : MdMedia,
           mark : BOOLEAN, forwarded : BOOLEAN, at : {"stuck", "queued", "sent"}]

MdTypeOK ==
  /\ mdRow \in MdRow
  /\ \A w \in MdWorkers : mdWork[w].at \in {"idle", "resolve", "hear"}
  /\ mdAsks \in 0..MdMaxAsks /\ mdReqs \in 0..MdMaxRequests
  /\ mdReq.at \in {"idle", "media", "targets", "send", "told", "refused"}
  /\ mdReq.at # "idle" =>
       /\ mdReq.left \subseteq MdTargets /\ mdReq.found \subseteq MdConvs
       /\ mdReq.failed \subseteq MdTargets /\ mdReq.unsent \subseteq MdConvs
       /\ mdReq.sent \subseteq MdConvs
  /\ \A k \in DOMAIN mdCopies : mdCopies[k] \in MdCopy
  /\ mdHeard \in BOOLEAN /\ mdExcuse \in BOOLEAN

\* a row is received, or written by send() with a file of ours and sent later
MdInit ==
  /\ mdRow \in {r \in MdRow : /\ r.text = "none" /\ (r.ext \/ r.media = "file")
                              /\ (r.kind = "audio" \/ (r.media = "none" /\ ~r.id /\ r.ext))}
  /\ mdWork = [w \in MdWorkers |-> MdIdle] /\ mdAsks = 0
  /\ mdReq = MdIdle /\ mdReqs = 0 /\ mdCopies = <<>>
  /\ mdHeard = FALSE /\ mdExcuse = FALSE

-----------------------------------------------------------------------------
(* The file and the transcript *)

\* Mutant: a file of WhatsApp's CDN is taken for one that plays
MdPlaysIfAny(media) == media # "none"
\* a file a browser, Whisper or another provider can use
MdPlays(media) == media = "file"

MdTranscribing(call) == call.at = "hear" \/ (call.at = "resolve" /\ call.next = "hear")
MdOther(w) == \E x \in MdWorkers \ {w} : MdTranscribing(mdWork[x])

\* resolve(): a file that plays is returned, else the provider is asked by the external id
MdResolve(w) ==
  /\ mdWork[w] = MdIdle /\ mdAsks < MdMaxAsks /\ mdRow.kind = "audio"
  /\ ~MdPlays(mdRow.media) /\ mdRow.ext
  /\ mdWork' = [mdWork EXCEPT ![w] = [at |-> "resolve", next |-> "end"]]
  /\ mdAsks' = mdAsks + 1
  /\ UNCHANGED <<mdRow, mdReq, mdReqs, mdCopies, mdHeard, mdExcuse>>

\* transcribe(): a transcript that says something is not asked for again unless forced;
\* without a file that plays, a mediaId is downloaded and anything else resolved first
MdTranscribe(w, forced) ==
  /\ mdWork[w] = MdIdle /\ mdAsks < MdMaxAsks /\ mdRow.kind = "audio"
  /\ forced \/ mdRow.text # "heard"
  /\ mdWork' = [mdWork EXCEPT ![w] =
       IF MdPlays(mdRow.media) \/ mdRow.id THEN [at |-> "hear"]
       ELSE [at |-> "resolve", next |-> "hear"]]
  /\ mdAsks' = mdAsks + 1
  /\ mdExcuse' = (mdExcuse \/ forced \/ MdOther(w))
  /\ UNCHANGED <<mdRow, mdReq, mdReqs, mdCopies, mdHeard>>

\* the provider's answer: the file is kept with us and the row points at it, or the call fails
MdProvided(w, ok) ==
  /\ mdWork[w].at = "resolve"
  /\ mdRow' = IF ok THEN [mdRow EXCEPT !.media = "file"] ELSE mdRow
  /\ mdWork' = [mdWork EXCEPT ![w] = IF ok /\ @.next = "hear" THEN [at |-> "hear"] ELSE MdIdle]
  /\ UNCHANGED <<mdAsks, mdReq, mdReqs, mdCopies, mdHeard, mdExcuse>>

\* Whisper's answer, up to two minutes later: words, no words, or an error
MdHear(w, words) ==
  /\ mdWork[w].at = "hear"
  /\ mdRow' = IF words = "error" THEN mdRow ELSE [mdRow EXCEPT !.text = words]
  /\ mdHeard' = (mdHeard \/ words = "heard")
  /\ mdWork' = [mdWork EXCEPT ![w] = MdIdle]
  /\ UNCHANGED <<mdAsks, mdReq, mdReqs, mdCopies, mdExcuse>>

\* a voice note of ours is sent: the whole metadata is replaced, its transcript too
MdSynced ==
  /\ ~mdRow.ext
  /\ mdRow' = [mdRow EXCEPT !.ext = TRUE, !.text = "none"]
  /\ mdExcuse' = TRUE
  /\ UNCHANGED <<mdWork, mdAsks, mdReq, mdReqs, mdCopies, mdHeard>>

-----------------------------------------------------------------------------
(* Forwarding, and starting a conversation *)

MdBegin(forwarded, targets, at, media) ==
  /\ mdReqs < MdMaxRequests
  /\ mdReqs' = mdReqs + 1
  /\ mdReq' = [at |-> at, forwarded |-> forwarded, media |-> media, asked |-> targets,
               left |-> targets, found |-> {}, failed |-> {}, unsent |-> {}, sent |-> {}]

\* forward(): what cannot be forwarded refuses the whole request; a voice note waits for a
\* file that plays
MdForward(targets) ==
  /\ mdReq.at = "idle" /\ targets # {}
  /\ CASE mdRow.kind = "nothing" -> MdBegin(TRUE, targets, "refused", "none")
       [] mdRow.kind = "plain" -> MdBegin(TRUE, targets, "targets", "none")
       [] OTHER ->
            MdBegin(TRUE, targets, IF MdPlays(mdRow.media) THEN "targets" ELSE "media", mdRow.media)
  /\ UNCHANGED <<mdRow, mdWork, mdAsks, mdCopies, mdHeard, mdExcuse>>

\* startConversation(): a first message to a number
MdStart(t) ==
  /\ mdReq.at = "idle"
  /\ MdBegin(FALSE, {t}, "targets", "none")
  /\ UNCHANGED <<mdRow, mdWork, mdAsks, mdCopies, mdHeard, mdExcuse>>

\* the row without a url is read again and resolved, the url kept; an encrypted one is
\* fetched from the provider for this request only
MdFetch(ok) ==
  /\ mdReq.at = "media"
  /\ LET current == IF mdReq.media = "none" THEN mdRow.media ELSE mdReq.media IN
     IF MdPlays(current) THEN
          mdReq' = [mdReq EXCEPT !.at = "targets", !.media = current] /\ UNCHANGED mdRow
     ELSE IF ok /\ mdRow.ext THEN
          /\ mdReq' = [mdReq EXCEPT !.at = "targets", !.media = "file"]
          /\ mdRow' = IF mdReq.media = "none" THEN [mdRow EXCEPT !.media = "file"] ELSE mdRow
     ELSE mdReq' = [mdReq EXCEPT !.at = "refused"] /\ UNCHANGED mdRow
  /\ UNCHANGED <<mdWork, mdAsks, mdReqs, mdCopies, mdHeard, mdExcuse>>

\* a target that is gone, of a channel the operator does not see or not of WhatsApp is set
\* aside; the conversation of a number is found or opened
MdCheck(t, ok) ==
  /\ mdReq.at = "targets" /\ t \in mdReq.left
  /\ mdReq' = [mdReq EXCEPT !.left = @ \ {t},
                            !.found = IF ok THEN @ \union {MdLeadsTo(t)} ELSE @,
                            !.failed = IF ok THEN @ ELSE @ \union {t}]
  /\ UNCHANGED <<mdRow, mdWork, mdAsks, mdReqs, mdCopies, mdHeard, mdExcuse>>

MdChecked ==
  /\ mdReq.at = "targets" /\ mdReq.left = {}
  /\ mdReq' = [mdReq EXCEPT !.at = "send"]
  /\ UNCHANGED <<mdRow, mdWork, mdAsks, mdReqs, mdCopies, mdHeard, mdExcuse>>

\* send() into each conversation once: refused before its row is written, or between the row
\* and the queue ("stuck"), it is reported and the others go on
MdSend(c, outcome) ==
  /\ mdReq.at = "send" /\ c \in mdReq.found \ (mdReq.sent \union mdReq.unsent)
  /\ mdReq' = IF outcome = "queued" THEN [mdReq EXCEPT !.sent = @ \union {c}]
              ELSE [mdReq EXCEPT !.unsent = @ \union {c}]
  /\ mdCopies' = IF outcome = "refused" THEN mdCopies
                 ELSE Append(mdCopies, [req |-> mdReqs, conv |-> c, media |-> mdReq.media,
                        mark |-> mdReq.forwarded, forwarded |-> mdReq.forwarded, at |-> outcome])
  /\ UNCHANGED <<mdRow, mdWork, mdAsks, mdReqs, mdHeard, mdExcuse>>

\* the report, or an error when nothing was sent
MdTell ==
  /\ mdReq.at = "send" /\ mdReq.found = mdReq.sent \union mdReq.unsent
  /\ mdReq' = [mdReq EXCEPT !.at = IF mdReq.sent = {} THEN "refused" ELSE "told"]
  /\ UNCHANGED <<mdRow, mdWork, mdAsks, mdReqs, mdCopies, mdHeard, mdExcuse>>

MdNewRequest ==
  /\ mdReq.at \in {"told", "refused"}
  /\ mdReq' = MdIdle
  /\ UNCHANGED <<mdRow, mdWork, mdAsks, mdReqs, mdCopies, mdHeard, mdExcuse>>

\* the outbound job sends the copy and records SENT, replacing the metadata send() wrote
MdDeliver(k) ==
  /\ k \in DOMAIN mdCopies /\ mdCopies[k].at = "queued"
  /\ mdCopies' = [mdCopies EXCEPT ![k].at = "sent", ![k].mark = FALSE]
  /\ UNCHANGED <<mdRow, mdWork, mdAsks, mdReq, mdReqs, mdHeard, mdExcuse>>

MdNext ==
  \/ \E w \in MdWorkers :
       \/ MdResolve(w)
       \/ \E forced \in BOOLEAN : MdTranscribe(w, forced)
       \/ \E ok \in BOOLEAN : MdProvided(w, ok)
       \/ \E words \in {"heard", "empty", "error"} : MdHear(w, words)
  \/ MdSynced
  \/ \E targets \in SUBSET MdTargets : MdForward(targets)
  \/ \E c \in MdNumbers : MdStart(<<c, "number">>)
  \/ \E ok \in BOOLEAN : MdFetch(ok)
  \/ \E t \in MdTargets, ok \in BOOLEAN : MdCheck(t, ok)
  \/ MdChecked
  \/ \E c \in MdConvs, outcome \in {"queued", "stuck", "refused"} : MdSend(c, outcome)
  \/ MdTell \/ MdNewRequest
  \/ \E k \in 1..(MdMaxRequests * Cardinality(MdConvs)) : MdDeliver(k)

MdSpec == MdInit /\ [][MdNext]_mdVars

-----------------------------------------------------------------------------
(* Properties *)

MdOf(c) == {k \in DOMAIN mdCopies : mdCopies[k].req = mdReqs /\ mdCopies[k].conv = c}

\* A voice note is never forwarded with a url its destination cannot fetch.
MdCopiesPlay ==
  \A k \in DOMAIN mdCopies : mdCopies[k].forwarded /\ mdRow.kind = "audio" =>
    mdCopies[k].media = "file"

\* A request puts one copy at most in each conversation, however many of its targets lead
\* there, and when it is over every target was reported or its conversation has the copy;
\* a conversation is reported with a copy only when the queue refused it.
MdReportIsWhole ==
  mdReq.at # "idle" =>
    /\ \A c \in MdConvs : Cardinality(MdOf(c)) <= 1
    /\ mdReq.at = "told" => \A t \in mdReq.asked \ mdReq.failed :
         MdLeadsTo(t) \in mdReq.unsent \/ MdOf(MdLeadsTo(t)) # {}
    /\ \A c \in mdReq.unsent : \A k \in MdOf(c) : mdCopies[k].at = "stuck"

\* A request answered with an error has put nothing on its way.
MdRefusedSentNothing ==
  mdReq.at = "refused" => \A c \in MdConvs : \A k \in MdOf(c) : mdCopies[k].at = "stuck"

\* A transcript that said something is only lost to a forced call, to one that ran at the
\* same time, or to the recording of SENT.
MdTranscriptKept == mdHeard /\ mdRow.text # "heard" => mdExcuse

MdSafe == MdCopiesPlay /\ MdReportIsWhole /\ MdRefusedSentNothing /\ MdTranscriptKept

\* A forwarded message is marked as such wherever it went (messages.service.ts:202-204,
\* "metadata.forwardedFrom marca a bolha como "Encaminhada""), before and after it is sent.
MdCopiesAreMarked == \A k \in DOMAIN mdCopies : mdCopies[k].forwarded => mdCopies[k].mark
=============================================================================
