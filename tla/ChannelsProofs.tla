---------------------------- MODULE ChannelsProofs ----------------------------
(***************************************************************************)
(* Proofs about what comes in from the channels and goes out to them, for  *)
(* every value of the constants.                                           *)
(***************************************************************************)
EXTENDS GmailPolling, Chatbot, WebhookRouting, ThreadSync, ChannelSync, ChannelAdapters,
        MediaMessages,
        FiniteSetTheorems, SequenceTheorems, WellFoundedInduction, TLAPS


-----------------------------------------------------------------------------
(* Numbers *)

\* A set of naturals that is not empty has a least element.
LEMMA LeastNatural ==
  ASSUME NEW T, T \subseteq Nat, T # {}
  PROVE  \E x \in T : \A y \in T : x <= y
<1> DEFINE R == {rs \in Nat \X Nat : rs[1] < rs[2]}
<1>1. \A x, y \in Nat : <<x, y>> \in R <=> x < y
  OBVIOUS
<1>2. IsWellFoundedOn(R, Nat)
  BY NatLessThanWellFounded DEF OpToRel
<1> HIDE DEF R
<1>3. PICK x \in T : \A y \in T : ~(<<y, x>> \in R)
  BY <1>2, WFMin
<1>4. \A y \in T : ~(y < x)
  BY <1>1, <1>3
<1> QED BY <1>4

\* A bounded set of naturals that is not empty has a maximum.
LEMMA MaxBounded ==
  ASSUME NEW S, S \subseteq Nat, S # {}, NEW n \in Nat, \A x \in S : x <= n
  PROVE  Max(S) \in S /\ \A x \in S : x <= Max(S)
<1>1. PICK d \in {n - x : x \in S} : \A y \in {n - x : x \in S} : d <= y
  <2>1. {n - x : x \in S} \subseteq Nat /\ {n - x : x \in S} # {}
    <3>1. \A x \in S : n - x \in Nat
      OBVIOUS
    <3> QED BY <3>1
  <2> QED BY <2>1, LeastNatural
<1>2. PICK x \in S : \A y \in S : x >= y
  <2>1. PICK x \in S : d = n - x
    OBVIOUS
  <2>2. \A y \in S : n - x <= n - y
    BY <1>1, <2>1
  <2> QED BY <2>2
<1>3. Max(S) \in S /\ \A y \in S : Max(S) >= y
  BY <1>2 DEF Max
<1> QED BY <1>3

-----------------------------------------------------------------------------
(* Gmail polling: any mailbox, limit of the full scan, failing requests and edits *)

-----------------------------------------------------------------------------
(* The inductive invariant *)

\* What no scan has to hand over any more.
GpHandled == gpQueued \union gpSkip \union gpGone \union gpCut

GpPollType ==
  [step : {"idle", "list", "get"}, todo : SUBSET (1..gpMail), next : 0..(gpMail + 1),
   date : 0..gpMail, edits : 0..gpMadeEdits, edited : BOOLEAN]

GpTypeInv == GpTypeOK /\ gpPoll \in GpPollType

\* Both watermarks lie behind what is handled: the date counts too, for the next
\* full scan lists nothing older.
GpMarksInv == \A k \in 1..gpMail : k < gpMark \/ k < gpDate => k \in GpHandled

\* A scan still has to read what lies behind the watermarks it will write.  The date
\* goes up to a message before older ones of the same list are read.
GpScanInv ==
  /\ gpPoll.step = "list" => \A k \in 1..gpMail : k < gpPoll.date => k \in GpHandled
  /\ gpPoll.step = "get" =>
       \A k \in 1..gpMail :
         \/ k < gpPoll.next \/ k < gpPoll.date
         \/ \E t \in gpPoll.todo : k < t
         => k \in GpHandled \union gpPoll.todo

\* Unless the last edit fell into a scan, the config is the one it made.
GpEditInv ==
  ~gpPoll.edited =>
    gpEdits = gpMadeEdits /\ (gpPoll.step # "idle" => gpPoll.edits = gpMadeEdits)

GpInv == GpTypeInv /\ GpMarksInv /\ GpScanInv /\ GpEditInv

LEMMA GpMaxOfTwo ==
  ASSUME NEW a \in Nat, NEW b \in Nat
  PROVE  Max({a, b}) = IF a >= b THEN a ELSE b
BY DEF Max

LEMMA GpInitInv == GpInit => GpInv
BY GpAssumption DEF GpInit, GpInv, GpTypeInv, GpTypeOK, GpPollType, GpIdle, GpMarksInv, GpScanInv, GpEditInv

-----------------------------------------------------------------------------
(* The mailbox and the config *)

\* Mail that arrives is behind no watermark.
LEMMA GpArriveStep == GpInv /\ GpArrive => GpInv'
<1> SUFFICES ASSUME GpInv, GpArrive PROVE GpInv'
  OBVIOUS
<1> USE GpAssumption DEF GpInv
<1>1. gpMail \in Nat /\ gpMail' = gpMail + 1 /\ GpHandled \subseteq GpHandled' /\ gpPoll \in GpPollType
  BY DEF GpTypeInv, GpTypeOK, GpArrive, GpHandled
<1>2. GpTypeInv'
  BY <1>1 DEF GpTypeInv, GpTypeOK, GpPollType, GpArrive, GpConfig
<1>3. GpMarksInv'
  BY <1>1 DEF GpMarksInv, GpTypeInv, GpTypeOK, GpArrive, GpConfig
<1>4. GpScanInv'
  BY <1>1 DEF GpScanInv, GpPollType, GpArrive
<1>5. GpEditInv'
  BY DEF GpEditInv, GpArrive, GpConfig
<1> QED BY <1>2, <1>3, <1>4, <1>5

LEMMA GpBoxStep ==
  GpInv /\ (GpForget \/ \E m \in 1..gpMail : GpDelete(m)) => GpInv'
<1> SUFFICES ASSUME GpInv, GpForget \/ \E m \in 1..gpMail : GpDelete(m) PROVE GpInv'
  OBVIOUS
<1> USE DEF GpInv, GpForget, GpDelete, GpConfig
<1>1. GpHandled \subseteq GpHandled' /\ gpMail \in Nat
  BY DEF GpHandled, GpTypeInv, GpTypeOK
<1>2. GpTypeInv'
  BY <1>1 DEF GpTypeInv, GpTypeOK, GpPollType
<1>3. GpMarksInv' /\ GpScanInv'
  BY <1>1 DEF GpMarksInv, GpScanInv
<1>4. GpEditInv'
  BY DEF GpEditInv
<1> QED BY <1>2, <1>3, <1>4

LEMMA GpEditStep == GpInv /\ GpEdit => GpInv'
<1> SUFFICES ASSUME GpInv, GpEdit PROVE GpInv'
  OBVIOUS
<1> USE GpAssumption DEF GpInv, GpEdit, GpBox
<1>1. /\ gpPoll \in GpPollType /\ gpMadeEdits \in Nat /\ gpMadeEdits' = gpMadeEdits + 1
      /\ gpEdits' = gpMadeEdits + 1 /\ gpMail' = gpMail /\ GpHandled' = GpHandled
  BY DEF GpTypeInv, GpTypeOK, GpHandled
<1>2. /\ gpPoll'.step = gpPoll.step /\ gpPoll'.todo = gpPoll.todo /\ gpPoll'.next = gpPoll.next
      /\ gpPoll'.date = gpPoll.date /\ gpPoll'.edits = gpPoll.edits
      /\ gpPoll'.edited = (gpPoll.step # "idle")
  BY <1>1 DEF GpPollType
<1>3. GpTypeInv'
  <2>1. \A b \in BOOLEAN : [gpPoll EXCEPT !.edited = b] \in GpPollType'
    BY <1>1 DEF GpPollType
  <2> DEFINE b == gpPoll.step # "idle"
  <2>2. gpPoll' = [gpPoll EXCEPT !.edited = b] /\ b \in BOOLEAN
    OBVIOUS
  <2> HIDE DEF b
  <2>3. gpPoll' \in GpPollType'
    BY <2>1, <2>2
  <2> QED BY <1>1, <1>2, <2>3 DEF GpTypeInv, GpTypeOK
<1>4. GpMarksInv' /\ GpScanInv' /\ GpEditInv'
  BY <1>1, <1>2 DEF GpMarksInv, GpScanInv, GpEditInv
<1> QED BY <1>3, <1>4

-----------------------------------------------------------------------------
(* The scan *)

\* A scan begins with what the history says since the mark.
LEMMA GpTickStep == GpInv /\ GpTick => GpInv'
<1> SUFFICES ASSUME GpInv, GpTick PROVE GpInv'
  OBVIOUS
<1> USE DEF GpInv, GpBox, GpConfig
<1> DEFINE full == gpMark = 0 \/ gpMark < gpRetained
<1>1. /\ gpMail \in Nat /\ gpMark \in 0..(gpMail + 1) /\ gpRetained \in 0..(gpMail + 1)
      /\ gpDate \in 0..gpMail /\ gpEdits \in 0..gpMadeEdits /\ gpPoll \in GpPollType
  BY GpAssumption DEF GpTypeInv, GpTypeOK
<1>2. UNCHANGED <<gpMail, gpSkip, gpGone, gpRetained, gpMark, gpDate, gpEdits, gpQueued, gpCut,
                  gpFaults, gpMadeEdits>>
  BY DEF GpTick
<1>3. /\ gpPoll'.step = (IF full THEN "list" ELSE "get")
      /\ gpPoll'.todo = (IF full THEN {} ELSE (gpMark..gpMail) \ gpSkip)
      /\ gpPoll'.next = gpMail + 1 /\ gpPoll'.date = gpDate /\ gpPoll'.edits = gpEdits
      /\ gpPoll'.edited = gpPoll.edited
      /\ gpPoll' = [step |-> gpPoll'.step, todo |-> gpPoll'.todo, next |-> gpPoll'.next,
                    date |-> gpPoll'.date, edits |-> gpPoll'.edits, edited |-> gpPoll'.edited]
  BY DEF GpTick, GpIdle
<1>4. gpPoll.edited \in BOOLEAN /\ gpPoll.step = "idle"
  BY <1>1 DEF GpPollType, GpTick
<1>5. gpPoll'.todo \subseteq 1..gpMail
  BY <1>1, <1>3
<1>6. GpPollType' = GpPollType
  BY <1>2 DEF GpPollType
<1>7. gpPoll' \in GpPollType
  BY <1>1, <1>3, <1>4, <1>5 DEF GpPollType
<1>8. GpTypeInv'
  BY <1>2, <1>3, <1>5, <1>6, <1>7 DEF GpTypeInv, GpTypeOK
<1>9. GpMarksInv' /\ GpHandled' = GpHandled
  BY <1>2 DEF GpMarksInv, GpHandled
<1>10. GpScanInv'
  <2>1. CASE full
    BY <1>2, <1>3, <1>9, <2>1 DEF GpScanInv, GpMarksInv
  <2>2. CASE ~full
    <3>1. \A k \in 1..gpMail : k < gpMark \/ k \in gpSkip \/ k \in gpPoll'.todo
      BY <1>1, <1>3, <2>2
    <3>2. \A k \in 1..gpMail : k \in GpHandled \union gpPoll'.todo
      BY <3>1 DEF GpMarksInv, GpHandled
    <3> QED BY <1>2, <1>3, <1>9, <2>2, <3>2 DEF GpScanInv
  <2> QED BY <2>1, <2>2
<1>11. GpEditInv'
  BY <1>2, <1>3, <1>4 DEF GpEditInv
<1> QED BY <1>8, <1>9, <1>10, <1>11

\* The full scan lists everything since the date but what it cuts.
LEMMA GpListStep == GpInv /\ GpList => GpInv'
<1> SUFFICES ASSUME GpInv, GpList PROVE GpInv'
  OBVIOUS
<1> USE DEF GpInv, GpBox, GpConfig
<1> DEFINE since == {m \in 1..gpMail : m >= gpPoll.date} \ gpGone
           cut == {m \in since : Cardinality({n \in since : n > m}) >= GpBackfill}
<1>1. cut \subseteq since /\ since \subseteq 1..gpMail
  OBVIOUS
<1>2. /\ gpPoll' = [gpPoll EXCEPT !.step = "get", !.todo = since \ cut]
      /\ gpCut' = gpCut \union cut /\ gpPoll.step = "list"
      /\ UNCHANGED <<gpMail, gpSkip, gpGone, gpRetained, gpMark, gpDate, gpEdits, gpQueued,
                     gpFaults, gpMadeEdits>>
  BY DEF GpList
<1>3. \A k \in 1..gpMail : k < gpPoll.date \/ k \in gpGone \/ k \in since
  BY DEF GpTypeInv, GpTypeOK, GpPollType
<1> HIDE DEF since, cut
<1>4. gpPoll \in GpPollType /\ GpPollType' = GpPollType
  BY <1>2 DEF GpTypeInv, GpPollType
<1>5. /\ gpPoll'.step = "get" /\ gpPoll'.todo = since \ cut
      /\ gpPoll'.edited = gpPoll.edited /\ gpPoll'.edits = gpPoll.edits
  BY <1>2, <1>4 DEF GpPollType
<1>6. gpPoll' \in GpPollType
  BY <1>1, <1>2, <1>4 DEF GpPollType
<1>7. GpTypeInv'
  BY <1>1, <1>2, <1>4, <1>5, <1>6 DEF GpTypeInv, GpTypeOK
<1>8. GpHandled' = GpHandled \union cut
  BY <1>2 DEF GpHandled
<1>9. GpMarksInv'
  BY <1>2, <1>8 DEF GpMarksInv
<1>10. \A k \in 1..gpMail : k \in GpHandled' \union gpPoll'.todo
  BY <1>2, <1>3, <1>5, <1>8 DEF GpScanInv, GpHandled
<1>11. GpScanInv'
  BY <1>2, <1>5, <1>10 DEF GpScanInv
<1>12. GpEditInv'
  BY <1>2, <1>5 DEF GpEditInv
<1> QED BY <1>7, <1>9, <1>11, <1>12

\* A message that is read leaves the list; older ones of the list stay in it.
LEMMA GpGetStep == ASSUME GpInv, NEW m \in 1..gpMail, GpGet(m) PROVE GpInv'
<1> USE DEF GpInv, GpBox, GpConfig
<1> DEFINE passed == m \in gpGone \union gpSkip
           date == IF passed THEN gpPoll.date ELSE Max({gpPoll.date, m})
           todo == gpPoll.todo \ {m}
<1>1. /\ gpMail \in Nat /\ m \in Nat /\ gpPoll \in GpPollType /\ gpPoll.date \in 0..gpMail
      /\ gpPoll.todo \subseteq 1..gpMail /\ gpPoll.next \in 0..(gpMail + 1)
  BY GpAssumption DEF GpTypeInv, GpTypeOK, GpPollType
<1>2. date \in 0..gpMail /\ \A k \in 1..gpMail : k < date => k < gpPoll.date \/ k < m
  BY <1>1, GpMaxOfTwo
<1>3. /\ gpPoll' = [gpPoll EXCEPT !.todo = todo, !.date = date]
      /\ gpQueued' = gpQueued \union ({m} \ (gpGone \union gpSkip))
      /\ gpPoll.step = "get" /\ m \in gpPoll.todo
      /\ UNCHANGED <<gpMail, gpSkip, gpGone, gpRetained, gpMark, gpDate, gpEdits, gpCut,
                     gpFaults, gpMadeEdits>>
  BY <1>1 DEF GpGet, GpPollType
<1> HIDE DEF date
<1>4. /\ gpPoll'.step = "get" /\ gpPoll'.todo = todo /\ gpPoll'.date = date
      /\ gpPoll'.next = gpPoll.next
      /\ gpPoll'.edited = gpPoll.edited /\ gpPoll'.edits = gpPoll.edits
  BY <1>1, <1>3 DEF GpPollType
<1>5. gpPoll' \in GpPollType /\ GpPollType' = GpPollType
  BY <1>1, <1>2, <1>3 DEF GpPollType
<1>6. GpTypeInv'
  BY <1>1, <1>3, <1>4, <1>5 DEF GpTypeInv, GpTypeOK
<1>7. GpHandled' = GpHandled \union {m}
  BY <1>3 DEF GpHandled
<1>8. GpMarksInv'
  BY <1>3, <1>7 DEF GpMarksInv
<1>9. GpScanInv'
  <2> SUFFICES ASSUME NEW k \in 1..gpMail,
                      k < gpPoll.next \/ k < date \/ \E t \in todo : k < t
               PROVE  k \in GpHandled' \union todo
    BY <1>3, <1>4 DEF GpScanInv
  <2>1. k < gpPoll.next \/ k < gpPoll.date \/ \E t \in gpPoll.todo : k < t
    BY <1>2, <1>3
  <2>2. k \in GpHandled \union gpPoll.todo
    BY <1>3, <2>1 DEF GpScanInv
  <2> QED BY <1>7, <2>2
<1>10. GpEditInv'
  BY <1>3, <1>4 DEF GpEditInv
<1> QED BY <1>6, <1>8, <1>9, <1>10

\* A scan ends, with or without the watermarks.
LEMMA GpEndStep == GpInv /\ (GpFail \/ GpCommit) => GpInv'
<1> SUFFICES ASSUME GpInv, GpFail \/ GpCommit PROVE GpInv'
  OBVIOUS
<1> USE DEF GpInv, GpBox, GpConfig
<1>1. /\ gpMail \in Nat /\ gpPoll \in GpPollType /\ gpMadeEdits \in Nat
      /\ gpPoll.date \in 0..gpMail /\ gpPoll.next \in 0..(gpMail + 1)
      /\ gpPoll.edits \in 0..gpMadeEdits /\ gpPoll.edited \in BOOLEAN
  BY GpAssumption DEF GpTypeInv, GpTypeOK, GpPollType
<1>2. /\ gpPoll' = GpRest
      /\ UNCHANGED <<gpMail, gpSkip, gpGone, gpRetained, gpQueued, gpCut, gpMadeEdits>>
  BY DEF GpFail, GpCommit
<1>3. /\ gpPoll' \in GpPollType /\ gpPoll'.step = "idle" /\ gpPoll'.edited = gpPoll.edited
      /\ gpPoll'.todo = {}
  BY <1>1, <1>2 DEF GpRest, GpIdle, GpPollType
<1>4. GpPollType' = GpPollType /\ GpHandled' = GpHandled
  BY <1>2 DEF GpPollType, GpHandled
<1>5. GpScanInv'
  BY <1>3 DEF GpScanInv
<1>6. CASE GpFail
  <2>1. GpTypeInv'
    BY <1>1, <1>2, <1>3, <1>4, <1>6, GpAssumption DEF GpTypeInv, GpTypeOK, GpFail
  <2>2. GpMarksInv' /\ GpEditInv'
    BY <1>2, <1>3, <1>4, <1>6 DEF GpMarksInv, GpEditInv, GpFail
  <2> QED BY <1>5, <2>1, <2>2
<1>7. CASE GpCommit
  <2>1. GpTypeInv'
    BY <1>1, <1>2, <1>3, <1>4, <1>7 DEF GpTypeInv, GpTypeOK, GpCommit
  <2>2. GpMarksInv'
    BY <1>2, <1>4, <1>7 DEF GpMarksInv, GpScanInv, GpCommit
  <2>3. GpEditInv'
    BY <1>2, <1>3, <1>7 DEF GpEditInv, GpCommit
  <2> QED BY <1>5, <2>1, <2>2, <2>3
<1> QED BY <1>6, <1>7

LEMMA GpStepInv == GpInv /\ [GpNext]_gpVars => GpInv'
<1>1. GpInv /\ UNCHANGED gpVars => GpInv'
  BY DEF gpVars, GpInv, GpTypeInv, GpTypeOK, GpPollType, GpMarksInv, GpScanInv, GpEditInv, GpHandled
<1> QED
  BY <1>1, GpArriveStep, GpBoxStep, GpEditStep, GpTickStep, GpListStep, GpGetStep, GpEndStep DEF GpNext

-----------------------------------------------------------------------------
(* The theorems *)

LEMMA GpInvCorrect == GpSpec => []GpInv
BY GpInitInv, GpStepInv, PTL DEF GpSpec

\* The watermarks, the scan in flight and what it handed over keep their types.
THEOREM GpTypeCorrect == GpSpec => []GpTypeOK
<1>1. GpInv => GpTypeOK
  BY DEF GpInv, GpTypeInv
<1> QED BY <1>1, GpInvCorrect, PTL

\* For any mailbox and any failing requests, expired histories and mail that
\* arrives in a scan: no message lies behind the mark that was not handed over,
\* left out or gone; and an edit of the channel is lost only in a scan.
THEOREM GpSafeCorrect == GpSpec => []GpSafe
<1>1. GpInv => GpSafe
  BY DEF GpInv, GpTypeInv, GpTypeOK, GpPollType, GpMarksInv, GpEditInv, GpHandled, GpSafe, GpNothingLost,
         GpEditSurvives
<1> QED BY <1>1, GpInvCorrect, PTL

\* A scan that ends has moved the mark or met a failing request.
THEOREM GpScanMovesCorrect == GpSpec => [][GpScanMoves]_gpVars
<1>1. GpInv /\ GpNext => GpScanMoves
  <2> SUFFICES ASSUME GpInv, GpNext, gpPoll.step # "idle", gpPoll'.step = "idle"
               PROVE  gpFaults' = gpFaults + 1 \/ gpMark' = gpPoll.next
    BY DEF GpScanMoves
  <2>1. gpPoll \in GpPollType
    BY DEF GpInv, GpTypeInv
  <2>2. GpFail \/ GpCommit
    BY <2>1 DEF GpNext, GpArrive, GpForget, GpEdit, GpTick, GpList, GpDelete, GpGet, GpPollType
  <2> QED BY <2>2 DEF GpFail, GpCommit
<1> QED BY <1>1, GpInvCorrect, PTL DEF GpSpec

-----------------------------------------------------------------------------
(* Chatbot: any slots, attempts, saves and messages *)

CbSessionType == [node : CbNodeIds, waiting : BOOLEAN, asked : 0..CbMaxMessages, live : BOOLEAN]
CbWorkType ==
  [pc : {"idle", "run", "say"}, msg : Nat, tries : 0..CbAttempts, node : CbNodeIds,
   input : BOOLEAN, asked : 0..CbMaxMessages, said : {<<>>, <<1>>}, rows : SUBSET CbRows,
   transfer : BOOLEAN]

CbTypeInv ==
  /\ cbNodes \subseteq CbRows
  /\ cbSave \in [made : 0..CbMaxSaves, drawing : CbDrawings \union {<<>>}]
  /\ cbActive \in BOOLEAN
  /\ cbStatus \in {"PENDING", "BOT", "OPEN", "CLOSED"}
  /\ cbSession \in CbSessionType
  /\ cbJobs \subseteq CbJobType
  /\ cbWork \in [CbWorkers -> CbWorkType]
  /\ cbSent \in 0..CbMaxMessages
  /\ cbSpoke \subseteq {1}
  /\ cbMisread \in BOOLEAN /\ cbOwed \in BOOLEAN
  /\ cbEvents \subseteq {"burst", "failure"}

\* Rows of one save: the edges name ids of an earlier one.
CbRowOK(r, made) ==
  /\ r.id[1] <= made
  /\ r.next = CbNoNode \/ (r.next \in CbIds /\ r.next[1] < r.id[1])
  /\ r.kind = "START" => r.id[2] = 1
CbRowsOK(rows, made) ==
  /\ \A r \in rows : CbRowOK(r, made)
  /\ \A r, q \in rows : r.id[1] = q.id[1]
CbFlowInv ==
  /\ cbSave.drawing # <<>> => cbNodes = {} /\ cbSave.made < CbMaxSaves
  /\ CbRowsOK(cbNodes, cbSave.made)
  /\ \A r \in cbNodes : r.id[1] = cbSave.made
  /\ cbNodes # {} => \E r \in cbNodes : r.id[2] = 1

\* A session stands on a first node, or on a place that no row has.
CbNodeOK(n, made) == n \in CbIds /\ (n[2] = 1 \/ n[1] < made)
CbSessionInv == (cbSession.live = TRUE) => CbNodeOK(cbSession.node, cbSave.made)

CbJobInv == \A j \in cbJobs : j.tries < CbAttempts /\ j.msg <= cbSent

\* A run finds a node under its feet only before it has said anything.
CbWorkOK(work, made, sent) ==
  /\ CbRowsOK(work.rows, made)
  /\ work.pc = "idle" \/ work.msg \in 1..sent
  /\ work.pc = "run" => \A r \in work.rows : r.id = work.node => r.id[2] = 1 /\ work.said = <<>>
  /\ work.pc # "say" => work.transfer = FALSE
CbWorkInv == \A w \in CbWorkers : CbWorkOK(cbWork[w], cbSave.made, cbSent)

\* Without a burst and a failure there is one job at a time, and every message at
\* hand was written after the question.
CbOne ==
  /\ \A j, k \in cbJobs : j = k
  /\ \A v, w \in CbWorkers : cbWork[v].pc # "idle" /\ cbWork[w].pc # "idle" => v = w
  /\ cbJobs # {} => \A w \in CbWorkers : cbWork[w].pc = "idle"
CbAsked ==
  (cbSession.waiting = TRUE) =>
    /\ cbSession.asked \in 1..cbSent
    /\ \A j \in cbJobs : j.msg > cbSession.asked
CbAnswers ==
  \A w \in CbWorkers : cbWork[w].pc # "idle" /\ (cbWork[w].input = TRUE) =>
    cbWork[w].asked >= 1 /\ cbWork[w].msg > cbWork[w].asked
CbCalmInv == cbEvents = {} => CbOne /\ CbAsked /\ CbAnswers /\ cbMisread = FALSE
CbOwedInv ==
  (cbOwed = TRUE) => "failure" \in cbEvents \/ \E w \in CbWorkers : cbWork[w].transfer = TRUE

CbInv == /\ CbTypeInv /\ CbFlowInv /\ CbSessionInv /\ CbJobInv /\ CbWorkInv /\ CbCalmInv
         /\ CbOwedInv

LEMMA CbFrame ==
  /\ CbFlowInv /\ cbNodes' = cbNodes /\ cbSave' = cbSave => CbFlowInv'
  /\ CbSessionInv /\ cbSession' = cbSession /\ cbSave' = cbSave => CbSessionInv'
  /\ CbJobInv /\ cbJobs' = cbJobs /\ cbSent' = cbSent => CbJobInv'
  /\ CbWorkInv /\ cbWork' = cbWork /\ cbSave' = cbSave /\ cbSent' = cbSent => CbWorkInv'
  /\ (/\ CbCalmInv /\ cbEvents' = cbEvents /\ cbJobs' = cbJobs /\ cbWork' = cbWork
      /\ cbSession' = cbSession /\ cbSent' = cbSent /\ cbMisread' = cbMisread) => CbCalmInv'
  /\ CbOwedInv /\ cbOwed' = cbOwed /\ cbEvents' = cbEvents /\ cbWork' = cbWork => CbOwedInv'
<1>1. CbFlowInv /\ cbNodes' = cbNodes /\ cbSave' = cbSave => CbFlowInv'
  BY DEF CbFlowInv
<1>2. CbSessionInv /\ cbSession' = cbSession /\ cbSave' = cbSave => CbSessionInv'
  BY DEF CbSessionInv
<1>3. CbJobInv /\ cbJobs' = cbJobs /\ cbSent' = cbSent => CbJobInv'
  BY DEF CbJobInv
<1>4. CbWorkInv /\ cbWork' = cbWork /\ cbSave' = cbSave /\ cbSent' = cbSent => CbWorkInv'
  BY DEF CbWorkInv
<1>5. (/\ CbCalmInv /\ cbEvents' = cbEvents /\ cbJobs' = cbJobs /\ cbWork' = cbWork
       /\ cbSession' = cbSession /\ cbSent' = cbSent /\ cbMisread' = cbMisread) => CbCalmInv'
  BY DEF CbCalmInv, CbOne, CbAsked, CbAnswers
<1>6. CbOwedInv /\ cbOwed' = cbOwed /\ cbEvents' = cbEvents /\ cbWork' = cbWork => CbOwedInv'
  BY DEF CbOwedInv
<1> QED BY <1>1, <1>2, <1>3, <1>4, <1>5, <1>6

\* What holds of a row, a place or a run holds as saves and messages are added.
LEMMA CbLater ==
  ASSUME NEW m \in Nat, NEW k \in Nat, m <= k, NEW s \in Nat, NEW t \in Nat, s <= t
  PROVE  /\ \A rows \in SUBSET CbRows : CbRowsOK(rows, m) => CbRowsOK(rows, k)
         /\ \A n \in CbIds : CbNodeOK(n, m) => CbNodeOK(n, k)
         /\ \A work \in CbWorkType : CbWorkOK(work, m, s) => CbWorkOK(work, k, t)
<1>1. \A r \in CbRows : r.id[1] \in Nat
  BY CbAssumption DEF CbRows, CbIds
<1>2. \A rows \in SUBSET CbRows : CbRowsOK(rows, m) => CbRowsOK(rows, k)
  BY <1>1 DEF CbRowsOK, CbRowOK
<1>3. \A n \in CbIds : CbNodeOK(n, m) => CbNodeOK(n, k)
  BY CbAssumption DEF CbNodeOK, CbIds
<1>4. \A work \in CbWorkType : work.msg \in 1..s => work.msg \in 1..t
  OBVIOUS
<1>5. \A work \in CbWorkType : work.rows \in SUBSET CbRows
  BY DEF CbWorkType
<1> QED BY <1>2, <1>3, <1>4, <1>5 DEF CbWorkOK

LEMMA CbStarts == CbInit => CbInv
<1> SUFFICES ASSUME CbInit PROVE CbInv
  OBVIOUS
<1>1. CbIdle \in CbWorkType
  BY CbAssumption DEF CbIdle, CbWorkType, CbNodeIds
<1>2. /\ CbIdle.pc = "idle" /\ CbIdle.rows = {} /\ CbIdle.transfer = FALSE
  BY DEF CbIdle
<1>3. CbNoSession \in CbSessionType /\ CbNoSession.live = FALSE /\ CbNoSession.waiting = FALSE
  BY CbAssumption DEF CbNoSession, CbSessionType, CbNodeIds
<1>4. CbTypeInv
  <2>1. cbSave \in [made : 0..CbMaxSaves, drawing : CbDrawings \union {<<>>}]
    BY CbAssumption DEF CbInit
  <2>2. cbWork \in [CbWorkers -> CbWorkType]
    BY <1>1 DEF CbInit
  <2>3. cbSent \in 0..CbMaxMessages
    BY CbAssumption DEF CbInit
  <2> QED BY <1>3, <2>1, <2>2, <2>3 DEF CbInit, CbTypeInv
<1>5. \A w \in CbWorkers : cbWork[w] = CbIdle
  BY DEF CbInit
<1>6. CbFlowInv
  BY DEF CbInit, CbFlowInv, CbRowsOK
<1>7. CbSessionInv /\ CbJobInv
  BY <1>3 DEF CbInit, CbSessionInv, CbJobInv
<1>8. CbWorkInv
  BY <1>2, <1>5 DEF CbWorkInv, CbWorkOK, CbRowsOK
<1>9. CbCalmInv /\ CbOwedInv
  BY <1>2, <1>3, <1>5 DEF CbInit, CbCalmInv, CbOne, CbAsked, CbAnswers, CbOwedInv
<1> QED BY <1>4, <1>6, <1>7, <1>8, <1>9 DEF CbInv

LEMMA CbDeleteKeeps ==
  ASSUME CbInv, NEW d \in CbDrawings, CbDelete(d)
  PROVE  CbInv'
<1>1. /\ cbNodes' = {} /\ cbActive' = cbActive /\ cbStatus' = cbStatus /\ cbSession' = cbSession
      /\ cbJobs' = cbJobs /\ cbWork' = cbWork /\ cbSent' = cbSent /\ cbSpoke' = cbSpoke
      /\ cbMisread' = cbMisread /\ cbOwed' = cbOwed /\ cbEvents' = cbEvents
  BY DEF CbDelete, CbRun, CbHistory
<1>2. /\ cbSave' \in [made : 0..CbMaxSaves, drawing : CbDrawings \union {<<>>}]
      /\ cbSave'.made = cbSave.made /\ cbSave.made < CbMaxSaves
  BY DEF CbDelete, CbInv, CbTypeInv
<1>3. CbTypeInv'
  BY <1>1, <1>2 DEF CbInv, CbTypeInv
<1>4. CbFlowInv'
  BY <1>1, <1>2 DEF CbFlowInv, CbRowsOK
<1>5. CbSessionInv' /\ CbWorkInv'
  BY <1>1, <1>2 DEF CbInv, CbSessionInv, CbWorkInv
<1> QED BY <1>1, <1>3, <1>4, <1>5, CbFrame DEF CbInv

LEMMA CbCreateKeeps ==
  ASSUME CbInv, CbCreate
  PROVE  CbInv'
<1> DEFINE d == cbSave.drawing
           s == cbSave.made
<1>1. /\ cbActive' = cbActive /\ cbStatus' = cbStatus /\ cbSession' = cbSession
      /\ cbJobs' = cbJobs /\ cbWork' = cbWork /\ cbSent' = cbSent /\ cbSpoke' = cbSpoke
      /\ cbMisread' = cbMisread /\ cbOwed' = cbOwed /\ cbEvents' = cbEvents
  BY DEF CbCreate, CbRun, CbHistory
<1>2. d \in CbDrawings /\ s \in Nat /\ s + 1 \in 0..CbMaxSaves /\ cbNodes = {}
  BY CbAssumption DEF CbCreate, CbInv, CbTypeInv, CbFlowInv
<1>3. /\ cbSave' = [made |-> s + 1, drawing |-> <<>>]
      /\ \/ cbNodes' = {CbRow(d, i, <<s + 1, i>>, s) : i \in 1..Len(d)}
         \/ cbNodes' = {}
  BY <1>2 DEF CbCreate
<1>4. d \in Seq(CbKinds) /\ Len(d) \in 1..2 /\ \A i \in 1..Len(d) : d[i] = "START" => i = 1
  <2>1. CASE \E k \in CbKinds \ {"START"} : d = <<k>>
    BY <2>1 DEF CbKinds
  <2>2. CASE \E j \in CbKinds, k \in CbKinds \ {"START"} : d = <<j, k>>
    BY <2>2 DEF CbKinds
  <2>3. d \in CbKinds \X (CbKinds \ {"START"}) =>
          \E j \in CbKinds, k \in CbKinds \ {"START"} : d = <<j, k>>
    OBVIOUS
  <2> HIDE DEF d
  <2> QED BY <1>2, <2>1, <2>2, <2>3 DEF CbDrawings
<1> HIDE DEF d, s
<1>5. /\ cbSave' \in [made : 0..CbMaxSaves, drawing : CbDrawings \union {<<>>}]
      /\ cbSave'.made = s + 1 /\ cbSave'.drawing = <<>>
  BY <1>2, <1>3
<1>6. ASSUME NEW i \in 1..Len(d)
      PROVE  /\ CbRow(d, i, <<s + 1, i>>, s) \in CbRows
             /\ CbRowOK(CbRow(d, i, <<s + 1, i>>, s), s + 1)
             /\ CbRow(d, i, <<s + 1, i>>, s).id = <<s + 1, i>>
  <2> DEFINE r == CbRow(d, i, <<s + 1, i>>, s)
  <2>1. r.id = <<s + 1, i>> /\ r.kind = d[i] /\ d[i] \in CbKinds
        /\ r.next = IF i < Len(d) THEN <<s, i + 1>> ELSE CbNoNode
    BY <1>4 DEF CbRow
  <2>2. <<s + 1, i>> \in CbIds /\ (i < Len(d) => <<s, i + 1>> \in CbIds)
    <3>1. s \in 0..CbMaxSaves /\ s + 1 \in 0..CbMaxSaves
      BY <1>2, CbAssumption
    <3>2. i \in 1..2 /\ (i < Len(d) => i + 1 \in 1..2)
      BY <1>4
    <3> QED BY <3>1, <3>2 DEF CbIds
  <2>3. r \in CbRows
    BY <2>1, <2>2 DEF CbRow, CbRows, CbNodeIds
  <2>4. CbRowOK(r, s + 1)
    BY <2>1, <2>2, <1>2, <1>4 DEF CbRowOK
  <2> QED BY <2>1, <2>3, <2>4
<1>7. \A r \in cbNodes' : r \in CbRows /\ CbRowOK(r, s + 1) /\ r.id[1] = s + 1
  <2> SUFFICES ASSUME NEW r \in cbNodes'
               PROVE  r \in CbRows /\ CbRowOK(r, s + 1) /\ r.id[1] = s + 1
    OBVIOUS
  <2>1. PICK i \in 1..Len(d) : r = CbRow(d, i, <<s + 1, i>>, s)
    BY <1>3
  <2> QED BY <1>6, <2>1
<1>8. cbNodes' # {} => \E r \in cbNodes' : r.id[2] = 1
  <2>0. Len(d) \in Nat /\ 1 <= Len(d)
    BY <1>4
  <2>1. 1 \in 1..Len(d)
    BY <2>0
  <2>2. CbRow(d, 1, <<s + 1, 1>>, s).id[2] = 1
    <3>1. CbRow(d, 1, <<s + 1, 1>>, s).id = <<s + 1, 1>>
      BY DEF CbRow
    <3> QED BY <3>1
  <2> QED BY <1>3, <2>1, <2>2
<1>9. CbTypeInv'
  BY <1>1, <1>5, <1>7 DEF CbInv, CbTypeInv
<1>10. CbFlowInv'
  BY <1>5, <1>7, <1>8 DEF CbFlowInv, CbRowsOK
<1>11. s <= s + 1 /\ cbSent \in Nat /\ cbSent <= cbSent
  BY <1>2, CbAssumption DEF CbInv, CbTypeInv
<1>12. \A n \in CbIds : CbNodeOK(n, s) => CbNodeOK(n, s + 1)
  BY <1>2, <1>11, CbLater
<1>13. \A work \in CbWorkType : CbWorkOK(work, s, cbSent) => CbWorkOK(work, s + 1, cbSent)
  BY <1>2, <1>11, CbLater
<1>14. CbSessionInv'
  <2>1. cbSession.live = TRUE => cbSession.node \in CbIds /\ CbNodeOK(cbSession.node, s)
    BY DEF CbInv, CbSessionInv, CbNodeOK, s
  <2> QED BY <1>1, <1>5, <1>12, <2>1 DEF CbSessionInv
<1>15. CbWorkInv'
  BY <1>1, <1>5, <1>13 DEF CbInv, CbTypeInv, CbWorkInv, s
<1> QED BY <1>1, <1>9, <1>10, <1>14, <1>15, CbFrame DEF CbInv

LEMMA CbSwitchKeeps ==
  ASSUME CbInv, CbSwitch \/ CbHuman \/ UNCHANGED cbVars
  PROVE  CbInv'
<1>1. /\ cbNodes' = cbNodes /\ cbSave' = cbSave /\ cbSession' = cbSession
      /\ cbJobs' = cbJobs /\ cbWork' = cbWork /\ cbSent' = cbSent /\ cbSpoke' = cbSpoke
      /\ cbMisread' = cbMisread /\ cbOwed' = cbOwed /\ cbEvents' = cbEvents
  BY DEF CbSwitch, CbHuman, CbRun, CbHistory, cbVars
<1>2. cbActive' \in BOOLEAN /\ cbStatus' \in {"PENDING", "BOT", "OPEN", "CLOSED"}
  BY DEF CbSwitch, CbHuman, CbRun, CbHistory, cbVars, CbInv, CbTypeInv
<1>3. CbTypeInv'
  BY <1>1, <1>2 DEF CbInv, CbTypeInv
<1> QED BY <1>1, <1>3, CbFrame DEF CbInv

LEMMA CbReceiveKeeps ==
  ASSUME CbInv, CbReceive
  PROVE  CbInv'
<1> DEFINE new == [msg |-> cbSent + 1, tries |-> 0]
<1>1. /\ cbNodes' = cbNodes /\ cbSave' = cbSave /\ cbActive' = cbActive
      /\ cbSession' = cbSession /\ cbWork' = cbWork /\ cbSpoke' = cbSpoke
      /\ cbMisread' = cbMisread /\ cbOwed' = cbOwed
      /\ cbStatus' = "BOT" /\ cbSent' = cbSent + 1 /\ cbJobs' = cbJobs \union {new}
      /\ cbSent < CbMaxMessages
  BY DEF CbReceive
<1>2. cbEvents' \subseteq {"burst", "failure"} /\ cbEvents \subseteq cbEvents'
  BY DEF CbReceive, CbInv, CbTypeInv
<1>3. cbEvents' = {} => cbEvents = {} /\ cbJobs = {} /\ \A w \in CbWorkers : cbWork[w].pc = "idle"
  BY DEF CbReceive
<1>4. cbSent \in Nat /\ cbSent' \in 0..CbMaxMessages
  BY <1>1, CbAssumption DEF CbInv, CbTypeInv
<1>5. new \in CbJobType /\ new.msg = cbSent + 1 /\ new.tries = 0
  BY <1>1, <1>4, CbAssumption DEF CbJobType
<1> HIDE DEF new
<1>6. CbTypeInv'
  BY <1>1, <1>2, <1>4, <1>5 DEF CbInv, CbTypeInv
<1>7. CbJobInv'
  <2>1. \A j \in cbJobs : j.msg \in Nat
    BY CbAssumption DEF CbInv, CbTypeInv, CbJobType
  <2> QED BY <1>1, <1>4, <1>5, <2>1, CbAssumption DEF CbInv, CbJobInv
<1>8. CbWorkInv'
  <2>1. cbSave.made \in Nat /\ cbSave.made <= cbSave.made /\ cbSent <= cbSent + 1
    BY <1>4, CbAssumption DEF CbInv, CbTypeInv
  <2>2. \A work \in CbWorkType : CbWorkOK(work, cbSave.made, cbSent) => CbWorkOK(work, cbSave.made, cbSent + 1)
    BY <1>4, <2>1, CbLater
  <2> QED BY <1>1, <2>2 DEF CbInv, CbTypeInv, CbWorkInv
<1>9. CbCalmInv'
  <2> SUFFICES ASSUME cbEvents' = {} PROVE (CbOne /\ CbAsked /\ CbAnswers /\ cbMisread = FALSE)'
    BY DEF CbCalmInv
  <2>1. cbJobs' = {new} /\ (\A w \in CbWorkers : cbWork[w].pc = "idle") /\ CbAsked /\ cbMisread = FALSE
    BY <1>1, <1>3 DEF CbInv, CbCalmInv
  <2>2. CbOne'
    BY <1>1, <2>1 DEF CbOne
  <2>3. CbAsked'
    BY <1>1, <1>4, <1>5, <2>1 DEF CbAsked
  <2>4. CbAnswers'
    BY <1>1, <2>1 DEF CbAnswers
  <2> QED BY <1>1, <2>1, <2>2, <2>3, <2>4
<1>10. CbOwedInv'
  BY <1>1, <1>2 DEF CbInv, CbOwedInv
<1> QED BY <1>1, <1>6, <1>7, <1>8, <1>9, <1>10, CbFrame DEF CbInv

LEMMA CbExpireKeeps ==
  ASSUME CbInv, CbExpire
  PROVE  CbInv'
<1>1. /\ cbNodes' = cbNodes /\ cbSave' = cbSave /\ cbActive' = cbActive /\ cbStatus' = cbStatus
      /\ cbJobs' = cbJobs /\ cbWork' = cbWork /\ cbSent' = cbSent /\ cbSpoke' = cbSpoke
      /\ cbMisread' = cbMisread /\ cbOwed' = cbOwed /\ cbEvents' = cbEvents
      /\ cbSession' = CbNoSession
  BY DEF CbExpire, CbHistory
<1>2. CbNoSession \in CbSessionType /\ CbNoSession.live = FALSE /\ CbNoSession.waiting = FALSE
  BY CbAssumption DEF CbNoSession, CbSessionType, CbNodeIds
<1>3. CbTypeInv'
  BY <1>1, <1>2 DEF CbInv, CbTypeInv
<1>4. CbSessionInv'
  BY <1>1, <1>2 DEF CbSessionInv
<1>5. CbCalmInv'
  BY <1>1, <1>2 DEF CbInv, CbCalmInv, CbOne, CbAsked, CbAnswers
<1> QED BY <1>1, <1>3, <1>4, <1>5, CbFrame DEF CbInv

\* A new session stands on the first node, or on a place that no row has.
LEMMA CbOpens ==
  ASSUME CbInv, cbNodes # {}
  PROVE  CbNodeOK(CbOpening(cbNodes), cbSave.made)
<1> DEFINE starts == {r \in cbNodes : r.kind = "START"}
           pool == IF starts # {} THEN starts ELSE cbNodes
           first == CbFirst(cbNodes)
<1>1. \A r \in cbNodes : r \in CbRows /\ CbRowOK(r, cbSave.made) /\ r.id[1] = cbSave.made
  BY DEF CbInv, CbTypeInv, CbFlowInv, CbRowsOK
<1>2. \A r \in cbNodes : r.id \in CbIds /\ r.id[2] \in {1, 2}
  BY <1>1 DEF CbRows, CbIds
<1>3. \E r \in pool : r.id[2] = 1
  <2>1. CASE starts # {}
    BY <1>1, <2>1 DEF CbRowOK
  <2>2. CASE starts = {}
    BY <2>2 DEF CbInv, CbFlowInv
  <2> QED BY <2>1, <2>2
<1>4. pool \subseteq cbNodes
  OBVIOUS
<1>5. \E r \in pool : \A q \in pool : r.id[2] <= q.id[2]
  BY <1>2, <1>3, <1>4
<1>6. first \in pool /\ \A q \in pool : first.id[2] <= q.id[2]
  BY <1>5 DEF CbFirst
<1> HIDE DEF pool, first
<1>7. first \in cbNodes /\ first.id[2] = 1
  BY <1>2, <1>3, <1>4, <1>6
<1>8. CbOpening(cbNodes) = first.id \/ (first.next # CbNoNode /\ CbOpening(cbNodes) = first.next)
  BY DEF CbOpening, first
<1>9. first.next # CbNoNode => first.next \in CbIds /\ first.next[1] < cbSave.made
  BY <1>1, <1>7 DEF CbRowOK
<1> QED BY <1>2, <1>7, <1>8, <1>9 DEF CbNodeOK

LEMMA CbTakeKeeps ==
  ASSUME CbInv, NEW w \in CbWorkers, NEW job \in cbJobs, CbTake(w, job)
  PROVE  CbInv'
<1> DEFINE made == cbSave.made
           Taken(new) ==
             /\ new.pc = "run" /\ new.msg = job.msg /\ new.rows = cbNodes /\ new.said = <<>>
             /\ new.transfer = FALSE /\ CbNodeOK(new.node, made)
             /\ new.input = TRUE => (cbSession.waiting = TRUE) /\ new.asked = cbSession.asked
             /\ cbWork' = [cbWork EXCEPT ![w] = new]
<1>1. /\ cbNodes' = cbNodes /\ cbSave' = cbSave /\ cbActive' = cbActive /\ cbStatus' = cbStatus
      /\ cbSent' = cbSent /\ cbSpoke' = cbSpoke
      /\ cbMisread' = cbMisread /\ cbOwed' = cbOwed /\ cbEvents' = cbEvents
      /\ cbJobs' = cbJobs \ {job} /\ cbWork[w].pc = "idle"
  BY DEF CbTake, CbHistory
<1>2. /\ job \in CbJobType /\ job.msg \in 1..CbMaxMessages /\ job.tries + 1 \in 0..CbAttempts
      /\ job.msg \in 1..cbSent
  <2>1. job \in CbJobType
    BY DEF CbInv, CbTypeInv
  <2>2. job.msg \in 1..CbMaxMessages /\ job.tries \in 0..CbAttempts
    BY <2>1 DEF CbJobType
  <2>3. job.tries < CbAttempts /\ job.msg <= cbSent /\ cbSent \in 0..CbMaxMessages
    BY DEF CbInv, CbTypeInv, CbJobInv
  <2> QED BY <2>1, <2>2, <2>3, CbAssumption
<1>3. /\ cbSession \in CbSessionType /\ cbSession.node \in CbNodeIds
      /\ cbSession.waiting \in BOOLEAN /\ cbSession.asked \in 0..CbMaxMessages
      /\ cbSession.live \in BOOLEAN /\ cbNodes \in SUBSET CbRows
  BY DEF CbInv, CbTypeInv, CbSessionType
<1>4. \/ cbWork' = cbWork /\ cbSession' = cbSession
      \/ /\ \E new \in CbWorkType : Taken(new)
         /\ cbSession' \in CbSessionType
         /\ cbSession'.waiting = TRUE => cbSession' = cbSession
         /\ cbSession'.live = TRUE => CbNodeOK(cbSession'.node, made)
  <2>1. CASE cbSession.live = TRUE
    <3> DEFINE new == [pc |-> "run", msg |-> job.msg, tries |-> job.tries + 1,
                       node |-> cbSession.node, input |-> cbSession.waiting,
                       asked |-> cbSession.asked, said |-> <<>>, rows |-> cbNodes,
                       transfer |-> FALSE]
    <3>1. new \in CbWorkType
      BY <1>2, <1>3 DEF CbWorkType
    <3>2. cbWork' = [cbWork EXCEPT ![w] = new] /\ cbSession' = cbSession
      BY <2>1 DEF CbTake, CbIdle, CbListens
    <3>3. CbNodeOK(cbSession.node, made)
      BY <2>1 DEF CbInv, CbSessionInv
    <3>4. Taken(new)
      BY <3>2, <3>3
    <3> QED BY <1>3, <3>1, <3>2, <3>3, <3>4
  <2>2. CASE cbSession.live = FALSE /\ cbActive /\ cbNodes # {}
    <3> DEFINE place == CbOpening(cbNodes)
               session == [CbNoSession EXCEPT !.node = place, !.live = TRUE]
               new == [pc |-> "run", msg |-> job.msg, tries |-> job.tries + 1,
                       node |-> place, input |-> FALSE,
                       asked |-> 0, said |-> <<>>, rows |-> cbNodes,
                       transfer |-> FALSE]
    <3>1. cbSession' = session /\ cbWork' = [cbWork EXCEPT ![w] = new]
      BY <2>2, ZenonT(30) DEF CbTake, CbIdle, CbListens, CbNoSession
    <3>2. CbNodeOK(place, made)
      BY <2>2, CbOpens
    <3>3. place \in CbNodeIds
      BY <3>2 DEF CbNodeOK, CbNodeIds
    <3> HIDE DEF place
    <3>4. new \in CbWorkType
      BY <1>2, <1>3, <3>3, CbAssumption DEF CbWorkType
    <3>5. session \in CbSessionType /\ session.node = place /\ session.waiting = FALSE
      <4>1. CbNoSession \in CbSessionType /\ CbNoSession.waiting = FALSE
        BY CbAssumption DEF CbNoSession, CbSessionType, CbNodeIds
      <4> QED BY <3>3, <4>1 DEF CbSessionType
    <3>6. Taken(new)
      BY <3>1, <3>2
    <3> HIDE DEF session, new
    <3> QED BY <3>1, <3>2, <3>4, <3>5, <3>6
  <2>3. CASE cbSession.live = FALSE /\ ~(cbActive /\ cbNodes # {})
    BY <2>3 DEF CbTake
  <2> QED BY <1>3, <2>1, <2>2, <2>3
<1>5. CbJobInv'
  BY <1>1 DEF CbInv, CbJobInv
<1>6. cbJobs' \subseteq CbJobType
  BY <1>1 DEF CbInv, CbTypeInv
<1>7. CASE cbWork' = cbWork /\ cbSession' = cbSession
  <2>1. CbTypeInv'
    BY <1>1, <1>6, <1>7 DEF CbInv, CbTypeInv
  <2>2. CbCalmInv'
    BY <1>1, <1>7 DEF CbInv, CbCalmInv, CbOne, CbAsked, CbAnswers
  <2> QED BY <1>1, <1>5, <1>7, <2>1, <2>2, CbFrame DEF CbInv
<1>8. CASE /\ \E new \in CbWorkType : Taken(new)
           /\ cbSession' \in CbSessionType
           /\ cbSession'.waiting = TRUE => cbSession' = cbSession
           /\ cbSession'.live = TRUE => CbNodeOK(cbSession'.node, made)
  <2>1. PICK new \in CbWorkType : Taken(new)
    BY <1>8
  <2>2. /\ cbWork' \in [CbWorkers -> CbWorkType] /\ cbWork'[w] = new
        /\ \A v \in CbWorkers : v # w => cbWork'[v] = cbWork[v]
    BY <2>1 DEF CbInv, CbTypeInv
  <2>3. CbTypeInv'
    BY <1>1, <1>6, <1>8, <2>2 DEF CbInv, CbTypeInv
  <2>4. CbSessionInv'
    BY <1>1, <1>8 DEF CbSessionInv
  <2>5. CbWorkOK(new, made, cbSent)
    <3>1. CbRowsOK(cbNodes, made) /\ \A r \in cbNodes : r.id[1] = made /\ r \in CbRows
      BY DEF CbInv, CbFlowInv, CbTypeInv
    <3>2. ASSUME NEW r \in cbNodes, r.id = new.node
          PROVE  r.id[2] = 1
      <4>1. made \in Nat /\ r.id[1] = made
        BY <3>1, CbAssumption DEF CbInv, CbTypeInv
      <4>2. CbNodeOK(r.id, made)
        BY <2>1, <3>2
      <4> QED BY <4>1, <4>2 DEF CbNodeOK
    <3> QED BY <1>2, <2>1, <3>1, <3>2 DEF CbWorkOK
  <2>6. CbWorkInv'
    BY <1>1, <2>2, <2>5 DEF CbInv, CbWorkInv
  <2>7. CbCalmInv'
    <3> SUFFICES ASSUME cbEvents' = {} PROVE (CbOne /\ CbAsked /\ CbAnswers /\ cbMisread = FALSE)'
      BY DEF CbCalmInv
    <3>1. CbOne /\ CbAsked /\ CbAnswers /\ cbMisread = FALSE
      BY <1>1 DEF CbInv, CbCalmInv
    <3>2. cbJobs' = {} /\ \A v \in CbWorkers : v # w => cbWork'[v].pc = "idle"
      BY <1>1, <2>2, <3>1 DEF CbOne
    <3>3. CbOne'
      BY <3>2 DEF CbOne
    <3>4. CbAsked'
      BY <1>1, <1>8, <3>1, <3>2 DEF CbAsked
    <3>5. CbAnswers'
      <4>1. new.input = TRUE => new.asked >= 1 /\ new.msg > new.asked
        BY <1>1, <2>1, <3>1, CbAssumption DEF CbAsked, CbInv, CbTypeInv
      <4> QED BY <2>2, <3>2, <4>1 DEF CbAnswers
    <3> QED BY <1>1, <3>1, <3>3, <3>4, <3>5
  <2>8. CbOwedInv'
    <3>1. cbWork[w].transfer = FALSE
      BY <1>1 DEF CbInv, CbWorkInv, CbWorkOK
    <3> QED BY <1>1, <2>2, <3>1 DEF CbInv, CbOwedInv
  <2> QED BY <1>1, <1>5, <2>3, <2>4, <2>6, <2>7, <2>8, CbFrame DEF CbInv
<1> QED BY <1>4, <1>7, <1>8

LEMMA CbVisitKeeps ==
  ASSUME CbInv, NEW w \in CbWorkers, CbVisit(w)
  PROVE  CbInv'
<1> DEFINE made == cbSave.made
           work == cbWork[w]
           here == {r \in work.rows : r.id = work.node}
           Turned(new) ==
             /\ new.pc \in {"run", "say"} /\ new.msg = work.msg /\ new.rows = work.rows
             /\ new.asked = work.asked /\ (new.input = TRUE => work.input = TRUE)
             /\ new.pc = "run" => new.transfer = FALSE /\ \A r \in new.rows : r.id # new.node
             /\ cbOwed' = TRUE => (cbOwed = TRUE) \/ new.transfer = TRUE
             /\ cbWork' = [cbWork EXCEPT ![w] = new]
           Moved ==
             /\ cbSession' \in CbSessionType
             /\ cbSession'.waiting = TRUE => cbSession' = cbSession \/ cbSession'.asked = cbSent
             /\ cbSession'.live = TRUE => CbNodeOK(cbSession'.node, made)
           Heard == cbMisread' = TRUE =>
             (cbMisread = TRUE) \/ (work.input = TRUE /\ (work.asked = 0 \/ work.msg <= work.asked))
<1>1. /\ cbNodes' = cbNodes /\ cbSave' = cbSave /\ cbActive' = cbActive /\ cbStatus' = cbStatus
      /\ cbJobs' = cbJobs /\ cbSent' = cbSent /\ cbSpoke' = cbSpoke /\ cbEvents' = cbEvents
      /\ work.pc = "run"
  BY DEF CbVisit
<1>2. /\ work \in CbWorkType /\ CbWorkOK(work, made, cbSent) /\ work.rows \in SUBSET CbRows
      /\ work.transfer = FALSE /\ work.said \in {<<>>, <<1>>} /\ work.msg \in Nat
      /\ work.tries \in 0..CbAttempts /\ work.node \in CbNodeIds /\ work.input \in BOOLEAN
      /\ work.asked \in 0..CbMaxMessages
  BY <1>1 DEF CbInv, CbTypeInv, CbWorkType, CbWorkInv, CbWorkOK
<1>3. /\ cbSession \in CbSessionType /\ cbSession.node \in CbNodeIds
      /\ cbSession.waiting \in BOOLEAN /\ cbSession.asked \in 0..CbMaxMessages
      /\ cbSession.live \in BOOLEAN /\ cbOwed \in BOOLEAN /\ cbMisread \in BOOLEAN
      /\ cbSent \in 0..CbMaxMessages
  BY DEF CbInv, CbTypeInv, CbSessionType
<1>4. CbNoSession \in CbSessionType /\ CbNoSession.live = FALSE /\ CbNoSession.waiting = FALSE
  BY CbAssumption DEF CbNoSession, CbSessionType, CbNodeIds
<1>5. cbSession.live = TRUE => CbNodeOK(cbSession.node, made)
  BY DEF CbInv, CbSessionInv
<1>6. /\ \E new \in CbWorkType : Turned(new)
      /\ Moved
      /\ Heard
      /\ cbMisread' \in BOOLEAN /\ cbOwed' \in BOOLEAN
  <2>1. CASE /\ cbSession' = CbNoSession
             /\ cbWork' = [cbWork EXCEPT ![w] = [work EXCEPT !.pc = "say", !.said = @ \o <<>>]]
             /\ UNCHANGED <<cbMisread, cbOwed>>
    <3> DEFINE new == [work EXCEPT !.pc = "say", !.said = work.said]
    <3>1. work.said \o <<>> = work.said
      BY <1>2
    <3>2. cbWork' = [cbWork EXCEPT ![w] = new]
      BY <2>1, <3>1
    <3>3. /\ new \in CbWorkType /\ new.pc = "say" /\ new.msg = work.msg /\ new.rows = work.rows
          /\ new.asked = work.asked /\ new.input = work.input
      BY <1>2 DEF CbWorkType
    <3> HIDE DEF new
    <3>4. Turned(new)
      BY <2>1, <3>2, <3>3
    <3>5. Moved /\ Heard
      BY <2>1, <1>4
    <3> HIDE DEF Turned, Moved, Heard, work
    <3> QED BY <1>3, <2>1, <3>3, <3>4, <3>5
  <2>2. ASSUME NEW r \in here, NEW valid \in BOOLEAN,
               r.kind # "START",
               cbMisread' = (cbMisread \/ (/\ r.kind = "MENU"
                                          /\ work.input
                                          /\ \/ work.asked = 0
                                             \/ work.msg <= work.asked)),
               cbOwed' = (cbOwed \/ r.kind = "TRANSFER")
        PROVE  /\ Heard /\ cbMisread' \in BOOLEAN /\ cbOwed' \in BOOLEAN
               /\ r \in CbRows /\ r.id = work.node /\ r.id \in CbIds /\ r.id[2] = 1
               /\ work.said = <<>> /\ r.id[1] <= made /\ r.id[1] \in Nat /\ made \in Nat
               /\ r.next = CbNoNode \/ (r.next \in CbIds /\ r.next[1] < r.id[1])
               /\ \A q \in work.rows : q.id[1] = r.id[1]
               /\ \A asks \in BOOLEAN : CbSays(r, asks) \in {<<>>, <<1>>}
    <3>1. Heard
      BY <1>3, <2>2
    <3>2. cbMisread' \in BOOLEAN
      BY <2>2
    <3>3. cbOwed' \in BOOLEAN
      BY <2>2
    <3>4. r \in work.rows /\ r.id = work.node /\ r \in CbRows
      BY <1>2
    <3>5. r.id \in CbIds /\ r.id[1] \in Nat /\ made \in Nat
      BY <3>4, CbAssumption DEF CbRows, CbIds, CbInv, CbTypeInv
    <3>6. r.id[2] = 1 /\ work.said = <<>>
      BY <1>1, <1>2, <3>4 DEF CbWorkOK
    <3>7. CbRowOK(r, made) /\ \A q \in work.rows : q.id[1] = r.id[1]
      BY <1>2, <3>4 DEF CbWorkOK, CbRowsOK
    <3>8. r.id[1] <= made /\ (r.next = CbNoNode \/ (r.next \in CbIds /\ r.next[1] < r.id[1]))
      BY <3>7 DEF CbRowOK
    <3>9. \A asks \in BOOLEAN : CbSays(r, asks) \in {<<>>, <<1>>}
      BY <3>6 DEF CbSays
    <3> QED BY <3>1, <3>2, <3>3, <3>4, <3>5, <3>6, <3>7, <3>8, <3>9
  <2>3. ASSUME NEW r \in here, NEW valid \in BOOLEAN,
               r.kind # "START",
               cbMisread' = (cbMisread \/ (/\ r.kind = "MENU"
                                          /\ work.input
                                          /\ \/ work.asked = 0
                                             \/ work.msg <= work.asked)),
               cbOwed' = (cbOwed \/ r.kind = "TRANSFER"),
               CbAsks(r.kind, work.input, valid),
               cbSession' = (IF ~cbSession.live THEN cbSession
                             ELSE [cbSession EXCEPT !.node = r.id, !.waiting = TRUE,
                                                    !.asked = cbSent]),
               cbWork' = [cbWork EXCEPT ![w] =
                 [work EXCEPT !.pc = "say", !.said = @ \o CbSays(r, TRUE)]]
        PROVE  Moved /\ \E new \in CbWorkType : Turned(new)
    <3> DEFINE says == CbSays(r, TRUE)
               new == [work EXCEPT !.pc = "say", !.said = says]
               session == [cbSession EXCEPT !.node = r.id, !.waiting = TRUE, !.asked = cbSent]
    <3>1. says \in {<<>>, <<1>>} /\ work.said = <<>> /\ r.id \in CbIds /\ r.id[2] = 1
      BY <2>2, <2>3
    <3>2. r.kind = "MENU"
      BY <2>3 DEF CbAsks
    <3> HIDE DEF says
    <3>3. cbWork' = [cbWork EXCEPT ![w] = new]
      <4>1. work.said \o says = says
        BY <3>1
      <4> QED BY <2>3, <4>1 DEF says
    <3>4. /\ new \in CbWorkType /\ new.pc = "say" /\ new.msg = work.msg /\ new.rows = work.rows
          /\ new.asked = work.asked /\ new.input = work.input
      BY <1>2, <3>1 DEF CbWorkType
    <3> HIDE DEF new
    <3>5. cbOwed' = cbOwed
      BY <2>3, <3>2, <1>3
    <3>6. Turned(new)
      BY <3>3, <3>4, <3>5
    <3>7. /\ session \in CbSessionType /\ session.node = r.id /\ session.asked = cbSent
      BY <3>1, <1>3 DEF CbSessionType, CbNodeIds
    <3>8. cbSession' = cbSession \/ cbSession' = session
      BY <2>3
    <3> HIDE DEF session
    <3>9. CbNodeOK(r.id, made)
      BY <3>1 DEF CbNodeOK
    <3>10. Moved
      BY <1>3, <1>5, <3>7, <3>8, <3>9
    <3> QED BY <3>4, <3>6, <3>10
  <2>4. ASSUME NEW r \in here, NEW valid \in BOOLEAN,
               r.kind # "START",
               cbMisread' = (cbMisread \/ (/\ r.kind = "MENU"
                                          /\ work.input
                                          /\ \/ work.asked = 0
                                             \/ work.msg <= work.asked)),
               cbOwed' = (cbOwed \/ r.kind = "TRANSFER"),
               cbSession' = CbNoSession,
               cbWork' = [cbWork EXCEPT ![w] =
                 [[work EXCEPT !.pc = "say", !.said = @ \o CbSays(r, FALSE)]
                    EXCEPT !.transfer = CbTransfers(r.kind)]]
        PROVE  Moved /\ \E new \in CbWorkType : Turned(new)
    <3> DEFINE says == CbSays(r, FALSE)
               moves == CbTransfers(r.kind)
               new == [work EXCEPT !.pc = "say", !.said = says, !.transfer = moves]
    <3>1. says \in {<<>>, <<1>>} /\ work.said = <<>>
      BY <2>2, <2>4
    <3>2. moves = (r.kind = "TRANSFER") /\ moves \in BOOLEAN
      BY DEF CbTransfers
    <3> HIDE DEF says, moves
    <3>3. cbWork' = [cbWork EXCEPT ![w] = new]
      <4>1. work.said \o says = says
        BY <3>1
      <4>2. [[work EXCEPT !.pc = "say", !.said = @ \o says] EXCEPT !.transfer = moves] = new
        BY <1>2, <4>1 DEF CbWorkType
      <4> HIDE DEF new
      <4> QED BY <2>4, <4>2 DEF says, moves
    <3>4. /\ new \in CbWorkType /\ new.pc = "say" /\ new.msg = work.msg /\ new.rows = work.rows
          /\ new.asked = work.asked /\ new.input = work.input /\ new.transfer = moves
      BY <1>2, <3>1, <3>2 DEF CbWorkType
    <3> HIDE DEF new
    <3>5. cbOwed' = TRUE => (cbOwed = TRUE) \/ moves = TRUE
      BY <2>4, <3>2, <1>3
    <3>6. Turned(new)
      BY <3>3, <3>4, <3>5
    <3>7. Moved
      BY <2>4, <1>4
    <3> QED BY <3>4, <3>6, <3>7
  <2>5. ASSUME NEW r \in here, NEW valid \in BOOLEAN,
               r.kind # "START",
               cbMisread' = (cbMisread \/ (/\ r.kind = "MENU"
                                          /\ work.input
                                          /\ \/ work.asked = 0
                                             \/ work.msg <= work.asked)),
               cbOwed' = (cbOwed \/ r.kind = "TRANSFER"),
               ~CbTransfers(r.kind), r.next # CbNoNode,
               cbSession' = [cbSession EXCEPT !.node = r.next, !.waiting = FALSE],
               cbWork' = [cbWork EXCEPT ![w] =
                 [work EXCEPT !.node = r.next, !.input = FALSE, !.said = @ \o CbSays(r, FALSE)]]
        PROVE  Moved /\ \E new \in CbWorkType : Turned(new)
    <3> DEFINE says == CbSays(r, FALSE)
               place == r.next
               new == [work EXCEPT !.node = place, !.input = FALSE, !.said = says]
               session == [cbSession EXCEPT !.node = place, !.waiting = FALSE]
    <3>1. /\ says \in {<<>>, <<1>>} /\ work.said = <<>> /\ place \in CbIds /\ place \in CbNodeIds
          /\ place[1] < r.id[1] /\ r.id[1] <= made /\ r.id[1] \in Nat /\ made \in Nat
          /\ \A q \in work.rows : q.id[1] = r.id[1]
      BY <2>2, <2>5 DEF CbNodeIds
    <3>2. place[1] \in Nat
      BY <3>1, CbAssumption DEF CbIds
    <3> HIDE DEF says, place
    <3>3. cbWork' = [cbWork EXCEPT ![w] = new]
      <4>1. work.said \o says = says
        BY <3>1
      <4> QED BY <2>5, <4>1 DEF says, place
    <3>4. /\ new \in CbWorkType /\ new.pc = work.pc /\ new.msg = work.msg /\ new.rows = work.rows
          /\ new.asked = work.asked /\ new.input = FALSE /\ new.node = place
          /\ new.transfer = work.transfer
      BY <1>2, <3>1 DEF CbWorkType
    <3> HIDE DEF new
    <3>5. cbOwed' = cbOwed
      BY <2>5, <1>3 DEF CbTransfers
    <3>6. \A q \in work.rows : q.id # place
      BY <3>1, <3>2
    <3>7. Turned(new)
      BY <1>1, <1>2, <3>3, <3>4, <3>5, <3>6
    <3>8. CbNodeOK(place, made)
      BY <3>1, <3>2 DEF CbNodeOK
    <3>9. session \in CbSessionType /\ session.node = place /\ session.waiting = FALSE
      BY <3>1, <1>3 DEF CbSessionType
    <3>10. cbSession' = session
      BY <2>5 DEF place
    <3> HIDE DEF session
    <3>11. Moved
      BY <3>8, <3>9, <3>10
    <3> QED BY <3>4, <3>7, <3>11
  <2>6. CASE \E r \in here, valid \in BOOLEAN :
          LET asks == CbAsks(r.kind, work.input, valid) IN
          /\ r.kind # "START"
          /\ cbMisread' = (cbMisread \/ (/\ r.kind = "MENU"
                                          /\ work.input
                                          /\ \/ work.asked = 0
                                             \/ work.msg <= work.asked))
          /\ cbOwed' = (cbOwed \/ r.kind = "TRANSFER")
          /\ IF asks
             THEN /\ cbSession' = IF ~cbSession.live THEN cbSession
                       ELSE [cbSession EXCEPT !.node = r.id, !.waiting = TRUE,
                                              !.asked = cbSent]
                  /\ cbWork' = [cbWork EXCEPT ![w] =
                       [work EXCEPT !.pc = "say", !.said = @ \o CbSays(r, TRUE)]]
             ELSE IF CbTransfers(r.kind) \/ r.next = CbNoNode
             THEN /\ cbSession' = CbNoSession
                  /\ cbWork' = [cbWork EXCEPT ![w] =
                       [[work EXCEPT !.pc = "say", !.said = @ \o CbSays(r, FALSE)]
                         EXCEPT !.transfer = CbTransfers(r.kind)]]
             ELSE /\ cbSession.live
                  /\ cbSession' = [cbSession EXCEPT !.node = r.next, !.waiting = FALSE]
                  /\ cbWork' = [cbWork EXCEPT ![w] =
                       [work EXCEPT !.node = r.next, !.input = FALSE,
                                    !.said = @ \o CbSays(r, FALSE)]]
    <3> HIDE DEF Moved, Heard, Turned, work, here
    <3> QED BY <2>2, <2>3, <2>4, <2>5, <2>6
  <2> QED BY <2>1, <2>6 DEF CbVisit
<1>7. PICK new \in CbWorkType : Turned(new)
  BY <1>6
<1>8. /\ cbWork' \in [CbWorkers -> CbWorkType] /\ cbWork'[w] = new
      /\ \A v \in CbWorkers : v # w => cbWork'[v] = cbWork[v]
  BY <1>7 DEF CbInv, CbTypeInv
<1>9. CbTypeInv'
  BY <1>1, <1>6, <1>8 DEF CbInv, CbTypeInv
<1>10. CbSessionInv'
  BY <1>1, <1>6 DEF CbSessionInv
<1>11. CbWorkInv'
  <2>1. CbWorkOK(new, made, cbSent)
    BY <1>1, <1>2, <1>7 DEF CbWorkOK
  <2> HIDE DEF Turned, Moved, Heard
  <2> QED BY <1>1, <1>8, <2>1 DEF CbInv, CbWorkInv
<1>12. CbCalmInv'
  <2> SUFFICES ASSUME cbEvents' = {} PROVE (CbOne /\ CbAsked /\ CbAnswers /\ cbMisread = FALSE)'
    BY DEF CbCalmInv
  <2>1. CbOne /\ CbAsked /\ CbAnswers /\ cbMisread = FALSE
    BY <1>1 DEF CbInv, CbCalmInv
  <2>2. cbJobs' = {} /\ \A v \in CbWorkers : v # w => cbWork'[v].pc = "idle"
    BY <1>1, <1>8, <2>1 DEF CbOne
  <2>3. CbOne'
    BY <2>2 DEF CbOne
  <2>4. cbSent \in Nat /\ 1 <= cbSent
    BY <1>1, <1>2, <1>3, CbAssumption DEF CbWorkOK
  <2>5. CbAsked'
    BY <1>1, <1>6, <2>1, <2>2, <2>4 DEF CbAsked
  <2>6. work.input = TRUE => work.asked >= 1 /\ work.msg > work.asked
    BY <1>1, <2>1 DEF CbAnswers
  <2>7. CbAnswers'
    BY <1>7, <1>8, <2>2, <2>6 DEF CbAnswers
  <2>8. cbMisread' = FALSE
    BY <1>2, <1>6, <2>1, <2>6, CbAssumption
  <2> QED BY <2>3, <2>5, <2>7, <2>8
<1>13. CbOwedInv'
  BY <1>1, <1>2, <1>6, <1>7, <1>8 DEF CbInv, CbOwedInv
<1> QED BY <1>1, <1>9, <1>10, <1>11, <1>12, <1>13, CbFrame DEF CbInv

LEMMA CbSayKeeps ==
  ASSUME CbInv, NEW w \in CbWorkers, CbSay(w)
  PROVE  CbInv'
<1> DEFINE work == cbWork[w]
           new == [work EXCEPT !.said = <<>>]
<1>1. /\ cbNodes' = cbNodes /\ cbSave' = cbSave /\ cbActive' = cbActive /\ cbStatus' = cbStatus
      /\ cbSession' = cbSession /\ cbJobs' = cbJobs /\ cbSent' = cbSent
      /\ cbMisread' = cbMisread /\ cbOwed' = cbOwed /\ cbEvents' = cbEvents
      /\ work.pc = "say" /\ work.said # <<>>
  BY DEF CbSay
<1>2. /\ work \in CbWorkType /\ work.said = <<1>> /\ CbWorkOK(work, cbSave.made, cbSent)
  BY <1>1 DEF CbInv, CbTypeInv, CbWorkType, CbWorkInv
<1>3. Head(work.said) = 1 /\ Tail(work.said) = <<>>
  BY <1>2
<1>4. /\ new \in CbWorkType /\ new.pc = "say" /\ new.msg = work.msg /\ new.rows = work.rows
      /\ new.asked = work.asked /\ new.input = work.input /\ new.transfer = work.transfer
  BY <1>1, <1>2 DEF CbWorkType
<1>5. cbWork' = [cbWork EXCEPT ![w] = new] /\ cbSpoke' = cbSpoke \union {1}
  BY <1>3 DEF CbSay
<1> HIDE DEF new
<1>6. /\ cbWork' \in [CbWorkers -> CbWorkType] /\ cbWork'[w] = new
      /\ \A v \in CbWorkers : v # w => cbWork'[v] = cbWork[v]
  BY <1>4, <1>5 DEF CbInv, CbTypeInv
<1>7. CbTypeInv'
  BY <1>1, <1>5, <1>6 DEF CbInv, CbTypeInv
<1>8. CbWorkInv'
  <2>1. CbWorkOK(new, cbSave.made, cbSent)
    BY <1>1, <1>2, <1>4 DEF CbWorkOK
  <2> QED BY <1>1, <1>6, <2>1 DEF CbInv, CbWorkInv
<1>9. /\ \A v \in CbWorkers : cbWork'[v].pc = cbWork[v].pc
      /\ \A v \in CbWorkers : cbWork'[v].msg = cbWork[v].msg
      /\ \A v \in CbWorkers : cbWork'[v].input = cbWork[v].input
      /\ \A v \in CbWorkers : cbWork'[v].asked = cbWork[v].asked
      /\ \A v \in CbWorkers : cbWork'[v].transfer = cbWork[v].transfer
  BY <1>1, <1>4, <1>6
<1>10. CbCalmInv'
  BY <1>1, <1>9 DEF CbInv, CbCalmInv, CbOne, CbAsked, CbAnswers
<1>11. CbOwedInv'
  BY <1>1, <1>9 DEF CbInv, CbOwedInv
<1> QED BY <1>1, <1>7, <1>8, <1>10, <1>11, CbFrame DEF CbInv

LEMMA CbEndKeeps ==
  ASSUME CbInv, NEW w \in CbWorkers, CbEnd(w)
  PROVE  CbInv'
<1>1. /\ cbNodes' = cbNodes /\ cbSave' = cbSave /\ cbActive' = cbActive
      /\ cbSession' = cbSession /\ cbJobs' = cbJobs /\ cbSent' = cbSent
      /\ cbMisread' = cbMisread /\ cbSpoke' = cbSpoke /\ cbEvents' = cbEvents
      /\ cbWork' = [cbWork EXCEPT ![w] = CbIdle]
      /\ cbOwed' = (cbOwed /\ ~cbWork[w].transfer)
  BY DEF CbEnd
<1>2. CbIdle \in CbWorkType /\ CbIdle.pc = "idle" /\ CbIdle.rows = {} /\ CbIdle.transfer = FALSE
  BY CbAssumption DEF CbIdle, CbWorkType, CbNodeIds
<1>3. /\ cbWork' \in [CbWorkers -> CbWorkType] /\ cbWork'[w] = CbIdle
      /\ \A v \in CbWorkers : v # w => cbWork'[v] = cbWork[v]
  BY <1>1, <1>2 DEF CbInv, CbTypeInv
<1>4. cbStatus' \in {"PENDING", "BOT", "OPEN", "CLOSED"}
  BY DEF CbEnd, CbInv, CbTypeInv
<1>5. cbOwed' \in BOOLEAN /\ (cbOwed' = TRUE => (cbOwed = TRUE) /\ cbWork[w].transfer # TRUE)
  BY <1>1 DEF CbInv, CbTypeInv
<1>6. CbTypeInv'
  BY <1>1, <1>3, <1>4, <1>5 DEF CbInv, CbTypeInv
<1>7. CbWorkInv'
  <2>1. CbWorkOK(CbIdle, cbSave.made, cbSent)
    BY <1>2 DEF CbWorkOK, CbRowsOK
  <2> QED BY <1>1, <1>3, <2>1 DEF CbInv, CbWorkInv
<1>8. CbCalmInv'
  BY <1>1, <1>2, <1>3 DEF CbInv, CbCalmInv, CbOne, CbAsked, CbAnswers
<1>9. CbOwedInv'
  BY <1>1, <1>3, <1>5 DEF CbInv, CbOwedInv
<1> QED BY <1>1, <1>6, <1>7, <1>8, <1>9, CbFrame DEF CbInv

LEMMA CbFailKeeps ==
  ASSUME CbInv, NEW w \in CbWorkers, CbFail(w)
  PROVE  CbInv'
<1> DEFINE work == cbWork[w]
<1>1. /\ cbNodes' = cbNodes /\ cbSave' = cbSave /\ cbActive' = cbActive /\ cbStatus' = cbStatus
      /\ cbSession' = cbSession /\ cbSent' = cbSent /\ cbSpoke' = cbSpoke
      /\ cbMisread' = cbMisread /\ cbOwed' = cbOwed
      /\ cbWork' = [cbWork EXCEPT ![w] = CbIdle] /\ work.pc # "idle"
      /\ cbEvents' = cbEvents \union {"failure"}
      /\ cbJobs' = cbJobs \union CbRetry(w)
  BY DEF CbFail
<1>2. CbIdle \in CbWorkType /\ CbIdle.pc = "idle" /\ CbIdle.rows = {} /\ CbIdle.transfer = FALSE
  BY CbAssumption DEF CbIdle, CbWorkType, CbNodeIds
<1>3. /\ cbWork' \in [CbWorkers -> CbWorkType] /\ cbWork'[w] = CbIdle
      /\ \A v \in CbWorkers : v # w => cbWork'[v] = cbWork[v]
  BY <1>1, <1>2 DEF CbInv, CbTypeInv
<1>4. \A j \in CbRetry(w) : j \in CbJobType /\ j.tries < CbAttempts /\ j.msg <= cbSent
  <2>1. work \in CbWorkType /\ work.msg \in 1..cbSent
    BY <1>1 DEF CbInv, CbTypeInv, CbWorkInv, CbWorkOK
  <2>2. cbSent \in 0..CbMaxMessages
    BY DEF CbInv, CbTypeInv
  <2>3. work.msg \in 1..CbMaxMessages /\ work.tries \in 0..CbAttempts /\ work.msg <= cbSent
    BY <2>1, <2>2, CbAssumption DEF CbWorkType
  <2> QED BY <2>3 DEF CbRetry, CbJobType
<1>5. CbTypeInv'
  BY <1>1, <1>3, <1>4 DEF CbInv, CbTypeInv
<1>6. CbJobInv'
  BY <1>1, <1>4 DEF CbInv, CbJobInv
<1>7. CbWorkInv'
  <2>1. CbWorkOK(CbIdle, cbSave.made, cbSent)
    BY <1>2 DEF CbWorkOK, CbRowsOK
  <2> QED BY <1>1, <1>3, <2>1 DEF CbInv, CbWorkInv
<1>8. CbCalmInv' /\ CbOwedInv'
  BY <1>1 DEF CbCalmInv, CbOwedInv
<1> QED BY <1>1, <1>5, <1>6, <1>7, <1>8, CbFrame DEF CbInv

LEMMA CbStep == CbInv /\ [CbNext]_cbVars => CbInv'
<1> SUFFICES ASSUME CbInv, [CbNext]_cbVars PROVE CbInv'
  OBVIOUS
<1>1. ASSUME NEW d \in CbDrawings, CbDelete(d) PROVE CbInv'
  BY <1>1, CbDeleteKeeps
<1>2. CASE CbCreate
  BY <1>2, CbCreateKeeps
<1>3. CASE CbSwitch \/ CbHuman \/ UNCHANGED cbVars
  BY <1>3, CbSwitchKeeps
<1>4. CASE CbReceive
  BY <1>4, CbReceiveKeeps
<1>5. CASE CbExpire
  BY <1>5, CbExpireKeeps
<1>6. ASSUME NEW w \in CbWorkers, NEW job \in cbJobs, CbTake(w, job) PROVE CbInv'
  BY <1>6, CbTakeKeeps
<1>7. ASSUME NEW w \in CbWorkers, CbVisit(w) PROVE CbInv'
  BY <1>7, CbVisitKeeps
<1>8. ASSUME NEW w \in CbWorkers, CbSay(w) PROVE CbInv'
  BY <1>8, CbSayKeeps
<1>9. ASSUME NEW w \in CbWorkers, CbEnd(w) PROVE CbInv'
  BY <1>9, CbEndKeeps
<1>10. ASSUME NEW w \in CbWorkers, CbFail(w) PROVE CbInv'
  BY <1>10, CbFailKeeps
<1> QED BY <1>1, <1>2, <1>3, <1>4, <1>5, <1>6, <1>7, <1>8, <1>9, <1>10 DEF CbNext

LEMMA CbInvSafe == CbInv => CbSafe /\ CbTypeOK
<1> SUFFICES ASSUME CbInv PROVE CbSafe /\ CbTypeOK
  OBVIOUS
<1>1. CbOnlyFirstNodeSpeaks
  BY DEF CbInv, CbTypeInv, CbOnlyFirstNodeSpeaks
<1>2. CbAnswerFollowsQuestion
  BY DEF CbInv, CbTypeInv, CbCalmInv, CbAnswerFollowsQuestion
<1>3. CbTransferIsPursued
  BY DEF CbInv, CbTypeInv, CbOwedInv, CbTransferIsPursued
<1>4. ASSUME NEW w \in CbWorkers
      PROVE  /\ cbWork[w].pc \in {"idle", "run", "say"}
             /\ cbWork[w].tries \in 0..CbAttempts
             /\ cbWork[w].node \in CbNodeIds
             /\ cbWork[w].rows \subseteq CbRows
             /\ Len(cbWork[w].said) <= 2
  <2>1. cbWork[w] \in CbWorkType
    BY DEF CbInv, CbTypeInv
  <2>2. cbWork[w].said = <<>> \/ cbWork[w].said = <<1>>
    BY <2>1 DEF CbWorkType
  <2>3. Len(cbWork[w].said) <= 2
    <3>1. Len(<<>>) <= 2 /\ Len(<<1>>) <= 2
      OBVIOUS
    <3> QED BY <2>2, <3>1
  <2> QED BY <2>1, <2>3 DEF CbWorkType
<1>5. CbTypeOK
  BY <1>4 DEF CbInv, CbTypeInv, CbTypeOK, CbSessionType
<1> QED BY <1>1, <1>2, <1>3, <1>5 DEF CbSafe

\* The sessions, the jobs in flight and what the bot said agree in every state that is reached.
THEOREM CbInvariant == CbSpec => []CbInv
<1>1. CbInit => CbInv
  BY CbStarts
<1>2. CbInv /\ [CbNext]_cbVars => CbInv'
  BY CbStep
<1> QED BY <1>1, <1>2, PTL DEF CbSpec

\* Only a first node speaks, an answer is taken for one that came before its question only in a
\* burst or after a failure, and a transfer is pursued, for any slots, attempts and messages.
THEOREM CbSafeCorrect == CbSpec => []CbSafe
BY CbInvariant, CbInvSafe, PTL

\* The sessions, the jobs and the history of the bot keep their types.
THEOREM CbTypeCorrect == CbSpec => []CbTypeOK
BY CbInvariant, CbInvSafe, PTL

-----------------------------------------------------------------------------
(* Webhook routing: any channels, payloads and edits *)

WrAllIds == UNION {WrIds[t] : t \in DOMAIN WrIds}
WrCallType == [stage : {"idle", "resolve", "queue"}, events : SUBSET WrChannels,
               ids : SUBSET WrAllIds, todo : SUBSET WrChannels, matched : SUBSET WrMatches,
               changed : BOOLEAN]

WrTypeInv ==
  /\ wrType \in DOMAIN WrIds
  /\ wrRow \in [WrChannels -> {"none", "live", "gone"}]
  /\ wrConfig \in [WrChannels -> SUBSET WrIds[wrType]]
  /\ wrSeen \in [WrChannels -> SUBSET WrIds[wrType]]
  /\ wrEnrich \in [WrChannels -> {"no", "read", "write", "done"}]
  /\ wrCall \in WrCallType
  /\ \A q \in wrQueued : q.event \in WrChannels /\ q.match \in WrMatches
  /\ wrPayloads \in 0..WrMaxPayloads /\ wrEdits \in 0..WrMaxEdits

\* The payload that is being handled: while no channel changes, an event that was looked for
\* has found its own channel, or one that tells no accounts apart.
WrFound(e) ==
  wrRow[e] = "live" /\ WrTells(wrConfig[e]) \intersect wrCall.ids # {} =>
    \E m \in wrCall.matched : m.channel = e \/ WrTells(m.config) = {}

WrHandling ==
  wrCall.stage # "idle" =>
    /\ wrCall.ids \in WrCarried[wrType]
    /\ wrCall.stage = "queue" => wrCall.todo = {}
    /\ wrType = "ZAPPFY" => \E e \in WrChannels : /\ wrCall.events = {e} /\ wrCall.todo \subseteq {e}
                                                  /\ \A m \in wrCall.matched : m.channel = e
    /\ ~wrCall.changed =>
         /\ \A m \in wrCall.matched : m.config = wrConfig[m.channel]
         /\ \A e \in wrCall.events \ wrCall.todo : WrFound(e)

\* Only Instagram has an id to ask for.
WrAsks(enrich, type) == \A c \in WrChannels : enrich[c] = "write" => type = "INSTAGRAM"

WrInv == WrTypeInv /\ WrAsks(wrEnrich, wrType) /\ WrHandling /\ WrOwnMessages /\ WrNothingDropped

\* The three types and their ids.
LEMMA WrTypesAre ==
  /\ DOMAIN WrIds = {"OFFICIAL", "INSTAGRAM", "ZAPPFY"}
  /\ \A t \in DOMAIN WrIds : WrIds[t] \subseteq WrAllIds /\ \A ids \in WrCarried[t] : ids \subseteq WrAllIds
  /\ "business" \in WrIds["INSTAGRAM"]
<1>1. DOMAIN WrIds = {"OFFICIAL", "INSTAGRAM", "ZAPPFY"} /\ "business" \in WrIds["INSTAGRAM"]
  BY DEF WrIds
<1>2. \A t \in DOMAIN WrIds : WrIds[t] \subseteq WrAllIds
  BY DEF WrAllIds
<1>3. \A t \in DOMAIN WrIds : \A ids \in WrCarried[t] : ids \subseteq WrIds[t]
  <2>1. \A ids \in WrCarried["OFFICIAL"] : ids \subseteq WrIds["OFFICIAL"]
    BY DEF WrCarried, WrIds
  <2>2. \A ids \in WrCarried["INSTAGRAM"] : ids \subseteq WrIds["INSTAGRAM"]
    BY DEF WrCarried, WrIds
  <2>3. \A ids \in WrCarried["ZAPPFY"] : ids \subseteq WrIds["ZAPPFY"]
    BY DEF WrCarried, WrIds
  <2> QED BY <1>1, <2>1, <2>2, <2>3
<1> QED BY <1>1, <1>2, <1>3

LEMMA WrNoCallOK ==
  /\ WrNoCall \in WrCallType /\ WrNoCall.stage = "idle"
  /\ WrNoCall.matched = {}
BY DEF WrNoCall, WrCallType

LEMMA WrInitInv == WrInit => WrInv
<1> SUFFICES ASSUME WrInit PROVE WrInv
  OBVIOUS
<1>1. wrCall \in WrCallType /\ wrCall.stage = "idle"
  BY WrNoCallOK DEF WrInit
<1>2. 0 \in 0..WrMaxPayloads /\ 0 \in 0..WrMaxEdits
  BY WrAssumption
<1>3. WrTypeInv
  BY <1>1, <1>2 DEF WrInit, WrTypeInv
<1> QED BY <1>1, <1>3 DEF WrInit, WrInv, WrAsks, WrHandling, WrOwnMessages, WrNothingDropped

-----------------------------------------------------------------------------
(* Channels *)

\* A channel that changes while a payload is handled excuses what becomes of it.
LEMMA WrChangeKeeps ==
  ASSUME WrInv, wrCall' = [wrCall EXCEPT !.changed = wrCall.stage # "idle"],
         wrType' = wrType,
         wrRow' \in [WrChannels -> {"none", "live", "gone"}],
         wrConfig' \in [WrChannels -> SUBSET WrIds[wrType]],
         wrSeen' \in [WrChannels -> SUBSET WrIds[wrType]],
         wrEnrich' \in [WrChannels -> {"no", "read", "write", "done"}], WrAsks(wrEnrich', wrType),
         wrQueued' = wrQueued, wrDropped' = wrDropped, wrPayloads' = wrPayloads,
         wrEdits' \in 0..WrMaxEdits
  PROVE  WrInv'
<1> DEFINE changed == wrCall.stage # "idle"
<1>1. wrCall \in WrCallType /\ changed \in BOOLEAN
  BY DEF WrInv, WrTypeInv
<1>2. wrCall' = [wrCall EXCEPT !.changed = changed]
  OBVIOUS
<1> HIDE DEF changed
<1>3. /\ wrCall' \in WrCallType /\ wrCall'.stage = wrCall.stage /\ wrCall'.changed = changed
      /\ wrCall'.ids = wrCall.ids /\ wrCall'.todo = wrCall.todo /\ wrCall'.events = wrCall.events
      /\ wrCall'.matched = wrCall.matched
  BY <1>1, <1>2 DEF WrCallType
<1>4. WrTypeInv'
  BY <1>3 DEF WrInv, WrTypeInv
<1>5. WrHandling'
  BY <1>3 DEF WrInv, WrHandling, changed
<1>6. WrOwnMessages' /\ WrNothingDropped'
  BY DEF WrInv, WrOwnMessages, WrNothingDropped, WrTells
<1> QED BY <1>4, <1>5, <1>6 DEF WrInv, WrAsks

LEMMA WrTyped ==
  ASSUME WrInv
  PROVE  /\ wrType \in DOMAIN WrIds /\ WrIds[wrType] \subseteq WrAllIds
         /\ wrRow \in [WrChannels -> {"none", "live", "gone"}]
         /\ wrConfig \in [WrChannels -> SUBSET WrIds[wrType]]
         /\ wrSeen \in [WrChannels -> SUBSET WrIds[wrType]]
         /\ wrEnrich \in [WrChannels -> {"no", "read", "write", "done"}]
         /\ wrCall \in WrCallType
         /\ wrPayloads \in 0..WrMaxPayloads /\ wrEdits \in 0..WrMaxEdits
         /\ WrAsks(wrEnrich, wrType)
BY WrTypesAre DEF WrInv, WrTypeInv

LEMMA WrEditCounts ==
  ASSUME WrInv, wrEdits < WrMaxEdits, wrEdits' = wrEdits + 1 PROVE wrEdits' \in 0..WrMaxEdits
<1>1. wrEdits \in 0..WrMaxEdits
  BY WrTyped
<1> QED BY <1>1, WrAssumption

LEMMA WrCreateKeeps == ASSUME WrInv, NEW c \in WrChannels, WrCreate(c) PROVE WrInv'
<1>1. PICK ids \in SUBSET WrIds[wrType] : wrConfig' = [wrConfig EXCEPT ![c] = ids]
  BY DEF WrCreate
<1>2. /\ wrEnrich' \in [WrChannels -> {"no", "read", "write", "done"}] /\ WrAsks(wrEnrich', wrType)
      /\ wrRow' \in [WrChannels -> {"none", "live", "gone"}]
      /\ wrConfig' \in [WrChannels -> SUBSET WrIds[wrType]]
  BY <1>1, WrTyped DEF WrCreate, WrAsks
<1> QED BY <1>2, WrTyped, WrChangeKeeps DEF WrCreate, wrChange

LEMMA WrUpdateKeeps == ASSUME WrInv, NEW c \in WrChannels, WrUpdate(c) PROVE WrInv'
<1>1. PICK ids \in SUBSET WrIds[wrType] : wrConfig' = [wrConfig EXCEPT ![c] = ids]
  BY DEF WrUpdate
<1> QED BY <1>1, WrTyped, WrEditCounts, WrChangeKeeps DEF WrUpdate, wrChange

LEMMA WrRemoveKeeps == ASSUME WrInv, NEW c \in WrChannels, WrRemove(c) PROVE WrInv'
BY WrTyped, WrEditCounts, WrChangeKeeps DEF WrRemove, wrChange

LEMMA WrRest ==
  ASSUME WrInv, wrType' = wrType, wrRow' = wrRow, wrConfig' = wrConfig, wrCall' = wrCall,
         wrQueued' = wrQueued, wrDropped' = wrDropped, wrPayloads' = wrPayloads, wrEdits' = wrEdits,
         wrSeen' \in [WrChannels -> SUBSET WrIds[wrType]],
         wrEnrich' \in [WrChannels -> {"no", "read", "write", "done"}], WrAsks(wrEnrich', wrType)
  PROVE  WrInv'
<1>1. WrTypeInv'
  BY DEF WrInv, WrTypeInv
<1>2. WrHandling'
  BY DEF WrInv, WrHandling, WrFound, WrTells
<1>3. WrOwnMessages' /\ WrNothingDropped'
  BY DEF WrInv, WrOwnMessages, WrNothingDropped, WrTells
<1> QED BY <1>1, <1>2, <1>3 DEF WrInv, WrAsks

LEMMA WrEnrichReadKeeps == ASSUME WrInv, NEW c \in WrChannels, WrEnrichRead(c) PROVE WrInv'
<1> DEFINE asks == wrRow[c] = "live" /\ wrType = "INSTAGRAM" /\ "business" \notin wrConfig[c]
           after == IF asks THEN "write" ELSE "done"
<1>1. wrSeen' \in [WrChannels -> SUBSET WrIds[wrType]]
  BY WrTyped DEF WrEnrichRead
<1>2. wrEnrich' = [wrEnrich EXCEPT ![c] = after] /\ after \in {"write", "done"}
      /\ (after = "write" => wrType = "INSTAGRAM")
  BY DEF WrEnrichRead
<1> HIDE DEF after, asks
<1>3. wrEnrich' \in [WrChannels -> {"no", "read", "write", "done"}] /\ WrAsks(wrEnrich', wrType)
  BY <1>2, WrTyped DEF WrAsks
<1> QED BY <1>1, <1>3, WrRest DEF WrEnrichRead

\* What the write adds is an id of the type.
LEMMA WrEnrichWriteKeeps ==
  ASSUME WrInv, NEW c \in WrChannels, WrEnrichWrite(c) PROVE WrInv'
<1>1. wrType = "INSTAGRAM"
  BY WrTyped DEF WrEnrichWrite, WrAsks
<1>2. wrSeen[c] \union {"business"} \subseteq WrIds[wrType]
  BY <1>1, WrTyped, WrTypesAre
<1>3. wrConfig' \in [WrChannels -> SUBSET WrIds[wrType]]
  BY <1>2, WrTyped DEF WrEnrichWrite
<1>4. wrEnrich' \in [WrChannels -> {"no", "read", "write", "done"}] /\ WrAsks(wrEnrich', wrType)
  BY WrTyped DEF WrEnrichWrite, WrAsks
<1> QED BY <1>3, <1>4, WrTyped, WrChangeKeeps DEF WrEnrichWrite, wrChange
-----------------------------------------------------------------------------
(* The gateway *)

LEMMA WrPayloadCounts ==
  ASSUME WrInv, wrPayloads < WrMaxPayloads, wrPayloads' = wrPayloads + 1
  PROVE  wrPayloads' \in 0..WrMaxPayloads
<1>1. wrPayloads \in 0..WrMaxPayloads
  BY WrTyped
<1> QED BY <1>1, WrAssumption

LEMMA WrDeliverKeeps == ASSUME WrInv, WrDeliver PROVE WrInv'
<1>1. PICK S \in SUBSET WrChannels, ids \in WrCarried[wrType] :
        /\ wrType = "ZAPPFY" => Cardinality(S) = 1
        /\ wrCall' = [WrNoCall EXCEPT !.stage = "resolve", !.events = S, !.ids = ids, !.todo = S]
  BY DEF WrDeliver
<1>2. /\ wrType' = wrType /\ wrRow' = wrRow /\ wrConfig' = wrConfig /\ wrEnrich' = wrEnrich
      /\ wrSeen' = wrSeen /\ wrQueued' = wrQueued /\ wrDropped' = wrDropped /\ wrEdits' = wrEdits
      /\ wrPayloads' \in 0..WrMaxPayloads
  BY WrPayloadCounts DEF WrDeliver
<1>3. ids \subseteq WrAllIds
  BY WrTyped, WrTypesAre
<1>4. /\ wrCall' \in WrCallType /\ wrCall'.stage = "resolve" /\ wrCall'.events = S
      /\ wrCall'.todo = S /\ wrCall'.matched = {} /\ wrCall'.ids = ids
  BY <1>1, <1>3 DEF WrNoCall, WrCallType
<1>5. WrTypeInv'
  BY <1>2, <1>4 DEF WrInv, WrTypeInv
<1>6. wrType = "ZAPPFY" => \E e \in WrChannels : S = {e}
  <2>1. IsFiniteSet(S)
    BY WrAssumption, FS_Subset
  <2> QED BY <1>1, <2>1, FS_Singleton
<1>7. WrHandling'
  BY <1>2, <1>4, <1>6 DEF WrHandling
<1>8. WrOwnMessages' /\ WrNothingDropped'
  BY <1>2 DEF WrInv, WrOwnMessages, WrNothingDropped, WrTells
<1> QED BY <1>2, <1>5, <1>7, <1>8 DEF WrInv, WrAsks

\* A channel is found for its own account's event when its ids tell it, and for another one's
\* only when they tell none.
LEMMA WrMatchesAre ==
  ASSUME WrInv, wrCall.stage # "idle", NEW e \in WrChannels
  PROVE  /\ WrTells(wrConfig[e]) \intersect wrCall.ids # {} => WrMatchesChannel(e, e)
         /\ \A c \in WrChannels : WrMatchesChannel(c, e) => c = e \/ WrTells(wrConfig[c]) = {}
         /\ wrType = "ZAPPFY" => \A c \in WrChannels : WrMatchesChannel(c, e) => c = e
<1>1. wrType \in {"OFFICIAL", "INSTAGRAM", "ZAPPFY"}
  BY WrTyped, WrTypesAre
<1>2. CASE wrType = "OFFICIAL"
  BY <1>2 DEF WrMatchesChannel, WrMatchesOfficial, WrTells
<1>3. CASE wrType = "INSTAGRAM"
  BY <1>3 DEF WrMatchesChannel, WrMatchesInstagram, WrTells
<1>4. CASE wrType = "ZAPPFY"
  BY <1>4 DEF WrMatchesChannel, WrMatchesToken, WrTells
<1> QED BY <1>1, <1>2, <1>3, <1>4

LEMMA WrResolveKeeps == ASSUME WrInv, NEW e \in WrChannels, WrResolve(e) PROVE WrInv'
<1> DEFINE found == {c \in WrChannels : wrRow[c] = "live" /\ WrMatchesChannel(c, e)}
           Match(c) == [channel |-> c, config |-> wrConfig[c]]
<1>1. wrCall.stage = "resolve" /\ e \in wrCall.todo /\ wrCall \in WrCallType
  BY WrTyped DEF WrResolve
<1>2. PICK m \in IF found = {} THEN {{}} ELSE {{Match(c)} : c \in found} :
        wrCall' = [wrCall EXCEPT
          !.todo = wrCall.todo \ {e},
          !.matched = wrCall.matched \union {x \in m : \A y \in wrCall.matched : y.channel # x.channel},
          !.stage = IF wrCall.todo = {e} THEN "queue" ELSE wrCall.stage]
  BY DEF WrResolve
<1>3. /\ wrType' = wrType /\ wrRow' = wrRow /\ wrConfig' = wrConfig /\ wrEnrich' = wrEnrich
      /\ wrSeen' = wrSeen /\ wrQueued' = wrQueued /\ wrDropped' = wrDropped /\ wrEdits' = wrEdits
      /\ wrPayloads' = wrPayloads
  BY DEF WrResolve
<1>4. \A c \in WrChannels : Match(c) \in WrMatches /\ Match(c).channel = c /\ Match(c).config = wrConfig[c]
  <2>1. \A c \in WrChannels : wrConfig[c] \subseteq WrAllIds
    BY WrTyped
  <2> QED BY <2>1 DEF WrMatches, WrAllIds
<1> HIDE DEF Match
<1>5. found = {} \/ \E c \in found : m = {Match(c)}
  BY <1>2
<1>6. found = {} => m = {}
  BY <1>2
<1> DEFINE added == {x \in m : \A y \in wrCall.matched : y.channel # x.channel}
           matched == wrCall.matched \union added
           stage == IF wrCall.todo = {e} THEN "queue" ELSE wrCall.stage
           todo == wrCall.todo \ {e}
<1>7. added \subseteq WrMatches
  BY <1>4, <1>5, <1>6
<1>8. wrCall' = [wrCall EXCEPT !.todo = todo, !.matched = matched, !.stage = stage]
  BY <1>2
<1>9. matched \in SUBSET WrMatches /\ stage \in {"resolve", "queue"} /\ todo \in SUBSET WrChannels
      /\ (stage = "queue" => todo = {})
  BY <1>1, <1>7 DEF WrCallType
<1> HIDE DEF matched, stage, todo
<1>10. /\ wrCall' \in WrCallType /\ wrCall'.todo = todo /\ wrCall'.matched = matched
       /\ wrCall'.stage = stage /\ wrCall'.events = wrCall.events /\ wrCall'.ids = wrCall.ids
       /\ wrCall'.changed = wrCall.changed
  BY <1>1, <1>8, <1>9 DEF WrCallType
<1>11. WrTypeInv'
  BY <1>3, <1>10 DEF WrInv, WrTypeInv
<1>12. WrOwnMessages' /\ WrNothingDropped'
  BY <1>3 DEF WrInv, WrOwnMessages, WrNothingDropped, WrTells
<1>13. /\ WrTells(wrConfig[e]) \intersect wrCall.ids # {} => WrMatchesChannel(e, e)
       /\ \A c \in found : c \in WrChannels /\ (c = e \/ WrTells(wrConfig[c]) = {})
       /\ wrType = "ZAPPFY" => \A c \in found : c = e
  BY <1>1, WrMatchesAre
<1>14. wrType = "ZAPPFY" => \E f \in WrChannels : wrCall.events = {f} /\ todo \subseteq {f}
                                              /\ \A y \in matched : y.channel = f
  <2> SUFFICES ASSUME wrType = "ZAPPFY"
               PROVE  wrCall.events = {e} /\ todo \subseteq {e} /\ \A y \in matched : y.channel = e
    OBVIOUS
  <2>1. wrCall.events = {e} /\ wrCall.todo \subseteq {e} /\ \A y \in wrCall.matched : y.channel = e
    BY <1>1 DEF WrInv, WrHandling
  <2>2. \A x \in added : x.channel = e
    BY <1>4, <1>5, <1>6, <1>13
  <2> QED BY <2>1, <2>2 DEF matched, todo
<1>15. ASSUME ~wrCall.changed
       PROVE  /\ \A y \in matched : y.config = wrConfig[y.channel]
              /\ \A f \in wrCall.events \ todo :
                   wrRow[f] = "live" /\ WrTells(wrConfig[f]) \intersect wrCall.ids # {} =>
                     \E y \in matched : y.channel = f \/ WrTells(y.config) = {}
  <2>1. /\ \A y \in wrCall.matched : y.config = wrConfig[y.channel]
        /\ \A f \in wrCall.events \ wrCall.todo : WrFound(f)
    BY <1>1, <1>15 DEF WrInv, WrHandling
  <2>2. \A x \in added : x.config = wrConfig[x.channel]
    BY <1>4, <1>5, <1>6
  <2>3. ASSUME NEW f \in wrCall.events \ todo, wrRow[f] = "live",
               WrTells(wrConfig[f]) \intersect wrCall.ids # {}
        PROVE  \E y \in matched : y.channel = f \/ WrTells(y.config) = {}
    <3>1. CASE f # e
      BY <2>1, <2>3, <3>1 DEF WrFound, matched, todo
    <3>2. CASE f = e
      <4>1. e \in found
        BY <1>13, <2>3, <3>2
      <4>2. PICK c \in found : m = {Match(c)}
        BY <1>5, <4>1
      <4>3. \E y \in matched : y.channel = c /\ y.config = wrConfig[c]
        <5>1. CASE \A y \in wrCall.matched : y.channel # c
          <6>1. Match(c) \in matched
            BY <1>4, <4>2, <5>1 DEF matched
          <6> QED BY <1>4, <6>1
        <5>2. CASE ~\A y \in wrCall.matched : y.channel # c
          BY <2>1, <5>2 DEF matched
        <5> QED BY <5>1, <5>2
      <4> QED BY <1>13, <3>2, <4>3
    <3> QED BY <3>1, <3>2
  <2>4. \A y \in matched : y.config = wrConfig[y.channel]
    BY <2>1, <2>2 DEF matched
  <2> QED BY <2>3, <2>4
<1>16. WrHandling'
  <2>1. wrCall.ids \in WrCarried[wrType]
    BY <1>1 DEF WrInv, WrHandling
  <2>2. ~wrCall'.changed => \A f \in wrCall'.events \ wrCall'.todo : WrFound(f)'
    BY <1>3, <1>10, <1>15, ZenonT(30) DEF WrFound, WrTells
  <2> QED BY <1>3, <1>9, <1>10, <1>14, <1>15, <2>1, <2>2 DEF WrHandling
<1> QED BY <1>3, <1>11, <1>12, <1>16 DEF WrInv, WrAsks

\* An adapter keeps its own channel's events where the configuration tells them apart.
LEMMA WrParsedIs ==
  ASSUME WrInv, wrCall.stage = "queue", NEW m \in wrCall.matched
  PROVE  /\ \A e \in WrParsed(m) : e \in wrCall.events /\ (e # m.channel => WrTells(m.config) = {})
         /\ \A e \in wrCall.events :
              /\ m.channel = e
              /\ WrTells(m.config) \intersect wrCall.ids # {}
              /\ wrType = "OFFICIAL" => "secret" \in m.config
              => e \in WrParsed(m)
<1>1. /\ wrType \in {"OFFICIAL", "INSTAGRAM", "ZAPPFY"} /\ wrCall.ids \in WrCarried[wrType]
      /\ wrCall.events \subseteq WrChannels
  BY WrTyped, WrTypesAre DEF WrInv, WrHandling, WrCallType
<1>2. CASE wrType = "OFFICIAL"
  BY <1>1, <1>2 DEF WrParsed, WrValid, WrScopedOfficial, WrTells
<1>3. CASE wrType = "INSTAGRAM"
  <2>1. wrCall.ids \in {{"business"}, {"user"}, {"page"}}
    BY <1>1, <1>3 DEF WrCarried
  <2>2. CASE "business" \in m.config
    BY <1>1, <1>3, <2>1, <2>2 DEF WrParsed, WrValid, WrScopedInstagram, WrTells
  <2>3. CASE "business" \notin m.config /\ "user" \in m.config
    BY <1>1, <1>3, <2>1, <2>3 DEF WrParsed, WrValid, WrScopedInstagram, WrTells
  <2>4. CASE "business" \notin m.config /\ "user" \notin m.config
    BY <1>1, <1>3, <2>1, <2>4 DEF WrParsed, WrValid, WrScopedInstagram, WrTells
  <2> QED BY <2>2, <2>3, <2>4
<1>4. CASE wrType = "ZAPPFY"
  <2>1. wrCall.events = {m.channel}
    BY <1>4 DEF WrInv, WrHandling
  <2> QED BY <1>1, <1>4, <2>1 DEF WrParsed, WrValid
<1> QED BY <1>1, <1>2, <1>3, <1>4

LEMMA WrQueueKeeps == ASSUME WrInv, WrQueue PROVE WrInv'
<1> DEFINE queued == UNION {{[event |-> e, match |-> m] : e \in WrParsed(m)} : m \in wrCall.matched}
           lost == {e \in wrCall.events :
                      wrRow[e] = "live" /\ ~wrCall.changed /\ \A q \in queued : q.event # e}
           Loss(e) == [channel |-> e, config |-> wrConfig[e], ids |-> wrCall.ids, rivals |-> wrCall.matched]
<1>1. /\ wrCall.stage = "queue" /\ wrQueued' = wrQueued \union queued
      /\ wrDropped' = wrDropped \union {Loss(e) : e \in lost} /\ wrCall' = WrNoCall
      /\ wrType' = wrType /\ wrRow' = wrRow /\ wrConfig' = wrConfig /\ wrEnrich' = wrEnrich
      /\ wrSeen' = wrSeen /\ wrPayloads' = wrPayloads /\ wrEdits' = wrEdits
  BY DEF WrQueue
<1>2. \A m \in wrCall.matched : m \in WrMatches
  BY WrTyped DEF WrCallType
<1>3. wrCall.events \subseteq WrChannels
  BY WrTyped DEF WrCallType
<1>4. \A q \in queued : \E m \in wrCall.matched : q.match = m /\ q.event \in WrParsed(m)
  OBVIOUS
<1>5. \A m \in wrCall.matched : \A e \in WrParsed(m) : \E q \in queued : q.event = e
  <2> SUFFICES ASSUME NEW m \in wrCall.matched, NEW e \in WrParsed(m)
               PROVE  \E q \in queued : q.event = e
    OBVIOUS
  <2>1. [event |-> e, match |-> m] \in queued
    OBVIOUS
  <2> HIDE DEF queued
  <2> QED BY <2>1
<1>6. \A e : Loss(e).channel = e /\ Loss(e).config = wrConfig[e] /\ Loss(e).ids = wrCall.ids
             /\ Loss(e).rivals = wrCall.matched
  OBVIOUS
<1> HIDE DEF queued, Loss
<1>7. ASSUME NEW x \in queued
      PROVE  /\ x.event \in WrChannels /\ x.match \in WrMatches
             /\ x.event # x.match.channel => WrTells(x.match.config) = {}
  BY <1>1, <1>2, <1>3, <1>4, WrParsedIs
<1>8. WrTypeInv'
  <2>1. \A q \in wrQueued' : q.event \in WrChannels /\ q.match \in WrMatches
    <3> SUFFICES ASSUME NEW x \in wrQueued' PROVE x.event \in WrChannels /\ x.match \in WrMatches
      OBVIOUS
    <3>1. CASE x \in wrQueued
      BY <3>1 DEF WrInv, WrTypeInv
    <3>2. CASE x \in queued
      BY <3>2, <1>7
    <3> QED BY <3>1, <3>2, <1>1
  <2> QED BY <1>1, <2>1, WrNoCallOK DEF WrInv, WrTypeInv
<1>9. WrHandling'
  BY <1>1, WrNoCallOK DEF WrHandling
<1>10. WrOwnMessages'
  <2>1. \A q \in wrQueued' : q.event # q.match.channel => WrTells(q.match.config) = {}
    <3> SUFFICES ASSUME NEW x \in wrQueued', x.event # x.match.channel
                 PROVE  WrTells(x.match.config) = {}
      OBVIOUS
    <3>1. CASE x \in wrQueued
      BY <3>1 DEF WrInv, WrOwnMessages
    <3>2. CASE x \in queued
      BY <3>2, <1>7
    <3> QED BY <3>1, <3>2, <1>1
  <2> QED BY <1>1, <2>1 DEF WrOwnMessages, WrTells
<1>11. ASSUME NEW e \in lost, WrTells(wrConfig[e]) \intersect wrCall.ids # {},
              wrType = "OFFICIAL" => "secret" \in wrConfig[e]
       PROVE  \E m \in wrCall.matched : m.channel # e /\ WrTells(m.config) = {}
  <2>1. e \in wrCall.events /\ wrRow[e] = "live" /\ ~wrCall.changed /\ \A q \in queued : q.event # e
    OBVIOUS
  <2>2. /\ \A m \in wrCall.matched : m.config = wrConfig[m.channel]
        /\ wrCall.todo = {} /\ WrFound(e)
    BY <1>1, <2>1 DEF WrInv, WrHandling
  <2>3. PICK m \in wrCall.matched : m.channel = e \/ WrTells(m.config) = {}
    BY <1>11, <2>1, <2>2 DEF WrFound
  <2>4. CASE m.channel = e
    <3>1. e \in WrParsed(m)
      BY <1>1, <1>11, <2>1, <2>2, <2>4, WrParsedIs
    <3> QED BY <1>5, <2>1, <3>1
  <2> QED BY <2>3, <2>4
<1>12. WrNothingDropped'
  <2> SUFFICES ASSUME NEW d \in wrDropped'
               PROVE  \/ WrTells(d.config) \intersect d.ids = {}
                      \/ wrType = "OFFICIAL" /\ "secret" \notin d.config
                      \/ \E m \in d.rivals : m.channel # d.channel /\ WrTells(m.config) = {}
    BY <1>1 DEF WrNothingDropped, WrTells
  <2>1. CASE d \in wrDropped
    BY <2>1 DEF WrInv, WrNothingDropped
  <2>2. CASE \E e \in lost : d = Loss(e)
    BY <1>6, <1>11, <2>2
  <2> QED BY <1>1, <2>1, <2>2
<1> QED BY <1>1, <1>8, <1>9, <1>10, <1>12 DEF WrInv, WrAsks

LEMMA WrStep == WrInv /\ [WrNext]_wrVars => WrInv'
<1> SUFFICES ASSUME WrInv, [WrNext]_wrVars PROVE WrInv'
  OBVIOUS
<1>1. CASE UNCHANGED wrVars
  <2>1. /\ wrType' = wrType /\ wrRow' = wrRow /\ wrConfig' = wrConfig /\ wrCall' = wrCall
        /\ wrQueued' = wrQueued /\ wrDropped' = wrDropped /\ wrPayloads' = wrPayloads
        /\ wrEdits' = wrEdits /\ wrSeen' = wrSeen /\ wrEnrich' = wrEnrich
    BY <1>1 DEF wrVars
  <2> QED BY <2>1, WrTyped, WrRest
<1>2. CASE WrNext
  BY <1>2, WrCreateKeeps, WrEnrichReadKeeps, WrEnrichWriteKeeps, WrUpdateKeeps, WrRemoveKeeps,
     WrResolveKeeps, WrDeliverKeeps, WrQueueKeeps DEF WrNext
<1> QED BY <1>1, <1>2

LEMMA WrInvCorrect == WrSpec => []WrInv
BY WrInitInv, WrStep, PTL DEF WrSpec

\* For any channels, payloads and edits: a channel gets another account's event only with a
\* configuration that tells no accounts apart, and while no channel changes an event is dropped
\* only where the id, the secret or a rival that tells nothing apart is to blame.
THEOREM WrSafeCorrect == WrSpec => []WrSafe
<1>1. WrInv => WrSafe
  BY DEF WrInv, WrSafe
<1> QED BY <1>1, WrInvCorrect, PTL

\* Channels, their configurations, the payload and what was queued keep their shapes.
THEOREM WrTypeCorrect == WrSpec => []WrTypeOK
<1>1. WrInv => WrTypeOK
  BY WrTyped DEF WrInv, WrTypeInv, WrTypeOK, WrCallType
<1> QED BY <1>1, WrInvCorrect, PTL

-----------------------------------------------------------------------------
(* The thread of a chat: any calls, messages, page and limits *)

\* What a call has read of the thread and not stored yet.
TsPending(call) ==
  CASE call.step = "read" -> call.got [] call.step = "create" -> call.got \ call.known
    [] OTHER -> {}

TsFirstPage(len, odd) == {m \in 1..len : m > len - TsPage} \ odd

TsBusy(call) == call.step \in {"read", "create", "last"}

\* A call under way has the page that was the newest at its first request, and every message
\* behind its offset, in the rows or in hand; one that is over has what its end says.
TsCallOK(call, done, len, odd, rows) ==
  /\ call.step # "ended" => done.how = "none"
  /\ done.len <= len
  /\ call.offset <= len /\ call.pages <= call.offset /\ call.imported <= call.offset
  /\ call.got \subseteq (1..len) \ odd /\ call.known \subseteq call.got
  /\ TsBusy(call) => /\ call.offset > 0 /\ call.pages + 1 <= call.offset
                     /\ call.imported + Cardinality(call.got) <= call.offset
  /\ call.known \subseteq rows
  /\ call.step \in {"fetch", "read"} => call.known = {}
  /\ call.step = "last" => call.got \ call.known # {} /\ call.got \ call.known \subseteq rows
  /\ call.offset > 0 =>
       /\ TsFirstPage(done.len, odd) \subseteq rows \union TsPending(call)
       /\ \A m \in (1..done.len) \ odd : m > len - call.offset => m \in rows \union TsPending(call)
  /\ TsBusy(call) /\ ~call.more => (1..done.len) \ odd \subseteq rows \union TsPending(call)
  /\ done.how = "oldest" => (1..done.len) \ odd \subseteq rows
  /\ done.how \in {"known", "limit"} => TsFirstPage(done.len, odd) \subseteq rows

TsDones == [how : TsEnds, len : 0..TsMax]

TsInv ==
  /\ TsTypeOK
  /\ tsDue \intersect tsOdd = {}
  /\ tsLast \in tsRows \union {0}
  /\ \A c \in TsCalls : TsCallOK(tsCall[c], tsDone[c], tsLen, tsOdd, tsRows)
  /\ TsLastIsNewest

\* The newest of a set of messages.
LEMMA TsNewestIs ==
  ASSUME NEW S, S \subseteq 1..TsMax
  PROVE  /\ TsNewest(S) \in 0..TsMax
         /\ S = {} => TsNewest(S) = 0
         /\ S # {} => TsNewest(S) \in S
         /\ \A x \in S : x <= TsNewest(S)
<1>1. CASE S = {}
  BY <1>1, TsAssumption DEF TsNewest
<1>2. CASE S # {}
  <2>1. S \subseteq Nat /\ TsMax \in Nat /\ \A x \in S : x <= TsMax
    BY TsAssumption
  <2>2. Max(S) \in S /\ \A x \in S : x <= Max(S)
    BY <1>2, <2>1, MaxBounded
  <2> DEFINE n == Max(S)
  <2>3. n \in S /\ \A x \in S : x <= n
    BY <2>2
  <2>4. TsNewest(S) = n
    BY <1>2 DEF TsNewest
  <2> HIDE DEF n
  <2>5. n \in 0..TsMax
    BY <2>1, <2>3
  <2> QED BY <1>2, <2>3, <2>4, <2>5
<1> QED BY <1>1, <1>2

LEMMA TsNumbers ==
  /\ TsMax \in Nat /\ TsCap \in Nat /\ TsMaxFaults \in Nat /\ TsPage \in Nat /\ TsPage > 0
  /\ 0 \in 0..TsMax /\ 0 \in 0..TsMaxFaults
BY TsAssumption

LEMMA TsRestIs ==
  /\ TsRest \in TsCallType /\ TsRest.step = "idle" /\ TsRest.offset = 0 /\ TsRest.got = {}
  /\ TsRest.known = {} /\ TsRest.pages = 0 /\ TsRest.imported = 0
BY TsNumbers DEF TsRest, TsCallType, TsSteps, TsModes

\* Rows, messages and the marks on new ones only come; what a call has stays as good.
LEMMA TsGrows ==
  ASSUME NEW call \in TsCallType, NEW done \in TsDones, NEW len \in Nat, NEW len2 \in Nat,
         NEW odd, NEW odd2, NEW rows, NEW rows2,
         TsCallOK(call, done, len, odd, rows), len <= len2, rows \subseteq rows2,
         odd \subseteq odd2, \A m \in odd2 \ odd : m > len
  PROVE  TsCallOK(call, done, len2, odd2, rows2)
<1>1. call.offset \in Nat /\ done.len \in Nat /\ TsPage \in Nat
  BY TsAssumption DEF TsCallType, TsDones
<1>2. (1..done.len) \ odd2 = (1..done.len) \ odd
  BY <1>1 DEF TsCallOK
<1>3. TsFirstPage(done.len, odd2) = TsFirstPage(done.len, odd)
  BY <1>1 DEF TsCallOK, TsFirstPage
<1>4. call.got \subseteq (1..len2) \ odd2
  BY DEF TsCallOK
<1>5. call.offset <= len2 /\ done.len <= len2
  BY <1>1 DEF TsCallOK
<1>6. \A m \in (1..done.len) \ odd2 : m > len2 - call.offset => m > len - call.offset
  BY <1>1
<1>7. /\ call.offset > 0 => TsFirstPage(done.len, odd2) \subseteq rows2 \union TsPending(call)
      /\ TsBusy(call) /\ ~call.more => (1..done.len) \ odd2 \subseteq rows2 \union TsPending(call)
      /\ done.how = "oldest" => (1..done.len) \ odd2 \subseteq rows2
      /\ done.how \in {"known", "limit"} => TsFirstPage(done.len, odd2) \subseteq rows2
  BY <1>2, <1>3 DEF TsCallOK
<1>8. call.offset > 0 =>
        \A m \in (1..done.len) \ odd2 : m > len2 - call.offset => m \in rows2 \union TsPending(call)
  BY <1>2, <1>6 DEF TsCallOK
<1>9. /\ call.known \subseteq rows2
      /\ call.step \in {"fetch", "read"} => call.known = {}
      /\ call.step = "last" => call.got \ call.known # {} /\ call.got \ call.known \subseteq rows2
  BY DEF TsCallOK
<1>10. /\ call.step # "ended" => done.how = "none"
       /\ call.pages <= call.offset /\ call.imported <= call.offset
       /\ call.known \subseteq call.got
       /\ TsBusy(call) => /\ call.offset > 0 /\ call.pages + 1 <= call.offset
                          /\ call.imported + Cardinality(call.got) <= call.offset
  BY DEF TsCallOK
<1> QED BY <1>4, <1>5, <1>7, <1>8, <1>9, <1>10 DEF TsCallOK

\* The raw page is an interval that ends at the offset.
LEMMA TsRawIs ==
  ASSUME TsTypeOK, NEW off \in Nat, off <= tsLen, NEW x \in TsRaw(off)
  PROVE  \E lo \in 1..tsLen :
           /\ TsRaw(off) = lo..(tsLen - off) /\ lo <= tsLen - off
           /\ IsFiniteSet(TsRaw(off)) /\ Cardinality(TsRaw(off)) = tsLen - off - lo + 1
           /\ ~TsMore(off) => lo = 1
           /\ \A m \in Int : m > tsLen - off - TsPage => m >= lo \/ m < 1
<1>1. tsLen \in Nat /\ TsPage \in Nat /\ TsPage > 0
  BY TsAssumption DEF TsTypeOK
<1> DEFINE first == tsLen - off - TsPage + 1
           lo == IF first >= 1 THEN first ELSE 1
<1>2. first \in Int /\ lo \in Int /\ lo >= 1 /\ lo >= first /\ (lo = first \/ lo = 1)
  BY <1>1
<1>3. TsRaw(off) = first..(tsLen - off) \intersect 1..tsLen
  BY DEF TsRaw
<1>4. (first < 1 => lo = 1) /\ first = tsLen - off - TsPage + 1
  BY <1>1
<1> HIDE DEF lo, first
<1>5. TsRaw(off) = lo..(tsLen - off)
  BY <1>1, <1>2, <1>3
<1>6. lo <= tsLen - off /\ lo \in 1..tsLen
  BY <1>1, <1>2, <1>5
<1>7. IsFiniteSet(TsRaw(off)) /\ Cardinality(TsRaw(off)) = tsLen - off - lo + 1
  <2>1. tsLen - off \in Int /\ lo \in Int
    BY <1>1, <1>2
  <2>2. IsFiniteSet(lo..(tsLen - off)) /\ Cardinality(lo..(tsLen - off)) = IF lo > tsLen - off THEN 0 ELSE tsLen - off - lo + 1
    BY <2>1, FS_Interval
  <2> QED BY <1>1, <1>2, <1>5, <1>6, <2>2
<1>8. ~TsMore(off) => lo = 1
  BY <1>1, <1>2, <1>4, <1>7 DEF TsMore
<1>9. \A m \in Int : m > tsLen - off - TsPage => m >= lo \/ m < 1
  BY <1>1, <1>2, <1>4
<1> QED BY <1>5, <1>6, <1>7, <1>8, <1>9

\* A call that begins, and one that is over.
LEMMA TsRestOK ==
  ASSUME NEW done \in TsDones, done.len <= tsLen, TsTypeOK,
         NEW mode \in TsModes, NEW step \in {"idle", "fetch"}, done.how = "none"
  PROVE  /\ [TsRest EXCEPT !.mode = mode, !.step = step] \in TsCallType
         /\ TsCallOK([TsRest EXCEPT !.mode = mode, !.step = step], done, tsLen, tsOdd, tsRows)
<1> DEFINE call == [TsRest EXCEPT !.mode = mode, !.step = step]
<1>1. call \in TsCallType /\ call.step = step /\ call.offset = 0 /\ call.got = {} /\ call.known = {}
      /\ call.pages = 0 /\ call.imported = 0
  BY TsRestIs DEF TsCallType, TsSteps
<1> HIDE DEF call
<1>2. tsLen \in Nat
  BY TsAssumption DEF TsTypeOK
<1> SUFFICES call \in TsCallType /\ TsCallOK(call, done, tsLen, tsOdd, tsRows)
  BY DEF call
<1> QED BY <1>1, <1>2 DEF TsCallOK, TsBusy

LEMMA TsEndedOK ==
  ASSUME NEW done \in TsDones, NEW len \in Nat, done.len <= len, NEW odd, NEW rows,
         done.how = "oldest" => (1..done.len) \ odd \subseteq rows,
         done.how \in {"known", "limit"} => TsFirstPage(done.len, odd) \subseteq rows
  PROVE  /\ [TsRest EXCEPT !.step = "ended"] \in TsCallType
         /\ [TsRest EXCEPT !.step = "ended"].step = "ended"
         /\ TsCallOK([TsRest EXCEPT !.step = "ended"], done, len, odd, rows)
<1> DEFINE call == [TsRest EXCEPT !.step = "ended"]
<1>1. call \in TsCallType /\ call.step = "ended" /\ call.offset = 0 /\ call.got = {} /\ call.known = {}
      /\ call.pages = 0 /\ call.imported = 0
  BY TsRestIs DEF TsCallType, TsSteps
<1> HIDE DEF call
<1> SUFFICES call \in TsCallType /\ call.step = "ended" /\ TsCallOK(call, done, len, odd, rows)
  BY DEF call
<1> QED BY <1>1 DEF TsCallOK, TsBusy

LEMMA TsInitInv == TsInit => TsInv
<1> SUFFICES ASSUME TsInit PROVE TsInv
  OBVIOUS
<1> DEFINE done == [how |-> "none", len |-> 0]
<1>1. done \in TsDones /\ done.how = "none" /\ done.len = 0
  BY TsAssumption DEF TsDones, TsEnds
<1>2. TsRest \in TsCallType /\ TsRest.step = "idle" /\ TsRest.offset = 0 /\ TsRest.got = {}
      /\ TsRest.known = {} /\ TsRest.pages = 0 /\ TsRest.imported = 0
  BY TsRestIs
<1>3. \A c \in TsCalls : tsCall[c] = TsRest /\ tsDone[c] = done
  BY DEF TsInit
<1>4. tsLen = 0 /\ tsRows = {} /\ tsOdd = {} /\ tsDue = {} /\ tsLast = 0 /\ tsFaults = 0 /\ tsBack = FALSE
  BY DEF TsInit
<1>5. tsCall \in [TsCalls -> TsCallType]
  BY <1>2 DEF TsInit
<1>6. tsDone \in [TsCalls -> TsDones]
  BY <1>1 DEF TsInit
<1> HIDE DEF done
<1>7. TsTypeOK
  <2>1. tsLen \in 0..TsMax /\ tsFaults \in 0..TsMaxFaults /\ tsLast \in 0..tsLen
    BY <1>4, TsNumbers
  <2> QED BY <1>4, <1>5, <1>6, <2>1 DEF TsTypeOK, TsDones
<1>8. TsCallOK(TsRest, done, 0, {}, {})
  BY <1>1, <1>2 DEF TsCallOK, TsBusy
<1> QED BY <1>3, <1>4, <1>7, <1>8 DEF TsInv, TsLastIsNewest, TsNewest

\* Types of what a call looks at.
LEMMA TsTyped ==
  ASSUME TsInv, NEW c \in TsCalls
  PROVE  /\ tsCall[c] \in TsCallType /\ tsDone[c] \in TsDones
         /\ TsCallOK(tsCall[c], tsDone[c], tsLen, tsOdd, tsRows)
         /\ tsLen \in Nat /\ TsMax \in Nat /\ tsLen <= TsMax /\ tsOdd \subseteq 1..tsLen
         /\ tsRows \subseteq (1..tsLen) \ tsOdd
BY TsAssumption DEF TsInv, TsTypeOK, TsDones

\* A step of one call that leaves the thread, its rows and the newest time alone.
LEMMA TsCallStep ==
  ASSUME TsInv, NEW c \in TsCalls, NEW call \in TsCallType, NEW done \in TsDones,
         tsCall' = [tsCall EXCEPT ![c] = call], tsDone' = [tsDone EXCEPT ![c] = done],
         TsCallOK(call, done, tsLen, tsOdd, tsRows),
         tsCall[c].step # "last",
         tsLen' = tsLen, tsOdd' = tsOdd, tsDue' = tsDue, tsRows' = tsRows, tsLast' = tsLast,
         tsBack' = tsBack, tsFaults' \in 0..TsMaxFaults
  PROVE  TsInv'
<1>1. tsCall \in [TsCalls -> TsCallType] /\ tsDone \in [TsCalls -> TsDones]
  BY DEF TsInv, TsTypeOK, TsDones
<1>2. tsCall' \in [TsCalls -> TsCallType] /\ tsDone' \in [TsCalls -> TsDones]
  BY <1>1
<1>3. \A d \in TsCalls : TsCallOK(tsCall'[d], tsDone'[d], tsLen, tsOdd, tsRows)
  <2> SUFFICES ASSUME NEW d \in TsCalls
               PROVE  TsCallOK(tsCall'[d], tsDone'[d], tsLen, tsOdd, tsRows)
    OBVIOUS
  <2>1. CASE d = c
    <3>1. tsCall'[d] = call /\ tsDone'[d] = done
      BY <1>1, <2>1
    <3> QED BY <3>1
  <2>2. CASE d # c
    <3>1. tsCall'[d] = tsCall[d] /\ tsDone'[d] = tsDone[d]
      BY <1>1, <2>2
    <3> QED BY <3>1 DEF TsInv
  <2> QED BY <2>1, <2>2
<1>4. TsTypeOK'
  BY <1>2 DEF TsInv, TsTypeOK, TsDones
<1>5. \A d \in TsCalls : tsCall[d].step = "last" => tsCall'[d].step = "last"
  BY <1>1
<1>6. TsLastIsNewest'
  <2>1. CASE tsLast = TsNewest(tsRows) \/ tsBack
    BY <2>1 DEF TsLastIsNewest
  <2>2. CASE \E d \in TsCalls : tsCall[d].step = "last"
    BY <1>5, <2>2 DEF TsLastIsNewest
  <2> QED BY <2>1, <2>2 DEF TsInv, TsLastIsNewest
<1> QED BY <1>3, <1>4, <1>6 DEF TsInv

LEMMA TsArriveKeeps == ASSUME TsInv, NEW odd \in BOOLEAN, NEW missed \in BOOLEAN, TsArrive(odd, missed)
                       PROVE TsInv'
<1>1. /\ tsLen < TsMax /\ tsLen' = tsLen + 1
      /\ tsOdd' = IF odd THEN tsOdd \union {tsLen + 1} ELSE tsOdd
      /\ tsDue' = IF odd \/ missed THEN tsDue ELSE tsDue \union {tsLen + 1}
      /\ tsRows' = tsRows /\ tsLast' = tsLast /\ tsCall' = tsCall /\ tsFaults' = tsFaults
      /\ tsDone' = tsDone /\ tsBack' = tsBack
  BY DEF TsArrive
<1>2. /\ tsLen \in Nat /\ TsMax \in Nat /\ tsLen <= TsMax /\ tsOdd \subseteq 1..tsLen
      /\ tsRows \subseteq (1..tsLen) \ tsOdd /\ tsDue \subseteq 1..tsLen /\ tsDue \intersect tsOdd = {}
      /\ tsLast \in 0..tsLen
  BY TsAssumption DEF TsInv, TsTypeOK
<1>3. /\ tsLen' \in 0..TsMax /\ tsOdd' \subseteq 1..tsLen' /\ tsDue' \subseteq 1..tsLen'
      /\ tsRows \subseteq (1..tsLen') \ tsOdd' /\ tsDue' \intersect tsOdd' = {}
      /\ tsLast \in 0..tsLen'
  <2>1. 1..tsLen \subseteq 1..(tsLen + 1) /\ tsLen + 1 \in 1..(tsLen + 1) /\ tsLen + 1 \notin 1..tsLen
        /\ 0..tsLen \subseteq 0..(tsLen + 1)
    BY <1>2
  <2> QED BY <1>1, <1>2, <2>1
<1>4. tsLen <= tsLen' /\ tsLen' \in Nat /\ tsOdd \subseteq tsOdd' /\ \A m \in tsOdd' \ tsOdd : m > tsLen
  BY <1>1, <1>2
<1>5. \A c \in TsCalls : TsCallOK(tsCall[c], tsDone[c], tsLen', tsOdd', tsRows)
  BY <1>2, <1>4, TsTyped, TsGrows
<1>6. TsTypeOK'
  BY <1>1, <1>3 DEF TsInv, TsTypeOK
<1>7. TsLastIsNewest'
  BY <1>1 DEF TsInv, TsLastIsNewest
<1> QED BY <1>1, <1>3, <1>5, <1>6, <1>7 DEF TsInv

LEMMA TsWebhookKeeps == ASSUME TsInv, NEW m \in tsDue, TsWebhook(m) PROVE TsInv'
<1>1. /\ tsDue' = tsDue \ {m} /\ tsRows' = tsRows \union {m} /\ tsLast' = TsNewest({tsLast, m})
      /\ tsBack' = (tsBack /\ m < TsNewest(tsRows))
      /\ tsLen' = tsLen /\ tsOdd' = tsOdd /\ tsCall' = tsCall /\ tsFaults' = tsFaults /\ tsDone' = tsDone
  BY DEF TsWebhook
<1>2. /\ tsLen \in Nat /\ TsMax \in Nat /\ tsLen <= TsMax /\ tsOdd \subseteq 1..tsLen
      /\ tsRows \subseteq (1..tsLen) \ tsOdd /\ tsDue \subseteq 1..tsLen /\ tsDue \intersect tsOdd = {}
      /\ tsLast \in tsRows \union {0} /\ m \in 1..tsLen /\ m \notin tsOdd
  BY TsAssumption DEF TsInv, TsTypeOK
<1>3. TsNewest({tsLast, m}) = IF tsLast > m THEN tsLast ELSE m
  <2>1. {tsLast, m} \subseteq Nat /\ {tsLast, m} # {} /\ \A x \in {tsLast, m} : x <= tsLen
    BY <1>2
  <2>2. Max({tsLast, m}) \in {tsLast, m} /\ \A x \in {tsLast, m} : x <= Max({tsLast, m})
    BY <1>2, <2>1, MaxBounded
  <2> DEFINE n == Max({tsLast, m})
  <2>3. (n = tsLast \/ n = m) /\ tsLast <= n /\ m <= n
    BY <2>2
  <2>4. TsNewest({tsLast, m}) = n
    BY DEF TsNewest
  <2> HIDE DEF n
  <2> QED BY <1>2, <2>3, <2>4
<1> DEFINE old == TsNewest(tsRows)
           new == TsNewest(tsRows \union {m})
<1>4. /\ old \in 0..TsMax /\ (tsRows = {} => old = 0) /\ (tsRows # {} => old \in tsRows)
      /\ \A x \in tsRows : x <= old
      /\ new \in 0..TsMax /\ new \in tsRows \union {m} /\ \A x \in tsRows \union {m} : x <= new
  <2>1. tsRows \subseteq 1..TsMax /\ tsRows \union {m} \subseteq 1..TsMax
    BY <1>2
  <2> QED BY <2>1, TsNewestIs
<1> HIDE DEF old, new
<1>5. tsLast <= old /\ (new = old \/ new = m) /\ m <= new /\ old <= new
  BY <1>2, <1>4
<1>6. TsLastIsNewest'
  <2>1. CASE tsLast = old
    <3>1. tsLast' = new
      BY <1>1, <1>2, <1>3, <1>4, <1>5, <2>1
    <3> QED BY <1>1, <3>1 DEF TsLastIsNewest, new
  <2>2. CASE tsBack /\ m < old
    BY <1>1, <2>2 DEF TsLastIsNewest, old
  <2>3. CASE tsBack /\ ~(m < old)
    <3>1. tsLast' = new
      BY <1>1, <1>2, <1>3, <1>4, <1>5, <2>3
    <3> QED BY <1>1, <3>1 DEF TsLastIsNewest, new
  <2>4. CASE \E c \in TsCalls : tsCall[c].step = "last"
    BY <1>1, <2>4 DEF TsLastIsNewest
  <2> QED BY <2>1, <2>2, <2>3, <2>4 DEF TsInv, TsLastIsNewest, old
<1>7. /\ tsRows' \subseteq (1..tsLen) \ tsOdd /\ tsDue' \subseteq 1..tsLen /\ tsDue' \intersect tsOdd = {}
      /\ tsLast' \in tsRows' \union {0} /\ tsLast' \in 0..tsLen /\ tsBack' \in BOOLEAN
  <2>1. tsLast \in 0..tsLen
    BY <1>2
  <2> QED BY <1>1, <1>2, <1>3, <2>1
<1>8. \A c \in TsCalls : TsCallOK(tsCall[c], tsDone[c], tsLen, tsOdd, tsRows')
  BY <1>1, <1>2, TsTyped, TsGrows
<1>9. TsTypeOK'
  BY <1>1, <1>7 DEF TsInv, TsTypeOK
<1> QED BY <1>1, <1>6, <1>7, <1>8, <1>9 DEF TsInv

LEMMA TsBeginKeeps == ASSUME TsInv, NEW c \in TsCalls, NEW mode \in TsModes, TsBegin(c, mode) PROVE TsInv'
<1> DEFINE call == [TsRest EXCEPT !.mode = mode, !.step = "fetch"]
<1>1. /\ tsCall[c].step = "idle" /\ tsCall' = [tsCall EXCEPT ![c] = call]
      /\ tsLen' = tsLen /\ tsOdd' = tsOdd /\ tsDue' = tsDue /\ tsRows' = tsRows /\ tsLast' = tsLast
      /\ tsFaults' = tsFaults /\ tsDone' = tsDone /\ tsBack' = tsBack
  BY DEF TsBegin
<1>2. tsDone[c] \in TsDones /\ tsDone[c].how = "none" /\ tsDone[c].len <= tsLen
  BY <1>1, TsTyped DEF TsCallOK
<1>3. call \in TsCallType /\ TsCallOK(call, tsDone[c], tsLen, tsOdd, tsRows)
  BY <1>2, TsRestOK DEF TsInv
<1>4. tsDone' = [tsDone EXCEPT ![c] = tsDone[c]]
  BY <1>1 DEF TsInv, TsTypeOK
<1>5. tsFaults' \in 0..TsMaxFaults
  BY <1>1 DEF TsInv, TsTypeOK
<1> HIDE DEF call
<1> QED BY <1>1, <1>2, <1>3, <1>4, <1>5, TsCallStep

LEMMA TsFailKeeps == ASSUME TsInv, NEW c \in TsCalls, TsFail(c) PROVE TsInv'
<1> DEFINE call == [TsRest EXCEPT !.step = "ended"]
           done == [tsDone[c] EXCEPT !.how = "failed"]
<1>1. /\ tsCall[c].step = "fetch" /\ tsCall' = [tsCall EXCEPT ![c] = call]
      /\ tsDone' = [tsDone EXCEPT ![c].how = "failed"]
      /\ tsLen' = tsLen /\ tsOdd' = tsOdd /\ tsDue' = tsDue /\ tsRows' = tsRows /\ tsLast' = tsLast
      /\ tsFaults < TsMaxFaults /\ tsFaults' = tsFaults + 1 /\ tsBack' = tsBack
  BY DEF TsFail, TsEnd
<1>2. tsDone[c] \in TsDones /\ tsDone[c].len <= tsLen /\ tsLen \in Nat
  BY TsTyped DEF TsCallOK
<1>3. done \in TsDones /\ done.how = "failed" /\ done.len <= tsLen
  BY <1>2 DEF TsDones, TsEnds
<1>4. tsDone' = [tsDone EXCEPT ![c] = done]
  BY <1>1 DEF TsInv, TsTypeOK
<1> HIDE DEF done
<1>5. call \in TsCallType /\ TsCallOK(call, done, tsLen, tsOdd, tsRows)
  BY <1>2, <1>3, TsEndedOK
<1>6. tsFaults' \in 0..TsMaxFaults
  BY <1>1, TsAssumption DEF TsInv, TsTypeOK
<1> HIDE DEF call
<1> QED BY <1>1, <1>3, <1>4, <1>5, <1>6, TsCallStep

LEMMA TsReadKeeps == ASSUME TsInv, NEW c \in TsCalls, TsRead(c) PROVE TsInv'
<1> DEFINE old == tsCall[c]
           call == [old EXCEPT !.step = "create", !.known = old.got \intersect tsRows]
<1>1. /\ old.step = "read"
      /\ tsCall' = [tsCall EXCEPT ![c].step = "create", ![c].known = tsCall[c].got \intersect tsRows]
      /\ tsLen' = tsLen /\ tsOdd' = tsOdd /\ tsDue' = tsDue /\ tsRows' = tsRows /\ tsLast' = tsLast
      /\ tsFaults' = tsFaults /\ tsDone' = tsDone /\ tsBack' = tsBack
  BY DEF TsRead
<1>2. /\ old \in TsCallType /\ tsDone[c] \in TsDones /\ TsCallOK(old, tsDone[c], tsLen, tsOdd, tsRows)
  BY TsTyped
<1>3. tsCall' = [tsCall EXCEPT ![c] = call]
  BY <1>1 DEF TsInv, TsTypeOK
<1>4. /\ call \in TsCallType /\ call.step = "create" /\ call.known = old.got \intersect tsRows
      /\ call.got = old.got /\ call.offset = old.offset /\ call.more = old.more
      /\ call.pages = old.pages /\ call.imported = old.imported
  BY <1>2 DEF TsCallType, TsSteps
<1>5. tsDone' = [tsDone EXCEPT ![c] = tsDone[c]]
  BY <1>1 DEF TsInv, TsTypeOK
<1>6. tsFaults' \in 0..TsMaxFaults
  BY <1>1 DEF TsInv, TsTypeOK
<1> HIDE DEF call, old
<1>7. TsPending(old) \subseteq tsRows \union TsPending(call) /\ TsBusy(old) /\ TsBusy(call)
  BY <1>1, <1>4 DEF TsPending, TsBusy
<1>8. TsCallOK(call, tsDone[c], tsLen, tsOdd, tsRows)
  BY <1>1, <1>2, <1>4, <1>7 DEF TsCallOK
<1>9. tsCall[c].step # "last"
  BY <1>1 DEF old
<1> QED BY <1>1, <1>2, <1>3, <1>4, <1>5, <1>6, <1>8, <1>9, TsCallStep

LEMMA TsFetchKeeps == ASSUME TsInv, NEW c \in TsCalls, TsFetch(c) PROVE TsInv'
<1> DEFINE old == tsCall[c]
           raw == TsRaw(old.offset)
           got == raw \ tsOdd
<1>1. /\ old.step = "fetch"
      /\ tsLen' = tsLen /\ tsOdd' = tsOdd /\ tsDue' = tsDue /\ tsRows' = tsRows /\ tsLast' = tsLast
      /\ tsFaults' = tsFaults /\ tsBack' = tsBack
  BY DEF TsFetch
<1>2. /\ old \in TsCallType /\ tsDone[c] \in TsDones /\ TsCallOK(old, tsDone[c], tsLen, tsOdd, tsRows)
      /\ tsLen \in Nat /\ TsMax \in Nat /\ tsLen <= TsMax /\ tsDone[c].how = "none"
      /\ tsDone[c].len <= tsLen /\ tsDone[c].len \in 0..TsMax
      /\ TsPage \in Nat /\ TsPage > 0
  BY <1>1, TsTyped, TsAssumption DEF TsCallOK, TsDones
<1>3. tsFaults' \in 0..TsMaxFaults
  BY <1>1 DEF TsInv, TsTypeOK
<1>4. tsCall[c].step # "last"
  BY <1>1
<1>5. CASE got = {}
  <2> DEFINE call == [TsRest EXCEPT !.step = "ended"]
             done == [tsDone[c] EXCEPT !.how = "empty"]
  <2>1. tsCall' = [tsCall EXCEPT ![c] = call] /\ tsDone' = [tsDone EXCEPT ![c].how = "empty"]
    BY <1>5 DEF TsFetch, TsEnd
  <2>2. done \in TsDones /\ done.how = "empty" /\ done.len <= tsLen
    BY <1>2 DEF TsDones, TsEnds
  <2>3. tsDone' = [tsDone EXCEPT ![c] = done]
    BY <2>1 DEF TsInv, TsTypeOK
  <2> HIDE DEF done
  <2>4. call \in TsCallType /\ TsCallOK(call, done, tsLen, tsOdd, tsRows)
    BY <1>2, <2>2, TsEndedOK
  <2> HIDE DEF call
  <2> QED BY <1>1, <1>3, <1>4, <2>1, <2>2, <2>3, <2>4, TsCallStep
<1>6. CASE got # {}
  <2> DEFINE off == old.offset + Cardinality(raw)
             call == [old EXCEPT !.step = "read", !.got = got, !.more = TsMore(old.offset),
                                 !.offset = off]
             done == IF old.offset = 0 THEN [tsDone[c] EXCEPT !.len = tsLen] ELSE tsDone[c]
  <2>1. /\ tsCall' = [tsCall EXCEPT ![c].step = "read", ![c].got = got,
                                    ![c].more = TsMore(old.offset), ![c].offset = @ + Cardinality(raw)]
        /\ tsDone' = IF old.offset = 0 THEN [tsDone EXCEPT ![c].len = tsLen] ELSE tsDone
    BY <1>6 DEF TsFetch
  <2>2. tsCall' = [tsCall EXCEPT ![c] = call] /\ tsDone' = [tsDone EXCEPT ![c] = done]
    BY <2>1 DEF TsInv, TsTypeOK
  <2>3. old.offset \in Nat /\ old.offset <= tsLen /\ old.pages \in Nat /\ old.imported \in Nat
        /\ old.pages <= old.offset /\ old.imported <= old.offset
        /\ old.known = {}
    BY <1>1, <1>2 DEF TsCallType, TsCallOK
  <2>4. TsMore(old.offset) \in BOOLEAN
    BY DEF TsMore
  <2>5. PICK lo \in 1..tsLen :
           /\ raw = lo..(tsLen - old.offset) /\ lo <= tsLen - old.offset
           /\ IsFiniteSet(raw) /\ Cardinality(raw) = tsLen - old.offset - lo + 1
           /\ ~TsMore(old.offset) => lo = 1
           /\ \A m \in Int : m > tsLen - old.offset - TsPage => m >= lo \/ m < 1
    <3>1. PICK x \in raw : TRUE
      BY <1>6
    <3> QED BY <2>3, <3>1, TsRawIs DEF TsInv
  <2>6. off = tsLen - lo + 1 /\ off \in Nat /\ off <= tsLen /\ off > old.offset /\ off \in 0..TsMax
    BY <1>2, <2>3, <2>5, SMTT(20)
  <2>7. got \subseteq 1..tsLen /\ got \in SUBSET (1..TsMax) /\ got \intersect tsOdd = {}
    BY <1>2, <2>3, <2>5, SMTT(20)
  <2>8. Cardinality(got) \in Nat /\ Cardinality(got) <= Cardinality(raw)
    <3>1. got \subseteq raw
      OBVIOUS
    <3> QED BY <2>5, <3>1, FS_Subset, FS_CardinalityType
  <2>9. old.imported + Cardinality(got) <= off /\ old.pages + 1 <= off
    <3> DEFINE g == Cardinality(got)
               r == Cardinality(raw)
    <3>1. g \in Nat /\ g <= r /\ off = old.offset + r /\ r \in Nat /\ off > old.offset
      BY <1>2, <2>3, <2>5, <2>6, <2>8
    <3> HIDE DEF g, r, off
    <3>2. old.imported + g <= off /\ old.pages + 1 <= off
      BY <2>3, <2>6, <3>1
    <3> QED BY <3>2 DEF g
  <2>10. /\ done \in TsDones /\ done.how = "none" /\ done.len <= tsLen /\ done.len \in Nat
         /\ old.offset = 0 => done.len = tsLen
         /\ old.offset # 0 => done = tsDone[c]
    BY <1>2 DEF TsDones, TsEnds
  <2>12. \A m \in (1..done.len) \ tsOdd : m >= lo => m \in tsRows \union got
    <3> SUFFICES ASSUME NEW m \in (1..done.len) \ tsOdd, m >= lo PROVE m \in tsRows \union got
      OBVIOUS
    <3>1. CASE m <= tsLen - old.offset
      BY <1>2, <2>3, <2>5, <2>10, <3>1
    <3>2. CASE m > tsLen - old.offset
      <4>1. old.offset > 0 /\ done = tsDone[c]
        BY <1>2, <2>3, <2>10, <3>2
      <4>2. m \in tsRows \union TsPending(old)
        BY <1>2, <3>2, <4>1 DEF TsCallOK
      <4> QED BY <1>1, <4>2 DEF TsPending
    <3> QED BY <1>2, <2>3, <2>10, <3>1, <3>2
  <2>13. TsFirstPage(done.len, tsOdd) \subseteq tsRows \union got
    <3>1. CASE old.offset > 0
      BY <1>1, <1>2, <2>10, <3>1 DEF TsCallOK, TsPending
    <3>2. CASE old.offset = 0
      BY <1>2, <2>3, <2>5, <2>10, <2>12, <3>2 DEF TsFirstPage
    <3> QED BY <2>3, <3>1, <3>2
  <2> HIDE DEF got, off, done
  <2>14. /\ call \in [mode : TsModes, step : TsSteps, offset : 0..TsMax, got : SUBSET (1..TsMax),
                      known : SUBSET (1..TsMax), more : BOOLEAN, pages : 0..TsMax, imported : 0..TsMax]
         /\ call.step = "read" /\ call.got = got /\ call.more = TsMore(old.offset) /\ call.offset = off
         /\ call.pages = old.pages /\ call.imported = old.imported /\ call.known = old.known
    BY <1>2, <2>4, <2>6, <2>7 DEF TsCallType, TsSteps
  <2> HIDE DEF call
  <2>15. call \in TsCallType
    BY <2>14 DEF TsCallType
  <2>16. TsPending(call) = got /\ TsBusy(call)
    BY <2>14 DEF TsPending, TsBusy
  <2>17. \A m \in (1..done.len) \ tsOdd : m > tsLen - off => m \in tsRows \union got
    <3> SUFFICES ASSUME NEW m \in (1..done.len) \ tsOdd, m > tsLen - off PROVE m >= lo
      BY <2>12
    <3> QED BY <1>2, <2>6, <2>10
  <2>18. ~TsMore(old.offset) => (1..done.len) \ tsOdd \subseteq tsRows \union got
    BY <2>5, <2>12, <2>10
  <2>19. /\ call.offset <= tsLen /\ call.pages <= call.offset /\ call.imported <= call.offset
         /\ call.offset > 0 /\ call.pages + 1 <= call.offset
         /\ call.imported + Cardinality(call.got) <= call.offset
    BY <1>2, <2>3, <2>6, <2>8, <2>9, <2>14
  <2>20. TsCallOK(call, done, tsLen, tsOdd, tsRows)
    BY <2>3, <2>7, <2>10, <2>13, <2>14, <2>16, <2>17, <2>18, <2>19 DEF TsCallOK
  <2> QED BY <1>1, <1>3, <1>4, <2>2, <2>10, <2>15, <2>20, TsCallStep
<1> QED BY <1>5, <1>6

\* How a call goes on after a page whose messages are all stored.
LEMMA TsTurnIs ==
  ASSUME TsInv, NEW c \in TsCalls, TsTurn(c), tsCall[c].step \in {"create", "last"},
         NEW rows, tsRows \subseteq rows, TsPending(tsCall[c]) \subseteq rows
  PROVE  \E call \in TsCallType, done \in TsDones :
           /\ tsCall' = [tsCall EXCEPT ![c] = call] /\ tsDone' = [tsDone EXCEPT ![c] = done]
           /\ TsCallOK(call, done, tsLen, tsOdd, rows)
           /\ call.step \in {"fetch", "ended"}
<1> DEFINE old == tsCall[c]
           imported == Cardinality(TsNew(c))
           how == IF old.mode = "sync" THEN TsSyncEnd(c, imported) ELSE TsImportEnd(c, imported)
<1>1. /\ old \in TsCallType /\ tsDone[c] \in TsDones /\ TsCallOK(old, tsDone[c], tsLen, tsOdd, tsRows)
      /\ tsLen \in Nat /\ TsMax \in Nat /\ tsLen <= TsMax /\ tsDone[c].how = "none"
      /\ tsDone[c].len <= tsLen
  BY TsTyped DEF TsCallOK
<1>2. /\ TsBusy(old) /\ old.offset > 0 /\ old.offset <= tsLen /\ old.offset \in Nat
      /\ old.pages \in Nat /\ old.imported \in Nat
      /\ old.pages + 1 <= old.offset /\ old.imported + Cardinality(old.got) <= old.offset
      /\ old.got \subseteq 1..tsLen
  BY <1>1 DEF TsBusy, TsCallOK, TsCallType
<1>3. imported \in Nat /\ imported <= Cardinality(old.got) /\ Cardinality(old.got) \in Nat
  <2>0. tsLen \in Int /\ 1 \in Int
    BY <1>1
  <2>1. IsFiniteSet(1..tsLen)
    BY <2>0, FS_Interval
  <2>2. IsFiniteSet(old.got)
    BY <1>2, <2>1, FS_Subset
  <2>3. TsNew(c) \subseteq old.got
    BY DEF TsNew
  <2> QED BY <2>2, <2>3, FS_Subset, FS_CardinalityType
<1>4. /\ TsFirstPage(tsDone[c].len, tsOdd) \subseteq rows
      /\ \A m \in (1..tsDone[c].len) \ tsOdd : m > tsLen - old.offset => m \in rows
      /\ ~old.more => (1..tsDone[c].len) \ tsOdd \subseteq rows
  <2>1. tsRows \union TsPending(old) \subseteq rows
    OBVIOUS
  <2> QED BY <1>1, <1>2, <2>1 DEF TsCallOK
<1>5. how \in {"none", "known", "oldest", "limit"} /\ (how = "oldest" => ~old.more)
  <2>1. TsSyncEnd(c, imported) \in {"none", "known", "oldest", "limit"}
        /\ (TsSyncEnd(c, imported) = "oldest" => ~old.more)
    BY DEF TsSyncEnd
  <2>2. TsImportEnd(c, imported) \in {"none", "known", "oldest", "limit"}
        /\ (TsImportEnd(c, imported) = "oldest" => ~old.more)
    BY DEF TsImportEnd
  <2> QED BY <2>1, <2>2
<1>6. IF how # "none" THEN TsEnd(c, how)
      ELSE /\ tsCall' = [tsCall EXCEPT ![c].step = "fetch", ![c].got = {}, ![c].known = {},
                                       ![c].pages = @ + 1, ![c].imported = @ + imported]
           /\ tsDone' = tsDone
  BY DEF TsTurn
<1> HIDE DEF how, imported
<1>7. CASE how # "none"
  <2> DEFINE call == [TsRest EXCEPT !.step = "ended"]
             done == [tsDone[c] EXCEPT !.how = how]
  <2>1. tsCall' = [tsCall EXCEPT ![c] = call] /\ tsDone' = [tsDone EXCEPT ![c].how = how]
    BY <1>6, <1>7 DEF TsEnd
  <2>2. done \in TsDones /\ done.how = how /\ done.len = tsDone[c].len
    BY <1>1, <1>5 DEF TsDones, TsEnds
  <2>3. tsDone' = [tsDone EXCEPT ![c] = done]
    BY <2>1 DEF TsInv, TsTypeOK
  <2> HIDE DEF done
  <2>4. call \in TsCallType /\ call.step = "ended" /\ TsCallOK(call, done, tsLen, tsOdd, rows)
    BY <1>1, <1>4, <1>5, <2>2, TsEndedOK
  <2> HIDE DEF call
  <2> QED BY <2>1, <2>2, <2>3, <2>4
<1>8. CASE how = "none"
  <2> DEFINE call == [old EXCEPT !.step = "fetch", !.got = {}, !.known = {},
                                 !.pages = @ + 1, !.imported = @ + imported]
  <2>1. tsCall' = [tsCall EXCEPT ![c] = call]
    BY <1>6, <1>8 DEF TsInv, TsTypeOK
  <2>2. tsDone' = [tsDone EXCEPT ![c] = tsDone[c]]
    BY <1>6, <1>8 DEF TsInv, TsTypeOK
  <2>3. old.pages + 1 \in 0..TsMax /\ old.imported + imported \in 0..TsMax
        /\ old.imported + imported <= old.offset
    BY <1>1, <1>2, <1>3
  <2>4. /\ call \in TsCallType /\ call.step = "fetch" /\ call.got = {} /\ call.known = {}
        /\ call.offset = old.offset /\ call.pages = old.pages + 1
        /\ call.imported = old.imported + imported
    BY <1>1, <2>3 DEF TsCallType, TsSteps
  <2> HIDE DEF call, old
  <2>5. ~TsBusy(call)
    BY <2>4 DEF TsBusy
  <2>6. TsCallOK(call, tsDone[c], tsLen, tsOdd, rows)
    BY <1>1, <1>2, <1>4, <2>3, <2>4, <2>5 DEF TsCallOK
  <2> QED BY <1>1, <2>1, <2>2, <2>4, <2>6
<1> QED BY <1>7, <1>8

LEMMA TsCreateKeeps == ASSUME TsInv, NEW c \in TsCalls, TsCreate(c) PROVE TsInv'
<1> DEFINE old == tsCall[c]
           new == TsNew(c)
<1>1. /\ old.step = "create" /\ tsRows' = tsRows \union new
      /\ tsLen' = tsLen /\ tsOdd' = tsOdd /\ tsDue' = tsDue /\ tsLast' = tsLast
      /\ tsFaults' = tsFaults /\ tsBack' = tsBack
  BY DEF TsCreate
<1>2. /\ old \in TsCallType /\ tsDone[c] \in TsDones /\ TsCallOK(old, tsDone[c], tsLen, tsOdd, tsRows)
      /\ tsRows \subseteq (1..tsLen) \ tsOdd /\ new \subseteq (1..tsLen) \ tsOdd
      /\ tsLen \in Nat
  BY TsTyped DEF TsCallOK, TsNew
<1>3. TsPending(old) = new
  BY <1>1 DEF TsPending, TsNew
<1>4. tsFaults' \in 0..TsMaxFaults
  BY <1>1 DEF TsInv, TsTypeOK
<1>5. CASE new = {}
  <2>1. TsTurn(c) /\ tsRows' = tsRows
    BY <1>1, <1>5 DEF TsCreate
  <2>2. PICK call \in TsCallType, done \in TsDones :
           /\ tsCall' = [tsCall EXCEPT ![c] = call] /\ tsDone' = [tsDone EXCEPT ![c] = done]
           /\ TsCallOK(call, done, tsLen, tsOdd, tsRows)
    BY <1>1, <1>3, <1>5, <2>1, TsTurnIs
  <2> QED BY <1>1, <1>4, <2>1, <2>2, TsCallStep
<1>6. CASE new # {}
  <2> DEFINE call == [old EXCEPT !.step = "last"]
  <2>1. tsCall' = [tsCall EXCEPT ![c].step = "last"] /\ tsDone' = tsDone
    BY <1>6 DEF TsCreate
  <2>2. tsCall' = [tsCall EXCEPT ![c] = call]
    BY <2>1 DEF TsInv, TsTypeOK
  <2>3. /\ call \in TsCallType /\ call.step = "last" /\ call.got = old.got /\ call.known = old.known
        /\ call.offset = old.offset /\ call.pages = old.pages /\ call.imported = old.imported
        /\ call.more = old.more
    BY <1>2 DEF TsCallType, TsSteps
  <2> HIDE DEF call
  <2>4. call.got \ call.known = new
    BY <2>3 DEF TsNew
  <2>5. TsBusy(old) /\ TsBusy(call)
    BY <1>1, <2>3 DEF TsBusy
  <2>6. TsCallOK(call, tsDone[c], tsLen, tsOdd, tsRows')
    <3>1. tsRows \union TsPending(old) \subseteq tsRows' /\ tsRows \subseteq tsRows'
      BY <1>1, <1>3
    <3>2. /\ TsFirstPage(tsDone[c].len, tsOdd) \subseteq tsRows'
          /\ \A m \in (1..tsDone[c].len) \ tsOdd : m > tsLen - old.offset => m \in tsRows'
          /\ ~old.more => (1..tsDone[c].len) \ tsOdd \subseteq tsRows'
      BY <1>2, <2>5, <3>1 DEF TsCallOK
    <3>3. /\ tsDone[c].how = "none" /\ tsDone[c].len <= tsLen /\ old.offset <= tsLen
          /\ old.pages <= old.offset /\ old.imported <= old.offset
          /\ old.got \subseteq (1..tsLen) \ tsOdd /\ old.known \subseteq old.got
          /\ old.offset > 0 /\ old.pages + 1 <= old.offset
          /\ old.imported + Cardinality(old.got) <= old.offset /\ old.known \subseteq tsRows'
      BY <1>1, <1>2, <2>5, <3>1 DEF TsCallOK
    <3>4. new \subseteq tsRows'
      BY <1>1
    <3> QED BY <1>6, <2>3, <2>4, <2>5, <3>2, <3>3, <3>4 DEF TsCallOK
  <2>7. tsCall \in [TsCalls -> TsCallType] /\ tsCall' \in [TsCalls -> TsCallType]
    BY <2>2, <2>3 DEF TsInv, TsTypeOK
  <2>8. \A d \in TsCalls : TsCallOK(tsCall'[d], tsDone[d], tsLen, tsOdd, tsRows')
    <3> SUFFICES ASSUME NEW d \in TsCalls
                 PROVE  TsCallOK(tsCall'[d], tsDone[d], tsLen, tsOdd, tsRows')
      OBVIOUS
    <3>1. CASE d = c
      BY <2>2, <2>6, <2>7, <3>1
    <3>2. CASE d # c
      <4>1. tsCall'[d] = tsCall[d]
        BY <2>2, <2>7, <3>2
      <4>2. TsCallOK(tsCall[d], tsDone[d], tsLen, tsOdd, tsRows')
        BY <1>1, <1>2, TsTyped, TsGrows
      <4> QED BY <4>1, <4>2
    <3> QED BY <3>1, <3>2
  <2>9. TsTypeOK'
    BY <1>1, <1>2, <2>1, <2>7 DEF TsInv, TsTypeOK
  <2>10. TsLastIsNewest'
    <3>1. tsCall'[c].step = "last"
      BY <2>2, <2>3, <2>7
    <3> QED BY <3>1 DEF TsLastIsNewest
  <2> QED BY <1>1, <2>1, <2>8, <2>9, <2>10 DEF TsInv
<1> QED BY <1>5, <1>6

LEMMA TsLastAtKeeps == ASSUME TsInv, NEW c \in TsCalls, TsLastAt(c) PROVE TsInv'
<1> DEFINE new == TsNew(c)
<1>1. /\ tsCall[c].step = "last" /\ tsLast' = TsNewest(new)
      /\ tsBack' = (TsNewest(new) < TsNewest(tsRows)) /\ TsTurn(c)
      /\ tsLen' = tsLen /\ tsOdd' = tsOdd /\ tsDue' = tsDue /\ tsRows' = tsRows
      /\ tsFaults' = tsFaults
  BY DEF TsLastAt
<1>2. /\ TsCallOK(tsCall[c], tsDone[c], tsLen, tsOdd, tsRows) /\ tsLen \in Nat /\ TsMax \in Nat
      /\ tsLen <= TsMax /\ tsRows \subseteq (1..tsLen) \ tsOdd
  BY TsTyped
<1>3. new # {} /\ new \subseteq tsRows
  BY <1>1, <1>2 DEF TsCallOK, TsNew
<1>4. TsPending(tsCall[c]) = {}
  BY <1>1 DEF TsPending
<1>5. PICK call \in TsCallType, done \in TsDones :
         /\ tsCall' = [tsCall EXCEPT ![c] = call] /\ tsDone' = [tsDone EXCEPT ![c] = done]
         /\ TsCallOK(call, done, tsLen, tsOdd, tsRows)
  BY <1>1, <1>4, TsTurnIs
<1> HIDE DEF new
<1>6. tsRows \subseteq 1..TsMax /\ new \subseteq 1..TsMax /\ tsRows # {}
  <2>1. 1..tsLen \subseteq 1..TsMax
    BY <1>2
  <2>2. tsRows \subseteq 1..TsMax
    BY <1>2, <2>1
  <2> QED BY <1>3, <2>2
<1> DEFINE last == TsNewest(new)
           newest == TsNewest(tsRows)
<1>7. last \in new /\ last \in 0..TsMax /\ newest \in 0..TsMax /\ \A x \in tsRows : x <= newest
  BY <1>3, <1>6, TsNewestIs
<1>8. tsLast' = last /\ tsBack' = (last < newest)
  BY <1>1
<1> HIDE DEF last, newest
<1>9. last <= newest /\ last \in tsRows /\ last \in 0..tsLen
  BY <1>2, <1>3, <1>7
<1>10. tsCall \in [TsCalls -> TsCallType] /\ tsDone \in [TsCalls -> TsDones]
  BY DEF TsInv, TsTypeOK, TsDones
<1>11. tsCall' \in [TsCalls -> TsCallType] /\ tsDone' \in [TsCalls -> TsDones]
  BY <1>5, <1>10
<1>12. \A d \in TsCalls : TsCallOK(tsCall'[d], tsDone'[d], tsLen, tsOdd, tsRows)
  <2> SUFFICES ASSUME NEW d \in TsCalls
               PROVE  TsCallOK(tsCall'[d], tsDone'[d], tsLen, tsOdd, tsRows)
    OBVIOUS
  <2>1. CASE d = c
    <3>1. tsCall'[d] = call /\ tsDone'[d] = done
      BY <1>5, <1>10, <2>1
    <3> QED BY <1>5, <3>1
  <2>2. CASE d # c
    <3>1. tsCall'[d] = tsCall[d] /\ tsDone'[d] = tsDone[d]
      BY <1>5, <1>10, <2>2
    <3> QED BY <3>1 DEF TsInv
  <2> QED BY <2>1, <2>2
<1>13. tsBack' \in BOOLEAN
  BY <1>8
<1>14. TsTypeOK'
  BY <1>1, <1>8, <1>9, <1>11, <1>13 DEF TsInv, TsTypeOK, TsDones
<1>15. TsLastIsNewest'
  <2>1. CASE last < newest
    BY <1>8, <2>1 DEF TsLastIsNewest
  <2>2. CASE last = newest
    BY <1>1, <1>8, <2>2 DEF TsLastIsNewest, newest
  <2> QED BY <1>7, <1>9, <2>1, <2>2
<1> QED BY <1>1, <1>8, <1>9, <1>12, <1>14, <1>15 DEF TsInv

LEMMA TsInvStep == TsInv /\ [TsNext]_tsVars => TsInv'
<1> SUFFICES ASSUME TsInv, [TsNext]_tsVars PROVE TsInv'
  OBVIOUS
<1>1. CASE UNCHANGED tsVars
  BY <1>1 DEF tsVars, TsInv, TsTypeOK, TsLastIsNewest
<1>2. CASE \E odd, missed \in BOOLEAN : TsArrive(odd, missed)
  BY <1>2, TsArriveKeeps
<1>3. CASE \E m \in tsDue : TsWebhook(m)
  BY <1>3, TsWebhookKeeps
<1>4. ASSUME NEW c \in TsCalls,
             \/ \E mode \in TsModes : TsBegin(c, mode)
             \/ TsFetch(c) \/ TsFail(c) \/ TsRead(c) \/ TsCreate(c) \/ TsLastAt(c)
      PROVE  TsInv'
  BY <1>4, TsBeginKeeps, TsFetchKeeps, TsFailKeeps, TsReadKeeps, TsCreateKeeps, TsLastAtKeeps
<1> QED BY <1>1, <1>2, <1>3, <1>4 DEF TsNext

LEMMA TsInvGives == TsInv => TsSafe
<1> SUFFICES ASSUME TsInv PROVE TsSafe
  OBVIOUS
<1>1. TsWholeThread
  BY DEF TsInv, TsCallOK, TsWholeThread
<1>2. TsNewestPage
  <2> SUFFICES ASSUME NEW c \in TsCalls, tsDone[c].how \in {"known", "limit"}
               PROVE  {m \in 1..tsDone[c].len : m > tsDone[c].len - TsPage} \ tsOdd \subseteq tsRows
    BY DEF TsNewestPage
  <2>1. TsCallOK(tsCall[c], tsDone[c], tsLen, tsOdd, tsRows)
    BY DEF TsInv
  <2> QED BY <2>1 DEF TsCallOK, TsFirstPage
<1> QED BY <1>1, <1>2 DEF TsSafe, TsInv

\* A call that went on to the oldest message left none out, one that stopped earlier has the
\* newest page, and the inbox orders the chat by its newest message or one that an import found
\* missing: for any thread, calls, size of a page and limits, whatever arrives meanwhile.
THEOREM TsSafeCorrect == TsSpec => []TsSafe
<1>1. TsSpec => []TsInv
  BY TsInitInv, TsInvStep, PTL DEF TsSpec
<1> QED BY <1>1, TsInvGives, PTL

\* The thread, its rows and the calls keep their types; no call reads or imports more pages and
\* messages than the thread has.
THEOREM TsTypeCorrect == TsSpec => []TsTypeOK
<1>1. TsSpec => []TsInv
  BY TsInitInv, TsInvStep, PTL DEF TsSpec
<1>2. TsInv => TsTypeOK
  BY DEF TsInv
<1> QED BY <1>1, <1>2, PTL

-----------------------------------------------------------------------------
(* Imports: any jobs, callers, conversations and attempts *)

CsN == Cardinality(CsConvs)

\* The provider's list: every conversation once.
CsLists ==
  {s \in Seq(CsConvs) : /\ Len(s) = CsN /\ ToSet(s) = CsConvs
                        /\ \A p, q \in 1..CsN : s[p] = s[q] => p = q}

\* The conversations of its first places.
CsUpTo(order, n) == {order[p] : p \in 1..n}

\* What was listed, or tried, is everything that did not move, or as much as the cap.
CsWhole(seen, moved) ==
  \/ Cardinality(seen) + Len(moved) >= CsCap
  \/ CsConvs \ seen \subseteq ToSet(moved)

\* While a job reads pages: what lies before its offset was listed or has moved there, and each
\* entry listed twice, or about to be, is the doing of a move.
CsListed(list, offset, order, moved) ==
  /\ offset <= CsN
  /\ CsUpTo(order, offset) \subseteq ToSet(list) \union ToSet(moved)
  /\ Len(list) + Cardinality(ToSet(list) \ CsUpTo(order, offset)) <= Cardinality(ToSet(list)) + Len(moved)

LEMMA CsNumbers == CsN \in Nat /\ CsPage \in Nat /\ CsPage > 0 /\ CsCap \in Nat /\ CsAttempts \in Nat
                   /\ CsAttempts > 0 /\ CsMaxMoves \in Nat /\ CsNone \notin CsJobs /\ IsFiniteSet(CsConvs)
BY CsAssumption, FS_CardinalityType DEF CsN

\* The members of a sequence are its entries, finitely many.
LEMMA CsMembers ==
  ASSUME NEW s \in Seq(CsConvs)
  PROVE  /\ Len(s) \in Nat /\ DOMAIN s = 1..Len(s) /\ s \in [1..Len(s) -> CsConvs]
         /\ ToSet(s) = {s[i] : i \in 1..Len(s)} /\ ToSet(s) \subseteq CsConvs
         /\ IsFiniteSet(ToSet(s)) /\ Cardinality(ToSet(s)) \in Nat
<1>1. Len(s) \in Nat /\ DOMAIN s = 1..Len(s) /\ s \in [1..Len(s) -> CsConvs]
  BY LenProperties
<1>2. ToSet(s) = {s[i] : i \in 1..Len(s)} /\ ToSet(s) \subseteq CsConvs
  BY <1>1 DEF ToSet
<1>3. IsFiniteSet(ToSet(s)) /\ Cardinality(ToSet(s)) \in Nat
  BY <1>2, CsNumbers, FS_Subset, FS_CardinalityType
<1> QED BY <1>1, <1>2, <1>3

LEMMA CsNothing ==
  /\ <<>> \in Seq(CsConvs) /\ Len(<<>>) = 0 /\ ToSet(<<>>) = {} /\ Cardinality({}) = 0
  /\ \A order : CsListed(<<>>, 0, order, <<>>)
<1>1. <<>> \in Seq(CsConvs) /\ Len(<<>>) = 0
  OBVIOUS
<1>2. ToSet(<<>>) = {}
  BY DEF ToSet
<1>3. Cardinality({}) = 0
  BY FS_EmptySet
<1>4. \A order : CsUpTo(order, 0) = {}
  BY DEF CsUpTo
<1>5. ToSet(<<>>) \ {} = {} /\ 0 <= CsN
  BY <1>2, CsNumbers
<1>6. ASSUME NEW order PROVE CsListed(<<>>, 0, order, <<>>)
  <2>1. CsUpTo(order, 0) = {}
    BY <1>4
  <2>2. ToSet(<<>>) \ CsUpTo(order, 0) = {} /\ ToSet(<<>>) \union ToSet(<<>>) = {}
    BY <1>2, <2>1
  <2>3. Cardinality(ToSet(<<>>) \ CsUpTo(order, 0)) = 0
    BY <1>3, <2>2, Zenon
  <2>4. Cardinality(ToSet(<<>>)) = 0
    BY <1>2, <1>3, Zenon
  <2>5. 0 + 0 <= 0 + 0
    OBVIOUS
  <2>6. Len(<<>>) + Cardinality(ToSet(<<>>) \ CsUpTo(order, 0)) <= Cardinality(ToSet(<<>>)) + Len(<<>>)
    BY <1>1, <2>3, <2>4, <2>5, Zenon
  <2>7. CsUpTo(order, 0) \subseteq ToSet(<<>>) \union ToSet(<<>>)
    BY <2>1
  <2> QED BY <1>5, <2>6, <2>7 DEF CsListed
<1> QED BY <1>1, <1>2, <1>3, <1>6

LEMMA CsJoined ==
  ASSUME NEW s \in Seq(CsConvs), NEW t \in Seq(CsConvs)
  PROVE  /\ s \o t \in Seq(CsConvs) /\ Len(s \o t) = Len(s) + Len(t)
         /\ ToSet(s \o t) = ToSet(s) \union ToSet(t)
<1>1. /\ s \o t \in Seq(CsConvs) /\ Len(s \o t) = Len(s) + Len(t)
      /\ \A i \in 1..Len(s) : (s \o t)[i] = s[i]
      /\ \A i \in 1..Len(t) : (s \o t)[Len(s) + i] = t[i]
  BY LenProperties
<1>2. Len(s) \in Nat /\ Len(t) \in Nat
  BY CsMembers
<1>3. ToSet(s \o t) = {(s \o t)[i] : i \in 1..(Len(s) + Len(t))}
  BY <1>1, CsMembers
<1>4. ToSet(s) = {s[i] : i \in 1..Len(s)} /\ ToSet(t) = {t[i] : i \in 1..Len(t)}
  BY CsMembers
<1>5. ASSUME NEW i \in 1..(Len(s) + Len(t)) PROVE (s \o t)[i] \in ToSet(s) \union ToSet(t)
  <2>1. CASE i <= Len(s)
    BY <1>1, <1>2, <1>4, <2>1
  <2>2. CASE i > Len(s)
    <3>1. i - Len(s) \in 1..Len(t) /\ i = Len(s) + (i - Len(s))
      BY <1>2, <2>2
    <3> QED BY <1>1, <1>4, <3>1
  <2> QED BY <1>2, <2>1, <2>2
<1>6. \A i \in 1..Len(s) : i \in 1..(Len(s) + Len(t)) /\ (s \o t)[i] = s[i]
  BY <1>1, <1>2
<1>7. \A i \in 1..Len(t) : Len(s) + i \in 1..(Len(s) + Len(t)) /\ (s \o t)[Len(s) + i] = t[i]
  BY <1>1, <1>2
<1>8. ToSet(s) \subseteq ToSet(s \o t)
  BY <1>3, <1>4, <1>6
<1>9. ToSet(t) \subseteq ToSet(s \o t)
  BY <1>3, <1>4, <1>7
<1> QED BY <1>1, <1>3, <1>5, <1>8, <1>9

LEMMA CsLonger ==
  ASSUME NEW s \in Seq(CsConvs), NEW c \in CsConvs
  PROVE  /\ Append(s, c) \in Seq(CsConvs) /\ Len(Append(s, c)) = Len(s) + 1
         /\ ToSet(Append(s, c)) = ToSet(s) \union {c}
<1>1. /\ Append(s, c) \in Seq(CsConvs) /\ Len(Append(s, c)) = Len(s) + 1 /\ Len(s) \in Nat
      /\ \A i \in 1..Len(s) : Append(s, c)[i] = s[i]
      /\ Append(s, c)[Len(s) + 1] = c
  BY AppendProperties, LenProperties
<1>2. ToSet(Append(s, c)) = {Append(s, c)[i] : i \in 1..(Len(s) + 1)} /\ ToSet(s) = {s[i] : i \in 1..Len(s)}
  BY <1>1, CsMembers
<1>3. 1..(Len(s) + 1) = 1..Len(s) \union {Len(s) + 1}
  BY <1>1
<1> QED BY <1>1, <1>2, <1>3

\* An import takes the head of its list.
LEMMA CsHead ==
  ASSUME NEW s \in Seq(CsConvs), s # <<>>
  PROVE  /\ Tail(s) \in Seq(CsConvs) /\ Head(s) \in CsConvs
         /\ ToSet(s) = {Head(s)} \union ToSet(Tail(s))
<1>1. /\ Tail(s) \in Seq(CsConvs) /\ Head(s) = s[1] /\ Len(s) \in Nat /\ Len(s) > 0
      /\ Len(Tail(s)) = Len(s) - 1 /\ \A i \in 1..Len(Tail(s)) : Tail(s)[i] = s[i + 1]
      /\ Head(s) \in CsConvs
  BY HeadTailProperties, LenProperties, EmptySeq
<1>2. ToSet(s) = {s[i] : i \in 1..Len(s)} /\ ToSet(Tail(s)) = {Tail(s)[i] : i \in 1..Len(Tail(s))}
  BY <1>1, CsMembers
<1>3. ASSUME NEW i \in 1..Len(s) PROVE s[i] = Head(s) \/ s[i] \in ToSet(Tail(s))
  <2>1. CASE i = 1
    BY <1>1, <2>1
  <2>2. CASE i # 1
    <3>1. i - 1 \in 1..Len(Tail(s)) /\ (i - 1) + 1 = i
      BY <1>1, <2>2
    <3> QED BY <1>1, <1>2, <3>1
  <2> QED BY <2>1, <2>2
<1>4. \A i \in 1..Len(Tail(s)) : i + 1 \in 1..Len(s)
  BY <1>1
<1>5. ToSet(Tail(s)) \subseteq ToSet(s)
  BY <1>1, <1>2, <1>4
<1>6. Head(s) \in ToSet(s)
  BY <1>1, <1>2
<1> QED BY <1>1, <1>2, <1>3, <1>5, <1>6

\* A page is the next entries of the provider's list, a full one unless the list ends.
LEMMA CsPageIs ==
  ASSUME NEW order \in CsLists, NEW offset \in Nat, offset <= CsN
  PROVE  LET page == SubSeq(order, offset + 1, Min({offset + CsPage, Len(order)})) IN
         \E k \in Nat :
           /\ page \in Seq(CsConvs) /\ Len(page) = k /\ offset + k <= CsN
           /\ k < CsPage => offset + k = CsN
           /\ ToSet(page) = {order[p] : p \in (offset + 1)..(offset + k)}
           /\ Cardinality(ToSet(page)) = k
<1>1. Len(order) = CsN /\ order \in Seq(CsConvs) /\ \A p, q \in 1..CsN : order[p] = order[q] => p = q
  BY DEF CsLists
<1> DEFINE last == Min({offset + CsPage, CsN})
           page == SubSeq(order, offset + 1, last)
           k == last - offset
<1>2. last = (IF offset + CsPage <= CsN THEN offset + CsPage ELSE CsN)
  <2>1. PICK m \in {offset + CsPage, CsN} : \A x \in {offset + CsPage, CsN} : m <= x
    BY CsNumbers
  <2>2. last \in {offset + CsPage, CsN} /\ \A x \in {offset + CsPage, CsN} : last <= x
    BY <2>1 DEF Min
  <2> HIDE DEF last
  <2> QED BY <2>2, CsNumbers
<1> HIDE DEF last
<1>3. k \in Nat /\ offset + k = last /\ last <= CsN /\ (k < CsPage => offset + k = CsN) /\ last \in Nat
  BY <1>2, CsNumbers
<1>4. /\ page \in Seq(CsConvs) /\ Len(page) = k
      /\ \A i \in 1..k : page[i] = order[offset + i]
  <2>1. order \in Seq(CsConvs) /\ offset + 1 \in 1..(Len(order) + 1) /\ last \in 0..Len(order)
    BY <1>1, <1>3, CsNumbers
  <2>2. \A i \in (offset + 1)..last : order[i] \in CsConvs
    BY <1>1, <1>3, ElementOfSeq, CsNumbers
  <2>3. /\ page \in Seq(CsConvs)
        /\ Len(page) = IF offset + 1 <= last THEN last - (offset + 1) + 1 ELSE 0
        /\ \A i \in 1..(last - (offset + 1) + 1) : page[i] = order[offset + 1 + i - 1]
    BY <2>1, SubSeqProperties
  <2>4. last - (offset + 1) + 1 = k /\ \A i \in 1..k : offset + 1 + i - 1 = offset + i
    BY <1>3
  <2>5. Len(page) = k
    BY <1>3, <2>3, <2>4
  <2> QED BY <2>3, <2>4, <2>5
<1> HIDE DEF page, k
<1>5. ToSet(page) = {page[i] : i \in 1..k}
  BY <1>4, CsMembers
<1>6. ToSet(page) = {order[p] : p \in (offset + 1)..(offset + k)}
  <2>1. \A i \in 1..k : offset + i \in (offset + 1)..(offset + k)
    BY <1>3
  <2>2. \A p \in (offset + 1)..(offset + k) : p - offset \in 1..k /\ offset + (p - offset) = p
    BY <1>3
  <2> QED BY <1>4, <1>5, <2>1, <2>2
<1>7. Cardinality(ToSet(page)) = k
  <2>1. page \in [1..k -> ToSet(page)]
    BY <1>4, <1>5, CsMembers
  <2>2. \A i, j \in 1..k : page[i] = page[j] => i = j
    <3> SUFFICES ASSUME NEW i \in 1..k, NEW j \in 1..k, page[i] = page[j] PROVE i = j
      OBVIOUS
    <3>1. offset + i \in 1..CsN /\ offset + j \in 1..CsN
      BY <1>3, CsNumbers
    <3>2. order[offset + i] = order[offset + j]
      BY <1>4
    <3>3. offset + i = offset + j
      BY <1>1, <3>1, <3>2
    <3> QED BY <3>3
  <2>3. page \in Bijection(1..k, ToSet(page))
    BY <1>5, <2>1, <2>2 DEF Bijection, Injection, Surjection, IsInjective
  <2>4. ExistsBijection(1..k, ToSet(page))
    BY <2>3 DEF ExistsBijection
  <2> QED BY <1>3, <2>4, FS_CountingElements
<1>8. SubSeq(order, offset + 1, Min({offset + CsPage, Len(order)})) = page
  BY <1>1 DEF page, last
<1> QED BY <1>3, <1>4, <1>6, <1>7, <1>8

\* A page that is listed keeps the account: an entry is listed twice only by a move.
LEMMA CsPageListed ==
  ASSUME NEW order \in CsLists, NEW offset \in Nat, NEW list \in Seq(CsConvs),
         NEW moved \in Seq(CsConvs), CsListed(list, offset, order, moved),
         NEW page \in Seq(CsConvs), NEW k \in Nat, Len(page) = k, offset + k <= CsN,
         ToSet(page) = {order[p] : p \in (offset + 1)..(offset + k)}, Cardinality(ToSet(page)) = k
  PROVE  CsListed(list \o page, offset + k, order, moved)
<1> DEFINE A == ToSet(list)
           Q == ToSet(page)
           U == CsUpTo(order, offset)
<1>1. Len(list) + Cardinality(A \ U) <= Cardinality(A) + Len(moved) /\ U \subseteq A \union ToSet(moved)
  BY DEF CsListed
<1>2. CsUpTo(order, offset + k) = U \union Q
  <2>1. 1..(offset + k) = 1..offset \union (offset + 1)..(offset + k)
    OBVIOUS
  <2> QED BY <2>1 DEF CsUpTo
<1>3. U \intersect Q = {}
  <2> SUFFICES ASSUME NEW p \in 1..offset, NEW q \in (offset + 1)..(offset + k), order[p] = order[q]
               PROVE  FALSE
    BY DEF CsUpTo
  <2>1. p \in 1..CsN /\ q \in 1..CsN /\ p # q
    BY CsNumbers
  <2> QED BY <2>1 DEF CsLists
<1>4. /\ ToSet(list \o page) = A \union Q /\ Len(list \o page) = Len(list) + k
      /\ Len(list) \in Nat /\ Len(moved) \in Nat
  BY CsJoined, CsMembers
<1>5. IsFiniteSet(A) /\ IsFiniteSet(Q) /\ Cardinality(A) \in Nat /\ Cardinality(Q) = k
  BY CsMembers
<1> HIDE DEF A, Q, U
<1>6. Cardinality(A \union Q) = Cardinality(A) + k - Cardinality(A \intersect Q)
  BY <1>5, FS_Union
<1>7. (A \union Q) \ (U \union Q) = (A \ U) \ Q /\ (A \ U) \intersect Q = A \intersect Q
  BY <1>3
<1>8. IsFiniteSet(A \ U) /\ IsFiniteSet(A \intersect Q)
  BY <1>5, FS_Subset
<1>9. Cardinality((A \ U) \ Q) = Cardinality(A \ U) - Cardinality((A \ U) \intersect Q)
  BY <1>8, FS_Difference
<1> DEFINE a == Cardinality(A)
           au == Cardinality(A \ U)
           aq == Cardinality(A \intersect Q)
<1>10. a \in Nat /\ au \in Nat /\ aq \in Nat
  BY <1>5, <1>8, FS_CardinalityType
<1>11. Cardinality((A \union Q) \ (U \union Q)) = au - aq /\ Cardinality(A \union Q) = a + k - aq
  BY <1>6, <1>7, <1>9
<1>12. Len(list) + au <= a + Len(moved)
  BY <1>1
<1> HIDE DEF a, au, aq
<1>13. (Len(list) + k) + (au - aq) <= (a + k - aq) + Len(moved)
  BY <1>4, <1>10, <1>12
<1>14. U \union Q \subseteq (A \union Q) \union ToSet(moved)
  BY <1>1
<1> QED BY <1>2, <1>4, <1>11, <1>13, <1>14 DEF CsListed

CsToFront(order, k) ==
  [i \in DOMAIN order |-> IF i = 1 THEN order[k] ELSE IF i <= k THEN order[i - 1] ELSE order[i]]

\* A conversation that moves to the front leaves the list a list of them all ...
LEMMA CsToFrontIs ==
  ASSUME NEW order \in CsLists, NEW k \in 1..CsN
  PROVE  /\ CsToFront(order, k) \in CsLists /\ order[k] \in CsConvs
         /\ CsToFront(order, k)[1] = order[k]
         /\ \A i \in 1..CsN : i # 1 /\ i <= k => CsToFront(order, k)[i] = order[i - 1]
         /\ \A i \in 1..CsN : i > k => CsToFront(order, k)[i] = order[i]
<1> DEFINE new == CsToFront(order, k)
<1>1. /\ Len(order) = CsN /\ order \in Seq(CsConvs) /\ ToSet(order) = CsConvs
      /\ \A p, q \in 1..CsN : order[p] = order[q] => p = q
  BY DEF CsLists
<1>2. DOMAIN order = 1..CsN /\ order \in [1..CsN -> CsConvs] /\ CsConvs = {order[i] : i \in 1..CsN}
  BY <1>1, CsMembers
<1>3. k \in Nat /\ k >= 1 /\ k <= CsN /\ 1 \in 1..CsN /\ CsN \in Nat
  BY CsNumbers
<1>4. new = [i \in 1..CsN |-> IF i = 1 THEN order[k] ELSE IF i <= k THEN order[i - 1] ELSE order[i]]
  BY <1>2 DEF CsToFront
<1>5. /\ new[1] = order[k]
      /\ \A i \in 1..CsN : i # 1 /\ i <= k => new[i] = order[i - 1]
      /\ \A i \in 1..CsN : i > k => new[i] = order[i]
  BY <1>3, <1>4
<1>6. \A i \in 1..CsN : new[i] \in CsConvs
  <2> SUFFICES ASSUME NEW i \in 1..CsN PROVE new[i] \in CsConvs
    OBVIOUS
  <2>1. i = 1 \/ (i # 1 /\ i <= k /\ i - 1 \in 1..CsN) \/ i > k
    BY <1>3
  <2> QED BY <1>2, <1>5, <2>1
<1>7. new \in [1..CsN -> CsConvs]
  BY <1>4, <1>6
<1> HIDE DEF new
<1>8. new \in Seq(CsConvs) /\ Len(new) = CsN
  <2>1. new \in Seq(CsConvs)
    BY <1>3, <1>7, SeqDef
  <2>2. DOMAIN new = 1..CsN /\ DOMAIN new = 1..Len(new) /\ Len(new) \in Nat
    BY <1>7, <2>1, LenProperties
  <2> QED BY <1>3, <2>1, <2>2
<1> DEFINE From(i) == IF i = 1 THEN k ELSE IF i <= k THEN i - 1 ELSE i
<1>9. \A i \in 1..CsN : From(i) \in 1..CsN /\ new[i] = order[From(i)]
  <2> SUFFICES ASSUME NEW i \in 1..CsN PROVE From(i) \in 1..CsN /\ new[i] = order[From(i)]
    OBVIOUS
  <2>1. CASE i = 1
    BY <1>3, <1>5, <2>1
  <2>2. CASE i # 1 /\ i <= k
    BY <1>3, <1>5, <2>2
  <2>3. CASE i > k
    BY <1>3, <1>5, <2>3
  <2> QED BY <1>3, <2>1, <2>2, <2>3
<1>10. \A p, q \in 1..CsN : From(p) = From(q) => p = q
  BY <1>3
<1>11. \A q \in 1..CsN : \E i \in 1..CsN : From(i) = q
  <2> SUFFICES ASSUME NEW q \in 1..CsN PROVE \E i \in 1..CsN : From(i) = q
    OBVIOUS
  <2>1. CASE q = k
    BY <1>3, <2>1
  <2>2. CASE q < k
    <3>1. q + 1 \in 1..CsN /\ From(q + 1) = q
      BY <1>3, <2>2
    <3> QED BY <3>1
  <2>3. CASE q > k
    BY <1>3, <2>3
  <2> QED BY <1>3, <2>1, <2>2, <2>3
<1> HIDE DEF From
<1>12. \A p, q \in 1..CsN : new[p] = new[q] => p = q
  BY <1>1, <1>9, <1>10
<1>13. ToSet(new) = CsConvs
  <2>1. ToSet(new) = {new[i] : i \in 1..CsN}
    BY <1>8, CsMembers
  <2>2. \A i \in 1..CsN : new[i] \in CsConvs
    BY <1>7
  <2>3. \A c \in CsConvs : \E i \in 1..CsN : new[i] = c
    <3> SUFFICES ASSUME NEW c \in CsConvs PROVE \E i \in 1..CsN : new[i] = c
      OBVIOUS
    <3>1. PICK q \in 1..CsN : order[q] = c
      BY <1>2
    <3>2. PICK i \in 1..CsN : From(i) = q
      BY <1>11
    <3>3. new[i] = order[q]
      BY <1>9, <3>2
    <3> QED BY <3>1, <3>3
  <2> QED BY <2>1, <2>2, <2>3
<1>14. order[k] \in CsConvs
  BY <1>2
<1> QED BY <1>5, <1>8, <1>12, <1>13, <1>14 DEF CsLists, new

\* ... and shifts one conversation at most behind the offset, where it will be listed again.
LEMMA CsMoveListed ==
  ASSUME NEW order \in CsLists, NEW offset \in Nat, NEW list \in Seq(CsConvs),
         NEW moved \in Seq(CsConvs), CsListed(list, offset, order, moved), NEW k \in 1..CsN
  PROVE  CsListed(list, offset, CsToFront(order, k), Append(moved, order[k]))
<1> DEFINE new == CsToFront(order, k)
           A == ToSet(list)
           U == CsUpTo(order, offset)
           V == CsUpTo(new, offset)
           c == order[k]
<1>1. /\ Len(list) + Cardinality(A \ U) <= Cardinality(A) + Len(moved)
      /\ U \subseteq A \union ToSet(moved) /\ offset <= CsN
  BY DEF CsListed
<1>2. /\ new \in CsLists /\ c \in CsConvs /\ new[1] = c
      /\ \A i \in 1..CsN : i # 1 /\ i <= k => new[i] = order[i - 1]
      /\ \A i \in 1..CsN : i > k => new[i] = order[i]
  BY CsToFrontIs
<1>3. /\ Len(Append(moved, c)) = Len(moved) + 1 /\ ToSet(Append(moved, c)) = ToSet(moved) \union {c}
      /\ Len(list) \in Nat /\ Len(moved) \in Nat /\ IsFiniteSet(A)
  BY <1>2, CsLonger, CsMembers
<1>4. k \in Nat /\ k >= 1 /\ k <= CsN /\ CsN \in Nat /\ c = order[k]
  BY CsNumbers
<1> HIDE DEF new, c
<1>5. V \subseteq U \union {c}
  <2> SUFFICES ASSUME NEW i \in 1..offset PROVE new[i] \in U \union {c}
    BY DEF CsUpTo
  <2>1. CASE i = 1
    BY <1>2, <2>1
  <2>2. CASE i # 1 /\ i <= k
    <3>1. i - 1 \in 1..offset /\ new[i] = order[i - 1]
      BY <1>1, <1>2, <1>4, <2>2
    <3> QED BY <3>1 DEF CsUpTo
  <2>3. CASE i > k
    <3>1. new[i] = order[i]
      BY <1>1, <1>2, <1>4, <2>3
    <3> QED BY <3>1 DEF CsUpTo
  <2> QED BY <1>4, <2>1, <2>2, <2>3
<1>6. A \ V \subseteq (A \ U) \union {order[offset]}
  <2> SUFFICES ASSUME NEW p \in 1..offset, p # offset PROVE order[p] \in V
    BY DEF CsUpTo
  <2>1. CASE p < k
    <3>1. p + 1 \in 1..offset /\ new[p + 1] = order[p]
      <4>1. p + 1 \in 1..CsN /\ p + 1 # 1 /\ p + 1 <= k /\ p + 1 \in 1..offset /\ (p + 1) - 1 = p
        BY <1>1, <1>4, <2>1
      <4> QED BY <1>2, <4>1
    <3> QED BY <3>1 DEF CsUpTo
  <2>2. CASE p = k
    <3>1. 1 \in 1..offset /\ new[1] = order[p]
      BY <1>2, <1>4, <2>2
    <3> QED BY <3>1 DEF CsUpTo
  <2>3. CASE p > k
    <3>1. new[p] = order[p]
      BY <1>1, <1>2, <1>4, <2>3
    <3> QED BY <3>1 DEF CsUpTo
  <2> QED BY <1>4, <2>1, <2>2, <2>3
<1> HIDE DEF A, U, V
<1>7. IsFiniteSet(A \ U) /\ Cardinality(A \ U) \in Nat /\ Cardinality(A) \in Nat
  BY <1>3, FS_Subset, FS_CardinalityType
<1>8. Cardinality(A \ V) \in Nat /\ Cardinality(A \ V) <= Cardinality(A \ U) + 1
  <2>1. IsFiniteSet((A \ U) \union {order[offset]}) /\ Cardinality((A \ U) \union {order[offset]}) <= Cardinality(A \ U) + 1
    <3> DEFINE X == A \ U
               o == order[offset]
    <3>1. IsFiniteSet(X) /\ Cardinality(X) \in Nat
      BY <1>7
    <3> HIDE DEF X, o
    <3>2. IsFiniteSet(X \union {o})
          /\ Cardinality(X \union {o}) = IF o \in X THEN Cardinality(X) ELSE Cardinality(X) + 1
      BY <3>1, FS_AddElement
    <3>3. Cardinality(X \union {o}) <= Cardinality(X) + 1
      BY <3>1, <3>2
    <3> QED BY <3>2, <3>3 DEF X, o
  <2>2. IsFiniteSet(A \ V) /\ Cardinality(A \ V) <= Cardinality((A \ U) \union {order[offset]})
    BY <1>6, <2>1, FS_Subset
  <2>3. Cardinality(A \ V) \in Nat /\ Cardinality((A \ U) \union {order[offset]}) \in Nat
    BY <2>1, <2>2, FS_CardinalityType
  <2> QED BY <1>7, <2>1, <2>2, <2>3
<1> DEFINE a == Cardinality(A)
           au == Cardinality(A \ U)
           av == Cardinality(A \ V)
<1>9. a \in Nat /\ au \in Nat /\ av \in Nat /\ av <= au + 1 /\ Len(list) + au <= a + Len(moved)
  BY <1>1, <1>7, <1>8
<1> HIDE DEF a, au, av
<1>10. Len(list) + av <= a + (Len(moved) + 1)
  BY <1>3, <1>9
<1>11. V \subseteq A \union (ToSet(moved) \union {c})
  BY <1>1, <1>5
<1> QED BY <1>1, <1>3, <1>10, <1>11 DEF CsListed, new, c, A, U, V, a, au, av

-----------------------------------------------------------------------------
(* The invariant *)

CsCallIs == [step : {"idle", "create", "add", "cancel"}, job : CsJobs \union {CsNone}]
CsWorkIs == [job : CsJobs \union {CsNone}, step : {"idle", "start", "collect", "next", "import"},
             list : Seq(CsConvs), offset : Nat, tries : 0..CsAttempts]

CsTypeInv ==
  /\ csRow \in [CsJobs -> CsStatus]
  /\ csTries \in [CsJobs -> 0..CsAttempts]
  /\ csCall \in [CsCallers -> CsCallIs]
  /\ csWork \in CsWorkIs
  /\ csOrder \in CsLists
  /\ csMoves \in 0..CsMaxMoves
  /\ csTouched \in [CsJobs -> Seq(CsConvs)] /\ csTried \in [CsJobs -> SUBSET CsConvs]
  /\ csCancelled \subseteq CsJobs /\ csUnqueued \subseteq CsJobs /\ csRaced \in BOOLEAN

CsRunning == {"collect", "next", "import"}

\* The row of a job, its place in the queue and what the processor does with it.
CsWorkInv ==
  /\ csWork.job \in CsJobs <=> csWork.step # "idle"
  /\ csWork.step # "idle" => csWork.tries < CsAttempts
  /\ csWork.step = "start" => /\ csRow[csWork.job] \in {"PENDING", "FAILED", "CANCELLED"}
                              /\ csRow[csWork.job] = "FAILED" => csWork.tries < CsAttempts - 1
  /\ csWork.step \in CsRunning => csRow[csWork.job] \in {"RUNNING", "CANCELLED"}

CsJobInv(j) ==
  /\ csTries[j] > 0 => /\ csRow[j] \in {"PENDING", "FAILED", "CANCELLED"}
                       /\ csRow[j] = "FAILED" => csTries[j] < CsAttempts
                       /\ csWork.job # j
  /\ csRow[j] = "RUNNING" => csWork.job = j /\ csWork.step \in CsRunning
  /\ csRow[j] = "CANCELLED" => j \in csCancelled
  /\ csWork.job = j /\ csWork.step \in CsRunning /\ j \in csCancelled => csRow[j] = "CANCELLED"

CsCallInv(u) ==
  /\ csCall[u].step \in {"add", "cancel"} => csCall[u].job \in CsJobs /\ csRow[csCall[u].job] # "NONE"
  /\ csCall[u].step = "add" => /\ csRow[csCall[u].job] \in {"PENDING", "CANCELLED"}
                               /\ csTries[csCall[u].job] = 0 /\ csWork.job # csCall[u].job

CsAddsApart ==
  \A u, v \in CsCallers :
    csCall[u].step = "add" /\ csCall[v].step = "add" /\ csCall[u].job = csCall[v].job => u = v

CsRetried(j) == csWork.job = j /\ csWork.tries < CsAttempts - 1

\* Unless something raced, one start is under way, it found nothing active, and what is active
\* is one job and one that is tried again.
CsCalm ==
  \/ csRaced
  \/ /\ \A u, v \in CsCallers :
          csCall[u].step \in {"create", "add"} /\ csCall[v].step \in {"create", "add"} => u = v
     /\ \A u \in CsCallers : csCall[u].step = "create" => \A j \in CsActive : CsRetried(j)
     /\ \A j, k \in CsActive : ~CsRetried(j) /\ ~CsRetried(k) => j = k

\* What the job at work has listed and tried.
CsListInv ==
  /\ csWork.step = "start" => csWork.list = <<>> /\ csWork.offset = 0
  /\ csWork.step = "collect" =>
       /\ csTried[csWork.job] = {}
       /\ CsListed(csWork.list, csWork.offset, csOrder, csTouched[csWork.job])
  /\ csWork.step \in {"next", "import"} =>
       CsWhole(csTried[csWork.job] \union ToSet(csWork.list), csTouched[csWork.job])
  /\ csWork.step = "import" => csWork.list # <<>>

CsInv ==
  /\ CsTypeInv /\ CsWorkInv /\ CsListInv
  /\ \A j \in CsJobs : CsJobInv(j)
  /\ \A u \in CsCallers : CsCallInv(u)
  /\ CsAddsApart /\ CsCalm
  /\ csLate = 0 /\ CsCompletedIsWhole /\ CsActiveIsPursued

CsFrame == csOrder' = csOrder /\ csMoves' = csMoves /\ csTouched' = csTouched

LEMMA CsRestIs ==
  /\ CsRest \in CsWorkIs /\ CsRest.job = CsNone /\ CsRest.step = "idle" /\ CsRest.list = <<>>
  /\ CsRest.offset = 0 /\ CsRest.tries = 0
<1>1. 0 \in 0..CsAttempts /\ <<>> \in Seq(CsConvs)
  BY CsNumbers, CsNothing
<1> QED BY <1>1 DEF CsRest, CsWorkIs

LEMMA CsInitInv == CsInit => CsInv
<1> SUFFICES ASSUME CsInit PROVE CsInv
  OBVIOUS
<1>1. csWork \in CsWorkIs /\ csWork.job = CsNone /\ csWork.step = "idle" /\ csWork.list = <<>>
  BY CsRestIs DEF CsInit
<1>2. csOrder \in CsLists
  <2>1. csOrder \in [1..CsN -> CsConvs] /\ ToSet(csOrder) = CsConvs
    BY DEF CsInit, CsN
  <2>2. csOrder \in Seq(CsConvs)
    BY <2>1, SeqDef, CsNumbers
  <2>3. Len(csOrder) = CsN
    <3>1. DOMAIN csOrder = 1..CsN /\ DOMAIN csOrder = 1..Len(csOrder) /\ Len(csOrder) \in Nat
      BY <2>1, <2>2, LenProperties
    <3> QED BY <3>1, CsNumbers
  <2>4. \A c \in CsConvs : \E i \in 1..CsN : csOrder[i] = c
    BY <2>1 DEF ToSet
  <2>5. csOrder \in Surjection(1..CsN, CsConvs)
    BY <2>1, <2>4 DEF Surjection
  <2>6. IsFiniteSet(1..CsN) /\ Cardinality(1..CsN) = CsN
    BY CsNumbers, FS_Interval
  <2>7. csOrder \in Injection(1..CsN, CsConvs)
    BY <2>5, <2>6, FS_Surjection DEF CsN
  <2>8. \A p, q \in 1..CsN : csOrder[p] = csOrder[q] => p = q
    BY <2>7 DEF Injection, IsInjective
  <2> QED BY <2>1, <2>2, <2>3, <2>8 DEF CsLists
<1>3. 0 \in 0..CsAttempts /\ 0 \in 0..CsMaxMoves /\ <<>> \in Seq(CsConvs)
  BY CsNumbers, CsNothing
<1>4. /\ \A j \in CsJobs : csRow[j] = "NONE" /\ csTries[j] = 0
      /\ \A u \in CsCallers : csCall[u].step = "idle"
      /\ csCancelled = {} /\ csUnqueued = {} /\ csRaced = FALSE /\ csLate = 0 /\ csMoves = 0
  BY DEF CsInit
<1>5. /\ csRow \in [CsJobs -> CsStatus] /\ csTries \in [CsJobs -> 0..CsAttempts]
      /\ csTouched \in [CsJobs -> Seq(CsConvs)] /\ csTried \in [CsJobs -> SUBSET CsConvs]
  BY <1>3 DEF CsInit, CsStatus
<1>6. csCall \in [CsCallers -> CsCallIs]
  BY DEF CsInit, CsCallIs
<1>7. CsTypeInv
  BY <1>1, <1>2, <1>3, <1>4, <1>5, <1>6 DEF CsTypeInv
<1>8. CsWorkInv /\ CsListInv
  BY <1>1, CsNumbers DEF CsWorkInv, CsListInv, CsRunning
<1>9. \A j \in CsJobs : CsJobInv(j)
  BY <1>1, <1>4 DEF CsJobInv, CsRunning
<1>10. CsActive = {}
  BY <1>4 DEF CsActive
<1> QED BY <1>4, <1>7, <1>8, <1>9, <1>10 DEF CsInv, CsCallInv, CsAddsApart, CsCalm, CsCompletedIsWhole,
                                         CsActiveIsPursued

-----------------------------------------------------------------------------
(* The requests *)

\* What the requests leave alone.
LEMMA CsRequests ==
  ASSUME CsInv, NEW u \in CsCallers, NEW call \in CsCallIs, csCall' = [csCall EXCEPT ![u] = call],
         csRow' \in [CsJobs -> CsStatus], csTries' \in [CsJobs -> 0..CsAttempts],
         csCancelled \subseteq csCancelled', csCancelled' \subseteq CsJobs, csUnqueued' \subseteq CsJobs,
         csRaced' \in BOOLEAN, \A j \in CsJobs : csRow'[j] = "COMPLETED" => csRow[j] = "COMPLETED",
         csWork' = csWork, CsFrame, csTried' = csTried, csLate' = csLate
  PROVE  /\ CsTypeInv' /\ CsListInv' /\ CsCompletedIsWhole' /\ csLate' = 0
         /\ csCall'[u] = call /\ \A v \in CsCallers : v # u => csCall'[v] = csCall[v]
<1>1. csCall \in [CsCallers -> CsCallIs]
  BY DEF CsInv, CsTypeInv
<1>2. csCall' \in [CsCallers -> CsCallIs] /\ csCall'[u] = call
      /\ \A v \in CsCallers : v # u => csCall'[v] = csCall[v]
  BY <1>1
<1>3. CsTypeInv'
  BY <1>2 DEF CsInv, CsTypeInv, CsFrame
<1>4. CsListInv'
  BY DEF CsInv, CsListInv, CsFrame
<1>5. CsCompletedIsWhole'
  BY DEF CsInv, CsCompletedIsWhole, CsFrame
<1> QED BY <1>2, <1>3, <1>4, <1>5 DEF CsInv

LEMMA CsStartKeeps == ASSUME CsInv, NEW u \in CsCallers, CsStart(u) PROVE CsInv'
<1> DEFINE call == [csCall[u] EXCEPT !.step = "create"]
<1>1. /\ csCall[u].step = "idle" /\ CsActive = {}
      /\ csCall' = [csCall EXCEPT ![u].step = "create"]
      /\ csRaced' = (csRaced \/ \E v \in CsCallers : csCall[v].step \in {"create", "add"})
      /\ csRow' = csRow /\ csTries' = csTries /\ csWork' = csWork /\ CsFrame /\ csTried' = csTried
      /\ csLate' = csLate /\ csCancelled' = csCancelled /\ csUnqueued' = csUnqueued
  BY DEF CsStart, CsProvider, CsFrame
<1>2. csCall \in [CsCallers -> CsCallIs] /\ csRow \in [CsJobs -> CsStatus]
      /\ csTries \in [CsJobs -> 0..CsAttempts] /\ csRaced \in BOOLEAN
      /\ csCancelled \subseteq CsJobs /\ csUnqueued \subseteq CsJobs
  BY DEF CsInv, CsTypeInv
<1>3. call \in CsCallIs /\ call.step = "create" /\ csCall' = [csCall EXCEPT ![u] = call]
  BY <1>1, <1>2 DEF CsCallIs
<1> HIDE DEF call
<1>4. csRaced' \in BOOLEAN
  BY <1>1, <1>2
<1>5. /\ CsTypeInv' /\ CsListInv' /\ CsCompletedIsWhole' /\ csLate' = 0
      /\ csCall'[u] = call /\ \A v \in CsCallers : v # u => csCall'[v] = csCall[v]
  BY <1>1, <1>2, <1>3, <1>4, CsRequests
<1>6. CsWorkInv' /\ \A j \in CsJobs : CsJobInv(j)'
  BY <1>1 DEF CsInv, CsWorkInv, CsJobInv
<1>7. \A v \in CsCallers : CsCallInv(v)'
  BY <1>1, <1>3, <1>5 DEF CsInv, CsCallInv
<1>8. CsAddsApart'
  BY <1>1, <1>3, <1>5 DEF CsInv, CsAddsApart
<1>9. CsActive' = {}
  BY <1>1 DEF CsActive
<1>10. CsCalm'
  BY <1>1, <1>3, <1>5, <1>9 DEF CsInv, CsCalm
<1>11. CsActiveIsPursued'
  BY <1>9 DEF CsActiveIsPursued
<1> QED BY <1>5, <1>6, <1>7, <1>8, <1>10, <1>11 DEF CsInv

LEMMA CsCreateKeeps == ASSUME CsInv, NEW u \in CsCallers, NEW j \in CsJobs, CsCreate(u, j) PROVE CsInv'
<1> DEFINE call == [step |-> "add", job |-> j]
<1>1. /\ csCall[u].step = "create" /\ csRow[j] = "NONE"
      /\ csRow' = [csRow EXCEPT ![j] = "PENDING"]
      /\ csCall' = [csCall EXCEPT ![u] = call]
      /\ csTries' = csTries /\ csWork' = csWork /\ CsFrame /\ csTried' = csTried
      /\ csLate' = csLate /\ csCancelled' = csCancelled /\ csUnqueued' = csUnqueued /\ csRaced' = csRaced
  BY DEF CsCreate, CsProvider, CsFrame
<1>2. csCall \in [CsCallers -> CsCallIs] /\ csRow \in [CsJobs -> CsStatus]
      /\ csTries \in [CsJobs -> 0..CsAttempts] /\ csRaced \in BOOLEAN
      /\ csCancelled \subseteq CsJobs /\ csUnqueued \subseteq CsJobs
  BY DEF CsInv, CsTypeInv
<1>3. call \in CsCallIs /\ call.step = "add" /\ call.job = j
  BY DEF CsCallIs
<1> HIDE DEF call
<1>4. csRow' \in [CsJobs -> CsStatus] /\ csRow'[j] = "PENDING" /\ \A k \in CsJobs : k # j => csRow'[k] = csRow[k]
  BY <1>1, <1>2 DEF CsStatus
<1>5. /\ CsTypeInv' /\ CsListInv' /\ CsCompletedIsWhole' /\ csLate' = 0
      /\ csCall'[u] = call /\ \A v \in CsCallers : v # u => csCall'[v] = csCall[v]
  BY <1>1, <1>2, <1>3, <1>4, CsRequests
<1>6. csWork.job # j
  <2>1. csWork.step # "idle" => csWork.step = "start" \/ csWork.step \in CsRunning
    BY DEF CsInv, CsTypeInv, CsWorkIs, CsRunning
  <2> QED BY <1>1, <2>1 DEF CsInv, CsWorkInv, CsRunning
<1>7. csTries[j] = 0
  BY <1>1, <1>2, CsNumbers DEF CsInv, CsJobInv
<1>8. CsWorkInv'
  BY <1>1, <1>4, <1>6 DEF CsInv, CsWorkInv
<1>9. \A k \in CsJobs : CsJobInv(k)'
  <2> SUFFICES ASSUME NEW k \in CsJobs PROVE CsJobInv(k)'
    OBVIOUS
  <2>1. CASE k = j
    BY <1>1, <1>4, <1>6, <1>7, <2>1 DEF CsJobInv
  <2>2. CASE k # j
    BY <1>1, <1>4, <2>2 DEF CsInv, CsJobInv
  <2> QED BY <2>1, <2>2
<1>10. \A v \in CsCallers : v # u => CsCallInv(v)' /\ (csCall[v].step = "add" => csCall[v].job # j)
  <2> SUFFICES ASSUME NEW v \in CsCallers, v # u
               PROVE  CsCallInv(v)' /\ (csCall[v].step = "add" => csCall[v].job # j)
    OBVIOUS
  <2>1. CsCallInv(v) /\ csCall'[v] = csCall[v]
    BY <1>5 DEF CsInv
  <2>2. csCall[v].step \in {"add", "cancel"} => csCall[v].job \in CsJobs /\ csCall[v].job # j
    BY <1>1, <2>1 DEF CsCallInv
  <2> QED BY <1>1, <1>4, <2>1, <2>2 DEF CsCallInv
<1>11. CsCallInv(u)'
  BY <1>1, <1>3, <1>4, <1>5, <1>6, <1>7 DEF CsCallInv
<1>12. CsAddsApart'
  BY <1>3, <1>5, <1>10 DEF CsInv, CsAddsApart
<1>13. CsActive' = CsActive \union {j}
  BY <1>1, <1>4 DEF CsActive
<1>14. CsCalm'
  <2>1. \A k : CsRetried(k)' <=> CsRetried(k)
    BY <1>1 DEF CsRetried
  <2> SUFFICES ASSUME ~csRaced PROVE CsCalm'
    BY <1>1 DEF CsCalm
  <2>2. /\ \A v, w \in CsCallers :
             csCall[v].step \in {"create", "add"} /\ csCall[w].step \in {"create", "add"} => v = w
        /\ \A k \in CsActive : CsRetried(k)
    BY <1>1 DEF CsInv, CsCalm
  <2>3. \A v \in CsCallers : v # u => csCall'[v].step \notin {"create", "add"}
    BY <1>1, <1>5, <2>2
  <2>4. \A v, w \in CsCallers :
          csCall'[v].step \in {"create", "add"} /\ csCall'[w].step \in {"create", "add"} => v = w
    BY <2>3
  <2>5. \A v \in CsCallers : csCall'[v].step # "create"
    BY <1>3, <1>5, <2>3
  <2>6. \A k, l \in CsActive' : ~CsRetried(k)' /\ ~CsRetried(l)' => k = l
    BY <1>13, <2>1, <2>2
  <2> QED BY <2>4, <2>5, <2>6 DEF CsCalm
<1>15. CsActiveIsPursued'
  <2> SUFFICES ASSUME NEW k \in CsActive'
               PROVE  \/ csTries'[k] > 0 \/ csWork'.job = k \/ k \in csUnqueued'
                      \/ \E v \in CsCallers : csCall'[v] = [step |-> "add", job |-> k]
    BY DEF CsActiveIsPursued
  <2>1. CASE k = j
    BY <1>5, <2>1 DEF call
  <2>2. CASE k # j
    <3>1. k \in CsActive
      BY <1>13, <2>2
    <3>2. ASSUME NEW v \in CsCallers, csCall[v] = [step |-> "add", job |-> k]
          PROVE  csCall'[v] = [step |-> "add", job |-> k]
      BY <1>1, <1>5, <3>2
    <3> QED BY <1>1, <3>1, <3>2 DEF CsInv, CsActiveIsPursued
  <2> QED BY <2>1, <2>2
<1> QED BY <1>5, <1>8, <1>9, <1>10, <1>11, <1>12, <1>14, <1>15 DEF CsInv

LEMMA CsAddKeeps == ASSUME CsInv, NEW u \in CsCallers, CsAdd(u) PROVE CsInv'
<1> DEFINE call == [step |-> "idle", job |-> CsNone]
           j == csCall[u].job
<1>1. /\ csCall[u].step = "add" /\ csCall' = [csCall EXCEPT ![u] = call]
      /\ \/ csTries' = [csTries EXCEPT ![j] = CsAttempts] /\ csUnqueued' = csUnqueued
         \/ csUnqueued' = csUnqueued \union {j} /\ csTries' = csTries
      /\ csRow' = csRow /\ csWork' = csWork /\ CsFrame /\ csTried' = csTried
      /\ csLate' = csLate /\ csCancelled' = csCancelled /\ csRaced' = csRaced
  BY DEF CsAdd, CsProvider, CsFrame
<1>2. csCall \in [CsCallers -> CsCallIs] /\ csRow \in [CsJobs -> CsStatus]
      /\ csTries \in [CsJobs -> 0..CsAttempts] /\ csRaced \in BOOLEAN
      /\ csCancelled \subseteq CsJobs /\ csUnqueued \subseteq CsJobs
  BY DEF CsInv, CsTypeInv
<1>3. call \in CsCallIs /\ call.step = "idle"
  BY DEF CsCallIs
<1>4. j \in CsJobs /\ csRow[j] \in {"PENDING", "CANCELLED"} /\ csTries[j] = 0 /\ csWork.job # j
  BY <1>1 DEF CsInv, CsCallInv
<1>5. csTries' \in [CsJobs -> 0..CsAttempts] /\ csUnqueued' \subseteq CsJobs
      /\ (\A k \in CsJobs : k # j => csTries'[k] = csTries[k])
      /\ (csTries'[j] = CsAttempts \/ (csTries'[j] = 0 /\ j \in csUnqueued'))
      /\ csUnqueued \subseteq csUnqueued'
  <2>1. CASE csTries' = [csTries EXCEPT ![j] = CsAttempts] /\ csUnqueued' = csUnqueued
    BY <1>2, <1>4, <2>1, CsNumbers
  <2>2. CASE csUnqueued' = csUnqueued \union {j} /\ csTries' = csTries
    BY <1>2, <1>4, <2>2
  <2> QED BY <1>1, <2>1, <2>2
<1>6. /\ CsTypeInv' /\ CsListInv' /\ CsCompletedIsWhole' /\ csLate' = 0
      /\ csCall'[u] = call /\ \A v \in CsCallers : v # u => csCall'[v] = csCall[v]
  BY <1>1, <1>2, <1>3, <1>5, CsRequests
<1>7. \A v \in CsCallers : v # u /\ csCall[v].step = "add" => csCall[v].job # j
  BY <1>1 DEF CsInv, CsAddsApart
<1> HIDE DEF call, j
<1>8. CsWorkInv'
  BY <1>1 DEF CsInv, CsWorkInv
<1>9. \A k \in CsJobs : CsJobInv(k)'
  <2> SUFFICES ASSUME NEW k \in CsJobs PROVE CsJobInv(k)'
    OBVIOUS
  <2>1. CASE k = j
    BY <1>1, <1>4, <2>1 DEF CsInv, CsJobInv
  <2>2. CASE k # j
    BY <1>1, <1>5, <2>2 DEF CsInv, CsJobInv
  <2> QED BY <2>1, <2>2
<1>10. \A v \in CsCallers : CsCallInv(v)'
  <2> SUFFICES ASSUME NEW v \in CsCallers PROVE CsCallInv(v)'
    OBVIOUS
  <2>1. CASE v = u
    BY <1>3, <1>6, <2>1 DEF CsCallInv
  <2>2. CASE v # u
    BY <1>1, <1>5, <1>6, <1>7, <2>2 DEF CsInv, CsCallInv
  <2> QED BY <2>1, <2>2
<1>11. CsAddsApart'
  BY <1>3, <1>6 DEF CsInv, CsAddsApart
<1>12. CsActive' = CsActive
  BY <1>1 DEF CsActive
<1>13. CsCalm'
  <2>1. \A k : CsRetried(k)' <=> CsRetried(k)
    BY <1>1 DEF CsRetried
  <2>2. \A v \in CsCallers : /\ csCall'[v].step \in {"create", "add"} => csCall[v].step \in {"create", "add"}
                             /\ csCall'[v].step = "create" => csCall[v].step = "create"
    BY <1>3, <1>6
  <2> QED BY <1>1, <1>12, <2>1, <2>2 DEF CsInv, CsCalm
<1>14. CsActiveIsPursued'
  <2> SUFFICES ASSUME NEW k \in CsActive'
               PROVE  \/ csTries'[k] > 0 \/ csWork'.job = k \/ k \in csUnqueued'
                      \/ \E v \in CsCallers : csCall'[v] = [step |-> "add", job |-> k]
    BY DEF CsActiveIsPursued
  <2>1. CASE k = j
    BY <1>5, <2>1, CsNumbers
  <2>2. CASE k # j
    <3>1. k \in CsActive /\ k \in CsJobs
      BY <1>12 DEF CsActive
    <3>2. ASSUME NEW v \in CsCallers, csCall[v] = [step |-> "add", job |-> k]
          PROVE  csCall'[v] = [step |-> "add", job |-> k]
      <4>1. csCall[v].job = k
        BY <3>2
      <4> QED BY <1>6, <2>2, <3>2, <4>1 DEF j
    <3> QED BY <1>1, <1>5, <2>2, <3>1, <3>2 DEF CsInv, CsActiveIsPursued
  <2> QED BY <2>1, <2>2
<1> QED BY <1>6, <1>8, <1>9, <1>10, <1>11, <1>13, <1>14 DEF CsInv

LEMMA CsCancelFindKeeps == ASSUME CsInv, NEW u \in CsCallers, NEW j \in CsJobs, CsCancelFind(u, j)
                           PROVE CsInv'
<1> DEFINE call == [step |-> "cancel", job |-> j]
<1>1. /\ csCall[u].step = "idle" /\ j \in CsActive /\ csCall' = [csCall EXCEPT ![u] = call]
      /\ csRow' = csRow /\ csTries' = csTries /\ csWork' = csWork /\ CsFrame /\ csTried' = csTried
      /\ csLate' = csLate /\ csCancelled' = csCancelled /\ csUnqueued' = csUnqueued /\ csRaced' = csRaced
  BY DEF CsCancelFind, CsProvider, CsFrame
<1>2. csCall \in [CsCallers -> CsCallIs] /\ csRow \in [CsJobs -> CsStatus]
      /\ csTries \in [CsJobs -> 0..CsAttempts] /\ csRaced \in BOOLEAN
      /\ csCancelled \subseteq CsJobs /\ csUnqueued \subseteq CsJobs
  BY DEF CsInv, CsTypeInv
<1>3. call \in CsCallIs /\ call.step = "cancel" /\ call.job = j
  BY DEF CsCallIs
<1>4. csRow[j] # "NONE"
  BY <1>1 DEF CsActive
<1> HIDE DEF call
<1>5. /\ CsTypeInv' /\ CsListInv' /\ CsCompletedIsWhole' /\ csLate' = 0
      /\ csCall'[u] = call /\ \A v \in CsCallers : v # u => csCall'[v] = csCall[v]
  BY <1>1, <1>2, <1>3, CsRequests
<1>6. CsWorkInv' /\ \A k \in CsJobs : CsJobInv(k)'
  BY <1>1 DEF CsInv, CsWorkInv, CsJobInv
<1>7. \A v \in CsCallers : CsCallInv(v)'
  <2> SUFFICES ASSUME NEW v \in CsCallers PROVE CsCallInv(v)'
    OBVIOUS
  <2>1. CASE v = u
    BY <1>1, <1>3, <1>4, <1>5, <2>1 DEF CsCallInv
  <2>2. CASE v # u
    BY <1>1, <1>5, <2>2 DEF CsInv, CsCallInv
  <2> QED BY <2>1, <2>2
<1>8. CsAddsApart'
  BY <1>3, <1>5 DEF CsInv, CsAddsApart
<1>9. CsActive' = CsActive
  BY <1>1 DEF CsActive
<1>10. CsCalm'
  <2>1. \A k : CsRetried(k)' <=> CsRetried(k)
    BY <1>1 DEF CsRetried
  <2>2. \A v \in CsCallers : /\ csCall'[v].step \in {"create", "add"} => csCall[v].step \in {"create", "add"}
                             /\ csCall'[v].step = "create" => csCall[v].step = "create"
    BY <1>3, <1>5
  <2> QED BY <1>1, <1>9, <2>1, <2>2 DEF CsInv, CsCalm
<1>11. CsActiveIsPursued'
  <2>1. \A v \in CsCallers : csCall[v].step = "add" => csCall'[v] = csCall[v]
    BY <1>1, <1>5
  <2>2. \A v \in CsCallers, k \in CsJobs :
          csCall[v] = [step |-> "add", job |-> k] => csCall'[v] = [step |-> "add", job |-> k]
    BY <2>1
  <2>3. \A k \in CsActive : k \in CsJobs
    BY DEF CsActive
  <2> QED BY <1>1, <1>9, <2>2, <2>3 DEF CsInv, CsActiveIsPursued
<1> QED BY <1>5, <1>6, <1>7, <1>8, <1>10, <1>11 DEF CsInv

LEMMA CsCancelWriteKeeps == ASSUME CsInv, NEW u \in CsCallers, CsCancelWrite(u) PROVE CsInv'
<1> DEFINE call == [step |-> "idle", job |-> CsNone]
           j == csCall[u].job
<1>1. /\ csCall[u].step = "cancel" /\ csCall' = [csCall EXCEPT ![u] = call]
      /\ csRow' = [csRow EXCEPT ![j] = "CANCELLED"] /\ csCancelled' = csCancelled \union {j}
      /\ csTries' = csTries /\ csWork' = csWork /\ CsFrame /\ csTried' = csTried
      /\ csLate' = csLate /\ csUnqueued' = csUnqueued /\ csRaced' = csRaced
  BY DEF CsCancelWrite, CsProvider, CsFrame
<1>2. csCall \in [CsCallers -> CsCallIs] /\ csRow \in [CsJobs -> CsStatus]
      /\ csTries \in [CsJobs -> 0..CsAttempts] /\ csRaced \in BOOLEAN
      /\ csCancelled \subseteq CsJobs /\ csUnqueued \subseteq CsJobs
  BY DEF CsInv, CsTypeInv
<1>3. call \in CsCallIs /\ call.step = "idle"
  BY DEF CsCallIs
<1>4. j \in CsJobs
  BY <1>1 DEF CsInv, CsCallInv
<1> HIDE DEF call, j
<1>5. csRow' \in [CsJobs -> CsStatus] /\ csRow'[j] = "CANCELLED" /\ \A k \in CsJobs : k # j => csRow'[k] = csRow[k]
  BY <1>1, <1>2, <1>4 DEF CsStatus
<1>6. csCancelled' \subseteq CsJobs /\ csCancelled \subseteq csCancelled'
      /\ \A k \in CsJobs : csRow'[k] = "COMPLETED" => csRow[k] = "COMPLETED"
  BY <1>1, <1>2, <1>4, <1>5
<1>7. /\ CsTypeInv' /\ CsListInv' /\ CsCompletedIsWhole' /\ csLate' = 0
      /\ csCall'[u] = call /\ \A v \in CsCallers : v # u => csCall'[v] = csCall[v]
  BY <1>1, <1>2, <1>3, <1>5, <1>6, CsRequests
<1>8. csWork.step # "idle" => csWork.job \in CsJobs
  BY DEF CsInv, CsWorkInv
<1>9. CsWorkInv'
  <2>1. CASE csWork.job = j
    BY <1>1, <1>4, <1>5, <2>1 DEF CsInv, CsWorkInv
  <2>2. CASE csWork.job # j
    BY <1>1, <1>5, <1>8, <2>2 DEF CsInv, CsWorkInv, CsRunning
  <2> QED BY <2>1, <2>2
<1>10. \A k \in CsJobs : CsJobInv(k)'
  <2> SUFFICES ASSUME NEW k \in CsJobs PROVE CsJobInv(k)'
    OBVIOUS
  <2>1. CASE k = j
    BY <1>1, <1>5, <2>1 DEF CsInv, CsJobInv
  <2>2. CASE k # j
    BY <1>1, <1>5, <2>2 DEF CsInv, CsJobInv
  <2> QED BY <2>1, <2>2
<1>11. \A v \in CsCallers : CsCallInv(v)'
  <2> SUFFICES ASSUME NEW v \in CsCallers PROVE CsCallInv(v)'
    OBVIOUS
  <2>1. CASE v = u
    BY <1>3, <1>7, <2>1 DEF CsCallInv
  <2>2. CASE v # u
    <3>1. CsCallInv(v) /\ csCall'[v] = csCall[v]
      BY <1>7, <2>2 DEF CsInv
    <3>2. \A k \in CsJobs : /\ csRow[k] # "NONE" => csRow'[k] # "NONE"
                            /\ csRow[k] \in {"PENDING", "CANCELLED"} => csRow'[k] \in {"PENDING", "CANCELLED"}
      BY <1>5
    <3> QED BY <1>1, <3>1, <3>2 DEF CsCallInv
  <2> QED BY <2>1, <2>2
<1>12. CsAddsApart'
  BY <1>3, <1>7 DEF CsInv, CsAddsApart
<1>13. CsActive' = CsActive \ {j}
  BY <1>5 DEF CsActive
<1>14. CsCalm'
  <2>1. \A k : CsRetried(k)' <=> CsRetried(k)
    BY <1>1 DEF CsRetried
  <2>2. \A v \in CsCallers : /\ csCall'[v].step \in {"create", "add"} => csCall[v].step \in {"create", "add"}
                             /\ csCall'[v].step = "create" => csCall[v].step = "create"
    BY <1>3, <1>7
  <2> QED BY <1>1, <1>13, <2>1, <2>2 DEF CsInv, CsCalm
<1>15. CsActiveIsPursued'
  <2>1. \A v \in CsCallers : csCall[v].step = "add" => csCall'[v] = csCall[v]
    BY <1>1, <1>7
  <2>2. \A v \in CsCallers, k \in CsJobs :
          csCall[v] = [step |-> "add", job |-> k] => csCall'[v] = [step |-> "add", job |-> k]
    BY <2>1
  <2>3. \A k \in CsActive : k \in CsJobs
    BY DEF CsActive
  <2> QED BY <1>1, <1>13, <2>2, <2>3 DEF CsInv, CsActiveIsPursued
<1> QED BY <1>7, <1>9, <1>10, <1>11, <1>12, <1>14, <1>15 DEF CsInv

-----------------------------------------------------------------------------
(* The processor *)

\* The types of what the processor looks at.
LEMMA CsTyped ==
  ASSUME CsInv
  PROVE  /\ csRow \in [CsJobs -> CsStatus] /\ csTries \in [CsJobs -> 0..CsAttempts]
         /\ csWork \in CsWorkIs /\ csOrder \in CsLists /\ csTouched \in [CsJobs -> Seq(CsConvs)]
         /\ csTried \in [CsJobs -> SUBSET CsConvs]
         /\ csWork.step # "idle" => csWork.job \in CsJobs
         /\ csWork.step = "idle" => csWork.job \notin CsJobs
         /\ csCancelled \subseteq CsJobs /\ csUnqueued \subseteq CsJobs /\ csRaced \in BOOLEAN
BY DEF CsInv, CsTypeInv, CsWorkInv

LEMMA CsTakeKeeps == ASSUME CsInv, NEW j \in CsJobs, CsTake(j) PROVE CsInv'
<1> DEFINE new == [CsRest EXCEPT !.job = j, !.step = "start", !.tries = csTries[j] - 1]
<1>1. /\ csWork.step = "idle" /\ csTries[j] > 0 /\ csTries' = [csTries EXCEPT ![j] = 0]
      /\ csWork' = IF csRow[j] = "CANCELLED" THEN CsRest ELSE new
      /\ csRow' = csRow /\ csCall' = csCall /\ CsFrame /\ csTried' = csTried
      /\ csLate' = csLate /\ csUnqueued' = csUnqueued /\ csRaced' = csRaced
      /\ csCancelled' = csCancelled
  BY DEF CsTake, CsProvider, CsFrame, CsHistory
<1>2. /\ csTries' \in [CsJobs -> 0..CsAttempts] /\ csTries'[j] = 0
      /\ \A k \in CsJobs : k # j => csTries'[k] = csTries[k]
  BY <1>1, CsTyped, CsNumbers
<1>3. /\ csTries[j] - 1 \in 0..CsAttempts /\ csTries[j] - 1 < CsAttempts
      /\ csRow[j] \in {"PENDING", "FAILED", "CANCELLED"}
      /\ csRow[j] = "FAILED" => csTries[j] - 1 < CsAttempts - 1
  BY <1>1, CsTyped, CsNumbers DEF CsInv, CsJobInv
<1>4. /\ new \in CsWorkIs /\ new.job = j /\ new.step = "start" /\ new.tries = csTries[j] - 1
      /\ new.list = <<>> /\ new.offset = 0
  BY <1>3, CsRestIs DEF CsWorkIs
<1> HIDE DEF new
<1>5. /\ csWork' \in CsWorkIs /\ csWork'.list = <<>> /\ csWork'.offset = 0
      /\ csWork'.step \in {"idle", "start"}
      /\ csWork'.step = "idle" => csWork'.job = CsNone /\ csRow[j] = "CANCELLED"
      /\ csWork'.step = "start" => csWork'.job = j /\ csWork'.tries = csTries[j] - 1
  BY <1>1, <1>4, CsRestIs
<1>6. \A k : csWork.job = k => k \notin CsJobs
  BY <1>1, CsTyped
<1>7. CsTypeInv'
  BY <1>1, <1>2, <1>5 DEF CsInv, CsTypeInv, CsFrame
<1>8. CsWorkInv'
  BY <1>1, <1>3, <1>5, CsNumbers DEF CsWorkInv, CsRunning
<1>9. CsListInv'
  BY <1>5 DEF CsListInv
<1>10. \A k \in CsJobs : CsJobInv(k)'
  <2> SUFFICES ASSUME NEW k \in CsJobs PROVE CsJobInv(k)'
    OBVIOUS
  <2>1. CsJobInv(k) /\ csRow[k] # "RUNNING"
    BY <1>6 DEF CsInv, CsJobInv
  <2>2. CASE k = j
    BY <1>1, <1>2, <1>5, <2>1, <2>2 DEF CsJobInv, CsRunning
  <2>3. CASE k # j
    BY <1>1, <1>2, <1>5, <2>1, <2>3, CsNumbers DEF CsJobInv, CsRunning
  <2> QED BY <2>2, <2>3
<1>11. \A v \in CsCallers : CsCallInv(v)'
  <2> SUFFICES ASSUME NEW v \in CsCallers PROVE CsCallInv(v)'
    OBVIOUS
  <2>1. CsCallInv(v)
    BY DEF CsInv
  <2>2. csCall[v].step = "add" => csCall[v].job # j
    BY <1>1, <2>1 DEF CsCallInv
  <2> QED BY <1>1, <1>2, <1>5, <2>1, <2>2, CsNumbers DEF CsCallInv
<1>12. CsAddsApart'
  BY <1>1 DEF CsInv, CsAddsApart
<1>13. CsActive' = CsActive /\ CsActive \subseteq CsJobs
  BY <1>1 DEF CsActive
<1>14. CsCalm'
  <2>1. \A k \in CsActive : ~CsRetried(k)
    BY <1>6, <1>13 DEF CsRetried
  <2> QED BY <1>1, <1>13, <2>1 DEF CsInv, CsCalm
<1>15. CsCompletedIsWhole'
  BY <1>1 DEF CsInv, CsCompletedIsWhole, CsFrame
<1>16. CsActiveIsPursued'
  <2> SUFFICES ASSUME NEW k \in CsActive
               PROVE  \/ csTries'[k] > 0 \/ csWork'.job = k \/ k \in csUnqueued
                      \/ \E v \in CsCallers : csCall[v] = [step |-> "add", job |-> k]
    BY <1>1, <1>13 DEF CsActiveIsPursued
  <2>1. CASE k = j
    BY <1>5, <2>1 DEF CsActive
  <2>2. CASE k # j
    BY <1>2, <1>6, <1>13, <2>2 DEF CsInv, CsActiveIsPursued
  <2> QED BY <2>1, <2>2
<1> QED BY <1>1, <1>7, <1>8, <1>9, <1>10, <1>11, <1>12, <1>14, <1>15, <1>16 DEF CsInv

LEMMA CsRunKeeps == ASSUME CsInv, CsRun PROVE CsInv'
<1> DEFINE j == csWork.job
           new == [csWork EXCEPT !.step = "collect"]
<1>1. /\ csWork.step = "start" /\ csRow' = [csRow EXCEPT ![j] = "RUNNING"]
      /\ csCancelled' = csCancelled \ {j} /\ csWork' = new
      /\ csTouched' = [csTouched EXCEPT ![j] = <<>>] /\ csTried' = [csTried EXCEPT ![j] = {}]
      /\ csRaced' = (csRaced \/ csRow[j] = "CANCELLED")
      /\ csTries' = csTries /\ csCall' = csCall /\ csOrder' = csOrder /\ csMoves' = csMoves
      /\ csLate' = csLate /\ csUnqueued' = csUnqueued
  BY DEF CsRun
<1>2. /\ j \in CsJobs /\ csRow[j] \in {"PENDING", "FAILED", "CANCELLED"} /\ csWork.tries < CsAttempts
      /\ csRow[j] = "FAILED" => csWork.tries < CsAttempts - 1
      /\ csWork.list = <<>> /\ csWork.offset = 0
  BY <1>1, CsTyped DEF CsInv, CsWorkInv, CsListInv
<1>3. /\ new \in CsWorkIs /\ new.job = j /\ new.step = "collect" /\ new.tries = csWork.tries
      /\ new.list = <<>> /\ new.offset = 0
  BY <1>2, CsTyped DEF CsWorkIs
<1> HIDE DEF new, j
<1>4. csRow' \in [CsJobs -> CsStatus] /\ csRow'[j] = "RUNNING" /\ \A k \in CsJobs : k # j => csRow'[k] = csRow[k]
  BY <1>1, <1>2, CsTyped DEF CsStatus
<1>5. /\ csTouched' \in [CsJobs -> Seq(CsConvs)] /\ csTried' \in [CsJobs -> SUBSET CsConvs]
      /\ csTouched'[j] = <<>> /\ csTried'[j] = {}
      /\ \A k \in CsJobs : k # j => csTouched'[k] = csTouched[k] /\ csTried'[k] = csTried[k]
  BY <1>1, <1>2, CsTyped, CsNothing
<1>6. csCancelled' \subseteq CsJobs /\ csRaced' \in BOOLEAN
  BY <1>1, CsTyped
<1>7. CsTypeInv'
  BY <1>1, <1>3, <1>4, <1>5, <1>6 DEF CsInv, CsTypeInv
<1>8. CsWorkInv'
  BY <1>1, <1>2, <1>3, <1>4 DEF CsWorkInv, CsRunning
<1>9. CsListInv'
  BY <1>1, <1>3, <1>5, CsNothing DEF CsListInv
<1>10. \A k \in CsJobs : CsJobInv(k)'
  <2> SUFFICES ASSUME NEW k \in CsJobs PROVE CsJobInv(k)'
    OBVIOUS
  <2>1. CsJobInv(k) /\ csRow[k] # "RUNNING"
    BY <1>1 DEF CsInv, CsJobInv, CsRunning
  <2>2. CASE k = j
    <3>1. csTries[k] = 0
      BY <2>1, <2>2, CsTyped, CsNumbers DEF CsJobInv, j
    <3> QED BY <1>1, <1>3, <1>4, <2>2, <3>1 DEF CsJobInv, CsRunning
  <2>3. CASE k # j
    BY <1>1, <1>2, <1>3, <1>4, <2>1, <2>3 DEF CsJobInv, CsRunning
  <2> QED BY <2>2, <2>3
<1>11. \A v \in CsCallers : CsCallInv(v)'
  <2> SUFFICES ASSUME NEW v \in CsCallers PROVE CsCallInv(v)'
    OBVIOUS
  <2>1. CsCallInv(v)
    BY DEF CsInv
  <2>2. csCall[v].step = "add" => csCall[v].job # j
    BY <2>1 DEF CsCallInv, j
  <2> QED BY <1>1, <1>3, <1>4, <2>1, <2>2 DEF CsCallInv
<1>12. CsAddsApart'
  BY <1>1 DEF CsInv, CsAddsApart
<1>13. CsActive' = CsActive \union {j}
  BY <1>2, <1>4 DEF CsActive
<1>14. CsCalm'
  <2> SUFFICES ASSUME ~csRaced, csRow[j] # "CANCELLED" PROVE CsCalm'
    BY <1>1 DEF CsCalm
  <2>1. \A k : CsRetried(k)' <=> CsRetried(k)
    BY <1>1, <1>3 DEF CsRetried, j
  <2>2. j \in CsActive \/ CsRetried(j)
    BY <1>2 DEF CsActive, CsRetried, j
  <2> QED BY <1>1, <1>13, <2>1, <2>2 DEF CsInv, CsCalm
<1>15. CsCompletedIsWhole'
  <2> SUFFICES ASSUME NEW k \in CsJobs, csRow'[k] = "COMPLETED", k \notin csCancelled'
               PROVE  \/ Cardinality(csTried'[k]) + Len(csTouched'[k]) >= CsCap
                      \/ CsConvs \ csTried'[k] \subseteq ToSet(csTouched'[k])
    BY DEF CsCompletedIsWhole
  <2>1. k # j /\ csRow[k] = "COMPLETED" /\ k \notin csCancelled
    BY <1>1, <1>4
  <2> QED BY <1>5, <2>1 DEF CsInv, CsCompletedIsWhole
<1>16. CsActiveIsPursued'
  <2> SUFFICES ASSUME NEW k \in CsActive'
               PROVE  \/ csTries[k] > 0 \/ new.job = k \/ k \in csUnqueued
                      \/ \E v \in CsCallers : csCall[v] = [step |-> "add", job |-> k]
    BY <1>1 DEF CsActiveIsPursued
  <2>1. CASE k = j
    BY <1>3, <2>1
  <2>2. CASE k # j
    <3>1. k \in CsActive /\ csWork.job # k
      BY <1>13, <2>2 DEF j
    <3> QED BY <3>1 DEF CsInv, CsActiveIsPursued
  <2> QED BY <2>1, <2>2
<1> QED BY <1>1, <1>7, <1>8, <1>9, <1>10, <1>11, <1>12, <1>14, <1>15, <1>16 DEF CsInv

\* While the processor is at its job, nothing else looks different.
LEMMA CsAtWork ==
  ASSUME CsInv, csWork.step \in CsRunning, csWork' \in CsWorkIs, csWork'.job = csWork.job,
         csWork'.tries = csWork.tries, csWork'.step \in CsRunning, CsListInv',
         csRow' = csRow, csTries' = csTries, csCall' = csCall, CsFrame, csCancelled' = csCancelled,
         csRaced' = csRaced, csUnqueued' = csUnqueued, csLate' = 0,
         csTried' \in [CsJobs -> SUBSET CsConvs],
         \A k \in CsJobs : k # csWork.job => csTried'[k] = csTried[k]
  PROVE  CsInv'
<1>1. csWork.job \in CsJobs /\ csRow[csWork.job] \in {"RUNNING", "CANCELLED"} /\ csWork.tries < CsAttempts
  BY DEF CsInv, CsWorkInv, CsRunning
<1>2. CsTypeInv'
  BY DEF CsInv, CsTypeInv, CsFrame
<1>3. CsWorkInv'
  BY <1>1 DEF CsWorkInv, CsRunning
<1>4. \A k \in CsJobs : CsJobInv(k)'
  BY DEF CsInv, CsJobInv
<1>5. \A u \in CsCallers : CsCallInv(u)'
  BY DEF CsInv, CsCallInv
<1>6. CsAddsApart'
  BY DEF CsInv, CsAddsApart
<1>7. CsActive' = CsActive /\ \A k : CsRetried(k)' <=> CsRetried(k)
  BY DEF CsActive, CsRetried
<1>8. CsCalm'
  BY <1>7 DEF CsInv, CsCalm
<1>9. CsCompletedIsWhole'
  <2> SUFFICES ASSUME NEW k \in CsJobs, csRow[k] = "COMPLETED", k \notin csCancelled
               PROVE  \/ Cardinality(csTried'[k]) + Len(csTouched[k]) >= CsCap
                      \/ CsConvs \ csTried'[k] \subseteq ToSet(csTouched[k])
    BY DEF CsCompletedIsWhole, CsFrame
  <2>1. csTried'[k] = csTried[k]
    BY <1>1
  <2> QED BY <2>1 DEF CsInv, CsCompletedIsWhole
<1>10. CsActiveIsPursued'
  BY <1>7 DEF CsInv, CsActiveIsPursued
<1> QED BY <1>2, <1>3, <1>4, <1>5, <1>6, <1>8, <1>9, <1>10 DEF CsInv

LEMMA CsCollectKeeps == ASSUME CsInv, CsCollect PROVE CsInv'
<1> DEFINE j == csWork.job
           page == SubSeq(csOrder, csWork.offset + 1, Min({csWork.offset + CsPage, Len(csOrder)}))
           list == csWork.list \o page
           moved == csTouched[j]
           step == IF Len(page) < CsPage \/ Len(list) >= CsCap THEN "next" ELSE "collect"
           new == [csWork EXCEPT !.list = list, !.offset = @ + Len(page), !.step = step]
<1>1. /\ csWork.step = "collect" /\ csWork' = new
      /\ csRow' = csRow /\ csTries' = csTries /\ csCall' = csCall /\ CsFrame /\ csTried' = csTried
      /\ csLate' = csLate /\ csCancelled' = csCancelled /\ csRaced' = csRaced /\ csUnqueued' = csUnqueued
  BY DEF CsCollect, CsProvider, CsFrame, CsHistory
<1>2. /\ j \in CsJobs /\ csTried[j] = {} /\ csWork.list \in Seq(CsConvs) /\ csWork.offset \in Nat
      /\ CsListed(csWork.list, csWork.offset, csOrder, moved) /\ moved \in Seq(CsConvs)
      /\ csOrder \in CsLists /\ csLate = 0 /\ csTried \in [CsJobs -> SUBSET CsConvs]
  BY <1>1, CsTyped DEF CsInv, CsListInv, CsWorkIs
<1>3. csWork.offset <= CsN
  BY <1>2 DEF CsListed
<1>4. PICK k \in Nat :
           /\ page \in Seq(CsConvs) /\ Len(page) = k /\ csWork.offset + k <= CsN
           /\ k < CsPage => csWork.offset + k = CsN
           /\ ToSet(page) = {csOrder[p] : p \in (csWork.offset + 1)..(csWork.offset + k)}
           /\ Cardinality(ToSet(page)) = k
  BY <1>2, <1>3, CsPageIs
<1> HIDE DEF page
<1>5. CsListed(list, csWork.offset + k, csOrder, moved)
  BY <1>2, <1>4, CsPageListed
<1>6. list \in Seq(CsConvs)
  BY <1>2, <1>4, CsJoined
<1>7. /\ new \in CsWorkIs /\ new.job = j /\ new.tries = csWork.tries /\ new.list = list
      /\ new.offset = csWork.offset + k /\ new.step = step /\ step \in {"next", "collect"}
  <2>1. csWork \in CsWorkIs /\ csWork.offset + k \in Nat /\ step \in {"next", "collect"} /\ Len(page) = k
    BY <1>2, <1>4, CsTyped
  <2> HIDE DEF step, list
  <2> QED BY <1>6, <2>1 DEF CsWorkIs
<1>8. step = "next" => CsWhole(ToSet(list), moved)
  <2> SUFFICES ASSUME k < CsPage \/ Len(list) >= CsCap PROVE CsWhole(ToSet(list), moved)
    BY <1>4
  <2>1. CASE k < CsPage
    <3>1. CsUpTo(csOrder, CsN) \subseteq ToSet(list) \union ToSet(moved)
      BY <1>4, <1>5, <2>1 DEF CsListed
    <3>2. CsUpTo(csOrder, CsN) = CsConvs
      <4>1. csOrder \in Seq(CsConvs) /\ Len(csOrder) = CsN /\ ToSet(csOrder) = CsConvs
        BY <1>2 DEF CsLists
      <4> QED BY <4>1, CsMembers DEF CsUpTo
    <3> QED BY <3>1, <3>2 DEF CsWhole
  <2>2. CASE Len(list) >= CsCap
    <3> DEFINE A == ToSet(list)
               B == A \ CsUpTo(csOrder, csWork.offset + k)
               a == Cardinality(A)
               b == Cardinality(B)
    <3>1. Len(list) + b <= a + Len(moved)
      BY <1>5 DEF CsListed
    <3>2. IsFiniteSet(A) /\ a \in Nat /\ Len(list) \in Nat /\ Len(moved) \in Nat
      BY <1>2, <1>6, CsMembers
    <3>3. b \in Nat
      BY <3>2, FS_Subset, FS_CardinalityType
    <3> HIDE DEF a, b
    <3>4. a + Len(moved) >= CsCap
      BY <2>2, <3>1, <3>2, <3>3, CsNumbers
    <3> QED BY <3>4 DEF CsWhole, a, A
  <2> QED BY <2>1, <2>2
<1> HIDE DEF new, step, list
<1>9. csTried[j] \union ToSet(list) = ToSet(list)
  BY <1>2
<1>10. CsListInv'
  <2>1. csTried'[csWork'.job] = csTried[j] /\ csTouched'[csWork'.job] = moved /\ csOrder' = csOrder
    BY <1>1, <1>7 DEF CsFrame
  <2> HIDE DEF moved, j
  <2> QED BY <1>1, <1>2, <1>5, <1>7, <1>8, <1>9, <2>1 DEF CsListInv
<1> QED BY <1>1, <1>2, <1>7, <1>10, CsAtWork DEF CsRunning, j

LEMMA CsNextConvKeeps == ASSUME CsInv, CsNextConv PROVE CsInv'
<1> DEFINE j == csWork.job
           new == [csWork EXCEPT !.step = "import"]
<1>1. /\ csWork.step = "next" /\ csWork.list # <<>> /\ csRow[j] # "CANCELLED" /\ csWork' = new
      /\ csLate' = IF j \in csCancelled THEN csLate + 1 ELSE csLate
      /\ csRow' = csRow /\ csTries' = csTries /\ csCall' = csCall /\ CsFrame /\ csTried' = csTried
      /\ csCancelled' = csCancelled /\ csRaced' = csRaced /\ csUnqueued' = csUnqueued
  BY DEF CsNextConv, CsProvider, CsFrame, CsStops
<1>2. j \in CsJobs /\ CsJobInv(j) /\ csLate = 0
  BY <1>1, CsTyped DEF CsInv
<1>3. j \notin csCancelled
  BY <1>1, <1>2 DEF CsJobInv, CsRunning
<1>4. /\ new \in CsWorkIs /\ new.job = j /\ new.tries = csWork.tries /\ new.list = csWork.list
      /\ new.step = "import"
  BY CsTyped DEF CsWorkIs
<1> HIDE DEF new
<1>5. CsListInv'
  BY <1>1, <1>4 DEF CsInv, CsListInv, CsFrame
<1> QED BY <1>1, <1>2, <1>3, <1>4, <1>5, CsTyped, CsAtWork DEF CsRunning

LEMMA CsImportKeeps == ASSUME CsInv, CsImport PROVE CsInv'
<1> DEFINE j == csWork.job
           new == [csWork EXCEPT !.step = "next", !.list = Tail(csWork.list)]
           tried == csTried[j] \union {Head(csWork.list)}
<1>1. /\ csWork.step = "import" /\ csWork' = new /\ csTried' = [csTried EXCEPT ![j] = tried]
      /\ csRow' = csRow /\ csTries' = csTries /\ csCall' = csCall /\ CsFrame /\ csLate' = csLate
      /\ csCancelled' = csCancelled /\ csRaced' = csRaced /\ csUnqueued' = csUnqueued
  BY DEF CsImport, CsProvider, CsFrame
<1>2. /\ j \in CsJobs /\ csLate = 0 /\ csWork.list \in Seq(CsConvs) /\ csWork.list # <<>>
      /\ CsWhole(csTried[j] \union ToSet(csWork.list), csTouched[j])
      /\ csTried \in [CsJobs -> SUBSET CsConvs]
  BY <1>1, CsTyped DEF CsInv, CsListInv, CsWorkIs
<1>3. /\ Tail(csWork.list) \in Seq(CsConvs) /\ Head(csWork.list) \in CsConvs
      /\ ToSet(csWork.list) = {Head(csWork.list)} \union ToSet(Tail(csWork.list))
  BY <1>2, CsHead
<1>4. /\ csTried' \in [CsJobs -> SUBSET CsConvs] /\ csTried'[j] = tried
      /\ \A k \in CsJobs : k # j => csTried'[k] = csTried[k]
  BY <1>1, <1>2, <1>3
<1>5. /\ new \in CsWorkIs /\ new.job = j /\ new.tries = csWork.tries
      /\ new.list = Tail(csWork.list) /\ new.step = "next"
  BY <1>3, CsTyped DEF CsWorkIs
<1>6. tried \union ToSet(Tail(csWork.list)) = csTried[j] \union ToSet(csWork.list)
  BY <1>3
<1> HIDE DEF new, tried
<1>7. CsListInv'
  <2>1. csWork'.step = "next" /\ csWork'.job = j
    BY <1>1, <1>5
  <2>2. CsWhole(csTried'[csWork'.job] \union ToSet(csWork'.list), csTouched'[csWork'.job])
    <3>1. csTried'[csWork'.job] \union ToSet(csWork'.list) = csTried[j] \union ToSet(csWork.list)
      BY <1>1, <1>4, <1>5, <1>6, <2>1, Zenon
    <3>2. csTouched'[csWork'.job] = csTouched[j]
      BY <1>1, <2>1 DEF CsFrame
    <3> QED BY <1>2, <3>1, <3>2
  <2> QED BY <2>1, <2>2 DEF CsListInv
<1> QED BY <1>1, <1>2, <1>4, <1>5, <1>7, CsAtWork DEF CsRunning

\* The processor lets go of its job.
LEMMA CsLetsGo ==
  ASSUME CsInv, csWork.step \in CsRunning, csWork' = CsRest, NEW j \in CsJobs, j = csWork.job,
         NEW end \in {"COMPLETED", "FAILED"}, NEW tries \in 0..CsAttempts, tries < CsAttempts,
         end = "COMPLETED" => \/ j \in csCancelled
                              \/ CsWhole(csTried[j], csTouched[j]),
         end = "COMPLETED" => tries = 0,
         csRow' = [csRow EXCEPT ![j] = end], csTries' = [csTries EXCEPT ![j] = tries],
         csCall' = csCall, CsFrame, csCancelled' = csCancelled, csRaced' = csRaced,
         csUnqueued' = csUnqueued, csLate' = csLate, csTried' = csTried
  PROVE  CsInv'
<1>1. csRow' \in [CsJobs -> CsStatus] /\ csRow'[j] = end /\ \A k \in CsJobs : k # j => csRow'[k] = csRow[k]
  BY CsTyped DEF CsStatus
<1>2. /\ csTries' \in [CsJobs -> 0..CsAttempts] /\ csTries'[j] = tries
      /\ \A k \in CsJobs : k # j => csTries'[k] = csTries[k]
  BY CsTyped
<1>3. csWork' \in CsWorkIs /\ csWork'.job = CsNone /\ csWork'.step = "idle" /\ CsNone \notin CsJobs
  BY CsRestIs, CsNumbers
<1>4. CsTypeInv'
  BY <1>1, <1>2, <1>3 DEF CsInv, CsTypeInv, CsFrame
<1>5. CsWorkInv' /\ CsListInv'
  BY <1>3 DEF CsWorkInv, CsListInv, CsRunning
<1>6. \A k \in CsJobs : CsJobInv(k)'
  <2> SUFFICES ASSUME NEW k \in CsJobs PROVE CsJobInv(k)'
    OBVIOUS
  <2>1. CsJobInv(k) /\ csWork'.job # k
    BY <1>3 DEF CsInv
  <2>2. CASE k = j
    BY <1>1, <1>2, <1>3, <2>2, CsNumbers DEF CsJobInv
  <2>3. CASE k # j
    BY <1>1, <1>2, <1>3, <2>1, <2>3 DEF CsJobInv
  <2> QED BY <2>2, <2>3
<1>7. \A u \in CsCallers : CsCallInv(u)'
  <2> SUFFICES ASSUME NEW u \in CsCallers PROVE CsCallInv(u)'
    OBVIOUS
  <2>2. CsCallInv(u)
    BY DEF CsInv
  <2>3. CASE csCall[u].job = j
    BY <1>1, <2>2, <2>3 DEF CsCallInv
  <2>4. CASE csCall[u].job # j
    BY <1>1, <1>2, <1>3, <2>2, <2>4 DEF CsCallInv
  <2> QED BY <2>3, <2>4
<1>8. CsAddsApart'
  BY DEF CsInv, CsAddsApart
<1>9. CsActive' = CsActive \ {j} /\ CsActive \subseteq CsJobs
  BY <1>1 DEF CsActive
<1>10. CsCalm'
  <2>1. \A k \in CsActive' : ~CsRetried(k) /\ ~CsRetried(k)'
    BY <1>3, <1>9 DEF CsRetried
  <2> QED BY <1>9, <2>1 DEF CsInv, CsCalm
<1>11. CsCompletedIsWhole'
  <2> SUFFICES ASSUME NEW k \in CsJobs, csRow'[k] = "COMPLETED", k \notin csCancelled
               PROVE  \/ Cardinality(csTried[k]) + Len(csTouched[k]) >= CsCap
                      \/ CsConvs \ csTried[k] \subseteq ToSet(csTouched[k])
    BY DEF CsCompletedIsWhole, CsFrame
  <2>1. CASE k = j
    BY <1>1, <2>1 DEF CsWhole
  <2>2. CASE k # j
    BY <1>1, <2>2 DEF CsInv, CsCompletedIsWhole
  <2> QED BY <2>1, <2>2
<1>12. CsActiveIsPursued'
  <2> SUFFICES ASSUME NEW k \in CsActive, k # j
               PROVE  \/ csTries'[k] > 0 \/ csWork'.job = k \/ k \in csUnqueued
                      \/ \E v \in CsCallers : csCall[v] = [step |-> "add", job |-> k]
    BY <1>9 DEF CsActiveIsPursued
  <2>1. csTries'[k] = csTries[k] /\ csWork.job # k
    BY <1>2, <1>9
  <2> QED BY <2>1 DEF CsInv, CsActiveIsPursued
<1>13. csLate' = 0
  BY DEF CsInv
<1> QED BY <1>4, <1>5, <1>6, <1>7, <1>8, <1>10, <1>11, <1>12, <1>13 DEF CsInv

LEMMA CsEndKeeps == ASSUME CsInv, CsEnd PROVE CsInv'
<1> DEFINE j == csWork.job
<1>1. /\ csWork.step = "next" /\ (csWork.list = <<>> \/ csRow[j] = "CANCELLED")
      /\ csRow' = [csRow EXCEPT ![j] = "COMPLETED"] /\ csWork' = CsRest /\ csTries' = csTries
      /\ csCall' = csCall /\ CsFrame /\ csCancelled' = csCancelled /\ csRaced' = csRaced
      /\ csUnqueued' = csUnqueued /\ csLate' = csLate /\ csTried' = csTried
  BY DEF CsEnd, CsStops, CsProvider, CsHistory, CsFrame
<1>2. /\ csWork.step = "next" /\ j \in CsJobs /\ CsJobInv(j)
      /\ csTried \in [CsJobs -> SUBSET CsConvs] /\ csTries \in [CsJobs -> 0..CsAttempts]
      /\ CsWhole(csTried[j] \union ToSet(csWork.list), csTouched[j])
  BY <1>1, CsTyped DEF CsInv, CsListInv, CsEnd
<1>3. j \in csCancelled \/ CsWhole(csTried[j], csTouched[j])
  <2>1. CASE csWork.list = <<>>
    <3>1. csTried[j] \union ToSet(csWork.list) = csTried[j]
      BY <2>1, CsNothing
    <3> QED BY <1>2, <3>1, Zenon
  <2>2. CASE csRow[j] = "CANCELLED"
    BY <1>2, <2>2 DEF CsJobInv
  <2> QED BY <1>1, <2>1, <2>2
<1>4. csTries[j] = 0
  BY <1>2, CsNumbers DEF CsJobInv
<1>5. csTries' = [csTries EXCEPT ![j] = 0]
  BY <1>1, <1>2, <1>4
<1>6. 0 \in 0..CsAttempts /\ 0 < CsAttempts
  BY CsNumbers
<1>7. csWork.step \in CsRunning
  BY <1>2 DEF CsRunning
<1>8. j = csWork.job
  OBVIOUS
<1> HIDE DEF j
<1> QED BY <1>1, <1>2, <1>3, <1>5, <1>6, <1>7, <1>8, CsLetsGo

LEMMA CsFailKeeps == ASSUME CsInv, CsFail PROVE CsInv'
<1> DEFINE j == csWork.job
           t == csWork.tries
<1>1. /\ csWork.step = "collect" /\ csTries' = [csTries EXCEPT ![j] = t]
      /\ csRow' = [csRow EXCEPT ![j] = "FAILED"] /\ csWork' = CsRest
      /\ csCall' = csCall /\ CsFrame /\ csCancelled' = csCancelled /\ csRaced' = csRaced
      /\ csUnqueued' = csUnqueued /\ csLate' = csLate /\ csTried' = csTried
  BY DEF CsFail, CsProvider, CsHistory, CsFrame
<1>2. j \in CsJobs /\ t \in 0..CsAttempts /\ t < CsAttempts
  BY <1>1, CsTyped DEF CsInv, CsWorkInv, CsWorkIs
<1>3. csWork.step \in CsRunning /\ j = csWork.job
  BY <1>1 DEF CsRunning
<1> HIDE DEF j, t
<1> QED BY <1>1, <1>2, <1>3, CsLetsGo

-----------------------------------------------------------------------------
(* The provider *)

LEMMA CsActivityKeeps == ASSUME CsInv, NEW k \in 1..CsN, CsActivity(k) PROVE CsInv'
<1> DEFINE j == csWork.job
           c == csOrder[k]
<1>1. /\ csMoves < CsMaxMoves /\ csMoves' = csMoves + 1 /\ csOrder' = CsToFront(csOrder, k)
      /\ csTouched' = IF csWork.step = "collect"
                        THEN [csTouched EXCEPT ![j] = Append(csTouched[j], c)] ELSE csTouched
      /\ csRow' = csRow /\ csTries' = csTries /\ csCall' = csCall /\ csWork' = csWork
      /\ csTried' = csTried /\ csLate' = csLate /\ csCancelled' = csCancelled
      /\ csRaced' = csRaced /\ csUnqueued' = csUnqueued
  BY DEF CsActivity, CsHistory, CsToFront
<1>2. csOrder \in CsLists /\ csTouched \in [CsJobs -> Seq(CsConvs)] /\ csMoves \in 0..CsMaxMoves
  BY DEF CsInv, CsTypeInv
<1>3. csOrder' \in CsLists /\ c \in CsConvs
  BY <1>1, <1>2, CsToFrontIs
<1>4. csWork.step = "collect" => /\ j \in CsJobs /\ csTouched[j] \in Seq(CsConvs)
                                 /\ Append(csTouched[j], c) \in Seq(CsConvs)
                                 /\ csRow[j] \in {"RUNNING", "CANCELLED"}
  BY <1>2, <1>3, CsTyped, CsLonger DEF CsInv, CsWorkInv, CsRunning
<1>5. /\ csTouched' \in [CsJobs -> Seq(CsConvs)]
      /\ csWork.step = "collect" => csTouched'[j] = Append(csTouched[j], c)
      /\ csWork.step # "collect" => csTouched' = csTouched
      /\ \A i \in CsJobs : csRow[i] = "COMPLETED" => csTouched'[i] = csTouched[i]
  BY <1>1, <1>2, <1>4
<1> HIDE DEF c
<1>6. CsTypeInv'
  BY <1>1, <1>2, <1>3, <1>5, CsNumbers DEF CsInv, CsTypeInv
<1>7. CsWorkInv' /\ \A i \in CsJobs : CsJobInv(i)'
  BY <1>1 DEF CsInv, CsWorkInv, CsJobInv
<1>8. \A u \in CsCallers : CsCallInv(u)'
  BY <1>1 DEF CsInv, CsCallInv
<1>9. CsAddsApart'
  BY <1>1 DEF CsInv, CsAddsApart
<1>10. CsActive' = CsActive /\ \A i : CsRetried(i)' <=> CsRetried(i)
  BY <1>1 DEF CsActive, CsRetried
<1>11. CsCalm'
  BY <1>1, <1>10 DEF CsInv, CsCalm
<1>12. CsCompletedIsWhole'
  BY <1>1, <1>5 DEF CsInv, CsCompletedIsWhole
<1>13. CsActiveIsPursued'
  BY <1>1, <1>10 DEF CsInv, CsActiveIsPursued
<1>14. CsListInv'
  <2>1. CASE csWork.step = "collect"
    <3>1. /\ CsListed(csWork.list, csWork.offset, csOrder, csTouched[j]) /\ csTried[j] = {}
          /\ csWork.list \in Seq(CsConvs) /\ csWork.offset \in Nat
      BY <2>1, CsTyped DEF CsInv, CsListInv, CsWorkIs
    <3>2. CsListed(csWork.list, csWork.offset, csOrder', csTouched'[j])
      BY <1>1, <1>2, <1>4, <1>5, <2>1, <3>1, CsMoveListed DEF c
    <3> QED BY <1>1, <2>1, <3>1, <3>2 DEF CsListInv
  <2>2. CASE csWork.step # "collect"
    BY <1>1, <1>5, <2>2 DEF CsInv, CsListInv
  <2> QED BY <2>1, <2>2
<1>15. csLate' = 0
  BY <1>1 DEF CsInv
<1> QED BY <1>6, <1>7, <1>8, <1>9, <1>11, <1>12, <1>13, <1>14, <1>15 DEF CsInv

-----------------------------------------------------------------------------
(* The theorems *)

LEMMA CsInvStep == ASSUME CsInv, [CsNext]_csVars PROVE CsInv'
<1>1. CASE UNCHANGED csVars
  <2>1. /\ csRow' = csRow /\ csTries' = csTries /\ csCall' = csCall /\ csWork' = csWork
        /\ csOrder' = csOrder /\ csMoves' = csMoves /\ csTouched' = csTouched /\ csTried' = csTried
        /\ csLate' = csLate /\ csCancelled' = csCancelled /\ csRaced' = csRaced
        /\ csUnqueued' = csUnqueued
    BY <1>1 DEF csVars
  <2>2. CsTypeInv' /\ CsWorkInv' /\ CsListInv'
    BY <2>1 DEF CsInv, CsTypeInv, CsWorkInv, CsListInv
  <2>3. (\A j \in CsJobs : CsJobInv(j)') /\ (\A u \in CsCallers : CsCallInv(u)') /\ CsAddsApart'
    BY <2>1 DEF CsInv, CsJobInv, CsCallInv, CsAddsApart
  <2>4. CsActive' = CsActive /\ \A j : CsRetried(j)' <=> CsRetried(j)
    BY <2>1 DEF CsActive, CsRetried
  <2>5. CsCalm' /\ CsActiveIsPursued'
    BY <2>1, <2>4 DEF CsInv, CsCalm, CsActiveIsPursued
  <2>6. CsCompletedIsWhole' /\ csLate' = 0
    BY <2>1 DEF CsInv, CsCompletedIsWhole
  <2> QED BY <2>2, <2>3, <2>5, <2>6 DEF CsInv
<1>2. CASE \E u \in CsCallers : \/ CsStart(u) \/ CsAdd(u) \/ CsCancelWrite(u)
                               \/ \E j \in CsJobs : CsCreate(u, j) \/ CsCancelFind(u, j)
  BY <1>2, CsStartKeeps, CsAddKeeps, CsCancelWriteKeeps, CsCreateKeeps, CsCancelFindKeeps
<1>3. CASE \E j \in CsJobs : CsTake(j)
  BY <1>3, CsTakeKeeps
<1>4. CASE CsRun \/ CsCollect \/ CsNextConv \/ CsImport \/ CsEnd \/ CsFail
  BY <1>4, CsRunKeeps, CsCollectKeeps, CsNextConvKeeps, CsImportKeeps, CsEndKeeps, CsFailKeeps
<1>5. CASE \E k \in 1..Cardinality(CsConvs) : CsActivity(k)
  BY <1>5, CsActivityKeeps DEF CsN
<1> QED BY <1>1, <1>2, <1>3, <1>4, <1>5 DEF CsNext

LEMMA CsInvGives == CsInv => CsSafe /\ CsTypeOK
<1> SUFFICES ASSUME CsInv PROVE CsSafe /\ CsTypeOK
  OBVIOUS
<1>1. CsOneActive
  <2> SUFFICES ASSUME ~csRaced, ~(csWork.job # CsNone /\ csWork.tries < CsAttempts - 1)
               PROVE  Cardinality(CsActive) <= 1
    BY DEF CsOneActive
  <2>1. \A j \in CsActive : ~CsRetried(j)
    BY CsNumbers DEF CsActive, CsRetried
  <2>2. \A j, k \in CsActive : j = k
    BY <2>1 DEF CsInv, CsCalm
  <2>3. CASE CsActive = {}
    <3>1. Cardinality(CsActive) = 0
      BY <2>3, FS_EmptySet, Zenon
    <3> QED BY <3>1
  <2>4. CASE CsActive # {}
    <3>1. PICK j : CsActive = {j}
      BY <2>2, <2>4
    <3>2. Cardinality(CsActive) = 1
      BY <3>1, FS_Singleton, Zenon
    <3> QED BY <3>2
  <2> QED BY <2>3, <2>4
<1>2. CsCancelStops /\ CsCompletedIsWhole /\ CsActiveIsPursued
  BY DEF CsInv, CsCancelStops
<1>3. ToSet(csOrder) = CsConvs /\ Len(csOrder) = Cardinality(CsConvs)
  BY DEF CsInv, CsTypeInv, CsLists, CsN
<1>4. \A u \in CsCallers : /\ csCall[u].step \in {"idle", "create", "add", "cancel"}
                           /\ csCall[u].job \in CsJobs \union {CsNone}
  BY DEF CsInv, CsTypeInv, CsCallIs
<1>5. /\ csWork.job \in CsJobs \union {CsNone}
      /\ csWork.step \in {"idle", "start", "collect", "next", "import"}
      /\ csWork.list \in Seq(CsConvs) /\ csWork.offset \in Nat /\ csWork.tries \in 0..CsAttempts
  BY DEF CsInv, CsTypeInv, CsWorkIs
<1>6. CsTypeOK
  BY <1>3, <1>4, <1>5 DEF CsInv, CsTypeInv, CsTypeOK
<1> QED BY <1>1, <1>2, <1>6 DEF CsSafe

LEMMA CsInvCorrect == CsSpec => []CsInv
BY CsInitInv, CsInvStep, PTL DEF CsSpec

\* Once a running import was told to stop it begins no further conversation; a completed one
\* tried every conversation that did not move meanwhile, or its cap of them; an active job is
\* queued or at work; and a channel has one, unless requests raced: for every size of page and
\* of cap, number of conversations and of moves of the provider's list (channel-sync.processor.ts).
THEOREM CsSafeCorrect == CsSpec => []CsSafe
<1>1. CsInv => CsSafe
  BY CsInvGives
<1> QED BY <1>1, CsInvCorrect, PTL

\* Every reachable state of the import has the shape CsTypeOK gives it; the provider's list keeps
\* every conversation exactly once.
THEOREM CsTypeCorrect == CsSpec => []CsTypeOK
<1>1. CsInv => CsTypeOK
  BY CsInvGives
<1> QED BY <1>1, CsInvCorrect, PTL

-----------------------------------------------------------------------------
(* Adapters: any customers, messages and receipts *)

\* The first entry of a table whose word occurs in a message type.
AdFirstAt(order, shape, k) ==
  order[k][1] \in AdWords[shape] /\ \A i \in 1..(k - 1) : order[i][1] \notin AdWords[shape]

LEMMA AdTables == Len(AdTypeOrder) = 19 /\ Len(AdContentOrder) = 19
BY DEF AdTypeOrder, AdContentOrder

LEMMA AdFirstIs ==
  ASSUME NEW order, Len(order) \in Nat, NEW shape, NEW default, NEW k \in 1..Len(order),
         AdFirstAt(order, shape, k)
  PROVE  AdFirst(order, shape, default) = order[k][2]
<1> DEFINE I == {i \in 1..Len(order) : order[i][1] \in AdWords[shape]}
<1>1. k \in I /\ \A i \in I : k <= i
  BY DEF AdFirstAt
<1>2. Min(I) = k
  <2>1. \A i \in I : i \in Nat
    OBVIOUS
  <2>2. Min(I) \in I /\ \A i \in I : Min(I) <= i
    BY <1>1 DEF Min
  <2>3. k \in Nat /\ Min(I) \in Nat /\ k <= Min(I) /\ Min(I) <= k
    BY <1>1, <2>1, <2>2
  <2> HIDE DEF I
  <2> QED BY <2>3
<1>3. SelectInSeq(order, LAMBDA e : e[1] \in AdWords[shape]) = IF I # {} THEN Min(I) ELSE 0
  BY DEF SelectInSeq
<1> HIDE DEF I
<1>4. SelectInSeq(order, LAMBDA e : e[1] \in AdWords[shape]) = k /\ k # 0
  BY <1>1, <1>2, <1>3
<1> QED BY <1>4 DEF AdFirst

LEMMA AdFirstNone ==
  ASSUME NEW order, Len(order) \in Nat, NEW shape, NEW default, AdWords[shape] = {}
  PROVE  AdFirst(order, shape, default) = default
<1>1. SelectInSeq(order, LAMBDA e : e[1] \in AdWords[shape]) = 0
  BY DEF SelectInSeq
<1> QED BY <1>1 DEF AdFirst

\* The type a message is given shows something the content has.
AdTypeFits(shape) ==
  adKind # "OFFICIAL" => AdNeeds[AdUazapi(shape)[1]] \in AdUazapi(shape)[2]

LEMMA AdFits ==
  ASSUME NEW shape, NEW k \in 1..19, NEW l \in 1..19,
         AdFirstAt(AdTypeOrder, shape, k), AdFirstAt(AdContentOrder, shape, l),
         adKind # "OFFICIAL" => AdNeeds[AdTypeOrder[k][2]] \in AdContentOrder[l][2]
  PROVE  AdTypeFits(shape)
<1>0. /\ Len(AdTypeOrder) \in Nat /\ k \in 1..Len(AdTypeOrder)
      /\ Len(AdContentOrder) \in Nat /\ l \in 1..Len(AdContentOrder)
  BY AdTables
<1>1. AdFirst(AdTypeOrder, shape, "TEXT") = AdTypeOrder[k][2]
  BY <1>0, AdFirstIs, Zenon
<1>2. AdFirst(AdContentOrder, shape, {"text"}) = AdContentOrder[l][2]
  BY <1>0, AdFirstIs, Zenon
<1> QED BY <1>1, <1>2 DEF AdTypeFits, AdUazapi

\* The two tables of words agree, whatever the order each one looks in.
LEMMA AdTypesFit == \A shape \in DOMAIN AdWords : AdTypeFits(shape)
<1>1. AdTypeFits("Conversation")
  <2>1. AdFirstAt(AdTypeOrder, "Conversation", 2) /\ AdFirstAt(AdContentOrder, "Conversation", 2)
    BY DEF AdFirstAt, AdTypeOrder, AdContentOrder, AdWords
  <2>2. adKind # "OFFICIAL" => AdNeeds[AdTypeOrder[2][2]] \in AdContentOrder[2][2]
    BY DEF AdTypeOrder, AdContentOrder, AdNeeds
  <2> QED BY <2>1, <2>2, AdFits
<1>2. AdTypeFits("ExtendedTextMessage")
  <2>1. AdFirstAt(AdTypeOrder, "ExtendedTextMessage", 1) /\ AdFirstAt(AdContentOrder, "ExtendedTextMessage", 1)
    BY DEF AdFirstAt, AdTypeOrder, AdContentOrder, AdWords
  <2>2. adKind # "OFFICIAL" => AdNeeds[AdTypeOrder[1][2]] \in AdContentOrder[1][2]
    BY DEF AdTypeOrder, AdContentOrder, AdNeeds
  <2> QED BY <2>1, <2>2, AdFits
<1>3. AdTypeFits("ImageMessage")
  <2>1. AdFirstAt(AdTypeOrder, "ImageMessage", 3) /\ AdFirstAt(AdContentOrder, "ImageMessage", 3)
    BY DEF AdFirstAt, AdTypeOrder, AdContentOrder, AdWords
  <2>2. adKind # "OFFICIAL" => AdNeeds[AdTypeOrder[3][2]] \in AdContentOrder[3][2]
    BY DEF AdTypeOrder, AdContentOrder, AdNeeds
  <2> QED BY <2>1, <2>2, AdFits
<1>4. AdTypeFits("AudioMessage")
  <2>1. AdFirstAt(AdTypeOrder, "AudioMessage", 4) /\ AdFirstAt(AdContentOrder, "AudioMessage", 4)
    BY DEF AdFirstAt, AdTypeOrder, AdContentOrder, AdWords
  <2>2. adKind # "OFFICIAL" => AdNeeds[AdTypeOrder[4][2]] \in AdContentOrder[4][2]
    BY DEF AdTypeOrder, AdContentOrder, AdNeeds
  <2> QED BY <2>1, <2>2, AdFits
<1>5. AdTypeFits("PttMessage")
  <2>1. AdFirstAt(AdTypeOrder, "PttMessage", 5) /\ AdFirstAt(AdContentOrder, "PttMessage", 5)
    BY DEF AdFirstAt, AdTypeOrder, AdContentOrder, AdWords
  <2>2. adKind # "OFFICIAL" => AdNeeds[AdTypeOrder[5][2]] \in AdContentOrder[5][2]
    BY DEF AdTypeOrder, AdContentOrder, AdNeeds
  <2> QED BY <2>1, <2>2, AdFits
<1>6. AdTypeFits("VideoMessage")
  <2>1. AdFirstAt(AdTypeOrder, "VideoMessage", 6) /\ AdFirstAt(AdContentOrder, "VideoMessage", 6)
    BY DEF AdFirstAt, AdTypeOrder, AdContentOrder, AdWords
  <2>2. adKind # "OFFICIAL" => AdNeeds[AdTypeOrder[6][2]] \in AdContentOrder[6][2]
    BY DEF AdTypeOrder, AdContentOrder, AdNeeds
  <2> QED BY <2>1, <2>2, AdFits
<1>7. AdTypeFits("PtvMessage")
  <2>1. AdFirstAt(AdTypeOrder, "PtvMessage", 11) /\ AdFirstAt(AdContentOrder, "PtvMessage", 11)
    BY DEF AdFirstAt, AdTypeOrder, AdContentOrder, AdWords
  <2>2. adKind # "OFFICIAL" => AdNeeds[AdTypeOrder[11][2]] \in AdContentOrder[11][2]
    BY SMTT(20) DEF AdTypeOrder, AdContentOrder, AdNeeds
  <2> QED BY <2>1, <2>2, AdFits
<1>8. AdTypeFits("DocumentMessage")
  <2>1. AdFirstAt(AdTypeOrder, "DocumentMessage", 7) /\ AdFirstAt(AdContentOrder, "DocumentMessage", 7)
    BY DEF AdFirstAt, AdTypeOrder, AdContentOrder, AdWords
  <2>2. adKind # "OFFICIAL" => AdNeeds[AdTypeOrder[7][2]] \in AdContentOrder[7][2]
    BY DEF AdTypeOrder, AdContentOrder, AdNeeds
  <2> QED BY <2>1, <2>2, AdFits
<1>9. AdTypeFits("StickerMessage")
  <2>1. AdFirstAt(AdTypeOrder, "StickerMessage", 8) /\ AdFirstAt(AdContentOrder, "StickerMessage", 8)
    BY DEF AdFirstAt, AdTypeOrder, AdContentOrder, AdWords
  <2>2. adKind # "OFFICIAL" => AdNeeds[AdTypeOrder[8][2]] \in AdContentOrder[8][2]
    BY DEF AdTypeOrder, AdContentOrder, AdNeeds
  <2> QED BY <2>1, <2>2, AdFits
<1>10. AdTypeFits("LocationMessage")
  <2>1. AdFirstAt(AdTypeOrder, "LocationMessage", 9) /\ AdFirstAt(AdContentOrder, "LocationMessage", 9)
    BY DEF AdFirstAt, AdTypeOrder, AdContentOrder, AdWords
  <2>2. adKind # "OFFICIAL" => AdNeeds[AdTypeOrder[9][2]] \in AdContentOrder[9][2]
    BY DEF AdTypeOrder, AdContentOrder, AdNeeds
  <2> QED BY <2>1, <2>2, AdFits
<1>11. AdTypeFits("ReactionMessage")
  <2>1. AdFirstAt(AdTypeOrder, "ReactionMessage", 10) /\ AdFirstAt(AdContentOrder, "ReactionMessage", 10)
    BY DEF AdFirstAt, AdTypeOrder, AdContentOrder, AdWords
  <2>2. adKind # "OFFICIAL" => AdNeeds[AdTypeOrder[10][2]] \in AdContentOrder[10][2]
    BY SMTT(20) DEF AdTypeOrder, AdContentOrder, AdNeeds
  <2> QED BY <2>1, <2>2, AdFits
<1>12. AdTypeFits("TemplateMessage")
  <2>1. AdFirstAt(AdTypeOrder, "TemplateMessage", 13) /\ AdFirstAt(AdContentOrder, "TemplateMessage", 17)
    BY DEF AdFirstAt, AdTypeOrder, AdContentOrder, AdWords
  <2>2. adKind # "OFFICIAL" => AdNeeds[AdTypeOrder[13][2]] \in AdContentOrder[17][2]
    BY SMTT(20) DEF AdTypeOrder, AdContentOrder, AdNeeds
  <2> QED BY <2>1, <2>2, AdFits
<1>13. AdTypeFits("TemplateButtonReplyMessage")
  <2>1. AdFirstAt(AdTypeOrder, "TemplateButtonReplyMessage", 12) /\ AdFirstAt(AdContentOrder, "TemplateButtonReplyMessage", 16)
    BY DEF AdFirstAt, AdTypeOrder, AdContentOrder, AdWords
  <2>2. adKind # "OFFICIAL" => AdNeeds[AdTypeOrder[12][2]] \in AdContentOrder[16][2]
    BY SMTT(20) DEF AdTypeOrder, AdContentOrder, AdNeeds
  <2> QED BY <2>1, <2>2, AdFits
<1>14. AdTypeFits("ContactMessage")
  <2>1. AdFirstAt(AdTypeOrder, "ContactMessage", 14) /\ AdFirstAt(AdContentOrder, "ContactMessage", 12)
    BY DEF AdFirstAt, AdTypeOrder, AdContentOrder, AdWords
  <2>2. adKind # "OFFICIAL" => AdNeeds[AdTypeOrder[14][2]] \in AdContentOrder[12][2]
    BY SMTT(20) DEF AdTypeOrder, AdContentOrder, AdNeeds
  <2> QED BY <2>1, <2>2, AdFits
<1>15. AdTypeFits("PollCreationMessage")
  <2>1. AdFirstAt(AdTypeOrder, "PollCreationMessage", 15) /\ AdFirstAt(AdContentOrder, "PollCreationMessage", 14)
    BY DEF AdFirstAt, AdTypeOrder, AdContentOrder, AdWords
  <2>2. adKind # "OFFICIAL" => AdNeeds[AdTypeOrder[15][2]] \in AdContentOrder[14][2]
    BY SMTT(20) DEF AdTypeOrder, AdContentOrder, AdNeeds
  <2> QED BY <2>1, <2>2, AdFits
<1>16. AdTypeFits("AlbumMessage")
  <2>1. AdFirstAt(AdTypeOrder, "AlbumMessage", 16) /\ AdFirstAt(AdContentOrder, "AlbumMessage", 15)
    BY DEF AdFirstAt, AdTypeOrder, AdContentOrder, AdWords
  <2>2. adKind # "OFFICIAL" => AdNeeds[AdTypeOrder[16][2]] \in AdContentOrder[15][2]
    BY SMTT(20) DEF AdTypeOrder, AdContentOrder, AdNeeds
  <2> QED BY <2>1, <2>2, AdFits
<1>17. AdTypeFits("GroupInviteMessage")
  <2>1. AdFirstAt(AdTypeOrder, "GroupInviteMessage", 17) /\ AdFirstAt(AdContentOrder, "GroupInviteMessage", 13)
    BY DEF AdFirstAt, AdTypeOrder, AdContentOrder, AdWords
  <2>2. adKind # "OFFICIAL" => AdNeeds[AdTypeOrder[17][2]] \in AdContentOrder[13][2]
    BY SMTT(20) DEF AdTypeOrder, AdContentOrder, AdNeeds
  <2> QED BY <2>1, <2>2, AdFits
<1>18. AdTypeFits("ButtonsMessage")
  <2>1. AdFirstAt(AdTypeOrder, "ButtonsMessage", 18) /\ AdFirstAt(AdContentOrder, "ButtonsMessage", 18)
    BY DEF AdFirstAt, AdTypeOrder, AdContentOrder, AdWords
  <2>2. adKind # "OFFICIAL" => AdNeeds[AdTypeOrder[18][2]] \in AdContentOrder[18][2]
    BY SMTT(20) DEF AdTypeOrder, AdContentOrder, AdNeeds
  <2> QED BY <2>1, <2>2, AdFits
<1>19. AdTypeFits("ListResponseMessage")
  <2>1. AdFirstAt(AdTypeOrder, "ListResponseMessage", 19) /\ AdFirstAt(AdContentOrder, "ListResponseMessage", 19)
    BY DEF AdFirstAt, AdTypeOrder, AdContentOrder, AdWords
  <2>2. adKind # "OFFICIAL" => AdNeeds[AdTypeOrder[19][2]] \in AdContentOrder[19][2]
    BY SMTT(20) DEF AdTypeOrder, AdContentOrder, AdNeeds
  <2> QED BY <2>1, <2>2, AdFits
<1>20. AdTypeFits("EventMessage")
  <2>1. AdWords["EventMessage"] = {}
    BY DEF AdWords
  <2>2. AdUazapi("EventMessage") = <<"TEXT", {"text"}>>
    BY <2>1, AdTables, AdFirstNone DEF AdUazapi
  <2> QED BY <2>2 DEF AdTypeFits, AdNeeds
<1>21. DOMAIN AdWords =
              {"Conversation", "ExtendedTextMessage", "ImageMessage", "AudioMessage",
               "PttMessage", "VideoMessage", "PtvMessage", "DocumentMessage", "StickerMessage",
               "LocationMessage", "ReactionMessage", "TemplateMessage",
               "TemplateButtonReplyMessage", "ContactMessage", "PollCreationMessage",
               "AlbumMessage", "GroupInviteMessage", "ButtonsMessage", "ListResponseMessage",
               "EventMessage"}
  BY DEF AdWords
<1> QED BY <1>1, <1>2, <1>3, <1>4, <1>5, <1>6, <1>7, <1>8, <1>9, <1>10, <1>11, <1>12, <1>13,
        <1>14, <1>15, <1>16, <1>17, <1>18, <1>19, <1>20,
        <1>21

LEMMA AdParsedFits ==
  ASSUME adKind \in AdKinds, adKind # "GMAIL", NEW shape \in AdShapes
  PROVE  AdNeeds[AdParsed(shape)[1]] \in AdParsed(shape)[2]
<1>1. CASE adKind \in AdUnofficial
  <2>1. shape \in DOMAIN AdWords /\ AdParsed(shape) = AdUazapi(shape) /\ adKind # "OFFICIAL"
    BY <1>1 DEF AdShapes, AdParsed, AdUnofficial
  <2> QED BY <2>1, AdTypesFit DEF AdTypeFits
<1>2. CASE adKind = "OFFICIAL"
  <2>1. shape \in DOMAIN AdOfficial /\ AdParsed(shape) = AdOfficial[shape]
    BY <1>2 DEF AdShapes, AdParsed, AdUnofficial
  <2>2. AdNeeds[AdOfficial[shape][1]] \in AdOfficial[shape][2]
    BY <1>2, <2>1 DEF AdOfficial, AdNeeds
  <2> QED BY <2>1, <2>2
<1>3. CASE adKind = "INSTAGRAM"
  <2>1. shape \in DOMAIN AdInstagram /\ AdParsed(shape) = AdInstagram[shape]
    BY <1>3 DEF AdShapes, AdParsed, AdUnofficial
  <2>2. AdNeeds[AdInstagram[shape][1]] \in AdInstagram[shape][2]
    BY <1>3, <2>1 DEF AdInstagram, AdNeeds
  <2> QED BY <2>1, <2>2
<1> QED BY <1>1, <1>2, <1>3 DEF AdKinds, AdUnofficial

-----------------------------------------------------------------------------
(* The messages and their rows *)

AdSentMessages == {AdSendMessage(p, t, b) : p \in AdPeople, t \in AdSendable, b \in BOOLEAN}
AdAny == AdMessages \union AdSentMessages

\* The row the inbox writes with the message it sends.
AdSentRow(i) == [ext |-> <<i, 0>>, who |-> adMail[i].who, dir |-> "OUT", type |-> adMail[i].type,
                 has |-> {"sent"}, party |-> "contact"]

AdRowOK(r) == \E i \in DOMAIN adMail :
  IF adMail[i].by = "inbox" THEN r = AdSentRow(i) ELSE r \in AdNormalize(i)

AdInv ==
  /\ adKind \in AdKinds /\ adMail \in Seq(AdAny) /\ Len(adMail) <= AdMaxMessages
  /\ \A r \in adRows : AdRowOK(r)
  /\ \A i \in DOMAIN adMail : adMail[i].by = "inbox" => AdSentRow(i) \in adRows
  /\ \A i \in adHooked : /\ i \in DOMAIN adMail
                         /\ \A r \in AdNormalize(i) : \E x \in adRows : x.ext = r.ext
  /\ adRead \subseteq DOMAIN adMail /\ adTold \subseteq DOMAIN adMail
  /\ AdReadIsTold

LEMMA AdOfMessage ==
  ASSUME NEW m \in AdMessages
  PROVE  /\ m.by \in {"contact", "app"} /\ m.who \in AdPeople /\ m.header \in AdHeaders
         /\ m.shape \in AdShapes /\ m.files \in 0..2
         /\ m.header # "plain" => adKind = "GMAIL" /\ m.by = "app"
BY DEF AdMessages

LEMMA AdOfSent ==
  ASSUME NEW m \in AdSentMessages
  PROVE  /\ m.by = "inbox" /\ m.who \in AdPeople /\ m.header = "plain" /\ ~m.group
         /\ m.type \in AdSendable /\ m.files \in 0..1
         /\ \E b \in BOOLEAN : m.shows = AdShows(m.type, b)
<1>1. PICK p \in AdPeople, t \in AdSendable, b \in BOOLEAN : m = AdSendMessage(p, t, b)
  BY DEF AdSentMessages
<1> DEFINE parts == AdShows(t, b)
           n == IF adKind = "GMAIL" /\ "media" \in parts THEN 1 ELSE 0
           s == IF parts \intersect {"text", "caption"} # {} THEN "written" ELSE "quoteOnly"
<1>2. m = [who |-> p, by |-> "inbox", group |-> FALSE, header |-> "plain", type |-> t,
           shows |-> parts, shape |-> s, files |-> n]
  BY <1>1 DEF AdSendMessage
<1>3. n \in 0..1
  OBVIOUS
<1> HIDE DEF n, s, parts
<1>4. m.by = "inbox" /\ m.who = p /\ m.header = "plain" /\ m.group = FALSE /\ m.type = t
      /\ m.files = n /\ m.shows = parts
  BY <1>2
<1> QED BY <1>3, <1>4 DEF parts

LEMMA AdSentIs ==
  ASSUME NEW p \in AdPeople, NEW t \in AdSendable, NEW b \in BOOLEAN
  PROVE  /\ AdSendMessage(p, t, b) \in AdSentMessages
         /\ AdSendMessage(p, t, b).who = p /\ AdSendMessage(p, t, b).type = t
<1> DEFINE parts == AdShows(t, b)
           n == IF adKind = "GMAIL" /\ "media" \in parts THEN 1 ELSE 0
           s == IF parts \intersect {"text", "caption"} # {} THEN "written" ELSE "quoteOnly"
<1>1. AdSendMessage(p, t, b) = [who |-> p, by |-> "inbox", group |-> FALSE, header |-> "plain",
                                type |-> t, shows |-> parts, shape |-> s, files |-> n]
  BY DEF AdSendMessage
<1> HIDE DEF parts, n, s
<1>2. AdSendMessage(p, t, b).who = p /\ AdSendMessage(p, t, b).type = t
  BY <1>1
<1>3. AdSendMessage(p, t, b) \in AdSentMessages
  BY DEF AdSentMessages
<1> QED BY <1>2, <1>3

\* A message at the provider is one of either.
LEMMA AdMailIs ==
  ASSUME AdInv, NEW i \in DOMAIN adMail
  PROVE  /\ i \in 1..Len(adMail) /\ Len(adMail) \in Nat
         /\ adMail[i].by # "inbox" => adMail[i] \in AdMessages
         /\ adMail[i].by = "inbox" => adMail[i] \in AdSentMessages
<1>1. i \in 1..Len(adMail) /\ Len(adMail) \in Nat /\ adMail[i] \in AdAny
  BY LenProperties, ElementOfSeq DEF AdInv
<1>2. adMail[i] \in AdMessages => adMail[i].by # "inbox"
  BY AdOfMessage
<1>3. adMail[i] \in AdSentMessages => adMail[i].by = "inbox"
  BY AdOfSent
<1> QED BY <1>1, <1>2, <1>3 DEF AdAny

\* What a row that a webhook makes of a message says.
LEMMA AdRowsOf ==
  ASSUME AdInv, NEW i \in DOMAIN adMail, NEW r \in AdNormalize(i)
  PROVE  /\ \E part \in 0..2 : /\ r.ext = <<i, part>>
                               /\ adMail[i].by = "inbox" => part = 0
         /\ r.who = adMail[i].who /\ r.party = AdParty(adMail[i])
         /\ r.dir = IF AdEcho(adMail[i]) THEN "OUT" ELSE "IN"
         /\ adMail[i].by # "inbox" => AdNeeds[r.type] \in r.has
<1> DEFINE m == adMail[i]
<1>1. ASSUME NEW part, NEW type, NEW has, r = AdRow(i, part, type, has)
      PROVE  /\ r.ext = <<i, part>> /\ r.who = m.who /\ r.party = AdParty(m)
             /\ r.dir = (IF AdEcho(m) THEN "OUT" ELSE "IN") /\ r.type = type /\ r.has = has
  <2> DEFINE d == IF AdEcho(m) THEN "OUT" ELSE "IN"
             p == AdParty(m)
  <2>1. r = [ext |-> <<i, part>>, who |-> m.who, dir |-> d, type |-> type, has |-> has, party |-> p]
    BY <1>1 DEF AdRow
  <2> HIDE DEF d, p
  <2>2. /\ r.ext = <<i, part>> /\ r.who = m.who /\ r.party = p /\ r.dir = d
        /\ r.type = type /\ r.has = has
    BY <2>1
  <2> QED BY <2>2 DEF d, p
<1>2. m.by = "inbox" => AdEcho(m)
  BY AdMailIs, AdOfSent DEF AdEcho
<1>3. m.by # "inbox" => m.shape \in AdShapes /\ m.files \in 0..2
  BY AdMailIs, AdOfMessage
<1>4. m.by = "inbox" => m.files \in 0..2
  <2>1. m.by = "inbox" => m.files \in 0..1
    BY AdMailIs, AdOfSent
  <2> QED BY <2>1
<1>5. CASE adKind = "GMAIL"
  <2>1. r \in AdMailParts(i)
    BY <1>5 DEF AdNormalize
  <2>2. \/ r = AdRow(i, 0, "TEXT", {"text"})
        \/ ~AdEcho(m) /\ \E k \in 1..m.files : r = AdRow(i, k, "DOCUMENT", {"media", "caption"})
    BY <2>1 DEF AdMailParts
  <2>3. CASE r = AdRow(i, 0, "TEXT", {"text"})
    BY <1>1, <2>3 DEF AdNeeds
  <2>4. CASE ~AdEcho(m) /\ \E k \in 1..m.files : r = AdRow(i, k, "DOCUMENT", {"media", "caption"})
    <3>1. PICK k \in 1..m.files : r = AdRow(i, k, "DOCUMENT", {"media", "caption"})
      BY <2>4
    <3>2. k \in 0..2 /\ m.by # "inbox"
      BY <1>2, <1>3, <1>4, <2>4
    <3> QED BY <1>1, <3>1, <3>2 DEF AdNeeds
  <2> QED BY <2>2, <2>3, <2>4
<1>6. CASE adKind # "GMAIL" /\ m.by = "inbox"
  <2>1. r = AdRow(i, 0, m.type, {})
    BY <1>6 DEF AdNormalize
  <2> QED BY <1>1, <1>6, <2>1
<1>7. CASE adKind # "GMAIL" /\ m.by # "inbox"
  <2>1. r = AdRow(i, 0, AdParsed(m.shape)[1], AdParsed(m.shape)[2])
    BY <1>7 DEF AdNormalize
  <2>2. AdNeeds[AdParsed(m.shape)[1]] \in AdParsed(m.shape)[2]
    BY <1>3, <1>7, AdParsedFits DEF AdInv
  <2> QED BY <1>1, <1>7, <2>1, <2>2
<1> QED BY <1>5, <1>6, <1>7

\* A message that stays makes the same rows.
LEMMA AdLooksSame ==
  ASSUME NEW i, adKind' = adKind, adMail'[i] = adMail[i]
  PROVE  AdNormalize(i)' = AdNormalize(i) /\ AdSentRow(i)' = AdSentRow(i)
<1>1. \A part, type, has : AdRow(i, part, type, has)' = AdRow(i, part, type, has)
  BY DEF AdRow
<1>2. AdMailParts(i)' = AdMailParts(i)
  BY <1>1 DEF AdMailParts
<1>3. AdParsed(adMail[i].shape)' = AdParsed(adMail[i].shape)
  BY DEF AdParsed
<1>4. AdNormalize(i)' = AdNormalize(i)
  BY <1>1, <1>2, <1>3 DEF AdNormalize
<1>5. AdSentRow(i)' = AdSentRow(i)
  BY DEF AdSentRow
<1> QED BY <1>4, <1>5

LEMMA AdSameKind == ASSUME adKind' = adKind PROVE AdAny' = AdAny /\ AdShapes' = AdShapes
<1>1. AdShapes' = AdShapes
  BY DEF AdShapes
<1>2. AdMessages' = AdMessages
  BY <1>1 DEF AdMessages
<1>3. AdSendable' = AdSendable
  BY DEF AdSendable
<1>4. ASSUME NEW p, NEW t, NEW b PROVE AdSendMessage(p, t, b)' = AdSendMessage(p, t, b)
  BY DEF AdSendMessage, AdShows
<1>5. AdSentMessages' = AdSentMessages
  BY <1>3, <1>4 DEF AdSentMessages
<1> QED BY <1>1, <1>2, <1>5 DEF AdAny

LEMMA AdInitInv == AdInit => AdInv
<1> SUFFICES ASSUME AdInit PROVE AdInv
  OBVIOUS
<1>1. <<>> \in Seq(AdAny) /\ Len(<<>>) = 0 /\ DOMAIN <<>> = {}
  OBVIOUS
<1>2. adKind \in AdKinds /\ adMail = <<>> /\ adRows = {} /\ adHooked = {} /\ adRead = {} /\ adTold = {}
  BY DEF AdInit
<1>3. adMail \in Seq(AdAny) /\ Len(adMail) = 0 /\ DOMAIN adMail = {}
  BY <1>1, <1>2, Zenon
<1> QED BY <1>2, <1>3, AdAssumption DEF AdInv, AdReadIsTold

\* One message more at the provider: the others and their rows stay.
LEMMA AdOneMore ==
  ASSUME AdInv, Len(adMail) < AdMaxMessages, NEW m \in AdAny, adMail' = Append(adMail, m),
         adKind' = adKind, adHooked' = adHooked, adRead' = adRead, adTold' = adTold
  PROVE  /\ adKind' \in AdKinds /\ adMail' \in Seq(AdAny') /\ Len(adMail') <= AdMaxMessages
         /\ DOMAIN adMail' = DOMAIN adMail \union {Len(adMail) + 1}
         /\ adMail'[Len(adMail) + 1] = m /\ Len(adMail) + 1 \notin DOMAIN adMail
         /\ \A i \in DOMAIN adMail : /\ AdNormalize(i)' = AdNormalize(i) /\ AdSentRow(i)' = AdSentRow(i)
                                     /\ adMail'[i] = adMail[i]
         /\ adRead' \subseteq DOMAIN adMail' /\ adTold' \subseteq DOMAIN adMail' /\ AdReadIsTold'
<1>1. /\ adMail \in Seq(AdAny) /\ Len(adMail) \in Nat /\ DOMAIN adMail = 1..Len(adMail)
  BY LenProperties DEF AdInv
<1>2. /\ adMail' \in Seq(AdAny) /\ Len(adMail') = Len(adMail) + 1
      /\ \A i \in 1..Len(adMail) : adMail'[i] = adMail[i]
      /\ adMail'[Len(adMail) + 1] = m
  BY <1>1, AppendProperties
<1>3. DOMAIN adMail' = 1..(Len(adMail) + 1)
  BY <1>2, LenProperties
<1>4. Len(adMail') <= AdMaxMessages
  BY <1>1, <1>2, AdAssumption
<1>5. DOMAIN adMail' = DOMAIN adMail \union {Len(adMail) + 1} /\ Len(adMail) + 1 \notin DOMAIN adMail
  BY <1>1, <1>3
<1>6. \A i \in DOMAIN adMail : adMail'[i] = adMail[i]
  BY <1>1, <1>2
<1>7. \A i \in DOMAIN adMail : AdNormalize(i)' = AdNormalize(i) /\ AdSentRow(i)' = AdSentRow(i)
  BY <1>6, AdLooksSame
<1>8. AdReadIsTold'
  BY DEF AdInv, AdReadIsTold
<1>9. adRead' \subseteq DOMAIN adMail' /\ adTold' \subseteq DOMAIN adMail'
  BY <1>5 DEF AdInv
<1>10. adKind' \in AdKinds /\ adMail' \in Seq(AdAny')
  BY <1>2, AdSameKind DEF AdInv
<1> QED BY <1>2, <1>4, <1>5, <1>6, <1>7, <1>8, <1>9, <1>10

LEMMA AdAppearKeeps == ASSUME AdInv, AdAppear PROVE AdInv'
<1>1. PICK m \in AdMessages : adMail' = Append(adMail, m)
  BY DEF AdAppear
<1>2. /\ Len(adMail) < AdMaxMessages /\ adKind' = adKind /\ adRows' = adRows /\ adHooked' = adHooked
      /\ adRead' = adRead /\ adTold' = adTold /\ m \in AdAny /\ m.by # "inbox"
  BY <1>1, AdOfMessage DEF AdAppear, AdAny
<1>3. /\ adKind' \in AdKinds /\ adMail' \in Seq(AdAny') /\ Len(adMail') <= AdMaxMessages
      /\ DOMAIN adMail' = DOMAIN adMail \union {Len(adMail) + 1}
      /\ adMail'[Len(adMail) + 1] = m /\ Len(adMail) + 1 \notin DOMAIN adMail
      /\ \A i \in DOMAIN adMail : /\ AdNormalize(i)' = AdNormalize(i) /\ AdSentRow(i)' = AdSentRow(i)
                                  /\ adMail'[i] = adMail[i]
      /\ adRead' \subseteq DOMAIN adMail' /\ adTold' \subseteq DOMAIN adMail' /\ AdReadIsTold'
  BY <1>1, <1>2, AdOneMore
<1>4. ASSUME NEW r \in adRows' PROVE AdRowOK(r)'
  <2>1. PICK i \in DOMAIN adMail : IF adMail[i].by = "inbox" THEN r = AdSentRow(i) ELSE r \in AdNormalize(i)
    BY <1>2 DEF AdInv, AdRowOK
  <2>2. i \in DOMAIN adMail' /\ IF adMail'[i].by = "inbox" THEN r = AdSentRow(i)' ELSE r \in AdNormalize(i)'
    BY <1>3, <2>1
  <2> QED BY <2>2 DEF AdRowOK
<1>5. ASSUME NEW i \in DOMAIN adMail', adMail'[i].by = "inbox" PROVE AdSentRow(i)' \in adRows'
  <2>1. i \in DOMAIN adMail
    BY <1>2, <1>3, <1>5
  <2> QED BY <1>2, <1>3, <1>5, <2>1 DEF AdInv
<1>6. ASSUME NEW i \in adHooked'
      PROVE  i \in DOMAIN adMail' /\ \A r \in AdNormalize(i)' : \E x \in adRows' : x.ext = r.ext
  <2>1. i \in DOMAIN adMail /\ \A r \in AdNormalize(i) : \E x \in adRows : x.ext = r.ext
    BY <1>2, <1>6 DEF AdInv
  <2> QED BY <1>2, <1>3, <2>1
<1> QED BY <1>3, <1>4, <1>5, <1>6 DEF AdInv

LEMMA AdSendKeeps == ASSUME AdInv, AdSend PROVE AdInv'
<1>0. PICK n \in Nat : n = Len(adMail) + 1
  BY LenProperties DEF AdInv
<1>1. PICK p \in AdPeople, t \in AdSendable, b \in BOOLEAN :
        /\ adMail' = Append(adMail, AdSendMessage(p, t, b))
        /\ adRows' = adRows \union {[ext |-> <<n, 0>>, who |-> p, dir |-> "OUT", type |-> t,
                                     has |-> {"sent"}, party |-> "contact"]}
  BY <1>0 DEF AdSend
<1> DEFINE m == AdSendMessage(p, t, b)
<1>2. m \in AdSentMessages /\ m.who = p /\ m.type = t
  BY AdSentIs
<1>3. /\ Len(adMail) < AdMaxMessages /\ adKind' = adKind /\ adHooked' = adHooked
      /\ adRead' = adRead /\ adTold' = adTold /\ m \in AdAny /\ m.by = "inbox"
      /\ adMail' = Append(adMail, m)
  BY <1>1, <1>2, AdOfSent DEF AdSend, AdAny
<1> HIDE DEF m
<1>4. /\ adKind' \in AdKinds /\ adMail' \in Seq(AdAny') /\ Len(adMail') <= AdMaxMessages
      /\ DOMAIN adMail' = DOMAIN adMail \union {n}
      /\ adMail'[n] = m /\ n \notin DOMAIN adMail
      /\ \A i \in DOMAIN adMail : /\ AdNormalize(i)' = AdNormalize(i) /\ AdSentRow(i)' = AdSentRow(i)
                                  /\ adMail'[i] = adMail[i]
      /\ adRead' \subseteq DOMAIN adMail' /\ adTold' \subseteq DOMAIN adMail' /\ AdReadIsTold'
  BY <1>0, <1>3, AdOneMore
<1>5. adRows' = adRows \union {AdSentRow(n)'}
  BY <1>1, <1>2, <1>4 DEF AdSentRow
<1>6. ASSUME NEW r \in adRows' PROVE AdRowOK(r)'
  <2>1. CASE r \in adRows
    <3>1. PICK i \in DOMAIN adMail : IF adMail[i].by = "inbox" THEN r = AdSentRow(i) ELSE r \in AdNormalize(i)
      BY <2>1 DEF AdInv, AdRowOK
    <3>2. i \in DOMAIN adMail' /\ IF adMail'[i].by = "inbox" THEN r = AdSentRow(i)' ELSE r \in AdNormalize(i)'
      BY <1>4, <3>1
    <3> QED BY <3>2 DEF AdRowOK
  <2>2. CASE r = AdSentRow(n)'
    <3>1. n \in DOMAIN adMail' /\ adMail'[n].by = "inbox"
      BY <1>3, <1>4
    <3> QED BY <2>2, <3>1 DEF AdRowOK
  <2> QED BY <1>5, <1>6, <2>1, <2>2
<1>7. ASSUME NEW i \in DOMAIN adMail', adMail'[i].by = "inbox" PROVE AdSentRow(i)' \in adRows'
  <2>1. CASE i \in DOMAIN adMail
    BY <1>4, <1>5, <1>7, <2>1 DEF AdInv
  <2>2. CASE i = n
    BY <1>5, <2>2
  <2> QED BY <1>4, <2>1, <2>2
<1>8. ASSUME NEW i \in adHooked'
      PROVE  i \in DOMAIN adMail' /\ \A r \in AdNormalize(i)' : \E x \in adRows' : x.ext = r.ext
  <2>1. i \in DOMAIN adMail /\ \A r \in AdNormalize(i) : \E x \in adRows : x.ext = r.ext
    BY <1>3, <1>8 DEF AdInv
  <2> QED BY <1>4, <1>5, <2>1
<1> QED BY <1>4, <1>6, <1>7, <1>8 DEF AdInv

LEMMA AdHookKeeps == ASSUME AdInv, NEW i \in DOMAIN adMail, AdHook(i) PROVE AdInv'
<1>1. /\ adRows' = adRows \union {r \in AdNormalize(i) : \A x \in adRows : x.ext # r.ext}
      /\ adHooked' = adHooked \union {i}
      /\ adKind' = adKind /\ adMail' = adMail /\ adRead' = adRead /\ adTold' = adTold
  BY DEF AdHook
<1>2. \A j : AdNormalize(j)' = AdNormalize(j) /\ AdSentRow(j)' = AdSentRow(j)
  BY <1>1, AdLooksSame
<1>3. AdAny' = AdAny
  BY <1>1, AdSameKind
<1>4. adMail[i].by = "inbox" => adRows' = adRows
  <2> SUFFICES ASSUME adMail[i].by = "inbox", NEW r \in AdNormalize(i) PROVE \E x \in adRows : x.ext = r.ext
    BY <1>1
  <2>1. r.ext = <<i, 0>>
    BY AdRowsOf
  <2>2. AdSentRow(i) \in adRows /\ AdSentRow(i).ext = <<i, 0>>
    BY DEF AdInv, AdSentRow
  <2> QED BY <2>1, <2>2
<1>5. ASSUME NEW r \in adRows' PROVE AdRowOK(r)'
  <2>1. CASE r \in adRows
    BY <1>1, <1>2, <2>1 DEF AdInv, AdRowOK
  <2>2. CASE r \notin adRows
    <3>1. r \in AdNormalize(i) /\ adMail[i].by # "inbox"
      BY <1>1, <1>4, <1>5, <2>2
    <3> QED BY <1>1, <1>2, <3>1 DEF AdRowOK
  <2> QED BY <2>1, <2>2
<1>6. ASSUME NEW j \in adHooked'
      PROVE  j \in DOMAIN adMail' /\ \A r \in AdNormalize(j)' : \E x \in adRows' : x.ext = r.ext
  <2>1. CASE j \in adHooked
    BY <1>1, <1>2, <2>1 DEF AdInv
  <2>2. CASE j = i
    BY <1>1, <1>2, <2>2
  <2> QED BY <1>1, <1>6, <2>1, <2>2
<1>7. AdReadIsTold'
  BY <1>1 DEF AdInv, AdReadIsTold
<1>8. \A j \in DOMAIN adMail' : adMail'[j].by = "inbox" => AdSentRow(j)' \in adRows'
  BY <1>1, <1>2 DEF AdInv
<1> QED BY <1>1, <1>3, <1>5, <1>6, <1>7, <1>8 DEF AdInv

\* A report of what was read changes no message and no row.
LEMMA AdToldKeeps ==
  ASSUME AdInv, adKind' = adKind, adMail' = adMail, adRows' = adRows, adHooked' = adHooked,
         adRead' \subseteq DOMAIN adMail, adTold' \subseteq DOMAIN adMail, AdReadIsTold'
  PROVE  AdInv'
<1>1. \A j : AdNormalize(j)' = AdNormalize(j) /\ AdSentRow(j)' = AdSentRow(j)
  BY AdLooksSame
<1>2. AdAny' = AdAny
  BY AdSameKind
<1>3. \A r \in adRows : AdRowOK(r)'
  BY <1>1 DEF AdInv, AdRowOK
<1>4. \A i \in adHooked : \A r \in AdNormalize(i)' : \E x \in adRows : x.ext = r.ext
  BY <1>1 DEF AdInv
<1>5. \A j \in DOMAIN adMail : adMail[j].by = "inbox" => AdSentRow(j)' \in adRows
  BY <1>1 DEF AdInv
<1> QED BY <1>2, <1>3, <1>4, <1>5 DEF AdInv

LEMMA AdReceiptKeeps ==
  ASSUME AdInv, NEW i \in DOMAIN adMail, NEW j \in DOMAIN adMail, AdReceipt(<<i, j>>)
  PROVE  AdInv'
<1>1. /\ adTold' = adTold \union ToSet(<<i, j>>) /\ adRead' = adRead \union AdOut(AdFirstOf(<<i, j>>))
      /\ adKind' = adKind /\ adMail' = adMail /\ adRows' = adRows /\ adHooked' = adHooked
  BY DEF AdReceipt
<1>2. ToSet(<<i, j>>) = {i, j} /\ AdFirstOf(<<i, j>>) = {i}
  BY DEF ToSet, AdFirstOf
<1>3. adTold' = adTold \union {i, j} /\ adRead' \subseteq adRead \union {i}
  BY <1>1, <1>2 DEF AdOut
<1>4. adRead' \subseteq DOMAIN adMail /\ adTold' \subseteq DOMAIN adMail
  BY <1>3 DEF AdInv
<1>5. AdReadIsTold'
  BY <1>1, <1>3 DEF AdInv, AdReadIsTold
<1> QED BY <1>1, <1>4, <1>5, AdToldKeeps

LEMMA AdWatermarkKeeps == ASSUME AdInv, NEW i \in DOMAIN adMail, AdWatermark(i) PROVE AdInv'
<1>1. /\ adTold' = adTold \union {j \in 1..i : adMail[j].who = adMail[i].who}
      /\ adRead' = adRead \union AdUnder(i) /\ adKind = "INSTAGRAM"
      /\ adKind' = adKind /\ adMail' = adMail /\ adRows' = adRows /\ adHooked' = adHooked
  BY DEF AdWatermark
<1>2. DOMAIN adMail = 1..Len(adMail) /\ Len(adMail) \in Nat
  BY LenProperties DEF AdInv
<1>3. i \in adTold' /\ adTold' \subseteq DOMAIN adMail
  BY <1>1, <1>2 DEF AdInv
<1>4. adRead' \subseteq adRead \union 1..i /\ 1..i \subseteq DOMAIN adMail
  BY <1>1, <1>2 DEF AdUnder, AdOut
<1>5. adRead' \subseteq DOMAIN adMail
  BY <1>4 DEF AdInv
<1>6. AdReadIsTold'
  <2> SUFFICES ASSUME NEW k \in adRead' PROVE k \in adTold' \/ \E j \in adTold' : j >= k
    BY <1>1 DEF AdReadIsTold
  <2>1. CASE k \in adRead
    BY <1>1, <2>1 DEF AdInv, AdReadIsTold
  <2>2. CASE k \in 1..i
    BY <1>2, <1>3, <2>2
  <2> QED BY <1>4, <2>1, <2>2
<1> QED BY <1>1, <1>3, <1>5, <1>6, AdToldKeeps

LEMMA AdInvStep == ASSUME AdInv, [AdNext]_adVars PROVE AdInv'
<1>1. CASE UNCHANGED adVars
  <2>1. /\ adKind' = adKind /\ adMail' = adMail /\ adRows' = adRows /\ adHooked' = adHooked
        /\ adRead' = adRead /\ adTold' = adTold
    BY <1>1 DEF adVars
  <2>2. AdReadIsTold'
    BY <2>1 DEF AdInv, AdReadIsTold
  <2> QED BY <2>1, <2>2, AdToldKeeps DEF AdInv
<1>2. CASE AdAppear \/ AdSend
  BY <1>2, AdAppearKeeps, AdSendKeeps
<1>3. CASE \E i \in DOMAIN adMail : AdHook(i) \/ AdWatermark(i)
  BY <1>3, AdHookKeeps, AdWatermarkKeeps
<1>4. CASE \E i, j \in DOMAIN adMail : adMail[i].who = adMail[j].who /\ AdReceipt(<<i, j>>)
  BY <1>4, AdReceiptKeeps
<1> QED BY <1>1, <1>2, <1>3, <1>4 DEF AdNext

-----------------------------------------------------------------------------
(* What the invariant gives *)

\* The message of a row.
LEMMA AdRowGives ==
  ASSUME AdInv, NEW r \in adRows
  PROVE  \E i \in DOMAIN adMail :
           /\ \E part \in 0..2 : r.ext = <<i, part>>
           /\ r.who = adMail[i].who
           /\ adMail[i].by = "inbox" => r = AdSentRow(i)
           /\ adMail[i].by # "inbox" => r \in AdNormalize(i)
<1>1. PICK i \in DOMAIN adMail : IF adMail[i].by = "inbox" THEN r = AdSentRow(i) ELSE r \in AdNormalize(i)
  BY DEF AdInv, AdRowOK
<1>2. CASE adMail[i].by = "inbox"
  <2>1. r.ext = <<i, 0>> /\ r.who = adMail[i].who /\ 0 \in 0..2
    BY <1>1, <1>2 DEF AdSentRow
  <2> QED BY <1>1, <1>2, <2>1
<1>3. CASE adMail[i].by # "inbox"
  <2>1. r \in AdNormalize(i)
    BY <1>1, <1>3
  <2> QED BY <1>3, <2>1, AdRowsOf
<1> QED BY <1>2, <1>3

LEMMA AdInvGives == AdInv => AdSafe /\ AdTypeOK
<1> SUFFICES ASSUME AdInv PROVE AdSafe /\ AdTypeOK
  OBVIOUS
<1>0. DOMAIN adMail = 1..Len(adMail) /\ Len(adMail) \in Nat /\ Len(adMail) <= AdMaxMessages
  BY LenProperties DEF AdInv
<1>1. AdTypeHasContent
  <2> SUFFICES ASSUME NEW r \in adRows, r.has # {"sent"} PROVE AdNeeds[r.type] \in r.has
    BY DEF AdTypeHasContent
  <2>1. PICK i \in DOMAIN adMail : /\ adMail[i].by = "inbox" => r = AdSentRow(i)
                                   /\ adMail[i].by # "inbox" => r \in AdNormalize(i)
    BY AdRowGives
  <2>2. adMail[i].by # "inbox"
    BY <2>1 DEF AdSentRow
  <2> QED BY <2>1, <2>2, AdRowsOf
<1>2. AdEchoMerges
  <2> SUFFICES ASSUME NEW i \in DOMAIN adMail, adMail[i].by = "inbox", NEW r \in adRows, r.ext[1] = i
               PROVE  r = AdSentRow(i)
    BY DEF AdEchoMerges
  <2>1. PICK j \in DOMAIN adMail : /\ \E part \in 0..2 : r.ext = <<j, part>>
                                   /\ adMail[j].by = "inbox" => r = AdSentRow(j)
    BY AdRowGives
  <2> QED BY <2>1
<1>3. AdPartyIsTheirs
  <2> SUFFICES ASSUME NEW r \in adRows, r.party = "us" PROVE adMail[r.ext[1]].header = "alias"
    BY DEF AdPartyIsTheirs
  <2>1. PICK i \in DOMAIN adMail : /\ \E part \in 0..2 : r.ext = <<i, part>>
                                   /\ adMail[i].by = "inbox" => r = AdSentRow(i)
                                   /\ adMail[i].by # "inbox" => r \in AdNormalize(i)
    BY AdRowGives
  <2>2. adMail[i].by # "inbox"
    BY <2>1 DEF AdSentRow
  <2>3. AdParty(adMail[i]) = "us"
    BY <2>1, <2>2, AdRowsOf
  <2>4. adMail[i].header = "alias"
    BY <2>3 DEF AdParty, AdEcho
  <2> QED BY <2>1, <2>4
<1>4. AdAnswerShows
  <2> SUFFICES ASSUME NEW i \in adHooked, adMail[i].by = "app", ~(adKind = "UAZAPI" /\ adMail[i].group),
                      adMail[i].header = "plain",
                      ~(adKind = "GMAIL" /\ adMail[i].shape = "quoteOnly" /\ adMail[i].files > 0)
               PROVE  \E r \in adRows : r.ext[1] = i /\ r.dir = "OUT"
    BY DEF AdAnswerShows
  <2>1. i \in DOMAIN adMail /\ \A r \in AdNormalize(i) : \E x \in adRows : x.ext = r.ext
    BY DEF AdInv
  <2>2. AdEcho(adMail[i])
    BY DEF AdEcho
  <2>3. AdNormalize(i) # {}
    <3>1. CASE adKind = "GMAIL"
      <4>1. adMail[i] \in AdMessages
        BY <2>1, AdMailIs
      <4>2. adMail[i].shape \in AdBodies /\ adMail[i].files \in 0..2
        BY <3>1, <4>1, AdOfMessage DEF AdShapes, AdUnofficial
      <4>3. adMail[i].shape = "written" \/ adMail[i].files = 0
        BY <3>1, <4>2 DEF AdBodies
      <4>4. AdRow(i, 0, "TEXT", {"text"}) \in AdMailParts(i)
        BY <4>3 DEF AdMailParts
      <4> QED BY <3>1, <4>4 DEF AdNormalize
    <3>2. CASE adKind # "GMAIL"
      BY <3>2 DEF AdNormalize
    <3> QED BY <3>1, <3>2
  <2>4. PICK r \in AdNormalize(i) : TRUE
    BY <2>3
  <2>5. PICK x \in adRows : x.ext = r.ext
    BY <2>1
  <2>6. x.ext[1] = i
    BY <2>1, <2>5, AdRowsOf
  <2>7. PICK j \in DOMAIN adMail : /\ \E part \in 0..2 : x.ext = <<j, part>>
                                   /\ adMail[j].by # "inbox" => x \in AdNormalize(j)
    BY AdRowGives
  <2>8. j = i
    BY <2>6, <2>7
  <2>9. x.dir = "OUT"
    BY <2>1, <2>2, <2>7, <2>8, AdRowsOf
  <2> QED BY <2>6, <2>9
<1>5. AdSendsSomething
  <2> SUFFICES ASSUME NEW i \in DOMAIN adMail, adMail[i].by = "inbox", adMail[i].shows = {}
               PROVE  adMail[i].type = "TEMPLATE" /\ adKind # "OFFICIAL"
    BY DEF AdSendsSomething
  <2> DEFINE t == adMail[i].type
  <2>1. t \in AdSendable /\ \E b \in BOOLEAN : {} = AdShows(t, b)
    BY AdMailIs, AdOfSent
  <2>2. PICK b \in BOOLEAN : {} = AdShows(t, b)
    BY <2>1
  <2>3. t \in {"TEXT", "IMAGE", "AUDIO", "VIDEO", "DOCUMENT", "TEMPLATE", "STICKER", "LOCATION"}
        /\ (t \in {"STICKER", "LOCATION"} => adKind \in {"ZAPPFY", "UAZAPI", "OFFICIAL"})
    BY <2>1 DEF AdSendable, AdUnofficial
  <2> HIDE DEF t
  <2>4. CASE adKind \in {"ZAPPFY", "UAZAPI"}
    BY <2>2, <2>3, <2>4 DEF AdShows, AdShowsZappfy, AdShowsUazapi, AdMedia, AdCaptioned, t
  <2>5. CASE adKind = "OFFICIAL"
    BY <2>2, <2>3, <2>5 DEF AdShows, AdShowsOfficial, AdMedia, AdCaptioned
  <2>6. CASE adKind = "INSTAGRAM"
    BY <2>2, <2>3, <2>6 DEF AdShows, AdShowsInstagram, AdMedia, t
  <2>7. CASE adKind = "GMAIL"
    BY <2>2, <2>3, <2>7 DEF AdShows, AdShowsGmail, AdMedia, t
  <2> QED BY <2>4, <2>5, <2>6, <2>7 DEF AdInv, AdKinds
<1>6. AdSafe
  BY <1>1, <1>2, <1>3, <1>4, <1>5 DEF AdSafe, AdInv
<1>7. ASSUME NEW i \in DOMAIN adMail
      PROVE  \/ adMail[i] \in AdMessages
             \/ \E p \in AdPeople, t \in AdSendable, b \in BOOLEAN : adMail[i] = AdSendMessage(p, t, b)
  BY AdMailIs DEF AdSentMessages
<1>8. DOMAIN adMail \subseteq AdIds
  BY <1>0, AdAssumption DEF AdIds
<1>9. ASSUME NEW r \in adRows
      PROVE  r.ext \in AdIds \X (0..2) /\ r.who \in AdPeople /\ r.dir \in {"IN", "OUT"}
  <2>1. PICK i \in DOMAIN adMail :
           /\ \E part \in 0..2 : r.ext = <<i, part>>
           /\ r.who = adMail[i].who
           /\ adMail[i].by = "inbox" => r = AdSentRow(i)
           /\ adMail[i].by # "inbox" => r \in AdNormalize(i)
    BY AdRowGives
  <2>2. r.ext \in AdIds \X (0..2)
    BY <1>8, <2>1
  <2>3. r.who \in AdPeople
    BY <2>1, AdMailIs, AdOfMessage, AdOfSent
  <2>4. CASE adMail[i].by = "inbox"
    BY <2>1, <2>2, <2>3, <2>4 DEF AdSentRow
  <2>5. CASE adMail[i].by # "inbox"
    <3>1. r.dir = IF AdEcho(adMail[i]) THEN "OUT" ELSE "IN"
      BY <2>1, <2>5, AdRowsOf
    <3> QED BY <2>2, <2>3, <3>1
  <2> QED BY <2>4, <2>5
<1>10. adHooked \subseteq AdIds /\ adRead \subseteq AdIds /\ adTold \subseteq AdIds
  BY <1>8 DEF AdInv
<1>11. AdTypeOK
  BY <1>0, <1>7, <1>9, <1>10 DEF AdInv, AdTypeOK
<1> QED BY <1>6, <1>11

LEMMA AdInvCorrect == AdSpec => []AdInv
BY AdInitInv, AdInvStep, PTL DEF AdSpec

\* Whatever the customers, the number of messages and the order and repetition of webhooks and
\* receipts: a bubble has what its type shows, an echo merges with the row that was sent, no
\* contact is the team itself, an answer given elsewhere shows, nothing empty is sent, and what
\* is marked read was said to be (the five adapters' normalizeInbound, denormalize, normalizeStatus).
THEOREM AdSafeCorrect == AdSpec => []AdSafe
<1>1. AdInv => AdSafe
  BY AdInvGives
<1> QED BY <1>1, AdInvCorrect, PTL

\* Messages, rows and marks keep the shapes AdTypeOK gives them.
THEOREM AdTypeCorrect == AdSpec => []AdTypeOK
<1>1. AdInv => AdTypeOK
  BY AdInvGives
<1> QED BY <1>1, AdInvCorrect, PTL

-----------------------------------------------------------------------------
(* Media: any calls, conversations, numbers and requests *)

MdCalls == {MdIdle} \union [at : {"resolve"}, next : {"end", "hear"}] \union [at : {"hear"}]
MdStages == {"media", "targets", "send", "told", "refused"}
MdAsked ==
  [at : MdStages, forwarded : BOOLEAN, media : MdMedia, asked : SUBSET MdTargets,
   left : SUBSET MdTargets, found : SUBSET MdConvs, failed : SUBSET MdTargets,
   unsent : SUBSET MdConvs, sent : SUBSET MdConvs]

MdTypeInv ==
  /\ mdRow \in MdRow /\ mdWork \in [MdWorkers -> MdCalls]
  /\ mdAsks \in 0..MdMaxAsks /\ mdReqs \in 0..MdMaxRequests
  /\ mdReq \in {MdIdle} \union MdAsked
  /\ mdCopies \in Seq(MdCopy) /\ mdHeard \in BOOLEAN /\ mdExcuse \in BOOLEAN

\* Without an excuse one call transcribes at a time, and none where there is a transcript.
MdHeardInv ==
  mdExcuse \/ /\ mdHeard => mdRow.text = "heard"
              /\ mdRow.text = "heard" => \A w \in MdWorkers : ~MdTranscribing(mdWork[w])
              /\ \A w, x \in MdWorkers : MdTranscribing(mdWork[w]) /\ MdTranscribing(mdWork[x]) => w = x

\* A copy is of this request or an earlier one, and of a file that plays.
MdCopyInv ==
  \A k \in DOMAIN mdCopies :
    /\ mdCopies[k].req <= mdReqs
    /\ mdCopies[k].forwarded /\ mdRow.kind = "audio" => mdCopies[k].media = "file"

\* A request first looks at its targets, then sends to what it found.
MdReqInv ==
  mdReq.at # "idle" =>
    /\ mdReqs >= 1
    /\ mdReq.at \in {"media", "targets"} => mdReq.sent = {} /\ mdReq.unsent = {}
    /\ mdReq.at \in {"targets", "send"} /\ mdReq.forwarded /\ mdRow.kind = "audio" => mdReq.media = "file"
    /\ \A t \in mdReq.asked : t \in mdReq.left \/ t \in mdReq.failed \/ MdLeadsTo(t) \in mdReq.found
    /\ mdReq.at \in {"send", "told"} => mdReq.left = {}
    /\ mdReq.at = "told" => mdReq.found = mdReq.sent \union mdReq.unsent
    /\ mdReq.at = "refused" => mdReq.sent = {}
    /\ mdReq.sent \intersect mdReq.unsent = {}

\* The copies of the request under way: one where it was sent, one at most, and stuck, where not.
MdSentInv ==
  mdReq.at # "idle" =>
    \A c \in MdConvs :
      /\ \A k \in MdOf(c) : c \in mdReq.sent \/ (c \in mdReq.unsent /\ mdCopies[k].at = "stuck")
      /\ \A k, l \in MdOf(c) : k = l
      /\ c \in mdReq.sent => MdOf(c) # {}

MdInv == MdTypeInv /\ MdHeardInv /\ MdCopyInv /\ MdReqInv /\ MdSentInv

LEMMA MdTyped ==
  ASSUME MdInv
  PROVE  /\ mdRow \in MdRow /\ mdWork \in [MdWorkers -> MdCalls] /\ mdReqs \in 0..MdMaxRequests
         /\ mdAsks \in 0..MdMaxAsks /\ MdMaxRequests \in Nat /\ MdMaxAsks \in Nat
         /\ mdReq.at # "idle" => mdReq \in MdAsked
         /\ mdCopies \in Seq(MdCopy) /\ Len(mdCopies) \in Nat /\ DOMAIN mdCopies = 1..Len(mdCopies)
         /\ \A k \in DOMAIN mdCopies : mdCopies[k] \in MdCopy
<1>1. mdCopies \in Seq(MdCopy)
  BY DEF MdInv, MdTypeInv
<1>2. Len(mdCopies) \in Nat /\ DOMAIN mdCopies = 1..Len(mdCopies)
  BY <1>1, LenProperties
<1>3. \A k \in DOMAIN mdCopies : mdCopies[k] \in MdCopy
  BY <1>1, <1>2, ElementOfSeq
<1>4. mdReq.at # "idle" => mdReq \in MdAsked
  BY DEF MdInv, MdTypeInv, MdIdle
<1> QED BY <1>1, <1>2, <1>3, <1>4, MdAssumption DEF MdInv, MdTypeInv

LEMMA MdInitInv == MdInit => MdInv
<1> SUFFICES ASSUME MdInit PROVE MdInv
  OBVIOUS
<1>1. /\ mdRow \in MdRow /\ mdRow.text = "none" /\ mdWork = [w \in MdWorkers |-> MdIdle]
      /\ mdAsks = 0 /\ mdReq = MdIdle /\ mdReqs = 0 /\ mdHeard = FALSE /\ mdExcuse = FALSE
      /\ mdCopies = <<>>
  BY DEF MdInit
<1>2. mdReq.at = "idle" /\ \A w \in MdWorkers : ~MdTranscribing(mdWork[w])
  BY <1>1 DEF MdIdle, MdTranscribing
<1>3. mdCopies \in Seq(MdCopy) /\ DOMAIN mdCopies = {}
  <2>1. <<>> \in Seq(MdCopy) /\ DOMAIN <<>> = {}
    OBVIOUS
  <2> QED BY <1>1, <2>1, Zenon
<1>4. mdWork \in [MdWorkers -> MdCalls] /\ 0 \in 0..MdMaxAsks /\ 0 \in 0..MdMaxRequests
  BY <1>1, MdAssumption DEF MdCalls
<1>5. MdTypeInv
  BY <1>1, <1>3, <1>4 DEF MdTypeInv
<1>6. MdHeardInv
  BY <1>1, <1>2 DEF MdHeardInv
<1> QED BY <1>2, <1>3, <1>5, <1>6 DEF MdInv, MdCopyInv, MdReqInv, MdSentInv

-----------------------------------------------------------------------------
(* The workers *)

\* A worker touches no request.
LEMMA MdWorkerKeeps ==
  ASSUME MdInv, mdRow' \in MdRow, mdRow'.kind = mdRow.kind, mdWork' \in [MdWorkers -> MdCalls],
         mdAsks' \in 0..MdMaxAsks, mdReq' = mdReq, mdReqs' = mdReqs, mdCopies' = mdCopies,
         mdHeard' \in BOOLEAN, mdExcuse' \in BOOLEAN, MdHeardInv'
  PROVE  MdInv'
<1>1. MdTypeInv'
  BY DEF MdInv, MdTypeInv
<1>2. MdCopyInv'
  BY DEF MdInv, MdCopyInv
<1>3. MdReqInv'
  BY DEF MdInv, MdReqInv
<1>4. \A c : MdOf(c)' = MdOf(c)
  BY DEF MdOf
<1>5. MdSentInv'
  BY <1>4 DEF MdInv, MdSentInv
<1> QED BY <1>1, <1>2, <1>3, <1>5 DEF MdInv

\* The calls there are.
LEMMA MdCallIs ==
  /\ MdIdle \in MdCalls /\ ~MdTranscribing(MdIdle)
  /\ [at |-> "hear"] \in MdCalls /\ MdTranscribing([at |-> "hear"])
  /\ [at |-> "resolve", next |-> "hear"] \in MdCalls /\ MdTranscribing([at |-> "resolve", next |-> "hear"])
  /\ [at |-> "resolve", next |-> "end"] \in MdCalls /\ ~MdTranscribing([at |-> "resolve", next |-> "end"])
BY DEF MdCalls, MdIdle, MdTranscribing

\* One more call.
LEMMA MdAskKeeps ==
  ASSUME MdInv, NEW w \in MdWorkers, NEW call \in MdCalls, mdAsks < MdMaxAsks, mdWork[w] = MdIdle,
         mdWork' = [mdWork EXCEPT ![w] = call], mdAsks' = mdAsks + 1, mdRow' = mdRow,
         mdReq' = mdReq, mdReqs' = mdReqs, mdCopies' = mdCopies, mdHeard' = mdHeard,
         mdExcuse' \in BOOLEAN, mdExcuse => mdExcuse',
         ~mdExcuse' /\ MdTranscribing(call) => mdRow.text # "heard" /\ ~MdOther(w)
  PROVE  MdInv'
<1>1. /\ mdWork' \in [MdWorkers -> MdCalls] /\ mdWork'[w] = call
      /\ \A x \in MdWorkers : x # w => mdWork'[x] = mdWork[x]
  BY MdTyped
<1>2. mdAsks' \in 0..MdMaxAsks
  BY MdTyped
<1>3. MdHeardInv'
  <2> SUFFICES ASSUME ~mdExcuse' PROVE MdHeardInv'
    BY DEF MdHeardInv
  <2>1. /\ mdHeard => mdRow.text = "heard"
        /\ mdRow.text = "heard" => \A x \in MdWorkers : ~MdTranscribing(mdWork[x])
        /\ \A x, y \in MdWorkers : MdTranscribing(mdWork[x]) /\ MdTranscribing(mdWork[y]) => x = y
    BY DEF MdInv, MdHeardInv
  <2>2. MdTranscribing(call) => mdRow.text # "heard" /\ \A x \in MdWorkers \ {w} : ~MdTranscribing(mdWork[x])
    BY DEF MdOther
  <2>3. \A x \in MdWorkers : MdTranscribing(mdWork'[x]) <=> IF x = w THEN MdTranscribing(call)
                                                            ELSE MdTranscribing(mdWork[x])
    BY <1>1
  <2>4. mdRow.text = "heard" => \A x \in MdWorkers : ~MdTranscribing(mdWork'[x])
    BY <2>1, <2>2, <2>3
  <2>5. \A x, y \in MdWorkers : MdTranscribing(mdWork'[x]) /\ MdTranscribing(mdWork'[y]) => x = y
    BY <2>1, <2>2, <2>3
  <2> QED BY <2>1, <2>4, <2>5 DEF MdHeardInv, MdTranscribing
<1>4. mdRow' \in MdRow /\ mdHeard' \in BOOLEAN
  BY DEF MdInv, MdTypeInv
<1> QED BY <1>1, <1>2, <1>3, <1>4, MdWorkerKeeps

LEMMA MdResolveKeeps == ASSUME MdInv, NEW w \in MdWorkers, MdResolve(w) PROVE MdInv'
<1>1. mdExcuse' = mdExcuse /\ mdExcuse \in BOOLEAN
  BY DEF MdResolve, MdInv, MdTypeInv
<1> DEFINE call == [at |-> "resolve", next |-> "end"]
<1>2. /\ mdWork[w] = MdIdle /\ mdAsks < MdMaxAsks /\ mdWork' = [mdWork EXCEPT ![w] = call]
      /\ mdAsks' = mdAsks + 1 /\ mdRow' = mdRow /\ mdReq' = mdReq /\ mdReqs' = mdReqs
      /\ mdCopies' = mdCopies /\ mdHeard' = mdHeard
  BY DEF MdResolve
<1>3. call \in MdCalls /\ ~MdTranscribing(call)
  BY MdCallIs
<1> HIDE DEF call
<1> QED BY <1>1, <1>2, <1>3, MdAskKeeps

LEMMA MdTranscribeKeeps ==
  ASSUME MdInv, NEW w \in MdWorkers, NEW forced \in BOOLEAN, MdTranscribe(w, forced) PROVE MdInv'
<1> DEFINE call == IF MdPlays(mdRow.media) \/ mdRow.id THEN [at |-> "hear"]
                   ELSE [at |-> "resolve", next |-> "hear"]
<1>1. call \in MdCalls
  BY MdCallIs
<1>3. /\ mdWork[w] = MdIdle /\ mdAsks < MdMaxAsks /\ (forced \/ mdRow.text # "heard")
      /\ mdWork' = [mdWork EXCEPT ![w] = call] /\ mdAsks' = mdAsks + 1
      /\ mdExcuse' = (mdExcuse \/ forced \/ MdOther(w))
      /\ mdRow' = mdRow /\ mdReq' = mdReq /\ mdReqs' = mdReqs /\ mdCopies' = mdCopies /\ mdHeard' = mdHeard
  BY DEF MdTranscribe
<1>4. MdOther(w) \in BOOLEAN /\ mdExcuse \in BOOLEAN
  BY DEF MdOther, MdInv, MdTypeInv
<1>5. mdExcuse' \in BOOLEAN /\ (mdExcuse => mdExcuse')
  BY <1>3, <1>4
<1>6. ~mdExcuse' => mdRow.text # "heard" /\ ~MdOther(w)
  BY <1>3
<1> HIDE DEF call
<1> QED BY <1>1, <1>3, <1>5, <1>6, MdAskKeeps

\* A call goes on: it transcribes only if it was to.
LEMMA MdCallKeeps ==
  ASSUME MdInv, NEW w \in MdWorkers, NEW call \in MdCalls, mdWork' = [mdWork EXCEPT ![w] = call],
         MdTranscribing(call) => MdTranscribing(mdWork[w]),
         mdRow' \in MdRow, mdRow'.kind = mdRow.kind,
         mdRow'.text # mdRow.text \/ mdHeard' # mdHeard =>
            /\ MdTranscribing(mdWork[w]) /\ ~MdTranscribing(call)
            /\ mdHeard' = (mdHeard \/ mdRow'.text = "heard"),
         mdAsks' = mdAsks, mdReq' = mdReq, mdReqs' = mdReqs, mdCopies' = mdCopies,
         mdHeard' \in BOOLEAN, mdExcuse' = mdExcuse
  PROVE  MdInv'
<1>1. /\ mdWork' \in [MdWorkers -> MdCalls] /\ mdWork'[w] = call
      /\ \A x \in MdWorkers : x # w => mdWork'[x] = mdWork[x]
  BY MdTyped
<1>2. MdHeardInv'
  <2> SUFFICES ASSUME ~mdExcuse PROVE MdHeardInv'
    BY DEF MdHeardInv
  <2>1. /\ mdHeard => mdRow.text = "heard"
        /\ mdRow.text = "heard" => \A x \in MdWorkers : ~MdTranscribing(mdWork[x])
        /\ \A x, y \in MdWorkers : MdTranscribing(mdWork[x]) /\ MdTranscribing(mdWork[y]) => x = y
    BY DEF MdInv, MdHeardInv
  <2>2. \A x \in MdWorkers : MdTranscribing(mdWork'[x]) => MdTranscribing(mdWork[x])
    BY <1>1
  <2>3. mdRow'.text # mdRow.text \/ mdHeard' # mdHeard => \A x \in MdWorkers : ~MdTranscribing(mdWork'[x])
    BY <1>1, <2>1
  <2>4. mdHeard' => mdRow'.text = "heard"
    BY <2>1
  <2>5. mdRow'.text = "heard" => \A x \in MdWorkers : ~MdTranscribing(mdWork'[x])
    BY <2>1, <2>2, <2>3
  <2>6. \A x, y \in MdWorkers : MdTranscribing(mdWork'[x]) /\ MdTranscribing(mdWork'[y]) => x = y
    BY <2>1, <2>2
  <2> QED BY <2>4, <2>5, <2>6 DEF MdHeardInv, MdTranscribing
<1>3. mdAsks' \in 0..MdMaxAsks /\ mdExcuse' \in BOOLEAN
  BY DEF MdInv, MdTypeInv
<1> QED BY <1>1, <1>2, <1>3, MdWorkerKeeps

LEMMA MdProvidedKeeps ==
  ASSUME MdInv, NEW w \in MdWorkers, NEW ok \in BOOLEAN, MdProvided(w, ok) PROVE MdInv'
<1> DEFINE call == IF ok /\ mdWork[w].next = "hear" THEN [at |-> "hear"] ELSE MdIdle
<1>1. /\ mdWork[w].at = "resolve" /\ mdRow' = (IF ok THEN [mdRow EXCEPT !.media = "file"] ELSE mdRow)
      /\ mdWork' = [mdWork EXCEPT ![w] = call] /\ mdAsks' = mdAsks /\ mdReq' = mdReq
      /\ mdReqs' = mdReqs /\ mdCopies' = mdCopies /\ mdHeard' = mdHeard /\ mdExcuse' = mdExcuse
  BY MdTyped DEF MdProvided
<1>2. call \in MdCalls /\ (MdTranscribing(call) => MdTranscribing(mdWork[w]))
  <2>1. CASE ok /\ mdWork[w].next = "hear"
    BY <1>1, <2>1, MdCallIs DEF MdTranscribing
  <2>2. CASE ~(ok /\ mdWork[w].next = "hear")
    BY <2>2, MdCallIs
  <2> QED BY <2>1, <2>2
<1> HIDE DEF call
<1>3. mdRow' \in MdRow /\ mdRow'.kind = mdRow.kind /\ mdRow'.text = mdRow.text
  BY <1>1, MdTyped DEF MdRow, MdMedia
<1>4. mdHeard' \in BOOLEAN
  BY <1>1 DEF MdInv, MdTypeInv
<1> QED BY <1>1, <1>2, <1>3, <1>4, MdCallKeeps

LEMMA MdHearKeeps ==
  ASSUME MdInv, NEW w \in MdWorkers, NEW words \in {"heard", "empty", "error"}, MdHear(w, words)
  PROVE  MdInv'
<1>1. /\ mdWork[w].at = "hear" /\ mdRow' = (IF words = "error" THEN mdRow ELSE [mdRow EXCEPT !.text = words])
      /\ mdHeard' = (mdHeard \/ words = "heard")
      /\ mdWork' = [mdWork EXCEPT ![w] = MdIdle] /\ mdAsks' = mdAsks /\ mdReq' = mdReq
      /\ mdReqs' = mdReqs /\ mdCopies' = mdCopies /\ mdExcuse' = mdExcuse
  BY DEF MdHear
<1>2. MdTranscribing(mdWork[w])
  BY <1>1 DEF MdTranscribing
<1>3. mdRow' \in MdRow /\ mdRow'.kind = mdRow.kind
      /\ (words = "error" => mdRow' = mdRow) /\ (words # "error" => mdRow'.text = words)
  BY <1>1, MdTyped DEF MdRow
<1>4. mdHeard' \in BOOLEAN /\ mdHeard \in BOOLEAN
  BY <1>1 DEF MdInv, MdTypeInv
<1>5. CASE words = "error"
  BY <1>1, <1>2, <1>3, <1>4, <1>5, MdCallIs, MdCallKeeps
<1>6. CASE words # "error"
  <2>1. mdHeard' = (mdHeard \/ mdRow'.text = "heard")
    BY <1>1, <1>3, <1>6
  <2> QED BY <1>1, <1>2, <1>3, <1>4, <2>1, MdCallIs, MdCallKeeps
<1> QED BY <1>5, <1>6

LEMMA MdSyncedKeeps == ASSUME MdInv, MdSynced PROVE MdInv'
<1>1. /\ mdRow' = [mdRow EXCEPT !.ext = TRUE, !.text = "none"] /\ mdExcuse' = TRUE /\ mdWork' = mdWork
      /\ mdAsks' = mdAsks /\ mdReq' = mdReq /\ mdReqs' = mdReqs /\ mdCopies' = mdCopies /\ mdHeard' = mdHeard
  BY DEF MdSynced
<1>2. mdRow' \in MdRow /\ mdRow'.kind = mdRow.kind
  BY <1>1, MdTyped DEF MdRow
<1>3. MdHeardInv'
  BY <1>1 DEF MdHeardInv
<1>4. mdHeard' \in BOOLEAN /\ mdExcuse' \in BOOLEAN
  BY <1>1 DEF MdInv, MdTypeInv
<1> QED BY <1>1, <1>2, <1>3, <1>4, MdTyped, MdWorkerKeeps

-----------------------------------------------------------------------------
(* The requests *)

\* A request does not transcribe.
LEMMA MdRequestKeeps ==
  ASSUME MdInv, mdRow' \in MdRow, mdRow'.kind = mdRow.kind, mdRow'.text = mdRow.text, mdWork' = mdWork,
         mdAsks' = mdAsks, mdHeard' = mdHeard, mdExcuse' = mdExcuse,
         mdReq' \in {MdIdle} \union MdAsked, mdReqs' \in 0..MdMaxRequests, mdCopies' \in Seq(MdCopy),
         MdCopyInv', MdReqInv', MdSentInv'
  PROVE  MdInv'
<1>1. MdTypeInv'
  BY DEF MdInv, MdTypeInv
<1>2. MdHeardInv'
  BY DEF MdInv, MdHeardInv
<1> QED BY <1>1, <1>2 DEF MdInv

LEMMA MdLeadsIn == \A t \in MdTargets : MdLeadsTo(t) \in MdConvs
BY MdAssumption DEF MdTargets, MdLeadsTo

\* A new request has no copies yet.
LEMMA MdBeginKeeps ==
  ASSUME MdInv, NEW forwarded \in BOOLEAN, NEW targets \in SUBSET MdTargets,
         NEW at \in {"media", "targets", "refused"}, NEW media \in MdMedia,
         MdBegin(forwarded, targets, at, media),
         at = "targets" /\ forwarded /\ mdRow.kind = "audio" => media = "file",
         mdRow' = mdRow, mdWork' = mdWork, mdAsks' = mdAsks, mdCopies' = mdCopies,
         mdHeard' = mdHeard, mdExcuse' = mdExcuse
  PROVE  MdInv'
<1> DEFINE new == [at |-> at, forwarded |-> forwarded, media |-> media, asked |-> targets,
                   left |-> targets, found |-> {}, failed |-> {}, unsent |-> {}, sent |-> {}]
<1>1. mdReqs < MdMaxRequests /\ mdReqs' = mdReqs + 1 /\ mdReq' = new
  BY DEF MdBegin
<1>2. /\ new \in MdAsked /\ new.at = at /\ new.forwarded = forwarded /\ new.media = media
      /\ new.asked = targets /\ new.left = targets /\ new.sent = {} /\ new.unsent = {}
  BY DEF MdAsked, MdStages
<1> HIDE DEF new
<1>3. mdReqs' \in 0..MdMaxRequests /\ mdReqs' >= 1 /\ mdReqs \in Nat
  BY <1>1, MdTyped
<1>4. \A k \in DOMAIN mdCopies : mdCopies[k].req \in Nat /\ mdCopies[k].req <= mdReqs
  BY MdTyped DEF MdInv, MdCopyInv, MdCopy
<1>5. MdCopyInv'
  BY <1>1, <1>3, <1>4 DEF MdInv, MdCopyInv
<1>6. \A k \in DOMAIN mdCopies : mdCopies[k].req # mdReqs'
  BY <1>1, <1>3, <1>4
<1>7. \A c : MdOf(c)' = {}
  BY <1>6 DEF MdOf
<1>8. MdSentInv'
  BY <1>1, <1>2, <1>7 DEF MdSentInv
<1>9. MdReqInv'
  BY <1>1, <1>2, <1>3 DEF MdReqInv
<1>10. mdRow' \in MdRow /\ mdCopies' \in Seq(MdCopy)
  BY MdTyped
<1> QED BY <1>1, <1>2, <1>3, <1>5, <1>8, <1>9, <1>10, MdRequestKeeps

LEMMA MdForwardKeeps == ASSUME MdInv, NEW targets \in SUBSET MdTargets, MdForward(targets) PROVE MdInv'
<1>1. /\ mdRow' = mdRow /\ mdWork' = mdWork /\ mdAsks' = mdAsks /\ mdCopies' = mdCopies
      /\ mdHeard' = mdHeard /\ mdExcuse' = mdExcuse
  BY DEF MdForward
<1>2. "none" \in MdMedia /\ mdRow.media \in MdMedia /\ mdRow.kind \in {"plain", "nothing", "audio"}
  BY MdTyped DEF MdMedia, MdRow
<1>3. CASE mdRow.kind = "nothing"
  <2>1. MdBegin(TRUE, targets, "refused", "none")
    BY <1>3 DEF MdForward
  <2> QED BY <1>1, <1>2, <2>1, MdBeginKeeps
<1>4. CASE mdRow.kind = "plain"
  <2>1. MdBegin(TRUE, targets, "targets", "none")
    BY <1>4 DEF MdForward
  <2> QED BY <1>1, <1>2, <1>4, <2>1, MdBeginKeeps
<1>5. CASE mdRow.kind = "audio"
  <2> DEFINE at == IF MdPlays(mdRow.media) THEN "targets" ELSE "media"
  <2>1. MdBegin(TRUE, targets, at, mdRow.media)
    BY <1>5 DEF MdForward
  <2>2. at \in {"media", "targets", "refused"} /\ (at = "targets" => mdRow.media = "file")
    BY DEF MdPlays
  <2> HIDE DEF at
  <2> QED BY <1>1, <1>2, <2>1, <2>2, MdBeginKeeps
<1> QED BY <1>2, <1>3, <1>4, <1>5

LEMMA MdStartKeeps == ASSUME MdInv, NEW t \in MdTargets, MdStart(t) PROVE MdInv'
<1>1. /\ mdRow' = mdRow /\ mdWork' = mdWork /\ mdAsks' = mdAsks /\ mdCopies' = mdCopies
      /\ mdHeard' = mdHeard /\ mdExcuse' = mdExcuse /\ MdBegin(FALSE, {t}, "targets", "none")
  BY DEF MdStart
<1>2. "none" \in MdMedia /\ {t} \in SUBSET MdTargets
  BY DEF MdMedia
<1> QED BY <1>1, <1>2, MdBeginKeeps

\* The request under way goes on and no copy is written.
LEMMA MdGoesOn ==
  ASSUME MdInv, mdReq.at # "idle", mdReq' \in MdAsked, mdReqs' = mdReqs, mdCopies' = mdCopies,
         mdReq'.sent = mdReq.sent, mdReq'.unsent = mdReq.unsent, MdReqInv',
         mdRow' \in MdRow, mdRow'.kind = mdRow.kind, mdRow'.text = mdRow.text, mdWork' = mdWork,
         mdAsks' = mdAsks, mdHeard' = mdHeard, mdExcuse' = mdExcuse
  PROVE  MdInv'
<1>1. \A c : MdOf(c)' = MdOf(c)
  BY DEF MdOf
<1>2. MdSentInv'
  BY <1>1 DEF MdInv, MdSentInv
<1>3. MdCopyInv'
  BY DEF MdInv, MdCopyInv
<1>4. mdReqs' \in 0..MdMaxRequests /\ mdCopies' \in Seq(MdCopy)
  BY MdTyped
<1> QED BY <1>2, <1>3, <1>4, MdRequestKeeps

LEMMA MdFetchKeeps == ASSUME MdInv, NEW ok \in BOOLEAN, MdFetch(ok) PROVE MdInv'
<1> DEFINE current == IF mdReq.media = "none" THEN mdRow.media ELSE mdReq.media
           found == [mdReq EXCEPT !.at = "targets", !.media = "file"]
           refused == [mdReq EXCEPT !.at = "refused"]
<1>1. /\ mdReq.at = "media" /\ mdWork' = mdWork /\ mdAsks' = mdAsks /\ mdReqs' = mdReqs
      /\ mdCopies' = mdCopies /\ mdHeard' = mdHeard /\ mdExcuse' = mdExcuse
      /\ \/ current = "file" /\ mdReq' = [mdReq EXCEPT !.at = "targets", !.media = current] /\ mdRow' = mdRow
         \/ mdReq' = found /\ (mdRow' = mdRow \/ mdRow' = [mdRow EXCEPT !.media = "file"])
         \/ mdReq' = refused /\ mdRow' = mdRow
  BY DEF MdFetch, MdPlays
<1>2. mdReq \in MdAsked /\ mdReq.sent = {} /\ mdReq.unsent = {} /\ mdReqs >= 1
      /\ \A t \in mdReq.asked : t \in mdReq.left \/ t \in mdReq.failed \/ MdLeadsTo(t) \in mdReq.found
  BY <1>1, MdTyped DEF MdInv, MdReqInv
<1>3. mdRow' \in MdRow /\ mdRow'.kind = mdRow.kind /\ mdRow'.text = mdRow.text
  BY <1>1, MdTyped DEF MdRow, MdMedia
<1>4. mdReq' \in MdAsked /\ mdReq'.at \in {"targets", "refused"}
      /\ (mdReq'.at = "targets" => mdReq'.media = "file")
      /\ mdReq'.sent = mdReq.sent /\ mdReq'.unsent = mdReq.unsent /\ mdReq'.asked = mdReq.asked
      /\ mdReq'.left = mdReq.left /\ mdReq'.failed = mdReq.failed /\ mdReq'.found = mdReq.found
  <2>1. "file" \in MdMedia
    BY DEF MdMedia
  <2> HIDE DEF current
  <2>2. mdReq' = found \/ mdReq' = refused
    BY <1>1
  <2> QED BY <1>2, <2>1, <2>2 DEF MdAsked, MdStages
<1>5. MdReqInv'
  BY <1>1, <1>2, <1>4 DEF MdReqInv
<1> QED BY <1>1, <1>3, <1>4, <1>5, MdGoesOn

LEMMA MdCheckKeeps == ASSUME MdInv, NEW t \in MdTargets, NEW ok \in BOOLEAN, MdCheck(t, ok) PROVE MdInv'
<1> DEFINE f == IF ok THEN mdReq.found \union {MdLeadsTo(t)} ELSE mdReq.found
           b == IF ok THEN mdReq.failed ELSE mdReq.failed \union {t}
           new == [mdReq EXCEPT !.left = mdReq.left \ {t}, !.found = f, !.failed = b]
<1>1. /\ mdReq.at = "targets" /\ mdWork' = mdWork /\ mdAsks' = mdAsks /\ mdReqs' = mdReqs
      /\ mdCopies' = mdCopies /\ mdHeard' = mdHeard /\ mdExcuse' = mdExcuse /\ mdRow' = mdRow
  BY DEF MdCheck
<1>2. mdReq \in MdAsked /\ mdReq.sent = {} /\ mdReq.unsent = {} /\ mdReqs >= 1
      /\ (mdReq.forwarded /\ mdRow.kind = "audio" => mdReq.media = "file")
      /\ \A s \in mdReq.asked : s \in mdReq.left \/ s \in mdReq.failed \/ MdLeadsTo(s) \in mdReq.found
  BY <1>1, MdTyped DEF MdInv, MdReqInv
<1>3. mdReq' = new
  BY <1>2 DEF MdCheck, MdAsked
<1>4. /\ f \in SUBSET MdConvs /\ b \in SUBSET MdTargets /\ mdReq.left \ {t} \in SUBSET MdTargets
      /\ \A s \in mdReq.asked : s \in mdReq.left \ {t} \/ s \in b \/ MdLeadsTo(s) \in f
  BY <1>2, MdLeadsIn DEF MdAsked
<1> HIDE DEF f, b
<1>5. /\ new \in MdAsked /\ new.at = "targets" /\ new.sent = {} /\ new.unsent = {}
      /\ new.media = mdReq.media /\ new.forwarded = mdReq.forwarded /\ new.asked = mdReq.asked
      /\ new.left = mdReq.left \ {t} /\ new.found = f /\ new.failed = b
  BY <1>1, <1>2, <1>4 DEF MdAsked
<1> HIDE DEF new
<1>6. MdReqInv'
  BY <1>1, <1>2, <1>3, <1>4, <1>5 DEF MdReqInv
<1>7. mdRow' \in MdRow
  BY <1>1, MdTyped
<1> QED BY <1>1, <1>2, <1>3, <1>5, <1>6, <1>7, MdGoesOn

\* The request moves on to another stage, the rest of it stays.
LEMMA MdStageIs ==
  ASSUME MdInv, mdReq.at # "idle", NEW at \in MdStages, mdReq' = [mdReq EXCEPT !.at = at]
  PROVE  /\ mdReq' \in MdAsked /\ mdReq'.at = at /\ mdReq'.sent = mdReq.sent /\ mdReq'.unsent = mdReq.unsent
         /\ mdReq'.media = mdReq.media /\ mdReq'.forwarded = mdReq.forwarded /\ mdReq'.asked = mdReq.asked
         /\ mdReq'.left = mdReq.left /\ mdReq'.failed = mdReq.failed /\ mdReq'.found = mdReq.found
<1>1. mdReq \in MdAsked
  BY MdTyped
<1> QED BY <1>1 DEF MdAsked

LEMMA MdCheckedKeeps == ASSUME MdInv, MdChecked PROVE MdInv'
<1>1. /\ mdReq.at = "targets" /\ mdReq.left = {} /\ mdReq' = [mdReq EXCEPT !.at = "send"]
      /\ mdWork' = mdWork /\ mdAsks' = mdAsks /\ mdReqs' = mdReqs
      /\ mdCopies' = mdCopies /\ mdHeard' = mdHeard /\ mdExcuse' = mdExcuse /\ mdRow' = mdRow
  BY DEF MdChecked
<1>2. /\ mdReq' \in MdAsked /\ mdReq'.at = "send" /\ mdReq'.sent = mdReq.sent /\ mdReq'.unsent = mdReq.unsent
      /\ mdReq'.media = mdReq.media /\ mdReq'.forwarded = mdReq.forwarded /\ mdReq'.asked = mdReq.asked
      /\ mdReq'.left = mdReq.left /\ mdReq'.failed = mdReq.failed /\ mdReq'.found = mdReq.found
  BY <1>1, MdStageIs DEF MdStages
<1>3. MdReqInv'
  BY <1>1, <1>2 DEF MdInv, MdReqInv
<1> QED BY <1>1, <1>2, <1>3, MdTyped, MdGoesOn

LEMMA MdTellKeeps == ASSUME MdInv, MdTell PROVE MdInv'
<1> DEFINE at == IF mdReq.sent = {} THEN "refused" ELSE "told"
<1>1. /\ mdReq.at = "send" /\ mdReq.found = mdReq.sent \union mdReq.unsent
      /\ mdReq' = [mdReq EXCEPT !.at = at]
      /\ mdWork' = mdWork /\ mdAsks' = mdAsks /\ mdReqs' = mdReqs
      /\ mdCopies' = mdCopies /\ mdHeard' = mdHeard /\ mdExcuse' = mdExcuse /\ mdRow' = mdRow
  BY DEF MdTell
<1>2. at \in {"refused", "told"} /\ (at = "refused" => mdReq.sent = {})
  OBVIOUS
<1> HIDE DEF at
<1>3. /\ mdReq' \in MdAsked /\ mdReq'.at = at /\ mdReq'.sent = mdReq.sent /\ mdReq'.unsent = mdReq.unsent
      /\ mdReq'.media = mdReq.media /\ mdReq'.forwarded = mdReq.forwarded /\ mdReq'.asked = mdReq.asked
      /\ mdReq'.left = mdReq.left /\ mdReq'.failed = mdReq.failed /\ mdReq'.found = mdReq.found
  BY <1>1, <1>2, MdStageIs DEF MdStages
<1>4. MdReqInv'
  BY <1>1, <1>2, <1>3 DEF MdInv, MdReqInv
<1> QED BY <1>1, <1>3, <1>4, MdTyped, MdGoesOn

LEMMA MdNewRequestKeeps == ASSUME MdInv, MdNewRequest PROVE MdInv'
<1>1. /\ mdReq' = MdIdle /\ mdWork' = mdWork /\ mdAsks' = mdAsks /\ mdReqs' = mdReqs
      /\ mdCopies' = mdCopies /\ mdHeard' = mdHeard /\ mdExcuse' = mdExcuse /\ mdRow' = mdRow
  BY DEF MdNewRequest
<1>2. mdReq'.at = "idle"
  BY <1>1 DEF MdIdle
<1>3. MdReqInv' /\ MdSentInv'
  BY <1>2 DEF MdReqInv, MdSentInv
<1>4. MdCopyInv'
  BY <1>1 DEF MdInv, MdCopyInv
<1> QED BY <1>1, <1>3, <1>4, MdTyped, MdRequestKeeps

LEMMA MdSendKeeps ==
  ASSUME MdInv, NEW c \in MdConvs, NEW outcome \in {"queued", "stuck", "refused"}, MdSend(c, outcome)
  PROVE  MdInv'
<1> DEFINE copy == [req |-> mdReqs, conv |-> c, media |-> mdReq.media,
                    mark |-> mdReq.forwarded, forwarded |-> mdReq.forwarded, at |-> outcome]
           sent == IF outcome = "queued" THEN mdReq.sent \union {c} ELSE mdReq.sent
           unsent == IF outcome = "queued" THEN mdReq.unsent ELSE mdReq.unsent \union {c}
           new == [mdReq EXCEPT !.sent = sent, !.unsent = unsent]
<1>1. /\ mdReq.at = "send" /\ c \in mdReq.found \ (mdReq.sent \union mdReq.unsent)
      /\ mdCopies' = (IF outcome = "refused" THEN mdCopies ELSE Append(mdCopies, copy))
      /\ mdRow' = mdRow /\ mdWork' = mdWork /\ mdAsks' = mdAsks /\ mdReqs' = mdReqs
      /\ mdHeard' = mdHeard /\ mdExcuse' = mdExcuse
  BY DEF MdSend
<1>2. /\ mdReq \in MdAsked /\ mdReqs \in 1..MdMaxRequests
      /\ (mdReq.forwarded /\ mdRow.kind = "audio" => mdReq.media = "file")
      /\ mdReq.left = {} /\ mdReq.sent \intersect mdReq.unsent = {}
      /\ \A s \in mdReq.asked : s \in mdReq.left \/ s \in mdReq.failed \/ MdLeadsTo(s) \in mdReq.found
  BY <1>1, MdTyped DEF MdInv, MdReqInv
<1>3. mdReq' = new
  <2>1. mdReq = [mdReq EXCEPT !.sent = mdReq.sent] /\ mdReq = [mdReq EXCEPT !.unsent = mdReq.unsent]
    BY <1>2 DEF MdAsked
  <2>2. CASE outcome = "queued"
    <3>1. mdReq' = [mdReq EXCEPT !.sent = mdReq.sent \union {c}]
      BY <2>2 DEF MdSend
    <3> QED BY <1>2, <2>2, <3>1 DEF MdAsked
  <2>3. CASE outcome # "queued"
    <3>1. mdReq' = [mdReq EXCEPT !.unsent = mdReq.unsent \union {c}]
      BY <2>3 DEF MdSend
    <3> QED BY <1>2, <2>3, <3>1 DEF MdAsked
  <2> QED BY <2>2, <2>3
<1>4. /\ sent \in SUBSET MdConvs /\ unsent \in SUBSET MdConvs /\ sent \intersect unsent = {}
      /\ c \in sent \union unsent /\ mdReq.sent \subseteq sent /\ mdReq.unsent \subseteq unsent
      /\ (c \in sent <=> outcome = "queued")
      /\ \A d \in MdConvs : d # c => (d \in sent <=> d \in mdReq.sent) /\ (d \in unsent <=> d \in mdReq.unsent)
  BY <1>1, <1>2 DEF MdAsked
<1> HIDE DEF sent, unsent
<1>5. /\ new \in MdAsked /\ new.at = "send" /\ new.sent = sent /\ new.unsent = unsent
      /\ new.media = mdReq.media /\ new.forwarded = mdReq.forwarded /\ new.asked = mdReq.asked
      /\ new.left = mdReq.left /\ new.failed = mdReq.failed /\ new.found = mdReq.found
  BY <1>1, <1>2, <1>4 DEF MdAsked
<1> HIDE DEF new
<1>6. MdReqInv'
  BY <1>1, <1>2, <1>3, <1>4, <1>5 DEF MdReqInv
<1>7. MdOf(c) = {}
  <2>1. \A k \in MdOf(c) : c \in mdReq.sent \/ c \in mdReq.unsent
    BY <1>1 DEF MdInv, MdSentInv
  <2> QED BY <1>1, <2>1
<1>8. CASE outcome = "refused"
  <2>1. \A d : MdOf(d)' = MdOf(d)
    BY <1>1, <1>8 DEF MdOf
  <2>2. MdSentInv'
    <3> SUFFICES ASSUME NEW d \in MdConvs
                 PROVE  /\ \A k \in MdOf(d) : d \in sent \/ (d \in unsent /\ mdCopies[k].at = "stuck")
                        /\ \A k, l \in MdOf(d) : k = l
                        /\ d \in sent => MdOf(d) # {}
      BY <1>1, <1>3, <1>5, <1>8, <2>1 DEF MdSentInv
    <3>1. CASE d = c
      BY <1>4, <1>7, <1>8, <3>1
    <3>2. CASE d # c
      BY <1>1, <1>4, <3>2 DEF MdInv, MdSentInv
    <3> QED BY <3>1, <3>2
  <2>3. MdCopyInv'
    BY <1>1, <1>8 DEF MdInv, MdCopyInv
  <2> QED BY <1>1, <1>3, <1>5, <1>6, <1>8, <2>2, <2>3, MdTyped, MdRequestKeeps
<1>9. CASE outcome # "refused"
  <2>1. /\ copy \in MdCopy /\ copy.req = mdReqs /\ copy.conv = c /\ copy.media = mdReq.media
        /\ copy.forwarded = mdReq.forwarded /\ copy.at = outcome
    BY <1>2, <1>9 DEF MdCopy, MdAsked
  <2> HIDE DEF copy
  <2>2. PICK n \in Nat : n = Len(mdCopies) + 1
    BY MdTyped
  <2>3. /\ mdCopies' \in Seq(MdCopy) /\ DOMAIN mdCopies' = DOMAIN mdCopies \union {n}
        /\ n \notin DOMAIN mdCopies /\ mdCopies'[n] = copy
        /\ \A k \in DOMAIN mdCopies : mdCopies'[k] = mdCopies[k]
    <3>1. mdCopies \in Seq(MdCopy) /\ Len(mdCopies) \in Nat /\ DOMAIN mdCopies = 1..Len(mdCopies)
      BY MdTyped
    <3>2. mdCopies' = Append(mdCopies, copy)
      BY <1>1, <1>9
    <3>3. /\ mdCopies' \in Seq(MdCopy) /\ Len(mdCopies') = Len(mdCopies) + 1
          /\ \A k \in 1..Len(mdCopies) : mdCopies'[k] = mdCopies[k]
          /\ mdCopies'[Len(mdCopies) + 1] = copy
      BY <2>1, <3>1, <3>2, AppendProperties
    <3>4. DOMAIN mdCopies' = 1..(Len(mdCopies) + 1)
      BY <3>3, LenProperties
    <3> QED BY <2>2, <3>1, <3>3, <3>4
  <2>4. MdOf(c)' = {n} /\ \A d \in MdConvs : d # c => MdOf(d)' = MdOf(d)
    <3>1. \A d \in MdConvs : MdOf(d)' = {k \in DOMAIN mdCopies \union {n} :
                                           mdCopies'[k].req = mdReqs /\ mdCopies'[k].conv = d}
      BY <1>1, <2>3 DEF MdOf
    <3>2. \A k \in DOMAIN mdCopies : ~(mdCopies[k].req = mdReqs /\ mdCopies[k].conv = c)
      BY <1>7 DEF MdOf
    <3>3. MdOf(c)' = {n}
      BY <2>1, <2>3, <3>1, <3>2
    <3>4. ASSUME NEW d \in MdConvs, d # c PROVE MdOf(d)' = MdOf(d)
      BY <2>1, <2>3, <3>1, <3>4 DEF MdOf
    <3> QED BY <3>3, <3>4
  <2>5. MdSentInv'
    <3> SUFFICES ASSUME NEW d \in MdConvs
                 PROVE  /\ \A k \in MdOf(d)' : d \in sent \/ (d \in unsent /\ mdCopies'[k].at = "stuck")
                        /\ \A k, l \in MdOf(d)' : k = l
                        /\ d \in sent => MdOf(d)' # {}
      BY <1>3, <1>5 DEF MdSentInv
    <3>1. CASE d = c
      <4>1. MdOf(d)' = {n} /\ mdCopies'[n].at = outcome
        BY <2>1, <2>3, <2>4, <3>1
      <4>2. d \in sent \/ (d \in unsent /\ outcome = "stuck")
        BY <1>4, <1>9, <3>1
      <4> QED BY <4>1, <4>2
    <3>2. CASE d # c
      <4>1. MdOf(d)' = MdOf(d) /\ \A k \in MdOf(d) : mdCopies'[k] = mdCopies[k]
        BY <2>3, <2>4, <3>2 DEF MdOf
      <4>2. /\ \A k \in MdOf(d) : d \in mdReq.sent \/ (d \in mdReq.unsent /\ mdCopies[k].at = "stuck")
            /\ \A k, l \in MdOf(d) : k = l
            /\ d \in mdReq.sent => MdOf(d) # {}
        BY <1>1 DEF MdInv, MdSentInv
      <4> QED BY <1>4, <3>2, <4>1, <4>2
    <3> QED BY <3>1, <3>2
  <2>6. MdCopyInv'
    <3> SUFFICES ASSUME NEW k \in DOMAIN mdCopies'
                 PROVE  /\ mdCopies'[k].req <= mdReqs
                        /\ mdCopies'[k].forwarded /\ mdRow.kind = "audio" => mdCopies'[k].media = "file"
      BY <1>1 DEF MdCopyInv
    <3>1. CASE k \in DOMAIN mdCopies
      BY <2>3, <3>1 DEF MdInv, MdCopyInv
    <3>2. CASE k = n
      BY <1>2, <2>1, <2>3, <3>2
    <3> QED BY <2>3, <3>1, <3>2
  <2> QED BY <1>1, <1>3, <1>5, <1>6, <2>3, <2>5, <2>6, MdTyped, MdRequestKeeps
<1> QED BY <1>8, <1>9

LEMMA MdDeliverKeeps == ASSUME MdInv, NEW k, MdDeliver(k) PROVE MdInv'
<1> DEFINE new == [mdCopies[k] EXCEPT !.at = "sent", !.mark = FALSE]
<1>1. /\ k \in DOMAIN mdCopies /\ mdCopies[k].at = "queued" /\ mdCopies' = [mdCopies EXCEPT ![k] = new]
      /\ mdRow' = mdRow /\ mdWork' = mdWork /\ mdAsks' = mdAsks /\ mdReq' = mdReq /\ mdReqs' = mdReqs
      /\ mdHeard' = mdHeard /\ mdExcuse' = mdExcuse
  BY DEF MdDeliver
<1>2. mdCopies \in Seq(MdCopy) /\ mdCopies[k] \in MdCopy /\ k \in 1..Len(mdCopies)
  BY <1>1, MdTyped
<1>3. /\ new \in MdCopy /\ new.req = mdCopies[k].req /\ new.conv = mdCopies[k].conv
      /\ new.media = mdCopies[k].media /\ new.forwarded = mdCopies[k].forwarded
  BY <1>2 DEF MdCopy
<1> HIDE DEF new
<1>4. /\ mdCopies' \in Seq(MdCopy) /\ DOMAIN mdCopies' = DOMAIN mdCopies /\ mdCopies'[k] = new
      /\ \A l \in DOMAIN mdCopies : l # k => mdCopies'[l] = mdCopies[l]
  <2>1. mdCopies' \in Seq(MdCopy)
    BY <1>1, <1>2, <1>3, ExceptSeq
  <2> QED BY <1>1, <2>1
<1>5. \A l \in DOMAIN mdCopies : /\ mdCopies'[l].req = mdCopies[l].req /\ mdCopies'[l].conv = mdCopies[l].conv
                                 /\ mdCopies'[l].media = mdCopies[l].media
                                 /\ mdCopies'[l].forwarded = mdCopies[l].forwarded
                                 /\ (mdCopies[l].at = "stuck" => mdCopies'[l].at = "stuck")
  BY <1>1, <1>3, <1>4
<1>6. \A c : MdOf(c)' = MdOf(c) /\ MdOf(c) \subseteq DOMAIN mdCopies
  BY <1>1, <1>4, <1>5 DEF MdOf
<1>7. MdSentInv'
  BY <1>1, <1>5, <1>6 DEF MdInv, MdSentInv
<1>8. MdCopyInv'
  BY <1>1, <1>4, <1>5 DEF MdInv, MdCopyInv
<1>9. MdReqInv'
  BY <1>1 DEF MdInv, MdReqInv
<1>10. mdReq' \in {MdIdle} \union MdAsked
  BY <1>1 DEF MdInv, MdTypeInv
<1> QED BY <1>1, <1>4, <1>7, <1>8, <1>9, <1>10, MdTyped, MdRequestKeeps

-----------------------------------------------------------------------------
(* The theorems *)

LEMMA MdInvStep == ASSUME MdInv, [MdNext]_mdVars PROVE MdInv'
<1>1. CASE UNCHANGED mdVars
  <2>1. /\ mdRow' = mdRow /\ mdWork' = mdWork /\ mdAsks' = mdAsks /\ mdReq' = mdReq /\ mdReqs' = mdReqs
        /\ mdCopies' = mdCopies /\ mdHeard' = mdHeard /\ mdExcuse' = mdExcuse
    BY <1>1 DEF mdVars
  <2>2. MdHeardInv'
    BY <2>1 DEF MdInv, MdHeardInv
  <2>3. mdHeard \in BOOLEAN /\ mdExcuse \in BOOLEAN
    BY DEF MdInv, MdTypeInv
  <2> QED BY <2>1, <2>2, <2>3, MdTyped, MdWorkerKeeps
<1>2. CASE \E w \in MdWorkers :
             \/ MdResolve(w)
             \/ \E forced \in BOOLEAN : MdTranscribe(w, forced)
             \/ \E ok \in BOOLEAN : MdProvided(w, ok)
             \/ \E words \in {"heard", "empty", "error"} : MdHear(w, words)
  BY <1>2, MdResolveKeeps, MdTranscribeKeeps, MdProvidedKeeps, MdHearKeeps
<1>3. CASE MdSynced
  BY <1>3, MdSyncedKeeps
<1>4. CASE \E targets \in SUBSET MdTargets : MdForward(targets)
  BY <1>4, MdForwardKeeps
<1>5. CASE \E c \in MdNumbers : MdStart(<<c, "number">>)
  <2>1. \A c \in MdNumbers : <<c, "number">> \in MdTargets
    BY DEF MdTargets
  <2> QED BY <1>5, <2>1, MdStartKeeps
<1>6. CASE \E ok \in BOOLEAN : MdFetch(ok)
  BY <1>6, MdFetchKeeps
<1>7. CASE \E t \in MdTargets, ok \in BOOLEAN : MdCheck(t, ok)
  BY <1>7, MdCheckKeeps
<1>8. CASE MdChecked \/ MdTell \/ MdNewRequest
  BY <1>8, MdCheckedKeeps, MdTellKeeps, MdNewRequestKeeps
<1>9. CASE \E c \in MdConvs, outcome \in {"queued", "stuck", "refused"} : MdSend(c, outcome)
  BY <1>9, MdSendKeeps
<1>10. CASE \E k \in 1..(MdMaxRequests * Cardinality(MdConvs)) : MdDeliver(k)
  BY <1>10, MdDeliverKeeps
<1> QED BY <1>1, <1>2, <1>3, <1>4, <1>5, <1>6, <1>7, <1>8, <1>9, <1>10 DEF MdNext

LEMMA MdInvGives == MdInv => MdSafe /\ MdTypeOK
<1> SUFFICES ASSUME MdInv PROVE MdSafe /\ MdTypeOK
  OBVIOUS
<1>1. MdCopiesPlay
  BY DEF MdInv, MdCopyInv, MdCopiesPlay
<1>2. MdReportIsWhole
  <2> SUFFICES ASSUME mdReq.at # "idle" PROVE MdReportIsWhole
    BY DEF MdReportIsWhole
  <2>1. ASSUME NEW c \in MdConvs PROVE Cardinality(MdOf(c)) <= 1
    <3>1. \A k, l \in MdOf(c) : k = l
      BY DEF MdInv, MdSentInv
    <3>2. CASE MdOf(c) = {}
      <4>1. Cardinality(MdOf(c)) = 0
        BY <3>2, FS_EmptySet, Zenon
      <4> QED BY <4>1
    <3>3. CASE MdOf(c) # {}
      <4>1. PICK k : MdOf(c) = {k}
        BY <3>1, <3>3
      <4>2. Cardinality(MdOf(c)) = 1
        BY <4>1, FS_Singleton, Zenon
      <4> QED BY <4>2
    <3> QED BY <3>2, <3>3
  <2>2. ASSUME mdReq.at = "told", NEW t \in mdReq.asked \ mdReq.failed
        PROVE  MdLeadsTo(t) \in mdReq.unsent \/ MdOf(MdLeadsTo(t)) # {}
    <3>1. MdLeadsTo(t) \in mdReq.sent \union mdReq.unsent /\ t \in MdTargets
      BY <2>2, MdTyped DEF MdInv, MdReqInv, MdAsked
    <3> QED BY <3>1, MdLeadsIn DEF MdInv, MdSentInv
  <2>3. ASSUME NEW c \in mdReq.unsent, NEW k \in MdOf(c) PROVE mdCopies[k].at = "stuck"
    <3>1. c \in MdConvs /\ c \notin mdReq.sent
      BY MdTyped DEF MdInv, MdReqInv, MdAsked
    <3> QED BY <3>1 DEF MdInv, MdSentInv
  <2> QED BY <2>1, <2>2, <2>3 DEF MdReportIsWhole
<1>3. MdRefusedSentNothing
  BY DEF MdInv, MdReqInv, MdSentInv, MdRefusedSentNothing
<1>4. MdTranscriptKept
  BY DEF MdInv, MdHeardInv, MdTranscriptKept
<1>5. mdReq.at \in {"idle"} \union MdStages
  BY MdTyped DEF MdAsked
<1>6. \A w \in MdWorkers : mdWork[w].at \in {"idle", "resolve", "hear"}
  BY MdTyped DEF MdCalls, MdIdle
<1>7. mdReq.at # "idle" =>
       /\ mdReq.left \subseteq MdTargets /\ mdReq.found \subseteq MdConvs
       /\ mdReq.failed \subseteq MdTargets /\ mdReq.unsent \subseteq MdConvs
       /\ mdReq.sent \subseteq MdConvs
  BY MdTyped DEF MdAsked
<1>8. MdTypeOK
  BY <1>5, <1>6, <1>7, MdTyped DEF MdInv, MdTypeInv, MdTypeOK, MdStages
<1> QED BY <1>1, <1>2, <1>3, <1>4, <1>8 DEF MdSafe

LEMMA MdInvCorrect == MdSpec => []MdInv
BY MdInitInv, MdInvStep, PTL DEF MdSpec

\* Whatever the workers, conversations, numbers and requests: a copy plays where it goes, a request
\* puts one copy at most in a conversation and reports the rest, a refused one sent nothing, and a
\* transcript is lost only to a forced or a second call or to SENT (media-refresh.service.ts,
\* audio-transcription.service.ts, messages.service.ts forward).
THEOREM MdSafeCorrect == MdSpec => []MdSafe
<1>1. MdInv => MdSafe
  BY MdInvGives
<1> QED BY <1>1, MdInvCorrect, PTL

\* The row, the calls, the request and its copies keep the shapes MdTypeOK gives them.
THEOREM MdTypeCorrect == MdSpec => []MdTypeOK
<1>1. MdInv => MdTypeOK
  BY MdInvGives
<1> QED BY <1>1, MdInvCorrect, PTL
=============================================================================
