------------------------------ MODULE DeskProofs ------------------------------
(***************************************************************************)
(* Proofs about the operators' desk, for every value of the constants:     *)
(* conversations, board, inbox, people, and all of its parts together.     *)
(***************************************************************************)
EXTENDS MCDesk, ChannelsProofs, FiniteSetTheorems, WellFoundedInduction, TLAPS


-----------------------------------------------------------------------------
(* Conversations: any conversations, operators and calls *)

CvCallType ==
  [pc : CvPCs, op : CvOps, conv : CvConvs \union {CvNobody},
   seen : CvRowType, user : CvUsers \union {CvNobody},
   to : CvStatus \union {"NONE"}]

-----------------------------------------------------------------------------
(* The inductive invariant *)

\* What a call knows where it is: the row it will write, the status to write, and
\* that it reopens what it read as closed.
CvCallOK(k) ==
  /\ k.pc \in {"touch", "reopen", "fsm", "transition", "assign", "send"} =>
       k.conv \in CvConvs
  /\ k.pc \in {"fsm", "transition"} => k.to \in CvStatus
  /\ k.pc = "transition" => <<k.seen.st, k.to>> \in CvTransitions
  /\ k.pc = "reopen" => k.seen.st = "CLOSED"
  /\ k.pc \in {"lock", "inside", "reopen"} => k.op \in {"inbound", "operator"}
  /\ k.pc = "create" => k.op \in {"inbound", "operator", "import"}

\* A call past the second look, about to open a conversation.
CvOpening(k) == k.pc \in {"reopen", "create"} /\ k.op # "import"

\* While nothing of what can go round the lock has happened: who is past the
\* lock holds it, there is nothing open while someone is about to open, and there
\* is at most one open conversation.
CvOpenInv ==
  cvCause = {} =>
    /\ \A p \in CvCallers : CvAt(p, "inside") \/ CvOpening(cvCall[p]) => cvLock = p
    /\ \A p \in CvCallers : CvOpening(cvCall[p]) => CvFound = {}
    /\ \A c, d \in CvFound : c = d

\* closedAt and the last event of a row against its status.
CvMatches(r) == r.closedAt <=> r.st = "CLOSED"
CvTold(t, r) ==
  \/ t = r.st
  \/ t = "WAITING" /\ r.st = "OPEN"
  \/ t = "CLOSED" /\ r.st = "PENDING"

CvRowInv == \A c \in CvConvs \ cvRaced : CvMatches(cvRow[c]) /\ CvTold(cvTold[c], cvRow[c])

CvInv ==
  /\ CvTypeOK
  /\ \A p \in CvCallers : CvCallOK(cvCall[p])
  /\ CvOpenInv
  /\ CvRowInv

\* The records of idle calls and missing rows have their types.
LEMMA CvBlank ==
  /\ CvNoRow \in CvRowType /\ CvIdle \in CvCallType /\ CvCallOK(CvIdle)
  /\ ~CvOpening(CvIdle) /\ CvIdle.pc = "idle"
  /\ CvMatches(CvNoRow) /\ CvTold("NONE", CvNoRow)
BY DEF CvNoRow, CvRowType, CvIdle, CvCallType, CvCallOK, CvOpening, CvPCs, CvOps, CvMatches, CvTold

-----------------------------------------------------------------------------
(* The ways a step changes the state *)

\* A call goes on without writing: it may not come past the lock on the way.
LEMMA CvGoesOn ==
  ASSUME CvInv, NEW p \in CvCallers, NEW k \in CvCallType, CvCallOK(k),
         cvCall' = [cvCall EXCEPT ![p] = k],
         UNCHANGED <<cvRow, cvTold, cvCause, cvRaced>>,
         cvMade' \in 0..CvMaxCalls,
         cvLock' \in CvCallers \union {CvNobody},
         \A q \in CvCallers : q # p /\ cvLock = q => cvLock' = q,
         cvCause = {} /\ (k.pc = "inside" \/ CvOpening(k)) => cvLock' = p,
         CvOpening(k) => CvFound = {}
  PROVE  CvInv'
<1> USE DEF CvInv
<1>1. CvTypeOK'
  BY DEF CvTypeOK, CvCallType
<1>2. \A q \in CvCallers : cvCall'[q] = IF q = p THEN k ELSE cvCall[q]
  BY DEF CvTypeOK
<1>3. \A q \in CvCallers : CvCallOK(cvCall'[q])
  BY <1>2
<1>4. CvFound' = CvFound /\ CvRowInv'
  BY DEF CvFound, CvRowInv
<1>5. CvOpenInv'
  BY <1>2, <1>4 DEF CvOpenInv, CvAt
<1> QED BY <1>1, <1>3, <1>4, <1>5

\* A call writes a row and returns.  Unless it was overtaken, what it writes must
\* match, and opens a conversation only where one was open or the lock is held.
LEMMA CvWrites ==
  ASSUME CvInv, NEW p \in CvCallers, NEW c \in CvConvs, NEW r \in CvRowType,
         NEW t \in CvStatus \union {"NONE"},
         NEW causes \in SUBSET {"reopen", "import", "expiry", "raced"},
         CvWrite(p, c, r, t, causes),
         cvRow[c].st = cvCall[p].seen.st /\ c \notin cvRaced => CvMatches(r) /\ CvTold(t, r),
         cvRow[c].st = cvCall[p].seen.st /\ causes = {} /\ r.st \in CvOpen =>
           cvRow[c].st \in CvOpen \/ CvOpening(cvCall[p])
  PROVE  CvInv'
<1> USE DEF CvInv
<1>1. CvTypeOK'
  BY CvBlank DEF CvTypeOK, CvWrite, CvRelease, CvCallType
<1>2. \A q \in CvCallers : cvCall'[q] = IF q = p THEN CvIdle ELSE cvCall[q]
  BY DEF CvTypeOK, CvWrite
<1>3. \A q \in CvCallers : CvCallOK(cvCall'[q])
  BY <1>2, CvBlank
<1>4. \A d \in CvConvs : cvRow'[d] = (IF d = c THEN r ELSE cvRow[d])
                        /\ cvTold'[d] = (IF d = c THEN t ELSE cvTold[d])
  BY DEF CvTypeOK, CvWrite
<1>5. CvRowInv'
  BY <1>4 DEF CvRowInv, CvWrite
<1>6. CvOpenInv'
  <2> SUFFICES ASSUME cvCause' = {}
      PROVE /\ \A q \in CvCallers :
                 (cvCall'[q].pc = "inside" \/ CvOpening(cvCall'[q])) => cvLock' = q
            /\ \A q \in CvCallers : CvOpening(cvCall'[q]) => CvFound' = {}
            /\ \A d, e \in CvFound' : d = e
    BY DEF CvOpenInv, CvAt
  <2>1. cvCause = {} /\ causes = {} /\ cvRow[c].st = cvCall[p].seen.st
    BY DEF CvWrite
  <2>2. \A q \in CvCallers : cvCall'[q].pc = "inside" \/ CvOpening(cvCall'[q]) =>
                               cvLock' = q /\ q # p /\ cvLock = q
    BY <1>2, <2>1, CvBlank, CvAssumption DEF CvOpenInv, CvAt, CvWrite, CvRelease
  <2>3. CASE r.st \in CvOpen /\ cvRow[c].st \notin CvOpen
    <3>1. CvOpening(cvCall[p]) /\ CvFound = {} /\ cvLock = p
      BY <2>1, <2>3 DEF CvOpenInv
    <3>2. CvFound' \subseteq {c}
      BY <1>4, <3>1 DEF CvFound
    <3> QED BY <2>2, <3>1, <3>2
  <2>4. CASE ~(r.st \in CvOpen /\ cvRow[c].st \notin CvOpen)
    <3>1. CvFound' \subseteq CvFound
      BY <1>4, <2>4 DEF CvFound
    <3>2. \A q \in CvCallers : CvOpening(cvCall'[q]) => CvFound = {}
      BY <1>2, <2>1, CvBlank DEF CvOpenInv
    <3> QED BY <2>1, <2>2, <3>1, <3>2 DEF CvOpenInv
  <2> QED BY <2>3, <2>4
<1> QED BY <1>1, <1>3, <1>5, <1>6

\* A row changes in what the status does not depend on.
LEMMA CvDecorates ==
  ASSUME CvInv, NEW c \in CvConvs, NEW r \in CvRowType,
         cvRow' = [cvRow EXCEPT ![c] = r],
         r.st = cvRow[c].st, r.closedAt = cvRow[c].closedAt,
         UNCHANGED <<cvCall, cvLock, cvTold, cvCause, cvRaced>>,
         cvMade' \in 0..CvMaxCalls
  PROVE  CvInv'
<1> USE DEF CvInv
<1>1. CvTypeOK'
  BY DEF CvTypeOK
<1>2. \A d \in CvConvs : cvRow'[d].st = cvRow[d].st /\ cvRow'[d].closedAt = cvRow[d].closedAt
  BY DEF CvTypeOK
<1>3. CvFound' = CvFound
  BY <1>2 DEF CvFound
<1>4. CvRowInv'
  BY <1>2 DEF CvRowInv, CvMatches, CvTold
<1>5. CvOpenInv'
  BY <1>3 DEF CvOpenInv, CvAt
<1> QED BY <1>1, <1>4, <1>5

-----------------------------------------------------------------------------
(* Every step preserves the invariant *)

LEMMA CvInitInv == CvInit => CvInv
<1> SUFFICES ASSUME CvInit PROVE CvInv
  OBVIOUS
<1>1. CvTypeOK
  BY CvBlank, CvAssumption DEF CvInit, CvTypeOK, CvCallType
<1>2. CvFound = {}
  BY DEF CvInit, CvFound, CvOpen, CvNoRow
<1>3. CvOpenInv
  BY CvBlank, <1>2 DEF CvInit, CvOpenInv, CvAt
<1> QED BY <1>1, <1>3, CvBlank DEF CvInit, CvInv, CvRowInv

\* A call begins: none begins past the lock.
LEMMA CvBegins ==
  ASSUME CvInv, NEW p \in CvCallers, NEW k \in CvCallType, CvBegin(p, k), CvCallOK(k),
         k.pc # "inside", ~CvOpening(k)
  PROVE  CvInv'
<1>1. cvMade' \in 0..CvMaxCalls
  BY CvAssumption DEF CvInv, CvTypeOK, CvBegin, CvCount
<1> QED BY <1>1, CvGoesOn DEF CvBegin, CvInv, CvTypeOK

\* A call returns.
LEMMA CvReturns ==
  ASSUME CvInv, NEW p \in CvCallers, CvReturn(p)
  PROVE  CvInv'
<1>1. cvLock' \in CvCallers \union {CvNobody} /\ cvMade' \in 0..CvMaxCalls
  BY DEF CvInv, CvTypeOK, CvReturn, CvRelease
<1>2. \A q \in CvCallers : q # p /\ cvLock = q => cvLock' = q
  BY DEF CvReturn, CvRelease
<1> QED BY <1>1, <1>2, CvGoesOn, CvBlank DEF CvReturn

LEMMA CvAsksStep ==
  ASSUME CvInv, NEW p \in CvCallers,
         \/ CvImport(p)
         \/ CvResolve(p, "inbound", CvNobody)
         \/ \E u \in CvUsers : CvResolve(p, "operator", u)
         \/ \E c \in CvConvs :
              \/ CvAskReopen(p, c)
              \/ \E to \in CvStatus : CvAskStatus(p, c, to)
              \/ \E u \in CvUsers : CvAskAssign(p, c, u) \/ CvAskSend(p, c, u)
  PROVE  CvInv'
<1> USE DEF CvCallType, CvPCs, CvOps, CvStatus, CvOpen, CvCallOK, CvOpening, CvIdle
<1>1. CvNoRow \in CvRowType /\ \A c \in CvConvs : cvRow[c] \in CvRowType
  BY CvBlank DEF CvInv, CvTypeOK
<1>2. CASE CvImport(p)
  <2> DEFINE k == [CvIdle EXCEPT !.pc = "create", !.op = "import"]
  <2>1. k \in CvCallType /\ CvCallOK(k) /\ k.pc # "inside" /\ ~CvOpening(k)
    BY <1>1
  <2>2. CvBegin(p, k)
    BY <1>2 DEF CvImport
  <2> QED BY ONLY <2>1, <2>2, CvInv, p \in CvCallers, CvBegins
<1>3. ASSUME NEW op \in {"inbound", "operator"}, NEW u \in CvUsers \union {CvNobody},
             CvResolve(p, op, u)
      PROVE  CvInv'
  <2>1. CASE CvFound = {}
    <3> DEFINE k == [CvIdle EXCEPT !.pc = "lock", !.op = op, !.user = u]
    <3>1. k \in CvCallType /\ CvCallOK(k) /\ k.pc # "inside" /\ ~CvOpening(k)
      BY <1>1
    <3>2. CvBegin(p, k)
      BY <1>3, <2>1 DEF CvResolve
    <3> QED BY ONLY <3>1, <3>2, CvInv, p \in CvCallers, CvBegins
  <2>2. ASSUME NEW c \in CvFound,
               CvBegin(p, [CvIdle EXCEPT !.pc = "touch", !.op = op, !.conv = c,
                                         !.seen = cvRow[c], !.user = u])
        PROVE  CvInv'
    <3> DEFINE k == [CvIdle EXCEPT !.pc = "touch", !.op = op, !.conv = c,
                                   !.seen = cvRow[c], !.user = u]
    <3>1. k \in CvCallType /\ CvCallOK(k) /\ k.pc # "inside" /\ ~CvOpening(k)
      BY <1>1 DEF CvFound
    <3>2. CvBegin(p, k)
      BY <2>2
    <3> QED BY ONLY <3>1, <3>2, CvInv, p \in CvCallers, CvBegins
  <2> QED BY <1>3, <2>1, <2>2 DEF CvResolve
<1>4. ASSUME NEW c \in CvConvs, NEW to \in CvStatus, CvAskStatus(p, c, to)
      PROVE  CvInv'
  <2> DEFINE k == [CvIdle EXCEPT !.pc = "fsm", !.conv = c, !.to = to]
  <2>1. k \in CvCallType /\ CvCallOK(k) /\ k.pc # "inside" /\ ~CvOpening(k)
    BY <1>1
  <2>2. CvBegin(p, k)
    BY <1>4 DEF CvAskStatus
  <2> QED BY ONLY <2>1, <2>2, CvInv, p \in CvCallers, CvBegins
<1>5. ASSUME NEW c \in CvConvs, NEW u \in CvUsers, NEW pc \in {"assign", "send"},
             CvBegin(p, [CvIdle EXCEPT !.pc = pc, !.conv = c, !.user = u,
                                       !.seen = cvRow[c]])
      PROVE  CvInv'
  <2> DEFINE k == [CvIdle EXCEPT !.pc = pc, !.conv = c, !.user = u, !.seen = cvRow[c]]
  <2>1. k \in CvCallType /\ CvCallOK(k) /\ k.pc # "inside" /\ ~CvOpening(k)
    BY <1>1
  <2>2. CvBegin(p, k)
    BY <1>5
  <2> QED BY ONLY <2>1, <2>2, CvInv, p \in CvCallers, CvBegins
<1>6. ASSUME NEW c \in CvConvs, CvAskReopen(p, c)
      PROVE  CvInv'
  BY <1>4, <1>6 DEF CvAskReopen
<1> QED BY <1>2, <1>3, <1>4, <1>5, <1>6 DEF CvAskAssign, CvAskSend

LEMMA CvLockStep ==
  ASSUME CvInv, NEW p \in CvCallers,
         \/ CvTakeLock(p) \/ CvLockTimesOut(p) \/ CvRecheck(p) \/ CvCreateBound(p)
         \/ CvValidate(p)
  PROVE  CvInv'
<1> DEFINE call == cvCall[p]
<1>1. /\ call \in CvCallType /\ CvCallOK(call)
      /\ \A c \in CvConvs : cvRow[c] \in CvRowType
      /\ cvLock \in CvCallers \union {CvNobody} /\ cvMade \in 0..CvMaxCalls
  BY DEF CvInv, CvTypeOK, CvCallType
<1>2. CASE CvTakeLock(p)
  <2> DEFINE k == [call EXCEPT !.pc = "inside"]
  <2>1. k \in CvCallType /\ CvCallOK(k) /\ k.pc = "inside" /\ ~CvOpening(k)
    BY <1>1, <1>2 DEF CvCallType, CvPCs, CvCallOK, CvOpening, CvTakeLock, CvAt
  <2>2. /\ cvCall' = [cvCall EXCEPT ![p] = k] /\ cvLock' = p
        /\ UNCHANGED <<cvRow, cvTold, cvCause, cvRaced, cvMade>>
    BY <1>2 DEF CvTakeLock
  <2>3. \A q \in CvCallers : cvLock # q
    BY <1>2, CvAssumption DEF CvTakeLock
  <2> HIDE DEF k
  <2> QED BY <1>1, <2>1, <2>2, <2>3, CvGoesOn
<1>3. CASE CvRecheck(p)
  <2>1. cvCause = {} => cvLock = p
    BY <1>3 DEF CvInv, CvOpenInv, CvRecheck
  <2>2. ASSUME NEW k \in CvCallType, CvCallOK(k), CvGoTo(p, k), k.pc # "inside",
               CvOpening(k) => CvFound = {}
        PROVE  CvInv'
    BY <1>1, <2>1, <2>2, CvGoesOn DEF CvGoTo
  <2>3. ASSUME NEW c \in CvFound, CvGoTo(p, [call EXCEPT !.pc = "touch", !.conv = c,
                                                        !.seen = cvRow[c]])
        PROVE  CvInv'
    <3> DEFINE k == [call EXCEPT !.pc = "touch", !.conv = c, !.seen = cvRow[c]]
    <3>1. k \in CvCallType /\ CvCallOK(k) /\ k.pc # "inside" /\ ~CvOpening(k)
      BY <1>1, <1>3 DEF CvCallType, CvPCs, CvCallOK, CvOpening, CvRecheck, CvAt, CvFound
    <3> HIDE DEF k
    <3> QED BY <2>2, <2>3, <3>1 DEF k
  <2>4. ASSUME NEW c \in CvReopenable, CvFound = {},
               CvGoTo(p, [call EXCEPT !.pc = "reopen", !.conv = c, !.seen = cvRow[c]])
        PROVE  CvInv'
    <3> DEFINE k == [call EXCEPT !.pc = "reopen", !.conv = c, !.seen = cvRow[c]]
    <3>1. k \in CvCallType /\ CvCallOK(k) /\ k.pc # "inside"
      BY <1>1, <1>3 DEF CvCallType, CvPCs, CvCallOK, CvRecheck, CvAt, CvReopenable
    <3> HIDE DEF k
    <3> QED BY <2>2, <2>4, <3>1 DEF k
  <2>5. ASSUME CvFound = {}, CvGoTo(p, [call EXCEPT !.pc = "create"])
        PROVE  CvInv'
    <3> DEFINE k == [call EXCEPT !.pc = "create"]
    <3>1. k \in CvCallType /\ CvCallOK(k) /\ k.pc # "inside"
      BY <1>1, <1>3 DEF CvCallType, CvPCs, CvCallOK, CvRecheck, CvAt
    <3> HIDE DEF k
    <3> QED BY <2>2, <2>5, <3>1 DEF k
  <2> QED BY <1>3, <2>3, <2>4, <2>5 DEF CvRecheck
<1>4. CASE CvValidate(p) /\ ~CvReturn(p)
  <2> DEFINE k == [call EXCEPT !.pc = "transition", !.seen = cvRow[call.conv]]
  <2>1. k \in CvCallType /\ CvCallOK(k) /\ k.pc = "transition"
    BY <1>1, <1>4 DEF CvCallType, CvPCs, CvCallOK, CvValidate, CvAt
  <2>2. CvGoTo(p, k)
    BY <1>4 DEF CvValidate
  <2>3. k.pc # "inside" /\ ~CvOpening(k)
    BY <2>1 DEF CvOpening
  <2> HIDE DEF k
  <2> QED BY <1>1, <2>1, <2>2, <2>3, CvGoesOn DEF CvGoTo
<1> QED BY <1>2, <1>3, <1>4, CvReturns DEF CvLockTimesOut, CvCreateBound, CvValidate

\* The writes of a call: what each may open, and that it matches and is told.
LEMMA CvWriteStep ==
  ASSUME CvInv, NEW p \in CvCallers,
         \/ CvTouch(p) \/ CvReopen(p) \/ CvCreate(p) \/ CvTransition(p)
         \/ CvAssign(p) \/ CvSend(p)
  PROVE  CvInv'
<1> DEFINE c == cvCall[p].conv
           seen == cvCall[p].seen
           row == cvRow[c]
<1>1. /\ cvCall[p] \in CvCallType /\ CvCallOK(cvCall[p])
      /\ \A d \in CvConvs : /\ cvRow[d] \in CvRowType
                            /\ cvTold[d] \in CvStatus \union {"NONE"}
                            /\ d \notin cvRaced => CvMatches(cvRow[d]) /\ CvTold(cvTold[d], cvRow[d])
  BY DEF CvInv, CvTypeOK, CvCallType, CvRowInv
<1>2. CASE CvReturn(p)
  BY <1>2, CvReturns
<1>3. CASE CvTouch(p) /\ ~CvReturn(p)
  <2> DEFINE r == [row EXCEPT !.st = "OPEN"]
  <2>1. c \in CvConvs /\ seen.st = "WAITING" /\ row.st # "NONE"
        /\ CvWrite(p, c, r, cvTold[c], {})
    BY <1>1, <1>3 DEF CvTouch, CvAt, CvCallOK
  <2>2. r \in CvRowType /\ cvTold[c] \in CvStatus \union {"NONE"}
    BY <1>1, <2>1 DEF CvRowType, CvStatus, CvOpen
  <2>3. row.st = seen.st /\ c \notin cvRaced => CvMatches(r) /\ CvTold(cvTold[c], r)
    BY <1>1, <2>1 DEF CvMatches, CvTold, CvRowType
  <2>4. row.st = seen.st => row.st \in CvOpen
    BY <2>1 DEF CvOpen
  <2> HIDE DEF r, seen
  <2> QED BY <2>1, <2>2, <2>3, <2>4, CvWrites DEF seen
<1>4. CASE CvReopen(p) /\ ~CvReturn(p)
  <2> DEFINE r == [row EXCEPT !.st = "PENDING", !.closedAt = FALSE, !.recent = FALSE,
                              !.who = CvNobody]
  <2>1. c \in CvConvs /\ seen.st = "CLOSED" /\ CvOpening(cvCall[p])
        /\ CvWrite(p, c, r, cvTold[c], {})
    BY <1>1, <1>4 DEF CvReopen, CvAt, CvCallOK, CvOpening
  <2>2. r \in CvRowType /\ cvTold[c] \in CvStatus \union {"NONE"}
    BY <1>1, <2>1 DEF CvRowType, CvStatus, CvOpen
  <2>3. row.st = seen.st /\ c \notin cvRaced => CvMatches(r) /\ CvTold(cvTold[c], r)
    BY <1>1, <2>1 DEF CvMatches, CvTold, CvRowType
  <2> HIDE DEF r, seen
  <2> QED BY <2>1, <2>2, <2>3, CvWrites DEF seen
<1>5. CASE CvCreate(p)
  <2>1. PICK d \in CvConvs, r \in CvNewRow(cvCall[p].op, cvCall[p].user) :
          CvWrite(p, d, r, r.st, IF cvCall[p].op = "import" THEN {"import"} ELSE {})
    BY <1>5 DEF CvCreate
  <2> DEFINE causes == IF cvCall[p].op = "import" THEN {"import"} ELSE {}
  <2>2. cvCall[p].op \in {"inbound", "operator", "import"} /\ cvCall[p].pc = "create"
    BY <1>1, <1>5 DEF CvCallOK, CvCreate, CvAt
  <2>3. cvCall[p].user \in CvUsers \union {CvNobody}
    BY <1>1 DEF CvCallType
  <2>4. /\ r \in CvRowType /\ r.st \in CvStatus \union {"NONE"} /\ r.closedAt = FALSE
        /\ r.st # "CLOSED"
    BY <2>2, <2>3 DEF CvNewRow, CvNoRow, CvRowType, CvStatus, CvOpen
  <2>5. CvMatches(r) /\ CvTold(r.st, r)
    BY <2>4 DEF CvMatches, CvTold
  <2>6. causes \in SUBSET {"reopen", "import", "expiry", "raced"}
        /\ (causes = {} => CvOpening(cvCall[p]))
    BY <2>2 DEF CvOpening
  <2>7. CvWrite(p, d, r, r.st, causes)
    BY <2>1
  <2> HIDE DEF causes
  <2> QED BY <2>4, <2>5, <2>6, <2>7, CvWrites
<1>6. CASE CvTransition(p) /\ ~CvReturn(p)
  <2> DEFINE to == cvCall[p].to
             r == [row EXCEPT
                     !.st = to,
                     !.closedAt = to = "CLOSED" \/ (@ /\ seen.st # "CLOSED"),
                     !.recent = to = "CLOSED" \/ (@ /\ seen.st # "CLOSED")]
             causes == IF seen.st = "CLOSED" THEN {"reopen"} ELSE {}
  <2>1. c \in CvConvs /\ to \in CvStatus /\ row.st # "NONE" /\ CvWrite(p, c, r, to, causes)
    BY <1>1, <1>6 DEF CvTransition, CvAt, CvCallOK
  <2>2. /\ r.closedAt \in BOOLEAN /\ r.recent \in BOOLEAN
        /\ row.closedAt \in BOOLEAN /\ row.st \in CvStatus \union {"NONE"}
    BY <1>1, <2>1 DEF CvRowType
  <2>7. r \in CvRowType
    <3> DEFINE q == [row EXCEPT !.st = to]
    <3>1. q \in CvRowType
      BY <1>1, <2>1 DEF CvRowType
    <3>2. r = [q EXCEPT !.closedAt = r.closedAt, !.recent = r.recent]
      BY <1>1, <2>1 DEF CvRowType
    <3>3. \A b1, b2 \in BOOLEAN : [q EXCEPT !.closedAt = b1, !.recent = b2] \in CvRowType
      BY <3>1 DEF CvRowType
    <3> HIDE DEF r, q
    <3>4. [q EXCEPT !.closedAt = r.closedAt, !.recent = r.recent] \in CvRowType
      BY <2>2, <3>3
    <3> QED BY <3>2, <3>4
  <2>3. r.st = to /\ r.closedAt = (to = "CLOSED" \/ (row.closedAt /\ seen.st # "CLOSED"))
    BY <1>1, <2>1 DEF CvRowType
  <2>4. row.st = seen.st /\ c \notin cvRaced => CvMatches(r) /\ CvTold(to, r)
    BY <1>1, <2>1, <2>2, <2>3 DEF CvMatches, CvTold
  <2>5. row.st = seen.st /\ causes = {} => row.st \in CvOpen
    BY <2>1, <2>2 DEF CvStatus
  <2>6. causes \in SUBSET {"reopen", "import", "expiry", "raced"}
    OBVIOUS
  <2> HIDE DEF r, seen, causes, to
  <2> QED BY <2>1, <2>2, <2>4, <2>5, <2>6, <2>7, CvWrites DEF seen
<1>7. CASE CvAssign(p) /\ ~CvReturn(p)
  <2> DEFINE opens == seen.st = "PENDING"
             r == [row EXCEPT !.who = cvCall[p].user, !.st = IF opens THEN "OPEN" ELSE @]
             t == IF opens THEN "OPEN" ELSE cvTold[c]
  <2>1. c \in CvConvs /\ row.st # "NONE" /\ CvWrite(p, c, r, t, {})
    BY <1>1, <1>7, SMTT(20) DEF CvAssign, CvAt, CvCallOK
  <2>2. r \in CvRowType /\ t \in CvStatus \union {"NONE"}
    BY <1>1, <2>1 DEF CvRowType, CvStatus, CvOpen, CvCallType
  <2>3. r.st = (IF opens THEN "OPEN" ELSE row.st) /\ r.closedAt = row.closedAt
    BY <1>1, <2>1 DEF CvRowType
  <2>4. row.st = seen.st /\ c \notin cvRaced => CvMatches(r) /\ CvTold(t, r)
    BY <1>1, <2>1, <2>3 DEF CvMatches, CvTold
  <2>5. row.st = seen.st /\ r.st \in CvOpen => row.st \in CvOpen
    BY <2>3 DEF CvOpen
  <2> HIDE DEF r, seen, t, opens
  <2> QED BY <2>1, <2>2, <2>4, <2>5, CvWrites DEF seen
<1>8. CASE CvSend(p) /\ ~CvReturn(p)
  <2> DEFINE owner == IF seen.who = cvCall[p].user THEN row.who ELSE cvCall[p].user
  <2>1. PICK pauses \in (IF seen.ai = "null" THEN BOOLEAN ELSE {FALSE}) :
          CvWrite(p, c, [row EXCEPT !.who = owner, !.ai = IF pauses THEN "off" ELSE @,
                                    !.pinned = @ /\ ~pauses], cvTold[c], {})
    BY <1>8 DEF CvSend
  <2> DEFINE r == [row EXCEPT !.who = owner, !.ai = IF pauses THEN "off" ELSE @,
                              !.pinned = @ /\ ~pauses]
  <2>2. c \in CvConvs /\ CvWrite(p, c, r, cvTold[c], {})
    BY <1>1, <1>8, <2>1 DEF CvSend, CvAt, CvCallOK
  <2>3. /\ r \in CvRowType /\ cvTold[c] \in CvStatus \union {"NONE"}
        /\ r.st = row.st /\ r.closedAt = row.closedAt
    <3>1. row \in CvRowType /\ cvTold[c] \in CvStatus \union {"NONE"} /\ cvCall[p] \in CvCallType
      BY <1>1, <2>2
    <3>2. owner \in CvUsers \union {CvNobody}
      BY <3>1 DEF CvRowType, CvCallType
    <3> DEFINE ai == IF pauses THEN "off" ELSE row.ai
               pinned == row.pinned /\ ~pauses
    <3>3. ai \in {"null", "on", "off"} /\ pinned \in BOOLEAN /\ r = [row EXCEPT !.who = owner, !.ai = ai, !.pinned = pinned]
      BY <3>1 DEF CvRowType
    <3> HIDE DEF r, owner, ai, pinned
    <3>4. r \in CvRowType /\ r.st = row.st /\ r.closedAt = row.closedAt
      BY <3>1, <3>2, <3>3 DEF CvRowType
    <3> QED BY <3>1, <3>4
  <2>4. row.st = seen.st /\ c \notin cvRaced => CvMatches(r) /\ CvTold(cvTold[c], r)
    BY <1>1, <2>2, <2>3 DEF CvMatches, CvTold
  <2> HIDE DEF r, seen
  <2> QED BY <2>2, <2>3, <2>4, CvWrites DEF seen
<1> QED BY <1>2, <1>3, <1>4, <1>5, <1>6, <1>7, <1>8

\* What happens to a row outside a call in flight, and the expiry of the lock.
LEMMA CvRowStep ==
  ASSUME CvInv, NEW c \in CvConvs,
         CvAge(c) \/ CvToggleAi(c) \/ CvSetActiveAgent(c) \/ CvHardDelete(c)
  PROVE  CvInv'
<1>1. cvRow[c] \in CvRowType /\ cvMade \in 0..CvMaxCalls /\ CvMaxCalls \in Nat
  BY CvAssumption DEF CvInv, CvTypeOK
<1>2. CASE CvAge(c)
  <2> DEFINE r == [cvRow[c] EXCEPT !.recent = FALSE]
  <2>1. r \in CvRowType /\ r.st = cvRow[c].st /\ r.closedAt = cvRow[c].closedAt
    BY <1>1 DEF CvRowType
  <2>2. /\ cvRow' = [cvRow EXCEPT ![c] = r]
        /\ UNCHANGED <<cvCall, cvLock, cvTold, cvCause, cvRaced>> /\ cvMade' \in 0..CvMaxCalls
    BY <1>1, <1>2 DEF CvAge
  <2> HIDE DEF r
  <2> QED BY <2>1, <2>2, CvDecorates
<1>3. ASSUME NEW ai \in {"null", "on", "off"}, NEW pinned \in BOOLEAN, CvSwitch(c, ai, pinned)
      PROVE  CvInv'
  <2> DEFINE r == [cvRow[c] EXCEPT !.ai = ai, !.pinned = pinned]
  <2>1. r \in CvRowType /\ r.st = cvRow[c].st /\ r.closedAt = cvRow[c].closedAt
    BY <1>1 DEF CvRowType
  <2>2. cvRow' = [cvRow EXCEPT ![c] = r]
    BY <1>1, <1>3 DEF CvSwitch, CvInv, CvTypeOK, CvRowType
  <2>3. UNCHANGED <<cvCall, cvLock, cvTold, cvCause, cvRaced>> /\ cvMade' \in 0..CvMaxCalls
    BY <1>1, <1>3 DEF CvSwitch, CvCount
  <2> HIDE DEF r
  <2> QED BY <2>1, <2>2, <2>3, CvDecorates
<1>4. CASE CvToggleAi(c) \/ CvSetActiveAgent(c)
  BY <1>1, <1>3, <1>4 DEF CvToggleAi, CvSetActiveAgent, CvRowType
<1>5. CASE CvHardDelete(c)
  <2>1. CvTypeOK'
    BY <1>1, <1>5, CvBlank DEF CvInv, CvTypeOK, CvHardDelete, CvCount
  <2>2. \A d \in CvConvs : d # c => cvRow'[d] = cvRow[d] /\ cvTold'[d] = cvTold[d]
    BY <1>5 DEF CvInv, CvTypeOK, CvHardDelete
  <2>3. cvRow'[c] = CvNoRow /\ cvTold'[c] = "NONE"
    BY <1>5 DEF CvInv, CvTypeOK, CvHardDelete
  <2>4. CvFound' \subseteq CvFound
    BY <2>2, <2>3 DEF CvFound, CvNoRow, CvOpen
  <2>5. CvOpenInv'
    BY <1>5, <2>4 DEF CvInv, CvOpenInv, CvAt, CvHardDelete
  <2>6. CvRowInv'
    BY <1>5, <2>2, <2>3, CvBlank DEF CvInv, CvRowInv, CvHardDelete
  <2> QED BY <1>5, <2>1, <2>5, <2>6 DEF CvInv, CvHardDelete
<1> QED BY <1>2, <1>4, <1>5

LEMMA CvExpiryStep == CvInv /\ CvExpireLock => CvInv'
BY DEF CvInv, CvTypeOK, CvOpenInv, CvRowInv, CvExpireLock

LEMMA CvStepInv == CvInv /\ [CvNext]_cvVars => CvInv'
<1> SUFFICES ASSUME CvInv, [CvNext]_cvVars PROVE CvInv'
  OBVIOUS
<1>1. ASSUME NEW p \in CvCallers, CvCallerStep(p) PROVE CvInv'
  BY <1>1, CvLockStep, CvWriteStep DEF CvCallerStep
<1>2. CASE UNCHANGED cvVars
  BY <1>2 DEF cvVars, CvInv, CvTypeOK, CvOpenInv, CvRowInv, CvAt, CvFound
<1> QED BY <1>1, <1>2, CvAsksStep, CvRowStep, CvExpiryStep DEF CvNext

-----------------------------------------------------------------------------
(* The theorems *)

LEMMA CvInvCorrect == CvSpec => []CvInv
BY CvInitInv, CvStepInv, PTL DEF CvSpec

\* Every row, call and history of the conversations keeps its type, whatever
\* calls overlap.
THEOREM CvTypeCorrect == CvSpec => []CvTypeOK
<1>1. CvInv => CvTypeOK
  BY DEF CvInv
<1> QED BY <1>1, CvInvCorrect, PTL

\* For any conversations, operators and overlapping calls: two open
\* conversations of a contact need one of the four causes; a row that no call
\* overtook has its closing date exactly when it is closed, and automations were
\* told its status but for what the resolver does without an event.
THEOREM CvSafeCorrect == CvSpec => []CvSafe
<1>1. CvInv => CvSafe
  <2> SUFFICES ASSUME CvInv PROVE CvSafe
    OBVIOUS
  <2>1. CvOneOpen
    <3> SUFFICES ASSUME cvCause = {} PROVE ~(Cardinality(CvFound) > 1)
      BY DEF CvOneOpen
    <3>1. \A c, d \in CvFound : c = d
      BY DEF CvInv, CvOpenInv
    <3>2. CASE CvFound = {}
      BY <3>2, FS_EmptySet
    <3>3. ASSUME NEW c \in CvFound PROVE Cardinality(CvFound) = 1
      <4>1. CvFound = {c}
        BY <3>1, <3>3
      <4> QED BY <4>1, FS_Singleton
    <3> QED BY <3>2, <3>3
  <2>2. CvClosedAtMatches /\ CvStatusTold
    BY DEF CvInv, CvRowInv, CvClosedAtMatches, CvStatusTold, CvMatches, CvTold
  <2> QED BY <2>1, <2>2 DEF CvSafe
<1> QED BY <1>1, CvInvCorrect, PTL

\* A write that was not overtaken moves its row as the status that was read allows.
LEMMA CvWriteMoves ==
  ASSUME CvInv, NEW p \in CvCallers, NEW c, NEW r, NEW t, NEW causes,
         CvWrite(p, c, r, t, causes),
         cvRow[c].st = cvCall[p].seen.st =>
           \/ r.st = cvRow[c].st \/ cvRow[c].st = "NONE"
           \/ <<cvRow[c].st, r.st>> \in CvTransitions
  PROVE  CvLegalMoves
<1>1. \A d \in CvConvs : cvRow'[d] = IF d = c THEN r ELSE cvRow[d]
  BY DEF CvInv, CvTypeOK, CvWrite
<1>2. cvRow[c].st # cvCall[p].seen.st => c \in cvRaced'
  BY DEF CvWrite
<1> QED BY <1>1, <1>2 DEF CvLegalMoves

\* For any calls that overlap: a row moves along VALID_TRANSITIONS, is created
\* or deleted, or a call that had read another status overtakes it.
THEOREM CvLegalMovesCorrect == CvSpec => [][CvLegalMoves]_cvVars
<1>1. ASSUME CvInv, CvNext PROVE CvLegalMoves
  <2> USE <1>1
  <2>1. ASSUME UNCHANGED cvRow PROVE CvLegalMoves
    BY <2>1 DEF CvLegalMoves
  <2>2. \A c \in CvConvs : cvRow[c] \in CvRowType
    BY DEF CvInv, CvTypeOK
  <2>3. ASSUME NEW p \in CvCallers, CvCallerStep(p) PROVE CvLegalMoves
    <3> DEFINE c == cvCall[p].conv
               row == cvRow[c]
    <3>1. CvCallOK(cvCall[p]) /\ (cvCall[p].pc \in {"touch", "reopen", "transition", "assign", "send"}
                                => row \in CvRowType)
      BY <2>2 DEF CvInv, CvCallOK
    <3>2. CASE CvReturn(p)
      BY <2>1, <3>2 DEF CvReturn
    <3>3. CASE CvTakeLock(p) \/ CvLockTimesOut(p) \/ CvRecheck(p) \/ CvCreateBound(p) \/ CvValidate(p)
      BY <2>1, <3>3 DEF CvTakeLock, CvLockTimesOut, CvReturn, CvRecheck, CvGoTo, CvCreateBound,
                       CvValidate
    <3>4. CASE CvTouch(p) /\ ~CvReturn(p)
      <4> DEFINE r == [row EXCEPT !.st = "OPEN"]
      <4>1. CvWrite(p, c, r, cvTold[c], {}) /\ cvCall[p].seen.st = "WAITING" /\ r.st = "OPEN"
        BY <3>1, <3>4 DEF CvTouch, CvAt, CvRowType
      <4> HIDE DEF r
      <4> QED BY <4>1, CvWriteMoves DEF CvTransitions
    <3>5. CASE CvReopen(p) /\ ~CvReturn(p)
      <4> DEFINE r == [row EXCEPT !.st = "PENDING", !.closedAt = FALSE, !.recent = FALSE,
                                  !.who = CvNobody]
      <4>1. CvWrite(p, c, r, cvTold[c], {}) /\ cvCall[p].seen.st = "CLOSED" /\ r.st = "PENDING"
        BY <3>1, <3>5 DEF CvReopen, CvAt, CvRowType, CvCallOK
      <4> HIDE DEF r
      <4> QED BY <4>1, CvWriteMoves DEF CvTransitions
    <3>6. CASE CvCreate(p)
      <4>1. PICK d \in CvConvs, r \in CvNewRow(cvCall[p].op, cvCall[p].user) :
              /\ cvRow[d].st = "NONE"
              /\ CvWrite(p, d, r, r.st, IF cvCall[p].op = "import" THEN {"import"} ELSE {})
        BY <3>6 DEF CvCreate
      <4> DEFINE causes == IF cvCall[p].op = "import" THEN {"import"} ELSE {}
      <4>2. CvWrite(p, d, r, r.st, causes)
        BY <4>1
      <4> HIDE DEF causes
      <4> QED BY <4>1, <4>2, CvWriteMoves
    <3>7. CASE CvTransition(p) /\ ~CvReturn(p)
      <4> DEFINE to == cvCall[p].to
                 r == [row EXCEPT
                         !.st = to,
                         !.closedAt = to = "CLOSED" \/ (@ /\ cvCall[p].seen.st # "CLOSED"),
                         !.recent = to = "CLOSED" \/ (@ /\ cvCall[p].seen.st # "CLOSED")]
                 causes == IF cvCall[p].seen.st = "CLOSED" THEN {"reopen"} ELSE {}
      <4>1. CvWrite(p, c, r, to, causes) /\ r.st = to
        BY <3>1, <3>7 DEF CvTransition, CvAt, CvRowType
      <4>2. <<cvCall[p].seen.st, to>> \in CvTransitions
        BY <3>1, <3>7 DEF CvTransition, CvAt, CvCallOK
      <4> HIDE DEF r, causes, to
      <4> QED BY <4>1, <4>2, CvWriteMoves
    <3>8. CASE CvAssign(p) /\ ~CvReturn(p)
      <4> DEFINE opens == cvCall[p].seen.st = "PENDING"
                 r == [row EXCEPT !.who = cvCall[p].user, !.st = IF opens THEN "OPEN" ELSE @]
                 t == IF opens THEN "OPEN" ELSE cvTold[c]
      <4>1. CvWrite(p, c, r, t, {}) /\ r.st = (IF opens THEN "OPEN" ELSE row.st)
        BY <3>1, <3>8 DEF CvAssign, CvAt, CvRowType
      <4> HIDE DEF r, t
      <4> QED BY <4>1, CvWriteMoves DEF CvTransitions
    <3>9. CASE CvSend(p) /\ ~CvReturn(p)
      <4> DEFINE owner == IF cvCall[p].seen.who = cvCall[p].user THEN row.who ELSE cvCall[p].user
      <4>1. PICK pauses \in (IF cvCall[p].seen.ai = "null" THEN BOOLEAN ELSE {FALSE}) :
              CvWrite(p, c, [row EXCEPT !.who = owner, !.ai = IF pauses THEN "off" ELSE @,
                                        !.pinned = @ /\ ~pauses], cvTold[c], {})
        BY <3>9 DEF CvSend
      <4> DEFINE r == [row EXCEPT !.who = owner, !.ai = IF pauses THEN "off" ELSE @,
                                  !.pinned = @ /\ ~pauses]
      <4>2. CvWrite(p, c, r, cvTold[c], {}) /\ r.st = row.st
        BY <3>1, <3>9, <4>1 DEF CvSend, CvAt, CvRowType
      <4> HIDE DEF r
      <4> QED BY <4>2, CvWriteMoves
    <3> QED BY <2>3, <3>2, <3>3, <3>4, <3>5, <3>6, <3>7, <3>8, <3>9 DEF CvCallerStep
  <2>4. ASSUME NEW c \in CvConvs, CvAge(c) \/ CvToggleAi(c) \/ CvSetActiveAgent(c)
        PROVE  CvLegalMoves
    <3>1. \A d \in CvConvs : cvRow'[d].st = cvRow[d].st
      BY <2>2, <2>4, SMTT(20) DEF CvAge, CvToggleAi, CvSetActiveAgent, CvSwitch, CvRowType, CvInv, CvTypeOK
    <3> QED BY <3>1 DEF CvLegalMoves
  <2>5. ASSUME NEW c \in CvConvs, CvHardDelete(c) PROVE CvLegalMoves
    <3>1. \A d \in CvConvs : cvRow'[d] = IF d = c THEN CvNoRow ELSE cvRow[d]
      BY <2>5 DEF CvHardDelete, CvInv, CvTypeOK
    <3> QED BY <3>1 DEF CvLegalMoves, CvNoRow
  <2>6. ASSUME NEW p \in CvCallers, NEW k, CvBegin(p, k) PROVE CvLegalMoves
    BY <2>1, <2>6 DEF CvBegin
  <2>7. CASE CvExpireLock
    BY <2>1, <2>7 DEF CvExpireLock
  <2> QED
    BY <2>3, <2>4, <2>5, <2>6, <2>7 DEF CvNext, CvImport, CvResolve, CvAskReopen, CvAskStatus,
       CvAskAssign, CvAskSend
<1> QED BY <1>1, CvInvCorrect, PTL DEF CvSpec

-----------------------------------------------------------------------------
(* A force-on: any calls *)

\* A row that is not there is switched off from nothing.
CvBlankRows == \A c \in CvConvs : cvRow[c].st = "NONE" => cvRow[c].ai = "null"

\* What a write of a call does to a row that is there: it stays there, and the agent is
\* switched off only by a reply that had read "null".
CvKeepsRow(p, c, r) ==
  /\ r.st # "NONE" \/ r.ai = "null"
  /\ cvRow[c].ai = "on" /\ r.ai = "off" => cvCall[p].conv = c /\ cvCall[p].seen.ai = "null"

LEMMA CvWritesForced ==
  ASSUME CvInv, CvBlankRows, NEW p \in CvCallers, NEW c \in CvConvs, NEW r, NEW t, NEW causes,
         CvWrite(p, c, r, t, causes), CvKeepsRow(p, c, r)
  PROVE  CvBlankRows' /\ CvForcedOnSurvives
<1>1. /\ \A d \in CvConvs : cvRow'[d] = IF d = c THEN r ELSE cvRow[d]
      /\ cvCall'[p] = CvIdle
  BY DEF CvInv, CvTypeOK, CvWrite
<1>2. CvBlankRows'
  BY <1>1 DEF CvBlankRows, CvKeepsRow
<1>3. CvForcedOnSurvives
  BY <1>1 DEF CvForcedOnSurvives, CvKeepsRow
<1> QED BY <1>2, <1>3

LEMMA CvRowsRest ==
  ASSUME CvBlankRows, cvRow' = cvRow PROVE CvBlankRows' /\ CvForcedOnSurvives
BY DEF CvBlankRows, CvForcedOnSurvives

LEMMA CvCallerForced ==
  ASSUME CvInv, CvBlankRows, NEW p \in CvCallers, CvCallerStep(p)
  PROVE  CvBlankRows' /\ CvForcedOnSurvives
<1> DEFINE c == cvCall[p].conv
           row == cvRow[c]
           seen == cvCall[p].seen
<1>1. /\ CvCallOK(cvCall[p]) /\ cvCall[p] \in CvCallType
      /\ \A d \in CvConvs : cvRow[d] \in CvRowType
  BY DEF CvInv, CvTypeOK, CvCallType
<1>2. CASE CvReturn(p)
  BY <1>2, CvRowsRest DEF CvReturn
<1>3. CASE CvTakeLock(p) \/ CvLockTimesOut(p) \/ CvRecheck(p) \/ CvCreateBound(p) \/ CvValidate(p)
  BY <1>3, CvRowsRest DEF CvTakeLock, CvLockTimesOut, CvReturn, CvRecheck, CvGoTo, CvCreateBound,
                          CvValidate
<1>4. CASE CvTouch(p) /\ ~CvReturn(p)
  <2> DEFINE r == [row EXCEPT !.st = "OPEN"]
  <2>1. c \in CvConvs /\ CvWrite(p, c, r, cvTold[c], {}) /\ r.st = "OPEN" /\ r.ai = row.ai
    BY <1>1, <1>4 DEF CvTouch, CvAt, CvCallOK, CvRowType
  <2> HIDE DEF r
  <2> QED BY <2>1, CvWritesForced DEF CvKeepsRow
<1>5. CASE CvReopen(p) /\ ~CvReturn(p)
  <2> DEFINE r == [row EXCEPT !.st = "PENDING", !.closedAt = FALSE, !.recent = FALSE,
                              !.who = CvNobody]
  <2>1. c \in CvConvs /\ CvWrite(p, c, r, cvTold[c], {}) /\ r.st = "PENDING" /\ r.ai = row.ai
    BY <1>1, <1>5 DEF CvReopen, CvAt, CvCallOK, CvRowType
  <2> HIDE DEF r
  <2> QED BY <2>1, CvWritesForced DEF CvKeepsRow
<1>6. CASE CvCreate(p)
  <2>1. PICK d \in CvConvs, r \in CvNewRow(cvCall[p].op, cvCall[p].user) :
          /\ cvRow[d].st = "NONE"
          /\ CvWrite(p, d, r, r.st, IF cvCall[p].op = "import" THEN {"import"} ELSE {})
    BY <1>6 DEF CvCreate
  <2> DEFINE causes == IF cvCall[p].op = "import" THEN {"import"} ELSE {}
  <2>2. CvWrite(p, d, r, r.st, causes)
    BY <2>1
  <2>3. cvCall[p].op \in {"inbound", "operator", "import"}
    BY <1>1, <1>6 DEF CvCallOK, CvCreate, CvAt
  <2>4. r.st # "NONE"
    BY <2>3 DEF CvNewRow, CvNoRow
  <2>5. cvRow[d].ai = "null"
    BY <2>1 DEF CvBlankRows
  <2> HIDE DEF causes
  <2> QED BY <2>2, <2>4, <2>5, CvWritesForced DEF CvKeepsRow
<1>7. CASE CvTransition(p) /\ ~CvReturn(p)
  <2> DEFINE to == cvCall[p].to
             r == [row EXCEPT
                     !.st = to,
                     !.closedAt = to = "CLOSED" \/ (@ /\ seen.st # "CLOSED"),
                     !.recent = to = "CLOSED" \/ (@ /\ seen.st # "CLOSED")]
             causes == IF seen.st = "CLOSED" THEN {"reopen"} ELSE {}
  <2>1. c \in CvConvs /\ to \in CvStatus /\ CvWrite(p, c, r, to, causes)
    BY <1>1, <1>7 DEF CvTransition, CvAt, CvCallOK
  <2>2. r.st = to /\ r.ai = row.ai /\ to # "NONE"
    BY <1>1, <2>1 DEF CvRowType, CvStatus, CvOpen
  <2> HIDE DEF r, causes, to
  <2> QED BY <2>1, <2>2, CvWritesForced DEF CvKeepsRow
<1>8. CASE CvAssign(p) /\ ~CvReturn(p)
  <2> DEFINE opens == seen.st = "PENDING"
             r == [row EXCEPT !.who = cvCall[p].user, !.st = IF opens THEN "OPEN" ELSE @]
             t == IF opens THEN "OPEN" ELSE cvTold[c]
  <2>1. c \in CvConvs /\ row.st # "NONE" /\ CvWrite(p, c, r, t, {})
    BY <1>1, <1>8 DEF CvAssign, CvAt, CvCallOK
  <2>2. r.st = (IF opens THEN "OPEN" ELSE row.st) /\ r.ai = row.ai
    BY <1>1, <2>1 DEF CvRowType
  <2>3. r.st # "NONE"
    BY <2>1, <2>2
  <2> HIDE DEF r, t, opens
  <2> QED BY <2>1, <2>2, <2>3, CvWritesForced DEF CvKeepsRow
<1>9. CASE CvSend(p) /\ ~CvReturn(p)
  <2> DEFINE owner == IF seen.who = cvCall[p].user THEN row.who ELSE cvCall[p].user
  <2>1. PICK pauses \in (IF seen.ai = "null" THEN BOOLEAN ELSE {FALSE}) :
          CvWrite(p, c, [row EXCEPT !.who = owner, !.ai = IF pauses THEN "off" ELSE @,
                                    !.pinned = @ /\ ~pauses], cvTold[c], {})
    BY <1>9 DEF CvSend
  <2> DEFINE r == [row EXCEPT !.who = owner, !.ai = IF pauses THEN "off" ELSE @,
                              !.pinned = @ /\ ~pauses]
  <2>2. c \in CvConvs /\ row.st # "NONE" /\ CvWrite(p, c, r, cvTold[c], {})
    BY <1>1, <1>9, <2>1 DEF CvSend, CvAt, CvCallOK
  <2>3. r.st = row.st /\ r.ai = (IF pauses THEN "off" ELSE row.ai)
    BY <1>1, <2>2 DEF CvRowType
  <2>4. r.ai = "off" /\ row.ai = "on" => seen.ai = "null"
    BY <2>1, <2>3
  <2> HIDE DEF r
  <2> QED BY <2>2, <2>3, <2>4, CvWritesForced DEF CvKeepsRow
<1> QED BY <1>2, <1>3, <1>4, <1>5, <1>6, <1>7, <1>8, <1>9 DEF CvCallerStep

LEMMA CvForcedStep ==
  ASSUME CvInv, CvBlankRows, CvNext PROVE CvBlankRows' /\ CvForcedOnSurvives
<1>1. /\ \A c \in CvConvs : cvRow[c] \in CvRowType /\ cvRow \in [CvConvs -> CvRowType]
      /\ cvMade \in Nat
  BY DEF CvInv, CvTypeOK
<1>2. ASSUME NEW c \in CvConvs, CvAge(c) PROVE CvBlankRows' /\ CvForcedOnSurvives
  <2>1. \A d \in CvConvs : cvRow'[d].st = cvRow[d].st /\ cvRow'[d].ai = cvRow[d].ai
    BY <1>1, <1>2 DEF CvAge, CvRowType
  <2> QED BY <2>1 DEF CvBlankRows, CvForcedOnSurvives
<1>3. ASSUME NEW c \in CvConvs, NEW ai, NEW pinned, CvSwitch(c, ai, pinned)
      PROVE  CvBlankRows' /\ CvForcedOnSurvives
  <2>1. cvRow[c].st # "NONE" /\ cvMade' > cvMade
    BY <1>1, <1>3 DEF CvSwitch, CvCount
  <2>2. \A d \in CvConvs : cvRow'[d].st = cvRow[d].st /\ (d # c => cvRow'[d] = cvRow[d])
    BY <1>1, <1>3 DEF CvSwitch, CvRowType
  <2> QED BY <2>1, <2>2 DEF CvBlankRows, CvForcedOnSurvives
<1>4. ASSUME NEW c \in CvConvs, CvHardDelete(c) PROVE CvBlankRows' /\ CvForcedOnSurvives
  <2>1. \A d \in CvConvs : cvRow'[d] = IF d = c THEN CvNoRow ELSE cvRow[d]
    BY <1>1, <1>4 DEF CvHardDelete
  <2> QED BY <2>1 DEF CvBlankRows, CvForcedOnSurvives, CvNoRow
<1>5. ASSUME NEW p \in CvCallers, NEW k, CvBegin(p, k) PROVE CvBlankRows' /\ CvForcedOnSurvives
  BY <1>5, CvRowsRest DEF CvBegin
<1>6. CASE CvExpireLock
  BY <1>6, CvRowsRest DEF CvExpireLock
<1> QED
  BY <1>2, <1>3, <1>4, <1>5, <1>6, CvCallerForced DEF CvNext, CvImport, CvResolve, CvAskReopen,
     CvAskStatus, CvAskAssign, CvAskSend, CvToggleAi, CvSetActiveAgent

\* An agent that a human forced on stays on, for any calls that overlap, until a human changes
\* it or a reply lands that had read the conversation before.
THEOREM CvForcedOnSurvivesCorrect == CvSpec => [][CvForcedOnSurvives]_cvVars
<1>1. CvInit => CvBlankRows
  BY DEF CvInit, CvBlankRows, CvNoRow
<1>2. CvInv /\ CvBlankRows /\ [CvNext]_cvVars => CvBlankRows' /\ [CvForcedOnSurvives]_cvVars
  <2>1. ASSUME CvBlankRows, UNCHANGED cvVars PROVE CvBlankRows'
    BY <2>1 DEF cvVars, CvBlankRows
  <2> QED BY <2>1, CvForcedStep
<1> QED BY <1>1, <1>2, CvInvCorrect, PTL DEF CvSpec

-----------------------------------------------------------------------------
(* The board: any cards, stages, boards and requests *)

KbIdles == [op : {"idle"}, stale : BOOLEAN]
KbCreates == [op : {"create"}, stale : BOOLEAN, stage : KbStages, linked : BOOLEAN, order : Nat]
KbMoves ==
  [op : {"move"}, stale : BOOLEAN, card : KbCards, from : KbStages, at : Nat, to : KbStages,
   index : Nat, type : KbTypes]

KbTypeInv ==
  /\ KbTypeOK
  /\ kbCard \in [KbCards -> KbCardRecord \union {KbNoCard}]
  /\ kbCall \in [KbCallers -> KbIdles \union KbCreates \union KbMoves]

\* The positions on the board are bounded: a column has a last card.
KbBounded == \E n \in Nat : \A c \in KbCards : kbCard[c] # KbNoCard => kbCard[c].order <= n

\* A call that nobody overtook has read what is there.
KbCreateFresh(p) ==
  /\ \A c \in KbIn(kbCall[p].stage) : kbCard[c].order < kbCall[p].order
  /\ kbCall[p].linked => KbLinked = {}

KbMoveFresh(p) ==
  /\ kbCard[kbCall[p].card] # KbNoCard
  /\ kbCard[kbCall[p].card].stage = kbCall[p].from
  /\ kbCard[kbCall[p].card].order = kbCall[p].at

KbFresh ==
  \A p \in KbCallers : ~kbCall[p].stale =>
    /\ kbCall[p].op = "create" => KbCreateFresh(p)
    /\ kbCall[p].op = "move" => KbMoveFresh(p)

\* The type a call has read is the one of the stage, unless the stage got another.
KbReadTypes ==
  \A p \in KbCallers : kbCall[p].op = "move" /\ kbCall[p].to \notin kbRetyped =>
    kbType[kbCall[p].to] = kbCall[p].type

\* Two linked cards need a race or updateCard.
KbLinkedOnce == kbRaced \/ kbRelinked \/ \A c, d \in KbLinked : c = d

KbInv ==
  /\ KbTypeInv /\ KbBounded /\ KbFresh /\ KbReadTypes /\ KbLinkedOnce
  /\ KbTieNeedsRace /\ KbStatusFollowsStage /\ KbStageIsThere

-----------------------------------------------------------------------------
\* A present card is a record.
LEMMA KbPresent ==
  ASSUME KbTypeInv, NEW c \in KbCards, kbCard[c] # KbNoCard
  PROVE  kbCard[c] \in KbCardRecord
BY DEF KbTypeInv, KbTypeOK

LEMMA KbNoCardIsNone == KbNoCard \notin KbCardRecord
<1>1. DOMAIN KbNoCard = {"stage"}
  BY DEF KbNoCard
<1>2. \A r \in KbCardRecord : "order" \in DOMAIN r
  BY DEF KbCardRecord
<1> QED BY <1>1, <1>2

\* After a write nobody's reading is fresh.
LEMMA KbStaled ==
  ASSUME KbTypeInv, NEW p \in KbCallers, kbStale(p)
  PROVE  /\ kbCall' \in [KbCallers -> KbIdles \union KbCreates \union KbMoves]
         /\ \A x \in KbCallers :
              kbCall'[x].op # "idle" =>
                /\ kbCall'[x].stale = TRUE /\ kbCall'[x].op = kbCall[x].op
                /\ kbCall'[x].op = "move" =>
                     kbCall'[x].to = kbCall[x].to /\ kbCall'[x].type = kbCall[x].type
         /\ kbRaced' = (kbRaced \/ kbCall[p].stale)
<1>1. ASSUME NEW x \in KbCallers
      PROVE  /\ kbCall'[x] \in KbIdles \union KbCreates \union KbMoves
             /\ kbCall'[x].op # "idle" =>
                  /\ kbCall'[x].stale = TRUE /\ kbCall'[x].op = kbCall[x].op
                  /\ kbCall'[x].op = "move" =>
                       kbCall'[x].to = kbCall[x].to /\ kbCall'[x].type = kbCall[x].type
  <2>1. CASE x = p \/ kbCall[x] \in KbIdles
    <3>1. x = p => kbCall'[x] = KbIdle
      BY DEF kbStale
    <3> DEFINE b == kbCall[x].op # "idle"
    <3>2. x # p => kbCall'[x] = [kbCall[x] EXCEPT !.stale = b]
      BY DEF kbStale
    <3>3. kbCall[x] \in KbIdles => b = FALSE
      BY DEF KbIdles
    <3> HIDE DEF b
    <3>4. kbCall'[x] \in KbIdles
      <4>1. CASE x = p
        <5>1. KbIdle \in KbIdles
          BY DEF KbIdles, KbIdle
        <5> QED BY <3>1, <4>1, <5>1
      <4>2. CASE x # p
        <5>1. kbCall'[x] = [kbCall[x] EXCEPT !.stale = FALSE] /\ kbCall[x] \in KbIdles
          BY <2>1, <3>2, <3>3, <4>2
        <5> QED BY <5>1 DEF KbIdles
      <4> QED BY <4>1, <4>2
    <3> QED BY <3>4 DEF KbIdles
  <2>2. CASE x # p /\ kbCall[x] \in KbCreates \union KbMoves
    <3>1. kbCall[x].op # "idle"
      BY <2>2 DEF KbCreates, KbMoves
    <3>2. kbCall'[x] = [kbCall[x] EXCEPT !.stale = TRUE]
      BY <2>2, <3>1 DEF kbStale
    <3> QED BY <2>2, <3>2 DEF KbCreates, KbMoves
  <2> QED BY <2>1, <2>2 DEF KbTypeInv
<1>2. kbCall' = [x \in KbCallers |-> kbCall'[x]]
  BY DEF kbStale
<1>3. kbCall' \in [KbCallers -> KbIdles \union KbCreates \union KbMoves]
  BY <1>1, <1>2
<1> QED BY <1>1, <1>3 DEF kbStale

\* The column's next position is past every card of it.
LEMMA KbNextOrder ==
  ASSUME KbTypeInv, KbBounded, NEW s \in KbStages, KbIn(s) # {}
  PROVE  LET top == Max({kbCard[c].order : c \in KbIn(s)})
         IN  top \in Nat /\ \A c \in KbIn(s) : kbCard[c].order <= top
<1> DEFINE S == {kbCard[c].order : c \in KbIn(s)}
<1>1. PICK n \in Nat : \A c \in KbCards : kbCard[c] # KbNoCard => kbCard[c].order <= n
  BY DEF KbBounded
<1>2. \A c \in KbIn(s) : c \in KbCards /\ kbCard[c] # KbNoCard /\ kbCard[c].order \in Nat
  BY KbPresent DEF KbIn, KbCardRecord
<1>3. S \subseteq Nat /\ S # {} /\ \A x \in S : x <= n
  BY <1>1, <1>2
<1>4. Max(S) \in S /\ \A x \in S : x <= Max(S)
  BY <1>3, MaxBounded
<1> QED BY <1>3, <1>4

LEMMA KbCreateReadStep ==
  ASSUME KbInv, NEW p \in KbCallers, KbCreateRead(p) PROVE KbInv'
<1>1. PICK s \in KbStages, linked \in BOOLEAN :
       /\ kbType[s] # "GONE"
       /\ linked => KbLinked = {}
       /\ kbCall' = [kbCall EXCEPT ![p] =
            [op |-> "create", stale |-> FALSE, stage |-> s, linked |-> linked,
             order |-> IF KbIn(s) = {} THEN 0 ELSE Max({kbCard[c].order : c \in KbIn(s)}) + 1]]
  BY DEF KbCreateRead
<1> DEFINE o == IF KbIn(s) = {} THEN 0 ELSE Max({kbCard[c].order : c \in KbIn(s)}) + 1
<1>2. o \in Nat /\ \A c \in KbIn(s) : kbCard[c].order < o
  <2>1. CASE KbIn(s) = {}
    BY <2>1
  <2>2. CASE KbIn(s) # {}
    <3>1. \A c \in KbIn(s) : kbCard[c].order \in Nat
      BY KbPresent DEF KbInv, KbIn, KbCardRecord
    <3> QED BY <2>2, <3>1, KbNextOrder DEF KbInv
  <2> QED BY <2>1, <2>2
<1> DEFINE new == [op |-> "create", stale |-> FALSE, stage |-> s, linked |-> linked, order |-> o]
<1>3. kbCall' = [kbCall EXCEPT ![p] = new]
  BY <1>1
<1> HIDE DEF o
<1>4. new \in KbCreates
  BY <1>2 DEF KbCreates
<1>5. /\ UNCHANGED <<kbType, kbCard, kbRetyped, kbRelinked, kbRaced>> /\ kbCalls' = kbCalls + 1
      /\ kbCalls < KbMaxCalls
  BY DEF KbCreateRead, kbStart
<1>6. /\ kbCall' \in [KbCallers -> KbIdles \union KbCreates \union KbMoves]
      /\ kbCall'[p] = new /\ \A x \in KbCallers \ {p} : kbCall'[x] = kbCall[x]
  BY <1>3, <1>4 DEF KbInv, KbTypeInv
<1>7. KbTypeInv'
  <2>1. \A x \in KbCallers : kbCall'[x].op \in {"idle", "create", "move"}
    BY <1>6 DEF KbIdles, KbCreates, KbMoves
  <2> QED BY <1>5, <1>6, <2>1, KbAssumption DEF KbInv, KbTypeInv, KbTypeOK
<1>8. KbFresh'
  <2>1. ASSUME NEW x \in KbCallers, ~kbCall'[x].stale
        PROVE  /\ kbCall'[x].op = "create" => KbCreateFresh(x)'
               /\ kbCall'[x].op = "move" => KbMoveFresh(x)'
    <3>1. CASE x = p
      BY <1>1, <1>2, <1>5, <1>6, <3>1 DEF KbCreateFresh, KbIn, KbLinked
    <3>2. CASE x # p
      BY <1>5, <1>6, <2>1, <3>2 DEF KbInv, KbFresh, KbCreateFresh, KbMoveFresh, KbIn, KbLinked
    <3> QED BY <3>1, <3>2
  <2> QED BY <2>1 DEF KbFresh
<1>9. KbReadTypes'
  BY <1>5, <1>6 DEF KbInv, KbReadTypes
<1> QED BY <1>5, <1>7, <1>8, <1>9
        DEF KbInv, KbBounded, KbLinkedOnce, KbTieNeedsRace, KbNoTies, KbStatusFollowsStage,
            KbStageIsThere, KbIn, KbLinked

LEMMA KbMoveReadStep ==
  ASSUME KbInv, NEW p \in KbCallers, NEW c \in KbCards, KbMoveRead(p, c) PROVE KbInv'
<1>1. PICK s \in KbStages, i \in 0..KbMaxOrder :
       /\ kbType[s] # "GONE"
       /\ kbCall' = [kbCall EXCEPT ![p] =
            [op |-> "move", stale |-> FALSE, card |-> c, from |-> kbCard[c].stage,
             at |-> kbCard[c].order, to |-> s, index |-> i, type |-> kbType[s]]]
  BY DEF KbMoveRead
<1> DEFINE new == [op |-> "move", stale |-> FALSE, card |-> c, from |-> kbCard[c].stage,
                   at |-> kbCard[c].order, to |-> s, index |-> i, type |-> kbType[s]]
<1>2. /\ UNCHANGED <<kbType, kbCard, kbRetyped, kbRelinked, kbRaced>> /\ kbCalls' = kbCalls + 1
      /\ kbCalls < KbMaxCalls /\ kbCard[c] # KbNoCard
  BY DEF KbMoveRead, kbStart
<1>3. new \in KbMoves
  <2>1. kbCard[c].stage \in KbStages /\ kbCard[c].order \in Nat
    BY <1>2, KbPresent DEF KbInv, KbCardRecord
  <2>2. kbType[s] \in KbTypes
    BY <1>1 DEF KbInv, KbTypeInv, KbTypeOK
  <2> QED BY <2>1, <2>2, KbAssumption DEF KbMoves
<1>4. /\ kbCall' \in [KbCallers -> KbIdles \union KbCreates \union KbMoves]
      /\ kbCall'[p] = new /\ \A x \in KbCallers \ {p} : kbCall'[x] = kbCall[x]
  BY <1>1, <1>3 DEF KbInv, KbTypeInv
<1>5. KbTypeInv'
  <2>1. \A x \in KbCallers : kbCall'[x].op \in {"idle", "create", "move"}
    BY <1>4 DEF KbIdles, KbCreates, KbMoves
  <2> QED BY <1>2, <1>4, <2>1, KbAssumption DEF KbInv, KbTypeInv, KbTypeOK
<1>6. KbFresh'
  <2>1. ASSUME NEW x \in KbCallers, ~kbCall'[x].stale
        PROVE  /\ kbCall'[x].op = "create" => KbCreateFresh(x)'
               /\ kbCall'[x].op = "move" => KbMoveFresh(x)'
    <3>1. CASE x = p
      BY <1>2, <1>4, <3>1 DEF KbMoveFresh
    <3>2. CASE x # p
      BY <1>2, <1>4, <2>1, <3>2 DEF KbInv, KbFresh, KbCreateFresh, KbMoveFresh, KbIn, KbLinked
    <3> QED BY <3>1, <3>2
  <2> QED BY <2>1 DEF KbFresh
<1>7. KbReadTypes'
  BY <1>2, <1>4 DEF KbInv, KbReadTypes
<1> QED BY <1>2, <1>5, <1>6, <1>7
        DEF KbInv, KbBounded, KbLinkedOnce, KbTieNeedsRace, KbNoTies, KbStatusFollowsStage,
            KbStageIsThere, KbIn, KbLinked

\* A write makes every reading stale: what is left to show is the board.
LEMMA KbWriteStep ==
  ASSUME KbInv, NEW p \in KbCallers, kbStale(p), kbCalls' \in 0..KbMaxCalls,
         kbType' \in [KbStages -> KbTypes \union {"GONE"}],
         kbCard' \in [KbCards -> KbCardRecord \union {KbNoCard}],
         kbRetyped' \subseteq KbStages, kbRelinked' \in BOOLEAN, kbRetyped \subseteq kbRetyped',
         \A s \in KbStages \ kbRetyped' : kbType'[s] = kbType[s],
         KbBounded', KbLinkedOnce', KbTieNeedsRace', KbStatusFollowsStage', KbStageIsThere'
  PROVE  KbInv'
<1>1. /\ kbCall' \in [KbCallers -> KbIdles \union KbCreates \union KbMoves]
      /\ \A x \in KbCallers :
           kbCall'[x].op # "idle" =>
             /\ kbCall'[x].stale = TRUE /\ kbCall'[x].op = kbCall[x].op
             /\ kbCall'[x].op = "move" =>
                  kbCall'[x].to = kbCall[x].to /\ kbCall'[x].type = kbCall[x].type
      /\ kbRaced' = (kbRaced \/ kbCall[p].stale)
  BY KbStaled DEF KbInv
<1>2. KbTypeInv'
  <2>1. \A x \in KbCallers : kbCall'[x].op \in {"idle", "create", "move"}
    BY <1>1 DEF KbIdles, KbCreates, KbMoves
  <2>2. kbRaced' \in BOOLEAN
    BY <1>1
  <2> QED BY <1>1, <2>1, <2>2 DEF KbTypeInv, KbTypeOK
<1>3. KbFresh'
  BY <1>1 DEF KbFresh
<1>4. KbReadTypes'
  BY <1>1 DEF KbInv, KbReadTypes, KbTypeInv, KbMoves, KbCreates, KbIdles
<1> QED BY <1>2, <1>3, <1>4 DEF KbInv

\* The card createCard writes.
LEMMA KbCreateWriteStep ==
  ASSUME KbInv, NEW p \in KbCallers, KbCreateWrite(p) PROVE KbInv'
<1> DEFINE m == kbCall[p]
<1>1. /\ m \in KbCreates /\ kbStale(p) /\ UNCHANGED <<kbType, kbCalls, kbRetyped, kbRelinked>>
      /\ kbRaced' = (kbRaced \/ m.stale)
  BY DEF KbCreateWrite, KbInv, KbTypeInv, KbIdles, KbMoves, kbStale
<1>2. CASE UNCHANGED kbCard
  BY <1>1, <1>2, KbWriteStep
  DEF KbInv, KbTypeInv, KbTypeOK, KbBounded, KbLinkedOnce, KbTieNeedsRace, KbNoTies, KbStatusFollowsStage,
      KbStageIsThere, KbIn, KbLinked
<1>3. ASSUME NEW c \in KbCards, kbType[m.stage] # "GONE", kbCard[c] = KbNoCard,
             kbCard' = [kbCard EXCEPT ![c] =
                 [stage |-> m.stage, order |-> m.order, status |-> "OPEN",
                  closed |-> FALSE, linked |-> m.linked, moved |-> FALSE]]
      PROVE  KbInv'
  <2> DEFINE new == [stage |-> m.stage, order |-> m.order, status |-> "OPEN",
                     closed |-> FALSE, linked |-> m.linked, moved |-> FALSE]
  <2>1. /\ m.stage \in KbStages /\ m.order \in Nat /\ m.linked \in BOOLEAN /\ m.stale \in BOOLEAN
        /\ m.op = "create"
    BY <1>1 DEF KbCreates
  <2>2. /\ new \in KbCardRecord /\ new # KbNoCard
        /\ new.stage = m.stage /\ new.order = m.order /\ new.linked = m.linked /\ new.moved = FALSE
    <3>1. new \in KbCardRecord
      BY <2>1 DEF KbCardRecord, KbStatus
    <3> QED BY <3>1, KbNoCardIsNone
  <2> HIDE DEF new
  <2>3. /\ kbCard' \in [KbCards -> KbCardRecord \union {KbNoCard}]
        /\ kbCard'[c] = new /\ \A x \in KbCards \ {c} : kbCard'[x] = kbCard[x]
    BY <1>3, <2>2 DEF new, KbInv, KbTypeInv
  <2>4. \A x \in KbCards : kbCard[x] # KbNoCard => kbCard[x].order \in Nat
    BY KbPresent DEF KbInv, KbCardRecord
  <2>5. KbBounded'
    <3>1. PICK n \in Nat : \A x \in KbCards : kbCard[x] # KbNoCard => kbCard[x].order <= n
      BY DEF KbInv, KbBounded
    <3>2. \A x \in KbCards : kbCard'[x] # KbNoCard => kbCard'[x].order <= n + m.order
      BY <2>1, <2>2, <2>3, <2>4, <3>1
    <3> QED BY <2>1, <3>1, <3>2 DEF KbBounded
  <2>6. ~kbRaced' => KbCreateFresh(p)
    BY <1>1, <2>1 DEF KbInv, KbFresh
  <2>7. KbTieNeedsRace'
    <3> SUFFICES ASSUME ~kbRaced' PROVE KbNoTies'
      BY DEF KbTieNeedsRace
    <3>1. KbNoTies /\ KbCreateFresh(p)
      BY <1>1, <2>6 DEF KbInv, KbTieNeedsRace
    <3>2. \A x \in KbIn(m.stage) : kbCard[x].order # m.order
      BY <2>1, <2>4, <3>1 DEF KbCreateFresh, KbIn
    <3>3. ASSUME NEW s \in KbStages, NEW x \in KbIn(s)', NEW y \in KbIn(s)', x # y
          PROVE  kbCard'[x].order # kbCard'[y].order
      BY <2>2, <2>3, <3>1, <3>2, <3>3 DEF KbNoTies, KbIn
    <3> QED BY <3>3 DEF KbNoTies
  <2>8. KbLinkedOnce'
    <3> SUFFICES ASSUME ~kbRaced', ~kbRelinked' PROVE \A x, y \in KbLinked' : x = y
      BY DEF KbLinkedOnce
    <3>1. (\A x, y \in KbLinked : x = y) /\ (m.linked => KbLinked = {})
      BY <1>1, <2>6 DEF KbInv, KbLinkedOnce, KbCreateFresh
    <3> QED BY <2>2, <2>3, <3>1 DEF KbLinked
  <2>9. KbStatusFollowsStage'
    BY <1>1, <2>2, <2>3 DEF KbInv, KbStatusFollowsStage
  <2>10. KbStageIsThere'
    BY <1>1, <1>3, <2>2, <2>3 DEF KbInv, KbStageIsThere, KbIn
  <2> QED BY <1>1, <2>3, <2>5, <2>7, <2>8, <2>9, <2>10, KbWriteStep DEF KbInv, KbTypeInv, KbTypeOK
<1> QED BY <1>2, <1>3 DEF KbCreateWrite

LEMMA KbLinkStep ==
  ASSUME KbInv, NEW p \in KbCallers, NEW c \in KbCards, KbLink(p, c) PROVE KbInv'
<1>1. PICK linked \in BOOLEAN :
        /\ kbCard' = [kbCard EXCEPT ![c].linked = linked]
        /\ kbRelinked' = (kbRelinked \/ linked)
  BY DEF KbLink
<1>2. /\ kbStale(p) /\ UNCHANGED <<kbType, kbRetyped>> /\ kbCard[c] # KbNoCard
      /\ kbCalls' \in 0..KbMaxCalls
  BY KbAssumption DEF KbLink, kbStart, KbInv, KbTypeInv, KbTypeOK
<1>3. kbCard[c] \in KbCardRecord
  BY <1>2, KbPresent DEF KbInv
<1>4. /\ kbCard'[c] \in KbCardRecord /\ kbCard'[c].linked = linked
      /\ kbCard'[c].stage = kbCard[c].stage /\ kbCard'[c].order = kbCard[c].order
      /\ kbCard'[c].status = kbCard[c].status /\ kbCard'[c].moved = kbCard[c].moved
      /\ kbCard'[c].closed = kbCard[c].closed
      /\ \A x \in KbCards \ {c} : kbCard'[x] = kbCard[x]
      /\ kbCard' \in [KbCards -> KbCardRecord \union {KbNoCard}]
  BY <1>1, <1>3 DEF KbInv, KbTypeInv, KbCardRecord
<1>5. kbCard'[c] # KbNoCard /\ \A s : KbIn(s)' = KbIn(s)
  BY <1>2, <1>4, KbNoCardIsNone DEF KbIn
<1>6. KbBounded'
  <2>1. PICK n \in Nat : \A x \in KbCards : kbCard[x] # KbNoCard => kbCard[x].order <= n
    BY DEF KbInv, KbBounded
  <2>2. \A x \in KbCards : kbCard'[x] # KbNoCard => kbCard'[x].order <= n
    BY <1>2, <1>4, <2>1
  <2> QED BY <2>2 DEF KbBounded
<1>10. kbRaced => kbRaced'
  BY <1>2 DEF kbStale
<1>7. KbTieNeedsRace'
  <2>1. \A x \in KbCards : kbCard'[x].order = kbCard[x].order
    BY <1>4
  <2>2. \A s : KbIn(s) \subseteq KbCards
    BY DEF KbIn
  <2> QED BY <1>5, <1>10, <2>1, <2>2 DEF KbInv, KbTieNeedsRace, KbNoTies
<1>8. KbLinkedOnce'
  <2> SUFFICES ASSUME ~kbRaced', ~kbRelinked' PROVE \A x, y \in KbLinked' : x = y
    BY DEF KbLinkedOnce
  <2>1. ~kbRaced /\ ~kbRelinked /\ ~linked
    BY <1>1, <1>10
  <2>2. KbLinked' \subseteq KbLinked
    BY <1>4, <2>1 DEF KbLinked
  <2> QED BY <2>1, <2>2 DEF KbInv, KbLinkedOnce
<1>9. KbStatusFollowsStage' /\ KbStageIsThere'
  BY <1>2, <1>4, <1>5 DEF KbInv, KbStatusFollowsStage, KbStageIsThere
<1> QED BY <1>1, <1>2, <1>4, <1>6, <1>7, <1>8, <1>9, KbWriteStep DEF KbInv, KbTypeInv, KbTypeOK

LEMMA KbRemoveStep ==
  ASSUME KbInv, NEW p \in KbCallers, NEW c \in KbCards, KbRemove(p, c) PROVE KbInv'
<1>1. /\ kbStale(p) /\ UNCHANGED <<kbType, kbRetyped, kbRelinked>>
      /\ kbCalls' \in 0..KbMaxCalls /\ kbCard' = [kbCard EXCEPT ![c] = KbNoCard]
      /\ kbRaced' = (kbRaced \/ kbCall[p].stale)
  BY KbAssumption DEF KbRemove, kbStart, kbStale, KbInv, KbTypeInv, KbTypeOK
<1>2. /\ kbCard'[c] = KbNoCard /\ \A x \in KbCards \ {c} : kbCard'[x] = kbCard[x]
      /\ kbCard' \in [KbCards -> KbCardRecord \union {KbNoCard}]
  BY <1>1 DEF KbInv, KbTypeInv
<1>3. KbBounded'
  <2>1. PICK n \in Nat : \A x \in KbCards : kbCard[x] # KbNoCard => kbCard[x].order <= n
    BY DEF KbInv, KbBounded
  <2>2. \A x \in KbCards : kbCard'[x] # KbNoCard => kbCard'[x].order <= n
    BY <1>2, <2>1
  <2> QED BY <2>2 DEF KbBounded
<1>6. kbRaced => kbRaced'
  BY <1>1
<1>4. KbTieNeedsRace' /\ KbLinkedOnce'
  <2>1. KbLinked' \subseteq KbLinked
    BY <1>2 DEF KbLinked
  <2>2. \A s : /\ KbIn(s)' \subseteq KbIn(s)
               /\ \A x \in KbIn(s)' : kbCard'[x] = kbCard[x]
    BY <1>2 DEF KbIn
  <2>3. KbLinkedOnce'
    BY <1>1, <1>6, <2>1 DEF KbInv, KbLinkedOnce
  <2>4. KbTieNeedsRace'
    BY <1>6, <2>2 DEF KbInv, KbTieNeedsRace, KbNoTies
  <2> QED BY <2>3, <2>4
<1>5. KbStatusFollowsStage' /\ KbStageIsThere'
  BY <1>1, <1>2 DEF KbInv, KbStatusFollowsStage, KbStageIsThere, KbIn
<1> QED BY <1>1, <1>2, <1>3, <1>4, <1>5, KbWriteStep DEF KbInv, KbTypeInv, KbTypeOK

LEMMA KbUpsertStep ==
  ASSUME KbInv, NEW p \in KbCallers, KbUpsert(p) PROVE KbInv'
<1>1. PICK types \in [KbStages -> KbTypes \union {"GONE"}] :
       /\ \A s \in KbStages : kbType[s] = "GONE" => types[s] = "GONE"
       /\ \A s \in KbStages : types[s] = "GONE" => KbIn(s) = {}
       /\ kbType' = types
       /\ kbRetyped' = kbRetyped \union {s \in KbStages : types[s] # kbType[s]}
  BY DEF KbUpsert
<1>2. /\ kbStale(p) /\ UNCHANGED <<kbCard, kbRelinked>> /\ kbCalls' \in 0..KbMaxCalls
      /\ kbRaced' = (kbRaced \/ kbCall[p].stale)
  BY KbAssumption DEF KbUpsert, kbStart, kbStale, KbInv, KbTypeInv, KbTypeOK
<1>3. KbBounded' /\ KbTieNeedsRace' /\ KbLinkedOnce'
  BY <1>2 DEF KbInv, KbBounded, KbTieNeedsRace, KbNoTies, KbIn, KbLinkedOnce, KbLinked
<1>4. KbStatusFollowsStage'
  <2>1. \A c \in KbCards : kbCard[c] # KbNoCard => kbCard[c].stage \in KbStages
    BY KbPresent DEF KbInv, KbCardRecord
  <2> QED BY <1>1, <1>2, <2>1 DEF KbInv, KbStatusFollowsStage
<1>5. KbStageIsThere'
  BY <1>1, <1>2 DEF KbStageIsThere, KbIn
<1> QED BY <1>1, <1>2, <1>3, <1>4, <1>5, KbWriteStep DEF KbInv, KbTypeInv, KbTypeOK

\* The drop moves the cards of the two columns apart.
LEMMA KbShiftedApart ==
  ASSUME NEW m \in KbMoves, NEW s \in KbStages, NEW a \in Nat, NEW b \in Nat, a # b,
         s = m.from => a # m.at /\ b # m.at
  PROVE  /\ KbShifted(m, s, a) \in Nat
         /\ KbShifted(m, s, a) <= a + 1
         /\ KbShifted(m, s, a) # KbShifted(m, s, b)
         /\ s = m.to /\ ~(m.from = m.to /\ m.at = m.index) => KbShifted(m, s, a) # m.index
BY DEF KbShifted, KbMoves

LEMMA KbShiftedNat ==
  ASSUME NEW m \in KbMoves, NEW s \in KbStages, NEW a \in Nat
  PROVE  KbShifted(m, s, a) \in Nat /\ KbShifted(m, s, a) <= a + 1
BY DEF KbShifted, KbMoves

LEMMA KbMoveWriteStep ==
  ASSUME KbInv, NEW p \in KbCallers, KbMoveWrite(p) PROVE KbInv'
<1> DEFINE m == kbCall[p]
           c == m.card
           kept == kbCard[c] = KbNoCard \/ kbType[m.to] = "GONE" \/ (m.from = m.to /\ m.at = m.index)
<1>1. /\ m \in KbMoves /\ kbStale(p) /\ UNCHANGED <<kbType, kbCalls, kbRetyped, kbRelinked>>
      /\ kbRaced' = (kbRaced \/ m.stale)
  BY DEF KbMoveWrite, KbInv, KbTypeInv, KbIdles, KbCreates, kbStale
<1>2. CASE UNCHANGED kbCard
  BY <1>1, <1>2, KbWriteStep
  DEF KbInv, KbTypeInv, KbTypeOK, KbBounded, KbLinkedOnce, KbTieNeedsRace, KbNoTies, KbStatusFollowsStage,
      KbStageIsThere, KbIn, KbLinked
<1>3. CASE ~kept /\ kbCard' = [x \in KbCards |->
               CASE kbCard[x] = KbNoCard -> KbNoCard
                 [] x = c ->
                      [kbCard[c] EXCEPT !.stage = m.to, !.order = m.index, !.moved = TRUE,
                         !.status = KbStatusIn(m.type, @), !.closed = m.type # "NORMAL"]
                 [] OTHER ->
                      [kbCard[x] EXCEPT !.order = KbShifted(m, kbCard[x].stage, @)]]
  <2> DEFINE status == KbStatusIn(m.type, kbCard[c].status)
             closed == m.type # "NORMAL"
             shifted(x) == KbShifted(m, kbCard[x].stage, kbCard[x].order)
  <2>1. /\ c \in KbCards /\ m.to \in KbStages /\ m.from \in KbStages /\ m.index \in Nat /\ m.at \in Nat
        /\ m.type \in KbTypes /\ m.stale \in BOOLEAN /\ m.op = "move"
    BY <1>1 DEF KbMoves
  <2>2. /\ status \in KbStatus /\ closed \in BOOLEAN
        /\ status = KbStatusIn(m.type, "OPEN") /\ closed = (status # "OPEN")
    BY <2>1 DEF KbStatusIn, KbStatus, KbTypes
  <2>3. kbCard[c] \in KbCardRecord
    BY <1>3, <2>1, KbPresent DEF KbInv
  <2>4. \A x \in KbCards \ {c} : kbCard[x] = KbNoCard => kbCard'[x] = KbNoCard
    BY <1>3
  <2>5. kbCard'[c] = [kbCard[c] EXCEPT !.stage = m.to, !.order = m.index, !.moved = TRUE,
                        !.status = status, !.closed = closed]
    BY <1>3, <2>1
  <2> HIDE DEF status, closed
  <2>6. /\ kbCard'[c] \in KbCardRecord /\ kbCard'[c].stage = m.to /\ kbCard'[c].order = m.index
        /\ kbCard'[c].status = status /\ kbCard'[c].closed = closed /\ kbCard'[c].moved = TRUE
        /\ kbCard'[c].linked = kbCard[c].linked
    BY <2>1, <2>2, <2>3, <2>5 DEF KbCardRecord
  <2>7. ASSUME NEW x \in KbCards \ {c}, kbCard[x] # KbNoCard
        PROVE  /\ kbCard'[x] \in KbCardRecord /\ kbCard'[x].order = shifted(x)
               /\ kbCard'[x].stage = kbCard[x].stage /\ kbCard'[x].status = kbCard[x].status
               /\ kbCard'[x].closed = kbCard[x].closed /\ kbCard'[x].moved = kbCard[x].moved
               /\ kbCard'[x].linked = kbCard[x].linked
               /\ kbCard[x].order \in Nat /\ shifted(x) <= kbCard[x].order + 1
    <3>1. kbCard[x] \in KbCardRecord
      BY <2>7, KbPresent DEF KbInv
    <3>2. shifted(x) \in Nat /\ shifted(x) <= kbCard[x].order + 1
      BY <1>1, <3>1, KbShiftedNat DEF KbCardRecord
    <3>3. kbCard'[x] = [kbCard[x] EXCEPT !.order = shifted(x)]
      BY <1>3, <2>7
    <3> HIDE DEF shifted
    <3> QED BY <3>1, <3>2, <3>3 DEF KbCardRecord
  <2>8. /\ kbCard' \in [KbCards -> KbCardRecord \union {KbNoCard}]
        /\ \A x \in KbCards : kbCard'[x] = KbNoCard <=> kbCard[x] = KbNoCard
    <3>1. \A x \in KbCards : kbCard'[x] \in KbCardRecord \union {KbNoCard}
      BY <2>4, <2>6, <2>7
    <3>2. kbCard' = [x \in KbCards |-> kbCard'[x]]
      BY <1>3
    <3>3. kbCard' \in [KbCards -> KbCardRecord \union {KbNoCard}]
      BY <3>1, <3>2
    <3>4. kbCard'[c] # KbNoCard /\ kbCard[c] # KbNoCard
      BY <1>3, <2>6, KbNoCardIsNone
    <3>5. ASSUME NEW x \in KbCards \ {c} PROVE kbCard'[x] = KbNoCard <=> kbCard[x] = KbNoCard
      BY <2>4, <2>7, KbNoCardIsNone
    <3> QED BY <3>3, <3>4, <3>5
  <2> HIDE DEF shifted
  <2>9. KbBounded'
    <3>1. PICK n \in Nat : \A x \in KbCards : kbCard[x] # KbNoCard => kbCard[x].order <= n
      BY DEF KbInv, KbBounded
    <3>2. n + 1 + m.index \in Nat
      BY <2>1
    <3>3. \A x \in KbCards : kbCard'[x] # KbNoCard => kbCard'[x].order <= n + 1 + m.index
      <4> SUFFICES ASSUME NEW x \in KbCards, kbCard'[x] # KbNoCard
                   PROVE  kbCard'[x].order <= n + 1 + m.index
        OBVIOUS
      <4>1. CASE x = c
        BY <2>1, <2>6, <4>1
      <4>2. CASE x # c
        <5>1. kbCard[x].order <= n /\ kbCard[x].order \in Nat
          BY <2>7, <2>8, <3>1, <4>2
        <5>2. kbCard'[x].order \in Nat /\ kbCard'[x].order <= kbCard[x].order + 1
          BY <2>7, <2>8, <4>2 DEF KbCardRecord
        <5> QED BY <2>1, <5>1, <5>2
      <4> QED BY <4>1, <4>2
    <3> QED BY <3>2, <3>3 DEF KbBounded
  <2>10. KbTieNeedsRace'
    <3> SUFFICES ASSUME ~kbRaced' PROVE KbNoTies'
      BY DEF KbTieNeedsRace
    <3>1. KbNoTies /\ kbCard[c].stage = m.from /\ kbCard[c].order = m.at
      BY <1>1, <2>1 DEF KbInv, KbTieNeedsRace, KbFresh, KbMoveFresh
    <3>2. ASSUME NEW s \in KbStages, NEW x \in KbIn(s)' \ {c}
          PROVE  /\ x \in KbIn(s) /\ kbCard[x].order \in Nat
                 /\ kbCard'[x].order = KbShifted(m, s, kbCard[x].order)
                 /\ s = m.from => kbCard[x].order # m.at
      <4>1. x \in KbCards /\ kbCard[x] # KbNoCard /\ kbCard'[x].stage = s
        BY <2>8 DEF KbIn
      <4>2. kbCard[x].stage = s /\ kbCard[x].order \in Nat /\ kbCard'[x].order = shifted(x)
        BY <2>7, <3>2, <4>1
      <4>3. s = m.from => c \in KbIn(s)
        BY <1>3, <2>1, <3>1 DEF KbIn
      <4> QED BY <3>1, <3>2, <4>1, <4>2, <4>3 DEF KbIn, KbNoTies, shifted
    <3>3. ASSUME NEW s \in KbStages, NEW x \in KbIn(s)' \ {c}, NEW y \in KbIn(s)' \ {c}, x # y
          PROVE  kbCard'[x].order # kbCard'[y].order
      <4>1. kbCard[x].order # kbCard[y].order
        BY <3>1, <3>2, <3>3 DEF KbNoTies
      <4> QED BY <1>1, <3>2, <4>1, KbShiftedApart
    <3>4. ASSUME NEW s \in KbStages, NEW x \in KbIn(s)' \ {c}, c \in KbIn(s)'
          PROVE  kbCard'[x].order # kbCard'[c].order
      <4>1. s = m.to
        BY <2>6, <3>4 DEF KbIn
      <4>2. KbShifted(m, s, kbCard[x].order) # m.index
        <5>1. kbCard[x].order \in Nat /\ (s = m.from => kbCard[x].order # m.at)
          BY <3>2
        <5>2. ~(m.from = m.to /\ m.at = m.index)
          BY <1>3
        <5> QED BY <1>1, <4>1, <5>1, <5>2 DEF KbShifted, KbMoves
      <4> QED BY <2>6, <3>2, <4>2
    <3> QED BY <3>3, <3>4 DEF KbNoTies
  <2>11. KbLinkedOnce'
    <3>1. KbLinked' = KbLinked
      BY <2>6, <2>7, <2>8 DEF KbLinked
    <3> QED BY <1>1, <3>1 DEF KbInv, KbLinkedOnce
  <2>12. KbStatusFollowsStage'
    <3>1. m.to \notin kbRetyped => kbType[m.to] = m.type
      BY <2>1 DEF KbInv, KbReadTypes
    <3>2. ASSUME NEW x \in KbCards, kbCard'[x] # KbNoCard, kbCard'[x].moved,
                 kbCard'[x].stage \notin kbRetyped
          PROVE  /\ kbCard'[x].status = KbStatusIn(kbType[kbCard'[x].stage], "OPEN")
                 /\ kbCard'[x].closed = (kbCard'[x].status # "OPEN")
      <4>1. CASE x = c
        BY <2>2, <2>6, <3>1, <3>2, <4>1
      <4>2. CASE x # c
        BY <2>7, <2>8, <3>2, <4>2 DEF KbInv, KbStatusFollowsStage
      <4> QED BY <4>1, <4>2
    <3> QED BY <1>1, <3>2 DEF KbStatusFollowsStage
  <2>13. KbStageIsThere'
    <3>1. \A s \in KbStages : \A x \in KbIn(s)' : kbType[s] # "GONE"
      <4> SUFFICES ASSUME NEW s \in KbStages, NEW x \in KbIn(s)' PROVE kbType[s] # "GONE"
        OBVIOUS
      <4>1. CASE x = c
        BY <1>3, <2>6, <4>1 DEF KbIn
      <4>2. CASE x # c
        BY <2>7, <2>8, <4>2 DEF KbIn, KbInv, KbStageIsThere
      <4> QED BY <4>1, <4>2
    <3> QED BY <1>1, <3>1 DEF KbStageIsThere
  <2> QED BY <1>1, <2>8, <2>9, <2>10, <2>11, <2>12, <2>13, KbWriteStep DEF KbInv, KbTypeInv, KbTypeOK
<1> QED BY <1>2, <1>3 DEF KbMoveWrite

LEMMA KbInvStep == KbInv /\ [KbNext]_kbVars => KbInv'
<1> SUFFICES ASSUME KbInv, [KbNext]_kbVars PROVE KbInv'
  OBVIOUS
<1>1. CASE KbNext
  BY <1>1, KbCreateReadStep, KbCreateWriteStep, KbMoveReadStep, KbMoveWriteStep, KbLinkStep, KbRemoveStep,
     KbUpsertStep DEF KbNext
<1>2. CASE UNCHANGED kbVars
  BY <1>2 DEF kbVars, KbInv, KbTypeInv, KbTypeOK, KbBounded, KbFresh, KbCreateFresh, KbMoveFresh,
     KbReadTypes, KbLinkedOnce, KbLinked, KbIn, KbTieNeedsRace, KbNoTies, KbStatusFollowsStage,
     KbStageIsThere
<1> QED BY <1>1, <1>2

LEMMA KbInitInv == KbInit => KbInv
<1> SUFFICES ASSUME KbInit PROVE KbInv
  OBVIOUS
<1>1. KbIdle \in KbIdles
  BY DEF KbIdle, KbIdles
<1>2. KbTypeInv
  <2>1. kbCall \in [KbCallers -> KbIdles] /\ kbCalls \in 0..KbMaxCalls
    BY <1>1, KbAssumption DEF KbInit
  <2>2. \A p \in KbCallers : kbCall[p].op = "idle"
    BY <2>1 DEF KbIdles
  <2>3. /\ kbCard \in [KbCards -> KbCardRecord \union {KbNoCard}]
        /\ kbType \in [KbStages -> KbTypes \union {"GONE"}]
    BY DEF KbInit
  <2>4. kbRetyped \subseteq KbStages /\ kbRelinked \in BOOLEAN /\ kbRaced \in BOOLEAN
    BY DEF KbInit
  <2>5. \A c \in KbCards : kbCard[c] = KbNoCard \/ kbCard[c] \in KbCardRecord
    BY <2>3
  <2>6. KbTypeOK
    BY <2>1, <2>2, <2>3, <2>4, <2>5 DEF KbTypeOK
  <2> QED BY <2>1, <2>3, <2>6 DEF KbTypeInv
<1>3. /\ \A c \in KbCards : kbCard[c] = KbNoCard
      /\ \A p \in KbCallers : kbCall[p].op = "idle"
      /\ kbType \in [KbStages -> KbTypes]
  BY <1>1 DEF KbInit, KbIdles
<1>4. KbBounded
  BY <1>3, KbAssumption DEF KbBounded
<1>5. KbFresh /\ KbReadTypes
  BY <1>3 DEF KbFresh, KbReadTypes
<1>6. KbLinkedOnce /\ KbTieNeedsRace /\ KbStatusFollowsStage
  BY <1>3 DEF KbLinkedOnce, KbLinked, KbTieNeedsRace, KbNoTies, KbIn, KbStatusFollowsStage
<1>7. KbStageIsThere
  BY <1>3 DEF KbStageIsThere, KbTypes
<1> QED BY <1>2, <1>4, <1>5, <1>6, <1>7 DEF KbInv

\* Two cards share a position, a conversation has two cards and a dropped card has another status
\* than its column only after calls that overlap, and a card lies in a column that is there, for
\* any cards, stages and requests.
THEOREM KbSafeCorrect == KbSpec => []KbSafe
<1>1. KbInv => KbSafe
  <2> SUFFICES ASSUME KbInv PROVE KbSafe
    OBVIOUS
  <2>1. KbOneCard
    <3> SUFFICES ASSUME \A c, d \in KbLinked : c = d PROVE Cardinality(KbLinked) <= 1
      BY DEF KbInv, KbLinkedOnce, KbOneCard
    <3>1. CASE KbLinked = {}
      BY <3>1, FS_EmptySet
    <3>2. CASE KbLinked # {}
      <4>1. PICK c : KbLinked = {c}
        BY <3>2
      <4> QED BY <4>1, FS_Singleton
    <3> QED BY <3>1, <3>2
  <2> QED BY <2>1 DEF KbInv, KbSafe
<1> QED BY <1>1, KbInitInv, KbInvStep, PTL DEF KbSpec

\* Stages, cards, requests and histories keep their types.
THEOREM KbTypeCorrect == KbSpec => []KbTypeOK
<1>1. KbInv => KbTypeOK
  BY DEF KbInv, KbTypeInv
<1> QED BY <1>1, KbInitInv, KbInvStep, PTL DEF KbSpec

-----------------------------------------------------------------------------
(* The inbox: any operators and times *)

\* A message that is after a cursor and after everything the team answered.
IbShows(in, out, cursor) == \E t \in in : t > cursor /\ \A o \in out : t > o

IbCallFits == \A u \in IbUsers : ibCall[u] # -1 => ibCall[u] \in IbTimes("INBOUND")

IbUnreadHolds ==
  \A u \in ibFresh \union ibMarked : IbShows(IbTimes("INBOUND"), IbTimes("OUTBOUND"), ibRead[u])

IbInv == IbTypeOK /\ IbCallFits /\ IbUnreadHolds

\* The newest of some times is one of them, and none is after it.
LEMMA IbNewestIs ==
  ASSUME NEW S, S \subseteq -1..IbMaxTime
  PROVE  /\ S = {} => IbNewest(S) = -1
         /\ S # {} => IbNewest(S) \in S /\ \A v \in S : v <= IbNewest(S)
<1> SUFFICES ASSUME S # {} PROVE IbNewest(S) \in S /\ \A v \in S : v <= IbNewest(S)
  BY DEF IbNewest
<1> DEFINE gap == {IbMaxTime - t : t \in S}
<1>1. gap \subseteq Nat /\ gap # {}
  <2>1. \A t \in S : IbMaxTime - t \in Nat
    BY IbAssumption
  <2> QED BY <2>1
<1>2. PICK d \in gap : \A y \in gap : d <= y
  <2> HIDE DEF gap
  <2> QED BY <1>1, LeastNatural
<1>3. PICK t \in S : d = IbMaxTime - t
  OBVIOUS
<1>4. \A v \in S : IbMaxTime - t <= IbMaxTime - v
  BY <1>2, <1>3
<1>5. \A v \in S : v \in Int /\ t \in Int
  BY IbAssumption
<1>6. \A v \in S : v <= t
  BY <1>4, <1>5, IbAssumption
<1> QED BY <1>6 DEF IbNewest

LEMMA IbAfterNewest ==
  ASSUME NEW S, S \subseteq -1..IbMaxTime, NEW at \in 0..IbMaxTime, at > IbNewest(S)
  PROVE  \A o \in S : at > o
<1> SUFFICES ASSUME NEW o \in S PROVE at > o
  OBVIOUS
<1> DEFINE n == IbNewest(S)
<1>1. o <= n /\ n \in S /\ at > n
  BY IbNewestIs
<1>2. \A x \in S : x \in Int
  BY IbAssumption
<1>3. at \in Int
  BY IbAssumption
<1>4. n \in Int /\ o \in Int
  BY <1>1, <1>2
<1> HIDE DEF n
<1> QED BY <1>1, <1>3, <1>4

\* Times are those of the clock; a cursor may be before them.
LEMMA IbTimesAre ==
  ASSUME IbTypeOK
  PROVE  /\ IbTimes("INBOUND") \subseteq 0..IbMaxTime /\ IbTimes("OUTBOUND") \subseteq 0..IbMaxTime
         /\ IbTimes("INBOUND") \subseteq -1..IbMaxTime /\ IbTimes("OUTBOUND") \subseteq -1..IbMaxTime
         /\ \A u \in IbUsers : ibRead[u] \in -1..IbMaxTime /\ ibCall[u] \in -1..IbMaxTime
<1>1. IbTimes("INBOUND") \subseteq 0..IbMaxTime /\ IbTimes("OUTBOUND") \subseteq 0..IbMaxTime
  BY DEF IbTypeOK, IbTimes
<1>2. 0..IbMaxTime \subseteq -1..IbMaxTime
  BY IbAssumption
<1> QED BY <1>1, <1>2 DEF IbTypeOK

\* The two queries ask for the same.
LEMMA IbUnreadIs ==
  ASSUME IbTypeOK, NEW u \in IbUsers
  PROVE  IbUnreadOnly(u) <=> IbShows(IbTimes("INBOUND"), IbTimes("OUTBOUND"), ibRead[u])
<1>1. \A t \in IbTimes("INBOUND") : t \in 0..IbMaxTime
  BY IbTimesAre
<1>2. \A t \in IbTimes("INBOUND") : t > -1
  BY <1>1, IbAssumption
<1> QED BY <1>2 DEF IbUnreadOnly, IbShows

LEMMA IbCountIs ==
  ASSUME IbTypeOK, NEW u \in IbUsers
  PROVE  IbUnreadCount(u) > 0 <=> IbShows(IbTimes("INBOUND"), IbTimes("OUTBOUND"), ibRead[u])
<1> DEFINE in == IbTimes("INBOUND")
           out == IbTimes("OUTBOUND")
           cursors == {ibRead[u]} \union out
           cursor == IbNewest(cursors)
           after == {t \in in : t > cursor}
<1>1. /\ in \subseteq 0..IbMaxTime /\ out \subseteq -1..IbMaxTime /\ ibRead[u] \in -1..IbMaxTime
  BY IbTimesAre
<1>2. cursors \subseteq -1..IbMaxTime /\ cursors # {}
  BY <1>1
<1>3. cursor \in cursors /\ \A v \in cursors : v <= cursor
  <2> HIDE DEF cursors
  <2> QED BY <1>2, IbNewestIs
<1>4. IbUnreadCount(u) = Cardinality(after)
  BY DEF IbUnreadCount
<1>5. IsFiniteSet(after)
  <2>1. IsFiniteSet(0..IbMaxTime)
    BY FS_Interval, IbAssumption
  <2>2. after \in SUBSET (0..IbMaxTime)
    BY <1>1
  <2> HIDE DEF after
  <2> QED BY <2>1, <2>2, FS_Subset
<1>6. Cardinality(after) > 0 <=> after # {}
  <2> HIDE DEF after
  <2>1. Cardinality(after) \in Nat /\ (Cardinality(after) = 0 <=> after = {})
    BY <1>5, FS_CardinalityType, FS_EmptySet
  <2> QED BY <2>1
<1>7. \A t \in in : t > cursor <=> t > ibRead[u] /\ \A o \in out : t > o
  <2> HIDE DEF in, out, cursor
  <2>1. \A t \in in : t \in Int
    BY <1>1
  <2>2. \A v \in cursors : v \in Int
    BY <1>2, IbAssumption
  <2> QED BY <1>3, <2>1, <2>2
<1>8. after # {} <=> IbShows(in, out, ibRead[u])
  <2> HIDE DEF in, out, cursor
  <2> QED BY <1>7 DEF IbShows
<1> QED BY <1>4, <1>6, <1>8

LEMMA IbInitInv == IbInit => IbInv
<1> SUFFICES ASSUME IbInit PROVE IbInv
  OBVIOUS
<1>1. -1 \in -1..IbMaxTime /\ 0 \in 0..IbMaxTime
  BY IbAssumption
<1> QED BY <1>1 DEF IbInit, IbInv, IbTypeOK, IbCallFits, IbUnreadHolds

\* A new inbound takes nothing off a list.
LEMMA IbTimesWith ==
  ASSUME NEW d \in IbDirections, NEW e \in IbDirections, NEW at,
         ibMsgs' = ibMsgs \union {[dir |-> d, at |-> at]}
  PROVE  IbTimes(e)' = IF d = e THEN IbTimes(e) \union {at} ELSE IbTimes(e)
<1> DEFINE msg == [dir |-> d, at |-> at]
<1>1. msg.dir = d /\ msg.at = at /\ ibMsgs' = ibMsgs \union {msg}
  OBVIOUS
<1> HIDE DEF msg
<1> QED BY <1>1 DEF IbTimes

LEMMA IbReceiveKeeps ==
  ASSUME IbInv, NEW at \in 0..IbMaxTime, IbReceive(at) PROVE IbInv'
<1> DEFINE in == IbTimes("INBOUND")
           out == IbTimes("OUTBOUND")
<1>1. /\ ibMsgs' = ibMsgs \union {[dir |-> "INBOUND", at |-> at]}
      /\ ibFresh' = {u \in IbUsers : u \in ibFresh \/ (at > ibRead[u] /\ at > IbNewest(out))}
      /\ ibConv' = ibConv /\ ibRead' = ibRead /\ ibClock' = ibClock /\ ibCall' = ibCall
      /\ ibMarked' = ibMarked
  BY DEF IbReceive
<1>2. IbTimes("INBOUND")' = in \union {at} /\ IbTimes("OUTBOUND")' = out
  BY <1>1, IbTimesWith DEF IbDirections
<1>3. [dir |-> "INBOUND", at |-> at] \in [dir : IbDirections, at : 0..IbMaxTime]
  BY DEF IbDirections
<1>4. IbTypeOK'
  BY <1>1, <1>3 DEF IbInv, IbTypeOK
<1>5. IbCallFits'
  BY <1>1, <1>2 DEF IbInv, IbCallFits
<1>7. at > IbNewest(out) => \A o \in out : at > o
  <2>1. out \subseteq -1..IbMaxTime
    BY IbTimesAre DEF IbInv
  <2> HIDE DEF out
  <2> QED BY <2>1, IbAfterNewest
<1>8. \A u \in ibFresh' \union ibMarked' : IbShows(in \union {at}, out, ibRead[u])
  <2> SUFFICES ASSUME NEW u \in ibFresh' \union ibMarked'
               PROVE  IbShows(in \union {at}, out, ibRead[u])
    OBVIOUS
  <2> HIDE DEF in, out
  <2>1. CASE u \in ibFresh \union ibMarked
    <3>1. IbShows(in, out, ibRead[u])
      BY <2>1 DEF IbInv, IbUnreadHolds, in, out
    <3> QED BY <3>1 DEF IbShows
  <2>2. CASE at > ibRead[u] /\ at > IbNewest(out)
    BY <1>7, <2>2 DEF IbShows
  <2> QED BY <1>1, <2>1, <2>2
<1>9. IbUnreadHolds'
  <2> HIDE DEF in, out
  <2> QED BY <1>1, <1>2, <1>8 DEF IbUnreadHolds
<1> QED BY <1>4, <1>5, <1>9 DEF IbInv

LEMMA IbAnswerKeeps == ASSUME IbInv, IbAnswer PROVE IbInv'
<1>1. /\ ibMsgs' = ibMsgs \union {[dir |-> "OUTBOUND", at |-> ibClock]}
      /\ ibFresh' = {} /\ ibMarked' = {}
      /\ ibConv' = ibConv /\ ibRead' = ibRead /\ ibClock' = ibClock /\ ibCall' = ibCall
  BY DEF IbAnswer
<1>2. IbTimes("INBOUND")' = IbTimes("INBOUND")
  BY <1>1, IbTimesWith DEF IbDirections
<1>3. [dir |-> "OUTBOUND", at |-> ibClock] \in [dir : IbDirections, at : 0..IbMaxTime]
  BY DEF IbDirections, IbInv, IbTypeOK
<1>4. IbTypeOK'
  BY <1>1, <1>3 DEF IbInv, IbTypeOK
<1> QED BY <1>1, <1>2, <1>4 DEF IbInv, IbCallFits, IbUnreadHolds

LEMMA IbMarkAsReadKeeps == ASSUME IbInv, NEW u \in IbUsers, IbMarkAsRead(u) PROVE IbInv'
<1>1. /\ ibRead' = [ibRead EXCEPT ![u] = ibClock]
      /\ ibFresh' = ibFresh \ {u} /\ ibMarked' = ibMarked \ {u}
      /\ ibConv' = ibConv /\ ibMsgs' = ibMsgs /\ ibClock' = ibClock /\ ibCall' = ibCall
  BY DEF IbMarkAsRead
<1>2. ibClock \in -1..IbMaxTime
  BY IbAssumption DEF IbInv, IbTypeOK
<1>3. IbTypeOK'
  BY <1>1, <1>2 DEF IbInv, IbTypeOK
<1>4. \A v \in IbUsers : v # u => ibRead'[v] = ibRead[v]
  BY <1>1 DEF IbInv, IbTypeOK
<1>5. IbTimes("INBOUND")' = IbTimes("INBOUND") /\ IbTimes("OUTBOUND")' = IbTimes("OUTBOUND")
  BY <1>1 DEF IbTimes
<1>6. \A v \in ibFresh' \union ibMarked' : v \in ibFresh \union ibMarked /\ v # u /\ v \in IbUsers
  BY <1>1 DEF IbInv, IbTypeOK
<1>7. IbUnreadHolds'
  BY <1>4, <1>5, <1>6 DEF IbInv, IbUnreadHolds
<1> QED BY <1>1, <1>3, <1>5, <1>7 DEF IbInv, IbCallFits

LEMMA IbAskUnreadKeeps == ASSUME IbInv, NEW u \in IbUsers, IbAskUnread(u) PROVE IbInv'
<1> DEFINE in == IbTimes("INBOUND")
           out == IbTimes("OUTBOUND")
<1>1. /\ ibConv' = ibConv /\ ibMsgs' = ibMsgs /\ ibClock' = ibClock
      /\ ibFresh' = ibFresh /\ ibMarked' = ibMarked
  BY DEF IbAskUnread
<1>2. IbTimes("INBOUND")' = in /\ IbTimes("OUTBOUND")' = out
  BY <1>1 DEF IbTimes
<1>3. CASE in = {}
  <2>1. ibRead' = [ibRead EXCEPT ![u] = -1] /\ ibCall' = ibCall
    BY <1>3 DEF IbAskUnread
  <2>2. -1 \in -1..IbMaxTime
    BY IbAssumption
  <2>3. IbTypeOK'
    BY <1>1, <2>1, <2>2 DEF IbInv, IbTypeOK
  <2>4. ibFresh \union ibMarked = {}
    BY <1>3 DEF IbInv, IbUnreadHolds, IbShows
  <2> QED BY <1>1, <1>2, <2>1, <2>3, <2>4 DEF IbInv, IbCallFits, IbUnreadHolds
<1>4. CASE in # {}
  <2>1. ibRead' = ibRead /\ ibCall' = [ibCall EXCEPT ![u] = IbNewest(in)]
    BY <1>4 DEF IbAskUnread
  <2>2. IbNewest(in) \in in /\ in \subseteq -1..IbMaxTime
    <3>1. in \subseteq -1..IbMaxTime
      BY IbTimesAre DEF IbInv
    <3> HIDE DEF in
    <3> QED BY <1>4, <3>1, IbNewestIs
  <2>3. ibCall' \in [IbUsers -> -1..IbMaxTime] /\ ibCall'[u] = IbNewest(in)
        /\ \A v \in IbUsers : v # u => ibCall'[v] = ibCall[v]
    <3> HIDE DEF in
    <3> QED BY <2>1, <2>2 DEF IbInv, IbTypeOK
  <2>4. IbTypeOK'
    BY <1>1, <2>1, <2>3 DEF IbInv, IbTypeOK
  <2>5. IbCallFits'
    <3> HIDE DEF in
    <3> QED BY <1>2, <2>2, <2>3 DEF IbInv, IbCallFits, in
  <2>6. IbUnreadHolds'
    BY <1>1, <1>2, <2>1 DEF IbInv, IbUnreadHolds
  <2> QED BY <2>4, <2>5, <2>6 DEF IbInv
<1> QED BY <1>3, <1>4

LEMMA IbMarkAsUnreadKeeps == ASSUME IbInv, NEW u \in IbUsers, IbMarkAsUnread(u) PROVE IbInv'
<1> DEFINE in == IbTimes("INBOUND")
           out == IbTimes("OUTBOUND")
           at == ibCall[u]
<1>1. /\ at # -1 /\ ibRead' = [ibRead EXCEPT ![u] = at - 1]
      /\ ibCall' = [ibCall EXCEPT ![u] = -1]
      /\ ibMarked' = IF at > IbNewest(out) THEN ibMarked \union {u} ELSE ibMarked
      /\ ibConv' = ibConv /\ ibMsgs' = ibMsgs /\ ibClock' = ibClock /\ ibFresh' = ibFresh
  BY DEF IbMarkAsUnread
<1>2. IbTimes("INBOUND")' = in /\ IbTimes("OUTBOUND")' = out
  BY <1>1 DEF IbTimes
<1>3. /\ at \in in /\ at \in 0..IbMaxTime /\ in \subseteq 0..IbMaxTime /\ out \subseteq -1..IbMaxTime
  BY <1>1, IbTimesAre DEF IbInv, IbCallFits
<1>4. at - 1 \in -1..IbMaxTime /\ -1 \in -1..IbMaxTime
  <2> HIDE DEF at
  <2> QED BY <1>3, IbAssumption
<1>5. /\ ibRead' \in [IbUsers -> -1..IbMaxTime] /\ ibRead'[u] = at - 1
      /\ ibCall' \in [IbUsers -> -1..IbMaxTime] /\ ibCall'[u] = -1
      /\ \A v \in IbUsers : v # u => ibRead'[v] = ibRead[v] /\ ibCall'[v] = ibCall[v]
      /\ ibMarked' \subseteq IbUsers
  <2> HIDE DEF at, out
  <2> QED BY <1>1, <1>4 DEF IbInv, IbTypeOK
<1>6. IbTypeOK'
  BY <1>1, <1>5 DEF IbInv, IbTypeOK
<1>7. IbCallFits'
  BY <1>2, <1>5 DEF IbInv, IbCallFits
<1>8. /\ out = {} => IbNewest(out) = -1
      /\ out # {} => IbNewest(out) \in out /\ \A o \in out : o <= IbNewest(out)
  <2> HIDE DEF out
  <2> QED BY <1>3, IbNewestIs
<1>9. \A o \in out : o \in Int
  <2> HIDE DEF out
  <2> QED BY <1>3, IbAssumption
<1>10. \A t \in in : t \in Int
  <2> HIDE DEF in
  <2> QED BY <1>3, IbAssumption
<1>11. at > IbNewest(out) => IbShows(in, out, at - 1)
  <2> HIDE DEF in, out, at
  <2>1. at > IbNewest(out) => \A o \in out : at > o
    BY <1>3, IbAfterNewest
  <2>2. at > at - 1
    BY <1>3
  <2> QED BY <1>3, <2>1, <2>2 DEF IbShows
<1>12. ~(at > IbNewest(out)) /\ IbShows(in, out, ibRead[u]) => IbShows(in, out, at - 1)
  <2> HIDE DEF in, out, at
  <2> SUFFICES ASSUME ~(at > IbNewest(out)), NEW t \in in, \A o \in out : t > o PROVE t > at - 1
    BY DEF IbShows
  <2>1. out # {}
    BY <1>3, <1>8
  <2>2. t > IbNewest(out) /\ IbNewest(out) \in Int /\ t \in Int /\ at \in Int
    BY <1>3, <1>8, <1>9, <1>10, <2>1
  <2> QED BY <2>2
<1>13. IbUnreadHolds'
  <2> SUFFICES ASSUME NEW v \in ibFresh' \union ibMarked' PROVE IbShows(in, out, ibRead'[v])
    BY <1>2 DEF IbUnreadHolds
  <2>1. v \in IbUsers
    BY <1>6 DEF IbTypeOK
  <2> HIDE DEF in, out, at
  <2>2. v \in ibFresh \union ibMarked => IbShows(in, out, ibRead[v])
    BY DEF IbInv, IbUnreadHolds, in, out
  <2>3. CASE v # u
    BY <1>1, <1>5, <2>1, <2>2, <2>3
  <2>4. CASE v = u
    BY <1>1, <1>5, <1>11, <1>12, <2>2, <2>4
  <2> QED BY <2>3, <2>4
<1> QED BY <1>6, <1>7, <1>13 DEF IbInv

LEMMA IbRestKeeps ==
  ASSUME IbInv, ibMsgs' = ibMsgs, ibRead' = ibRead, ibCall' = ibCall, ibFresh' = ibFresh,
         ibMarked' = ibMarked, ibConv' \in IbConvType, ibClock' \in 0..IbMaxTime
  PROVE  IbInv'
BY DEF IbInv, IbTypeOK, IbCallFits, IbUnreadHolds, IbTimes

LEMMA IbTickKeeps == ASSUME IbInv, IbTick PROVE IbInv'
<1>1. ibClock' \in 0..IbMaxTime
  BY IbAssumption DEF IbInv, IbTypeOK, IbTick
<1> QED BY <1>1, IbRestKeeps DEF IbTick, IbInv, IbTypeOK

LEMMA IbSetKeeps ==
  ASSUME IbInv, NEW f \in {"isArchived", "tagged"}, NEW b \in BOOLEAN, IbSet(f, b) PROVE IbInv'
<1>1. ibConv \in IbConvType /\ ibClock \in 0..IbMaxTime
  BY DEF IbInv, IbTypeOK
<1>2. CASE f = "isArchived"
  <2>1. ibConv' \in IbConvType
    BY <1>1, <1>2 DEF IbSet, IbConvType
  <2> QED BY <1>1, <2>1, IbRestKeeps DEF IbSet
<1>3. CASE f = "tagged"
  <2>1. ibConv' \in IbConvType
    BY <1>1, <1>3 DEF IbSet, IbConvType
  <2> QED BY <1>1, <2>1, IbRestKeeps DEF IbSet
<1> QED BY <1>2, <1>3

LEMMA IbStep == IbInv /\ [IbNext]_ibVars => IbInv'
<1> SUFFICES ASSUME IbInv, [IbNext]_ibVars PROVE IbInv'
  OBVIOUS
<1>1. CASE UNCHANGED ibVars
  BY <1>1, IbRestKeeps DEF ibVars, IbInv, IbTypeOK
<1>2. CASE IbNext
  BY <1>2, IbTickKeeps, IbReceiveKeeps, IbAnswerKeeps, IbMarkAsReadKeeps, IbAskUnreadKeeps,
     IbMarkAsUnreadKeeps, IbSetKeeps DEF IbNext
<1> QED BY <1>1, <1>2

LEMMA IbInvCorrect == IbSpec => []IbInv
BY IbInitInv, IbStep, PTL DEF IbSpec

\* No listing goes beyond what the request may see and asked for, whatever the conversation.
LEMMA IbListedWithin == IbListWithinFilters
BY DEF IbListWithinFilters, IbListed, IbChannelWhere

\* The badge and the unread filter answer alike and nothing unread hides: a conversation stays
\* on the list of a user who marked it, or for whom a message came in, until the user reads it
\* or the team answers, for any operators and times.
THEOREM IbSafeCorrect == IbSpec => []IbSafe
<1>1. IbInv => IbSafe
  <2> SUFFICES ASSUME IbInv PROVE IbSafe
    OBVIOUS
  <2>1. IbTypeOK /\ ibFresh \subseteq IbUsers /\ ibMarked \subseteq IbUsers
    BY DEF IbInv, IbTypeOK
  <2>2. IbBadgeMatchesFilter
    BY <2>1, IbUnreadIs, IbCountIs DEF IbBadgeMatchesFilter
  <2>3. IbMarkedIsUnread /\ IbFreshIsUnread
    BY <2>1, IbUnreadIs DEF IbInv, IbUnreadHolds, IbMarkedIsUnread, IbFreshIsUnread
  <2> QED BY <2>2, <2>3, IbListedWithin DEF IbSafe
<1> QED BY <1>1, IbInvCorrect, PTL

\* The conversation, its messages and every cursor keep their shapes.
THEOREM IbTypeCorrect == IbSpec => []IbTypeOK
<1>1. IbInv => IbTypeOK
  BY DEF IbInv
<1> QED BY <1>1, IbInvCorrect, PTL

-----------------------------------------------------------------------------
(* Contacts: any customers, rows and workers *)

CtContactType == [person : CtPeople \union {CtNobody},
                  name : {"none", "profile", "operator"}, deleted : BOOLEAN]
CtJobType == [pc : {"idle", "find", "lock", "recheck", "match", "create", "refresh"},
              source : CtSources, id : CtIds \union {CtNobody},
              contact : CtContacts \union {CtNobody}, named : BOOLEAN]

\* A job under way has an id, and what it holds of a contact is of that customer.
CtJobFits(job, type, contact) ==
  /\ job.pc # "idle" => job.id \in CtIds /\ (type # "UAZAPI" =>
                          job.id[2] = IF type = "ZAPPFY" THEN "jid" ELSE "plain")
  /\ job.pc \in {"find", "lock", "recheck", "match"} => job.contact = CtNobody
  /\ job.pc = "create" /\ job.source # "recovery" => job.contact = CtNobody
  /\ job.pc = "refresh" => job.contact \in CtContacts
  /\ job.pc \in {"create", "refresh"} /\ job.contact # CtNobody =>
       contact[job.contact].person = job.id[1]
  /\ job.pc = "match" => job.source = "recovery"

CtJobsFit == \A w \in CtWorkers : CtJobFits(ctJob[w], ctType, ctContact)

\* A contact is reached by the one id its customer has, a row without a customer has no name.
CtRows ==
  \A c \in CtContacts :
    /\ ctContact[c].person = CtNobody => ctContact[c].name = "none"
    /\ ctType # "UAZAPI" /\ ctContact[c].person # CtNobody =>
         ctLinks[<<ctContact[c].person, IF ctType = "ZAPPFY" THEN "jid" ELSE "plain">>] = c

\* While no lock expired and recovery has not run, the holder of a lock is alone with its id.
CtHolds(w, job, lock, links) ==
  /\ job.pc # "idle" => job.source # "recovery"
  /\ job.pc \in {"recheck", "create"} => lock[job.id] = w
  /\ job.pc = "create" => links[job.id] = CtNobody

CtLocked ==
  ~ctExpired => ~ctCollided /\ \A w \in CtWorkers : CtHolds(w, ctJob[w], ctLock, ctLinks)

CtInv == CtTypeOK /\ CtLinksAgree /\ CtJobsFit /\ CtRows /\ CtLocked

LEMMA CtNoJobOK ==
  CtNoJob \in CtJobType /\ CtNoJob.pc = "idle" /\ CtNoJob.contact = CtNobody
  BY DEF CtNoJob, CtJobType, CtSources

LEMMA CtInitInv == CtInit => CtInv
<1> SUFFICES ASSUME CtInit PROVE CtInv
  OBVIOUS
<1>1. \A w \in CtWorkers : ctJob[w] = CtNoJob
  BY DEF CtInit
<1>2. \A c \in CtContacts : ctContact[c] = CtNoContact
  BY DEF CtInit
<1>3. ctContact \in [CtContacts -> CtContactType]
  BY DEF CtInit, CtNoContact, CtContactType
<1>4. ctJob \in [CtWorkers -> CtJobType]
  BY CtNoJobOK DEF CtInit
<1>5. ctJobs \in 0..CtMaxJobs
  BY CtAssumption DEF CtInit
<1>6. CtTypeOK
  BY <1>3, <1>4, <1>5 DEF CtInit, CtTypeOK, CtContactType, CtJobType
<1>7. CtLinksAgree /\ CtRows
  BY <1>2, CtAssumption DEF CtInit, CtLinksAgree, CtRows, CtNoContact
<1>8. CtJobsFit /\ CtLocked
  BY <1>1, CtNoJobOK DEF CtInit, CtJobsFit, CtJobFits, CtLocked, CtHolds
<1> QED BY <1>6, <1>7, <1>8 DEF CtInv

LEMMA CtHasTypes ==
  ASSUME CtInv
  PROVE  /\ ctType \in CtTypes
         /\ ctLinks \in [CtIds -> CtContacts \union {CtNobody}]
         /\ ctContact \in [CtContacts -> CtContactType]
         /\ ctLock \in [CtIds -> CtWorkers \union {CtNobody}]
         /\ ctJob \in [CtWorkers -> CtJobType]
         /\ ctJobs \in 0..CtMaxJobs
         /\ ctExpired \in BOOLEAN /\ ctCollided \in BOOLEAN
BY DEF CtInv, CtTypeOK, CtContactType, CtJobType

\* A step that makes no contact and no link: the jobs that change fit, the others keep
\* their locks.
LEMMA CtAnyStep ==
  ASSUME CtInv, ctType' = ctType, ctLinks' = ctLinks,
         ctContact' \in [CtContacts -> CtContactType],
         \A c \in CtContacts : /\ ctContact'[c].person = ctContact[c].person
                               /\ ctContact[c].person = CtNobody => ctContact'[c].name = "none",
         ctCollided' \in BOOLEAN, ctCollided' = ctCollided \/ ctExpired',
         ctJobs' \in 0..CtMaxJobs,
         ctExpired' \in BOOLEAN, ctExpired => ctExpired',
         ctJob' \in [CtWorkers -> CtJobType],
         ctLock' \in [CtIds -> CtWorkers \union {CtNobody}],
         \A v \in CtWorkers :
           \/ /\ ctJob'[v] = ctJob[v]
              /\ ~ctExpired' => \A i \in CtIds : ctLock[i] = v => ctLock'[i] = v
           \/ /\ CtJobFits(ctJob'[v], ctType, ctContact)
              /\ ~ctExpired' => CtHolds(v, ctJob'[v], ctLock', ctLinks)
  PROVE  CtInv'
<1>1. CtTypeOK'
  BY CtHasTypes DEF CtTypeOK, CtContactType, CtJobType
<1>2. CtLinksAgree'
  BY CtHasTypes DEF CtInv, CtLinksAgree
<1>3. CtRows'
  BY DEF CtInv, CtRows
<1>4. CtJobsFit'
  <2> SUFFICES ASSUME NEW v \in CtWorkers PROVE CtJobFits(ctJob'[v], ctType, ctContact')
    BY DEF CtJobsFit
  <2>1. CtJobFits(ctJob'[v], ctType, ctContact)
    BY DEF CtInv, CtJobsFit
  <2>2. ctJob'[v].contact \in CtContacts \union {CtNobody}
    BY DEF CtJobType
  <2> QED BY <2>1, <2>2 DEF CtJobFits
<1>5. CtLocked'
  <2> SUFFICES ASSUME ~ctExpired'
               PROVE  ~ctCollided' /\ \A v \in CtWorkers : CtHolds(v, ctJob'[v], ctLock', ctLinks)
    BY DEF CtLocked
  <2>1. ~ctCollided /\ \A v \in CtWorkers : CtHolds(v, ctJob[v], ctLock, ctLinks)
    BY DEF CtInv, CtLocked
  <2> SUFFICES ASSUME NEW v \in CtWorkers PROVE CtHolds(v, ctJob'[v], ctLock', ctLinks)
    BY <2>1
  <2>2. CASE CtHolds(v, ctJob'[v], ctLock', ctLinks)
    BY <2>2
  <2>3. CASE /\ ctJob'[v] = ctJob[v]
             /\ \A i \in CtIds : ctLock[i] = v => ctLock'[i] = v
    <3>2. ctJob[v].pc # "idle" => ctJob[v].id \in CtIds
      BY DEF CtInv, CtJobsFit, CtJobFits
    <3> QED BY <2>1, <2>3, <3>2 DEF CtHolds
  <2> QED BY <2>2, <2>3
<1> QED BY <1>1, <1>2, <1>3, <1>4, <1>5 DEF CtInv

\* A step of one worker that writes no row.
LEMMA CtJobStep ==
  ASSUME CtInv, NEW w \in CtWorkers, NEW new \in CtJobType,
         ctType' = ctType, ctLinks' = ctLinks, ctContact' = ctContact,
         ctCollided' \in BOOLEAN, ctCollided' = ctCollided \/ ctExpired', ctJobs' \in 0..CtMaxJobs,
         ctExpired' \in BOOLEAN, ctExpired => ctExpired',
         ctJob' = [ctJob EXCEPT ![w] = new],
         ctLock' \in [CtIds -> CtWorkers \union {CtNobody}],
         \A i \in CtIds : ctLock[i] # CtNobody /\ ctLock[i] # w => ctLock'[i] = ctLock[i],
         CtJobFits(new, ctType, ctContact),
         ~ctExpired' => CtHolds(w, new, ctLock', ctLinks)
  PROVE  CtInv'
<1>1. /\ ctJob' \in [CtWorkers -> CtJobType] /\ ctJob'[w] = new
      /\ \A v \in CtWorkers : v # w => ctJob'[v] = ctJob[v]
  BY CtHasTypes
<1>2. \A v \in CtWorkers : v # w => \A i \in CtIds : ctLock[i] = v => ctLock'[i] = v
  BY CtAssumption
<1>3. \A c \in CtContacts : ctContact[c].person = CtNobody => ctContact[c].name = "none"
  BY DEF CtInv, CtRows
<1>4. \A v \in CtWorkers :
           \/ /\ ctJob'[v] = ctJob[v]
              /\ ~ctExpired' => \A i \in CtIds : ctLock[i] = v => ctLock'[i] = v
           \/ /\ CtJobFits(ctJob'[v], ctType, ctContact)
              /\ ~ctExpired' => CtHolds(v, ctJob'[v], ctLock', ctLinks)
  BY <1>1, <1>2
<1>5. ctContact' \in [CtContacts -> CtContactType]
  BY CtHasTypes
<1>6. \A c \in CtContacts : /\ ctContact'[c].person = ctContact[c].person
                            /\ ctContact[c].person = CtNobody => ctContact'[c].name = "none"
  BY <1>3
<1> QED BY <1>1, <1>4, <1>5, <1>6, CtAnyStep

LEMMA CtReleases ==
  ASSUME CtInv, NEW w \in CtWorkers, CtRelease(w)
  PROVE  /\ ctLock' \in [CtIds -> CtWorkers \union {CtNobody}]
         /\ \A i \in CtIds : ctLock[i] # CtNobody /\ ctLock[i] # w => ctLock'[i] = ctLock[i]
BY CtHasTypes DEF CtRelease

LEMMA CtIdleFits ==
  ASSUME NEW w, NEW type, NEW contact, NEW lock, NEW links
  PROVE  CtJobFits(CtNoJob, type, contact) /\ CtHolds(w, CtNoJob, lock, links)
BY CtNoJobOK DEF CtJobFits, CtHolds

LEMMA CtTakeKeeps ==
  ASSUME CtInv, NEW w \in CtWorkers, CtTake(w) PROVE CtInv'
<1>1. PICK p \in CtPeople, source \in CtSources :
        /\ ctJob' = [ctJob EXCEPT ![w] =
             [CtNoJob EXCEPT !.pc = "find", !.source = source, !.id = <<p, CtForm(source)>>]]
        /\ ctExpired' = (ctExpired \/ source = "recovery")
        /\ source = "recovery" => ctType # "GMAIL"
  BY DEF CtTake
<1> DEFINE id == <<p, CtForm(source)>>
           new == [CtNoJob EXCEPT !.pc = "find", !.source = source, !.id = id]
<1>2. id \in CtIds /\ (ctType # "UAZAPI" => id[2] = IF ctType = "ZAPPFY" THEN "jid" ELSE "plain")
  BY DEF CtIds, CtForm
<1> HIDE DEF id
<1>3. /\ new \in CtJobType /\ new.pc = "find" /\ new.source = source /\ new.id = id
      /\ new.contact = CtNobody
  BY <1>2, CtNoJobOK DEF CtJobType
<1>4. ctJob' = [ctJob EXCEPT ![w] = new]
  BY <1>1 DEF id
<1> HIDE DEF new
<1>5. CtJobFits(new, ctType, ctContact)
  BY <1>2, <1>3 DEF CtJobFits
<1>6. /\ ctType' = ctType /\ ctLinks' = ctLinks /\ ctContact' = ctContact
      /\ ctLock' = ctLock /\ ctCollided' = ctCollided
      /\ ctJobs < CtMaxJobs /\ ctJobs' = ctJobs + 1
  BY DEF CtTake
<1>7. ctJobs' \in 0..CtMaxJobs
  BY <1>6, CtHasTypes, CtAssumption
<1>8. ctExpired' \in BOOLEAN /\ (ctExpired => ctExpired')
  BY <1>1, CtHasTypes
<1>9. ~ctExpired' => CtHolds(w, new, ctLock', ctLinks)
  BY <1>1, <1>3 DEF CtHolds
<1>10. ctLock' \in [CtIds -> CtWorkers \union {CtNobody}]
  BY <1>6, CtHasTypes
<1> QED BY <1>3, <1>4, <1>5, <1>6, <1>7, <1>8, <1>9, <1>10, CtHasTypes, CtJobStep

\* The job a found link leaves.
LEMMA CtFoundOK ==
  ASSUME CtInv, NEW w \in CtWorkers, NEW c \in CtContacts, CtFound(w, c), ctJob[w].pc # "idle",
         c = ctLinks[ctJob[w].id]
  PROVE  \E new \in CtJobType : /\ ctJob' = [ctJob EXCEPT ![w] = new]
                                /\ CtJobFits(new, ctType, ctContact)
                                /\ ~ctExpired => CtHolds(w, new, ctLock', ctLinks)
                                /\ new = CtNoJob <=> ctJob[w].source # "inbound"
<1> DEFINE known == ctContact[c].name # "none"
           new == [ctJob[w] EXCEPT !.pc = "refresh", !.contact = c, !.named = known]
<1>0. known \in BOOLEAN
  OBVIOUS
<1>1. CASE ctJob[w].source = "inbound"
  <2>1. ctJob' = [ctJob EXCEPT ![w] = new]
    BY <1>1, CtHasTypes DEF CtFound, CtJobType
  <2> HIDE DEF known
  <2>2. ctJob[w] \in CtJobType
    BY CtHasTypes
  <2>3. /\ new \in CtJobType /\ new.pc = "refresh" /\ new.contact = c /\ new.id = ctJob[w].id
        /\ new.source = "inbound"
    BY <1>0, <1>1, <2>2 DEF CtJobType
  <2> HIDE DEF new
  <2>4. CtJobFits(ctJob[w], ctType, ctContact)
    BY DEF CtInv, CtJobsFit
  <2>7. ctJob[w].id \in CtIds
    BY <2>4 DEF CtJobFits
  <2>8. ctContact[c].person = new.id[1]
    BY <2>3, <2>7, CtAssumption DEF CtInv, CtLinksAgree
  <2>5. CtJobFits(new, ctType, ctContact) /\ CtHolds(w, new, ctLock', ctLinks)
    BY <2>3, <2>4, <2>8 DEF CtJobFits, CtHolds
  <2>6. new # CtNoJob
    BY <2>3, CtNoJobOK
  <2> QED BY <1>1, <2>1, <2>3, <2>5, <2>6
<1>2. CASE ctJob[w].source # "inbound"
  <2>1. ctJob' = [ctJob EXCEPT ![w] = CtNoJob]
    BY <1>2 DEF CtFound
  <2> QED BY <1>2, <2>1, CtNoJobOK, CtIdleFits
<1> QED BY <1>1, <1>2

\* The job goes on to its next step.
LEMMA CtGoes ==
  ASSUME CtInv, NEW w \in CtWorkers, ctJob[w].pc # "idle",
         NEW pc \in {"find", "lock", "recheck", "match", "create", "refresh"}, CtGo(w, pc)
  PROVE  \E new \in CtJobType :
           /\ ctJob' = [ctJob EXCEPT ![w] = new]
           /\ new.pc = pc /\ new.id = ctJob[w].id /\ new.source = ctJob[w].source
           /\ new.contact = ctJob[w].contact /\ new.named = ctJob[w].named
<1> DEFINE new == [ctJob[w] EXCEPT !.pc = pc]
<1>1. ctJob[w] \in CtJobType
  BY CtHasTypes
<1>2. /\ new \in CtJobType
      /\ new.pc = pc /\ new.id = ctJob[w].id /\ new.source = ctJob[w].source
      /\ new.contact = ctJob[w].contact /\ new.named = ctJob[w].named
  BY <1>1 DEF CtJobType
<1>3. ctJob' = [ctJob EXCEPT ![w] = new]
  BY CtHasTypes DEF CtGo
<1> HIDE DEF new
<1> QED BY <1>2, <1>3

LEMMA CtFindKeeps ==
  ASSUME CtInv, NEW w \in CtWorkers, CtFind(w) PROVE CtInv'
<1>1. /\ ctType' = ctType /\ ctLinks' = ctLinks /\ ctContact' = ctContact
      /\ ctLock' = ctLock /\ ctCollided' = ctCollided /\ ctExpired' = ctExpired
      /\ ctJobs' = ctJobs /\ ctJob[w].pc = "find"
  BY DEF CtFind, CtWorld
<1>2. ctJob[w].id \in CtIds /\ CtJobFits(ctJob[w], ctType, ctContact)
  BY <1>1 DEF CtInv, CtJobsFit, CtJobFits
<1>3. ~ctExpired => ctJob[w].source # "recovery"
  BY <1>1 DEF CtInv, CtLocked, CtHolds
<1>4. \E new \in CtJobType : /\ ctJob' = [ctJob EXCEPT ![w] = new]
                             /\ CtJobFits(new, ctType, ctContact)
                             /\ ~ctExpired => CtHolds(w, new, ctLock', ctLinks)
  <2>1. CASE ctLinks[ctJob[w].id] # CtNobody
    <3>1. CtFound(w, ctLinks[ctJob[w].id])
      BY <2>1 DEF CtFind
    <3>2. ctLinks[ctJob[w].id] \in CtContacts
      BY <2>1, <1>2, CtHasTypes
    <3> QED BY <1>1, <3>1, <3>2, CtFoundOK
  <2>2. CASE ctLinks[ctJob[w].id] = CtNobody /\ ctJob[w].source = "recovery"
    <3>1. CtGo(w, "match")
      BY <2>2 DEF CtFind
    <3>2. PICK new \in CtJobType :
            /\ ctJob' = [ctJob EXCEPT ![w] = new]
            /\ new.pc = "match" /\ new.id = ctJob[w].id /\ new.source = ctJob[w].source
            /\ new.contact = ctJob[w].contact
      BY <1>1, <3>1, CtGoes
    <3>3. CtJobFits(new, ctType, ctContact)
      BY <1>1, <1>2, <2>2, <3>2 DEF CtJobFits
    <3> QED BY <1>3, <2>2, <3>2, <3>3
  <2>3. CASE ctLinks[ctJob[w].id] = CtNobody /\ ctJob[w].source # "recovery"
    <3>1. CtGo(w, "lock")
      BY <2>3 DEF CtFind
    <3>2. PICK new \in CtJobType :
            /\ ctJob' = [ctJob EXCEPT ![w] = new]
            /\ new.pc = "lock" /\ new.id = ctJob[w].id /\ new.source = ctJob[w].source
            /\ new.contact = ctJob[w].contact
      BY <1>1, <3>1, CtGoes
    <3>3. CtJobFits(new, ctType, ctContact) /\ CtHolds(w, new, ctLock', ctLinks)
      BY <1>1, <1>2, <2>3, <3>2 DEF CtJobFits, CtHolds
    <3> QED BY <3>2, <3>3
  <2> QED BY <2>1, <2>2, <2>3
<1>5. PICK new \in CtJobType : /\ ctJob' = [ctJob EXCEPT ![w] = new]
                               /\ CtJobFits(new, ctType, ctContact)
                               /\ ~ctExpired => CtHolds(w, new, ctLock', ctLinks)
  BY <1>4
<1> QED BY <1>1, <1>5, CtHasTypes, CtJobStep

LEMMA CtTakeLockKeeps ==
  ASSUME CtInv, NEW w \in CtWorkers, CtTakeLock(w) PROVE CtInv'
<1>1. /\ ctType' = ctType /\ ctLinks' = ctLinks /\ ctContact' = ctContact
      /\ ctLock' = [ctLock EXCEPT ![ctJob[w].id] = w] /\ ctLock[ctJob[w].id] = CtNobody
      /\ ctCollided' = ctCollided /\ ctExpired' = ctExpired
      /\ ctJobs' = ctJobs /\ ctJob[w].pc = "lock" /\ CtGo(w, "recheck")
  BY DEF CtTakeLock, CtWorld
<1>2. ctJob[w].id \in CtIds /\ CtJobFits(ctJob[w], ctType, ctContact)
  BY <1>1 DEF CtInv, CtJobsFit, CtJobFits
<1>3. ~ctExpired => ctJob[w].source # "recovery"
  BY <1>1 DEF CtInv, CtLocked, CtHolds
<1>4. PICK new \in CtJobType :
        /\ ctJob' = [ctJob EXCEPT ![w] = new]
        /\ new.pc = "recheck" /\ new.id = ctJob[w].id /\ new.source = ctJob[w].source
        /\ new.contact = ctJob[w].contact
  BY <1>1, CtGoes
<1>5. /\ ctLock' \in [CtIds -> CtWorkers \union {CtNobody}]
      /\ ctLock'[ctJob[w].id] = w
      /\ \A i \in CtIds : ctLock[i] # CtNobody => ctLock'[i] = ctLock[i]
  BY <1>1, <1>2, CtHasTypes
<1>6. CtJobFits(new, ctType, ctContact)
  BY <1>1, <1>2, <1>4 DEF CtJobFits
<1>7. ~ctExpired => CtHolds(w, new, ctLock', ctLinks)
  BY <1>3, <1>4, <1>5 DEF CtHolds
<1> QED BY <1>1, <1>4, <1>5, <1>6, <1>7, CtHasTypes, CtJobStep

LEMMA CtGiveUpKeeps ==
  ASSUME CtInv, NEW w \in CtWorkers, CtGiveUp(w) PROVE CtInv'
<1> DEFINE again == [ctJob[w] EXCEPT !.pc = "find"]
           new == IF ctJob[w].source = "inbound" THEN again ELSE CtNoJob
<1>1. /\ ctType' = ctType /\ ctLinks' = ctLinks /\ ctContact' = ctContact
      /\ ctLock' = ctLock
      /\ ctCollided' = ctCollided /\ ctExpired' = ctExpired
      /\ ctJobs' = ctJobs /\ ctJob[w].pc = "lock"
      /\ ctJob' = [ctJob EXCEPT ![w] = new]
  BY CtHasTypes DEF CtGiveUp, CtWorld
<1>2. ctJob[w].id \in CtIds /\ CtJobFits(ctJob[w], ctType, ctContact) /\ ctJob[w] \in CtJobType
  BY <1>1, CtHasTypes DEF CtInv, CtJobsFit, CtJobFits
<1>3. /\ again \in CtJobType /\ again.pc = "find" /\ again.id = ctJob[w].id
      /\ again.source = ctJob[w].source /\ again.contact = ctJob[w].contact
  BY <1>2 DEF CtJobType
<1> HIDE DEF again
<1>4. new \in CtJobType
  BY <1>3, CtNoJobOK
<1>5. ctJob[w].source = "inbound" => CtJobFits(again, ctType, ctContact)
                                     /\ CtHolds(w, again, ctLock', ctLinks)
  BY <1>1, <1>2, <1>3 DEF CtJobFits, CtHolds
<1>6. CtJobFits(new, ctType, ctContact) /\ CtHolds(w, new, ctLock', ctLinks)
  BY <1>5, CtIdleFits
<1> HIDE DEF new
<1> QED BY <1>1, <1>4, <1>6, CtHasTypes, CtJobStep

LEMMA CtRecheckKeeps ==
  ASSUME CtInv, NEW w \in CtWorkers, CtRecheck(w) PROVE CtInv'
<1>1. /\ ctType' = ctType /\ ctLinks' = ctLinks /\ ctContact' = ctContact
      /\ ctCollided' = ctCollided /\ ctExpired' = ctExpired
      /\ ctJobs' = ctJobs /\ ctJob[w].pc = "recheck"
  BY DEF CtRecheck, CtWorld
<1>2. ctJob[w].id \in CtIds /\ CtJobFits(ctJob[w], ctType, ctContact)
  BY <1>1 DEF CtInv, CtJobsFit, CtJobFits
<1>3. ~ctExpired => ctJob[w].source # "recovery" /\ ctLock[ctJob[w].id] = w
  BY <1>1 DEF CtInv, CtLocked, CtHolds
<1>4. /\ ctLock' \in [CtIds -> CtWorkers \union {CtNobody}]
      /\ \A i \in CtIds : ctLock[i] # CtNobody /\ ctLock[i] # w => ctLock'[i] = ctLock[i]
  <2>1. ctLock' = ctLock \/ CtRelease(w)
    BY DEF CtRecheck
  <2> QED BY <2>1, CtReleases, CtHasTypes
<1>5. PICK new \in CtJobType : /\ ctJob' = [ctJob EXCEPT ![w] = new]
                               /\ CtJobFits(new, ctType, ctContact)
                               /\ ~ctExpired => CtHolds(w, new, ctLock', ctLinks)
  <2>1. CASE ctLinks[ctJob[w].id] # CtNobody
    <3>1. CtFound(w, ctLinks[ctJob[w].id])
      BY <2>1 DEF CtRecheck
    <3>2. ctLinks[ctJob[w].id] \in CtContacts
      BY <2>1, <1>2, CtHasTypes
    <3> QED BY <1>1, <3>1, <3>2, CtFoundOK
  <2>2. CASE ctLinks[ctJob[w].id] = CtNobody
    <3>1. CtGo(w, "create") /\ ctLock' = ctLock
      BY <2>2 DEF CtRecheck
    <3>2. PICK new \in CtJobType :
            /\ ctJob' = [ctJob EXCEPT ![w] = new]
            /\ new.pc = "create" /\ new.id = ctJob[w].id /\ new.source = ctJob[w].source
            /\ new.contact = ctJob[w].contact
      BY <1>1, <3>1, CtGoes
    <3>3. CtJobFits(new, ctType, ctContact)
      BY <1>1, <1>2, <3>2 DEF CtJobFits
    <3>4. ~ctExpired => CtHolds(w, new, ctLock', ctLinks)
      BY <1>3, <2>2, <3>1, <3>2 DEF CtHolds
    <3> QED BY <3>2, <3>3, <3>4
  <2> QED BY <2>1, <2>2
<1> QED BY <1>1, <1>4, <1>5, CtHasTypes, CtJobStep

LEMMA CtMatchKeeps ==
  ASSUME CtInv, NEW w \in CtWorkers, CtMatch(w) PROVE CtInv'
<1>1. /\ ctType' = ctType /\ ctLinks' = ctLinks /\ ctContact' = ctContact /\ ctLock' = ctLock
      /\ ctCollided' = ctCollided /\ ctExpired' = ctExpired
      /\ ctJobs' = ctJobs /\ ctJob[w].pc = "match"
  BY DEF CtMatch, CtWorld
<1>2. ctJob[w].id \in CtIds /\ CtJobFits(ctJob[w], ctType, ctContact) /\ ctJob[w] \in CtJobType
  BY <1>1, CtHasTypes DEF CtInv, CtJobsFit, CtJobFits
<1>3. ctExpired
  BY <1>1, <1>2 DEF CtInv, CtLocked, CtHolds, CtJobFits
<1>5. PICK new \in CtJobType : /\ ctJob' = [ctJob EXCEPT ![w] = new]
                               /\ CtJobFits(new, ctType, ctContact)
  <2>1. CASE CtGo(w, "create")
    <3>2. PICK new \in CtJobType :
            /\ ctJob' = [ctJob EXCEPT ![w] = new]
            /\ new.pc = "create" /\ new.id = ctJob[w].id /\ new.source = ctJob[w].source
            /\ new.contact = ctJob[w].contact
      BY <1>1, <2>1, CtGoes
    <3>3. CtJobFits(new, ctType, ctContact)
      BY <1>1, <1>2, <3>2 DEF CtJobFits
    <3> QED BY <3>2, <3>3
  <2>2. ASSUME NEW c \in CtContacts, ctContact[c].person = ctJob[w].id[1],
               ctJob' = [ctJob EXCEPT ![w].pc = "create", ![w].contact = c]
        PROVE  \E new \in CtJobType : /\ ctJob' = [ctJob EXCEPT ![w] = new]
                                      /\ CtJobFits(new, ctType, ctContact)
    <3> DEFINE new == [ctJob[w] EXCEPT !.pc = "create", !.contact = c]
    <3>1. ctJob' = [ctJob EXCEPT ![w] = new]
      BY <2>2, CtHasTypes DEF CtJobType
    <3>2. /\ new \in CtJobType /\ new.pc = "create" /\ new.contact = c /\ new.id = ctJob[w].id
          /\ new.source = ctJob[w].source
      BY <1>2 DEF CtJobType
    <3> HIDE DEF new
    <3>3. CtJobFits(new, ctType, ctContact)
      BY <1>1, <1>2, <2>2, <3>2 DEF CtJobFits
    <3> QED BY <3>1, <3>2, <3>3
  <2>3. \/ CtGo(w, "create")
        \/ \E c \in CtContacts : /\ ctContact[c].person = ctJob[w].id[1]
                                 /\ ctJob' = [ctJob EXCEPT ![w].pc = "create", ![w].contact = c]
    BY DEF CtMatch
  <2> QED BY <2>1, <2>2, <2>3
<1> QED BY <1>1, <1>3, <1>5, CtHasTypes, CtJobStep

LEMMA CtRefreshKeeps ==
  ASSUME CtInv, NEW w \in CtWorkers, CtRefresh(w) PROVE CtInv'
<1> DEFINE x == ctJob[w].contact
           row == [ctContact[x] EXCEPT !.name = "profile"]
<1>1. /\ ctType' = ctType /\ ctLinks' = ctLinks /\ CtRelease(w)
      /\ ctCollided' = ctCollided /\ ctExpired' = ctExpired
      /\ ctJobs' = ctJobs /\ ctJob[w].pc = "refresh" /\ ctJob' = [ctJob EXCEPT ![w] = CtNoJob]
  BY DEF CtRefresh, CtWorld
<1>2. /\ x \in CtContacts /\ x # CtNobody /\ ctJob[w].id \in CtIds
      /\ ctContact[x].person = ctJob[w].id[1]
  BY <1>1, CtAssumption DEF CtInv, CtJobsFit, CtJobFits
<1>3. ctContact[x].person # CtNobody
  BY <1>2, CtAssumption DEF CtIds
<1>4. ctContact[x] \in CtContactType
  BY <1>2, CtHasTypes
<1>5. row \in CtContactType /\ row.person = ctContact[x].person
  BY <1>4 DEF CtContactType
<1>6. ctContact' = ctContact \/ ctContact' = [ctContact EXCEPT ![x] = row]
  BY DEF CtRefresh
<1> HIDE DEF row
<1>7. \A c \in CtContacts : ctContact[c].person = CtNobody => ctContact[c].name = "none"
  BY DEF CtInv, CtRows
<1>8. /\ ctContact' \in [CtContacts -> CtContactType]
      /\ \A c \in CtContacts : /\ ctContact'[c].person = ctContact[c].person
                               /\ ctContact[c].person = CtNobody => ctContact'[c].name = "none"
  BY <1>2, <1>3, <1>5, <1>6, <1>7, CtHasTypes
<1>9. /\ ctJob' \in [CtWorkers -> CtJobType] /\ ctJob'[w] = CtNoJob
      /\ \A v \in CtWorkers : v # w => ctJob'[v] = ctJob[v]
  BY <1>1, CtNoJobOK, CtHasTypes
<1>10. /\ ctLock' \in [CtIds -> CtWorkers \union {CtNobody}]
       /\ \A v \in CtWorkers : v # w => \A i \in CtIds : ctLock[i] = v => ctLock'[i] = v
  BY <1>1, CtReleases, CtAssumption
<1>11. \A v \in CtWorkers :
           \/ /\ ctJob'[v] = ctJob[v]
              /\ ~ctExpired' => \A i \in CtIds : ctLock[i] = v => ctLock'[i] = v
           \/ /\ CtJobFits(ctJob'[v], ctType, ctContact)
              /\ ~ctExpired' => CtHolds(v, ctJob'[v], ctLock', ctLinks)
  BY <1>9, <1>10, CtIdleFits
<1> QED BY <1>1, <1>8, <1>9, <1>10, <1>11, CtHasTypes, CtAnyStep

LEMMA CtExpireKeeps ==
  ASSUME CtInv, NEW i \in CtIds, CtExpire(i) PROVE CtInv'
<1>1. /\ ctType' = ctType /\ ctLinks' = ctLinks /\ ctContact' = ctContact /\ ctJob' = ctJob
      /\ ctCollided' = ctCollided /\ ctExpired' = TRUE /\ ctJobs' = ctJobs
      /\ ctLock' = [ctLock EXCEPT ![i] = CtNobody]
  BY DEF CtExpire, CtWorld
<1>2. \A c \in CtContacts : ctContact[c].person = CtNobody => ctContact[c].name = "none"
  BY DEF CtInv, CtRows
<1>3. ctLock' \in [CtIds -> CtWorkers \union {CtNobody}]
  BY <1>1, CtHasTypes
<1>4. \A c \in CtContacts : /\ ctContact'[c].person = ctContact[c].person
                            /\ ctContact[c].person = CtNobody => ctContact'[c].name = "none"
  BY <1>1, <1>2
<1> QED BY <1>1, <1>3, <1>4, CtHasTypes, CtAnyStep

LEMMA CtEditKeeps ==
  ASSUME CtInv, NEW c \in CtContacts, CtEdit(c) \/ CtDelete(c) PROVE CtInv'
<1> DEFINE named == [ctContact[c] EXCEPT !.name = "operator"]
           gone == [ctContact[c] EXCEPT !.deleted = TRUE]
<1>1. /\ ctType' = ctType /\ ctLinks' = ctLinks /\ ctJob' = ctJob /\ ctLock' = ctLock
      /\ ctCollided' = ctCollided /\ ctExpired' = ctExpired /\ ctJobs' = ctJobs
      /\ ctContact[c].person # CtNobody
  BY DEF CtEdit, CtDelete, CtWorld
<1>2. ctContact[c] \in CtContactType
  BY CtHasTypes
<1>3. /\ named \in CtContactType /\ named.person = ctContact[c].person
      /\ gone \in CtContactType /\ gone.person = ctContact[c].person
  BY <1>2 DEF CtContactType
<1>4. ctContact' = [ctContact EXCEPT ![c] = named] \/ ctContact' = [ctContact EXCEPT ![c] = gone]
  BY DEF CtEdit, CtDelete
<1> HIDE DEF named, gone
<1>5. \A d \in CtContacts : ctContact[d].person = CtNobody => ctContact[d].name = "none"
  BY DEF CtInv, CtRows
<1>6. /\ ctContact' \in [CtContacts -> CtContactType]
      /\ \A d \in CtContacts : /\ ctContact'[d].person = ctContact[d].person
                               /\ ctContact[d].person = CtNobody => ctContact'[d].name = "none"
  BY <1>1, <1>3, <1>4, <1>5, CtHasTypes
<1> QED BY <1>1, <1>6, CtHasTypes, CtAnyStep

\* The unique index refuses the link: a lock expired, or recovery ran.
LEMMA CtCollideKeeps ==
  ASSUME CtInv, NEW w \in CtWorkers, CtCreate(w), ctLinks[ctJob[w].id] # CtNobody PROVE CtInv'
<1> DEFINE again == [ctJob[w] EXCEPT !.pc = "find"]
           new == IF ctJob[w].source = "inbound" THEN again ELSE CtNoJob
<1>1. /\ ctType' = ctType /\ ctLinks' = ctLinks /\ ctContact' = ctContact
      /\ ctCollided' = TRUE /\ ctExpired' = ctExpired
      /\ ctJobs' = ctJobs /\ ctJob[w].pc = "create" /\ CtRelease(w)
      /\ ctJob' = [ctJob EXCEPT ![w] = new]
  BY CtHasTypes DEF CtCreate, CtWorld
<1>2. ctJob[w].id \in CtIds /\ CtJobFits(ctJob[w], ctType, ctContact) /\ ctJob[w] \in CtJobType
  BY <1>1, CtHasTypes DEF CtInv, CtJobsFit, CtJobFits
<1>3. /\ again \in CtJobType /\ again.pc = "find" /\ again.id = ctJob[w].id
      /\ again.source = ctJob[w].source /\ again.contact = ctJob[w].contact
  BY <1>2 DEF CtJobType
<1> HIDE DEF again
<1>4. new \in CtJobType
  BY <1>3, CtNoJobOK
<1>5. ctJob[w].source = "inbound" => CtJobFits(again, ctType, ctContact)
  BY <1>1, <1>2, <1>3 DEF CtJobFits
<1>6. CtJobFits(new, ctType, ctContact)
  BY <1>5, CtIdleFits
<1>7. ctExpired
  BY <1>1 DEF CtInv, CtLocked, CtHolds
<1> HIDE DEF new
<1> QED BY <1>1, <1>4, <1>6, <1>7, CtReleases, CtHasTypes, CtJobStep

\* The contact that is linked, found or new.
LEMMA CtCreateKeeps ==
  ASSUME CtInv, NEW w \in CtWorkers, CtCreate(w), ctLinks[ctJob[w].id] = CtNobody PROVE CtInv'
<1> DEFINE id == ctJob[w].id
<1>1. /\ ctType' = ctType /\ ctCollided' = ctCollided /\ ctExpired' = ctExpired
      /\ ctJobs' = ctJobs /\ ctJob[w].pc = "create" /\ CtRelease(w)
      /\ ctJob' = [ctJob EXCEPT ![w] = CtNoJob]
  BY DEF CtCreate, CtWorld
<1>2. id \in CtIds /\ CtJobFits(ctJob[w], ctType, ctContact) /\ ctJob[w] \in CtJobType
  BY <1>1, CtHasTypes DEF CtInv, CtJobsFit, CtJobFits
<1>3. PICK p \in CtPeople, f \in {"plain", "jid"} : id = <<p, f>>
  BY <1>2 DEF CtIds
<1>4. id[1] = p /\ id[2] = f /\ p # CtNobody
  BY <1>3, CtAssumption
<1>5. PICK x \in CtContacts :
        /\ ctLinks' = [ctLinks EXCEPT ![id] = x]
        /\ ctContact' \in [CtContacts -> CtContactType]
        /\ ctContact'[x].person = p
        /\ \A c \in CtContacts : c # x => ctContact'[c] = ctContact[c]
        /\ ctContact[x].person = CtNobody \/ ctContact' = ctContact
  <2>1. CASE ctJob[w].contact # CtNobody
    <3>1. /\ ctLinks' = [ctLinks EXCEPT ![id] = ctJob[w].contact]
          /\ ctContact' = ctContact
      BY <2>1 DEF CtCreate
    <3>2. ctJob[w].contact \in CtContacts
      BY <2>1, <1>2 DEF CtJobType
    <3>3. ctContact[ctJob[w].contact].person = p
      BY <1>1, <1>2, <1>4, <2>1 DEF CtJobFits
    <3> QED BY <3>1, <3>2, <3>3, CtHasTypes
  <2>2. CASE ctJob[w].contact = CtNobody
    <3>1. PICK x \in CtContacts, name \in {"none", "profile"} :
                  /\ ctContact[x].person = CtNobody
                  /\ ctLinks' = [ctLinks EXCEPT ![id] = x]
                  /\ ctContact' = [ctContact EXCEPT ![x] =
                       [person |-> id[1], name |-> name, deleted |-> FALSE]]
      BY <2>2 DEF CtCreate
    <3> DEFINE row == [person |-> p, name |-> name, deleted |-> FALSE]
    <3>2. row \in CtContactType /\ row.person = p
      BY DEF CtContactType
    <3>3. ctContact' = [ctContact EXCEPT ![x] = row]
      BY <3>1, <1>4
    <3> HIDE DEF row, id
    <3>4. /\ ctContact' \in [CtContacts -> CtContactType]
          /\ ctContact'[x].person = p
          /\ \A c \in CtContacts : c # x => ctContact'[c] = ctContact[c]
      BY <3>2, <3>3, CtHasTypes
    <3> QED BY <3>1, <3>4
  <2> QED BY <2>1, <2>2
<1> HIDE DEF id
<1>6. /\ ctLinks' \in [CtIds -> CtContacts \union {CtNobody}] /\ ctLinks'[id] = x
      /\ \A i \in CtIds : i # id => ctLinks'[i] = ctLinks[i]
  BY <1>2, <1>5, CtHasTypes
<1>7. \A c \in CtContacts : ctContact[c].person # CtNobody => ctContact'[c] = ctContact[c]
  BY <1>5
<1>8. /\ ctJob' \in [CtWorkers -> CtJobType] /\ ctJob'[w] = CtNoJob
      /\ \A v \in CtWorkers : v # w => ctJob'[v] = ctJob[v]
  BY <1>1, CtNoJobOK, CtHasTypes
<1>9. /\ ctLock' \in [CtIds -> CtWorkers \union {CtNobody}]
      /\ \A i \in CtIds : ctLock[i] # CtNobody /\ ctLock[i] # w => ctLock'[i] = ctLock[i]
  BY <1>1, CtReleases
<1>10. CtTypeOK'
  BY <1>1, <1>5, <1>6, <1>8, <1>9, CtHasTypes DEF CtTypeOK, CtContactType, CtJobType
<1>11. CtLinksAgree'
  <2> SUFFICES ASSUME NEW i \in CtIds, ctLinks'[i] # CtNobody
               PROVE  ctContact'[ctLinks'[i]].person = i[1]
    BY DEF CtLinksAgree
  <2>1. CASE i = id
    BY <2>1, <1>4, <1>5, <1>6
  <2>2. CASE i # id
    <3>1. ctLinks'[i] = ctLinks[i] /\ ctContact[ctLinks[i]].person = i[1]
      BY <2>2, <1>6 DEF CtInv, CtLinksAgree
    <3>2. i[1] # CtNobody
      BY CtAssumption DEF CtIds
    <3>3. ctLinks[i] \in CtContacts
      BY <3>1, CtHasTypes
    <3> QED BY <3>1, <3>2, <3>3, <1>7
  <2> QED BY <2>1, <2>2
<1>12. CtRows'
  <2> DEFINE form == IF ctType = "ZAPPFY" THEN "jid" ELSE "plain"
  <2>0. form \in {"plain", "jid"}
    OBVIOUS
  <2> HIDE DEF form
  <2>1. \A c \in CtContacts : ctContact'[c].person = CtNobody => ctContact'[c].name = "none"
    BY <1>4, <1>5 DEF CtInv, CtRows
  <2>2. ASSUME NEW c \in CtContacts, ctType # "UAZAPI", ctContact'[c].person # CtNobody
        PROVE  ctLinks'[<<ctContact'[c].person, form>>] = c
    <3>1. f = form
      BY <1>1, <1>2, <1>4, <2>2 DEF CtJobFits, form, id
    <3>2. CASE c = x
      BY <3>1, <3>2, <1>3, <1>5, <1>6
    <3>3. CASE c # x
      <4>1. ctContact'[c] = ctContact[c] /\ ctLinks[<<ctContact[c].person, form>>] = c
        BY <3>3, <1>5, <2>2 DEF CtInv, CtRows, form
      <4>2. ctLinks[id] = CtNobody /\ c # CtNobody
        BY CtAssumption DEF id
      <4>3. <<ctContact[c].person, form>> # id
        BY <4>1, <4>2
      <4>4. ctContact[c].person \in CtPeople
        BY <4>1, <2>2, CtHasTypes DEF CtContactType
      <4>5. <<ctContact[c].person, form>> \in CtIds
        BY <4>4, <2>0 DEF CtIds
      <4> QED BY <4>1, <4>3, <4>5, <1>6
    <3> QED BY <3>2, <3>3
  <2> QED BY <2>1, <2>2, <1>1 DEF CtRows, form
<1>13. CtJobsFit'
  <2> SUFFICES ASSUME NEW v \in CtWorkers PROVE CtJobFits(ctJob'[v], ctType, ctContact')
    BY <1>1 DEF CtJobsFit
  <2>1. CASE v = w
    BY <2>1, <1>8, CtIdleFits
  <2>2. CASE v # w
    <3>1. ctJob'[v] = ctJob[v] /\ CtJobFits(ctJob[v], ctType, ctContact)
      BY <2>2, <1>8 DEF CtInv, CtJobsFit
    <3>2. ctJob[v].contact \in CtContacts \union {CtNobody}
      BY CtHasTypes DEF CtJobType
    <3>3. ctJob[v].pc # "idle" => ctJob[v].id[1] # CtNobody
      BY <3>1, CtAssumption DEF CtJobFits, CtIds
    <3> QED BY <3>1, <3>2, <3>3, <1>7 DEF CtJobFits
  <2> QED BY <2>1, <2>2
<1>14. CtLocked'
  <2> SUFFICES ASSUME ~ctExpired
               PROVE  ~ctCollided /\ \A v \in CtWorkers : CtHolds(v, ctJob'[v], ctLock', ctLinks')
    BY <1>1 DEF CtLocked
  <2>1. ~ctCollided /\ \A v \in CtWorkers : CtHolds(v, ctJob[v], ctLock, ctLinks)
    BY DEF CtInv, CtLocked
  <2> SUFFICES ASSUME NEW v \in CtWorkers PROVE CtHolds(v, ctJob'[v], ctLock', ctLinks')
    BY <2>1
  <2>2. CASE v = w
    BY <2>2, <1>8, CtIdleFits
  <2>3. CASE v # w
    <3>1. ctJob'[v] = ctJob[v] /\ v # CtNobody
      BY <2>3, <1>8, CtAssumption
    <3>2. ctJob[v].pc # "idle" => ctJob[v].id \in CtIds
      BY DEF CtInv, CtJobsFit, CtJobFits
    <3>3. ctLock[id] = w
      BY <2>1, <1>1 DEF CtHolds, id
    <3>4. ctJob[v].pc \in {"recheck", "create"} =>
            ctLock[ctJob[v].id] = v /\ ctJob[v].id # id /\ ctJob[v].id \in CtIds
      BY <2>1, <2>3, <3>2, <3>3 DEF CtHolds
    <3>5. ctJob[v].pc \in {"recheck", "create"} => ctLock'[ctJob[v].id] = v
      BY <2>3, <3>1, <3>4, <1>9
    <3>6. ctJob[v].pc = "create" => ctLinks'[ctJob[v].id] = CtNobody
      BY <2>1, <3>4, <1>6 DEF CtHolds
    <3> QED BY <2>1, <3>1, <3>5, <3>6 DEF CtHolds
  <2> QED BY <2>2, <2>3
<1> QED BY <1>10, <1>11, <1>12, <1>13, <1>14 DEF CtInv

-----------------------------------------------------------------------------

LEMMA CtStep == CtInv /\ [CtNext]_ctVars => CtInv'
<1> SUFFICES ASSUME CtInv, [CtNext]_ctVars PROVE CtInv'
  OBVIOUS
<1>1. ASSUME NEW w \in CtWorkers,
             \/ CtTake(w) \/ CtFind(w) \/ CtTakeLock(w) \/ CtGiveUp(w) \/ CtRecheck(w)
             \/ CtMatch(w) \/ CtCreate(w) \/ CtRefresh(w)
      PROVE  CtInv'
  BY <1>1, CtTakeKeeps, CtFindKeeps, CtTakeLockKeeps, CtGiveUpKeeps, CtRecheckKeeps,
     CtMatchKeeps, CtCollideKeeps, CtCreateKeeps, CtRefreshKeeps
<1>2. ASSUME NEW i \in CtIds, CtExpire(i) PROVE CtInv'
  BY <1>2, CtExpireKeeps
<1>3. ASSUME NEW c \in CtContacts, CtEdit(c) \/ CtDelete(c) PROVE CtInv'
  BY <1>3, CtEditKeeps
<1>4. CASE UNCHANGED ctVars
  BY <1>4 DEF ctVars, CtInv, CtTypeOK, CtLinksAgree, CtJobsFit, CtRows, CtLocked
<1> QED BY <1>1, <1>2, <1>3, <1>4 DEF CtNext

\* A customer is one contact of a channel, a link leads to its customer, and two inserts of
\* one customer meet only after a lock expired: for any customers, rows and workers.
THEOREM CtSafeCorrect == CtSpec => []CtSafe
<1>1. CtInv => CtSafe
  <2> SUFFICES ASSUME CtInv PROVE CtSafe
    OBVIOUS
  <2>1. CtLinksAgree /\ CtCollisionNeedsExpiry
    BY DEF CtInv, CtLocked, CtCollisionNeedsExpiry
  <2>2. CtOneContact
    <3> SUFFICES ASSUME ctType # "UAZAPI", NEW p \in CtPeople
                 PROVE  Cardinality({c \in CtContacts : ctContact[c].person = p}) <= 1
      BY DEF CtOneContact
    <3> DEFINE S == {c \in CtContacts : ctContact[c].person = p}
               x == ctLinks[<<p, IF ctType = "ZAPPFY" THEN "jid" ELSE "plain">>]
    <3>1. \A c \in S : c = x
      BY CtAssumption DEF CtInv, CtRows
    <3> HIDE DEF S, x
    <3>2. S = {} \/ S = {x}
      BY <3>1
    <3>3. Cardinality(S) = 0 \/ Cardinality(S) = 1
      BY <3>2, FS_EmptySet, FS_Singleton
    <3> QED BY <3>3 DEF S
  <2> QED BY <2>1, <2>2 DEF CtSafe
<1> QED BY <1>1, CtInitInv, CtStep, PTL DEF CtSpec

\* The variables keep their types, for any customers, rows, workers and bound.
THEOREM CtTypeCorrect == CtSpec => []CtTypeOK
<1>1. CtInv => CtTypeOK
  BY DEF CtInv
<1> QED BY <1>1, CtInitInv, CtStep, PTL DEF CtSpec

\* Only a message whose job read the contact before it had a name writes over the name an
\* operator gave.
THEOREM CtGivenNameStaysCorrect == CtSpec => [][CtGivenNameStays]_ctVars
<1>1. CtInv /\ [CtNext]_ctVars => [CtGivenNameStays]_ctVars
  <2> SUFFICES ASSUME CtInv, CtNext, NEW c \in CtContacts, ctContact[c].name = "operator",
                      ctContact'[c].name # "operator"
               PROVE  \E w \in CtWorkers : ctJob[w].contact = c /\ ~ctJob[w].named
    BY DEF CtGivenNameStays
  <2>1. ASSUME NEW w \in CtWorkers, CtCreate(w) PROVE FALSE
    <3>1. ctContact[c].person # CtNobody
      BY DEF CtInv, CtRows
    <3>2. ctContact'[c] = ctContact[c]
      BY <2>1, <3>1, CtHasTypes DEF CtCreate
    <3> QED BY <3>2
  <2>2. ASSUME NEW w \in CtWorkers, CtRefresh(w)
        PROVE  ctJob[w].contact = c /\ ~ctJob[w].named
    <3>1. ~ctJob[w].named /\ ctContact' = [ctContact EXCEPT ![ctJob[w].contact].name = "profile"]
      BY <2>2 DEF CtRefresh
    <3> QED BY <3>1, CtHasTypes
  <2>3. ASSUME NEW d \in CtContacts, CtEdit(d) \/ CtDelete(d) PROVE FALSE
    <3>1. \/ ctContact' = [ctContact EXCEPT ![d].name = "operator"]
          \/ ctContact' = [ctContact EXCEPT ![d].deleted = TRUE]
      BY <2>3 DEF CtEdit, CtDelete
    <3>2. ctContact[c] \in CtContactType
      BY CtHasTypes
    <3>3. ctContact'[c].name = "operator"
      BY <3>1, <3>2, CtHasTypes DEF CtContactType
    <3> QED BY <3>3
  <2>4. \/ ctContact' = ctContact
        \/ \E w \in CtWorkers : CtCreate(w) \/ CtRefresh(w)
        \/ \E d \in CtContacts : CtEdit(d) \/ CtDelete(d)
    BY DEF CtNext, CtTake, CtFind, CtTakeLock, CtGiveUp, CtRecheck, CtMatch, CtExpire
  <2> QED BY <2>1, <2>2, <2>3, <2>4
<1> QED BY <1>1, CtInitInv, CtStep, PTL DEF CtSpec

-----------------------------------------------------------------------------
(* Photos: any workers, photos and edits *)

AvMarks == [at : {"mark"}, url : AvPhotos, meta : AvMetas]
AvFetches == [at : {"fetch"}, url : AvPhotos]
AvSaves == [at : {"save", "write"}, url : AvPhotos, photo : AvPhotos]
AvWorkType == {AvIdle} \union AvMarks \union AvFetches \union AvSaves

AvTypeInv ==
  /\ avPhoto \in AvPhotos /\ avPhotos \in AvPhotos /\ avFile \in AvPhotos /\ avUrl \in AvPhotos
  /\ avAge \in {"new", "day", "week"}
  /\ avMeta \in AvMetas
  /\ avJob \in {"none", "hydrate", "refresh"}
  /\ avWork \in [AvWorkers -> AvWorkType]
  /\ avAsks \in 0..AvMaxAsks /\ avEdits \in 0..AvMaxEdits
  /\ avToday \in Nat /\ avRaced \in BOOLEAN

\* What a call read is still there when nothing overlapped it.
AvReads(work, url, meta, today, file) ==
  /\ work.at # "idle" => work.url = url
  /\ work.at = "mark" => work.meta.edit = meta.edit /\ (url = 0 => today = 0)
  /\ work.at = "write" => file = 0 \/ file = work.photo

AvAlone ==
  ~avRaced =>
    /\ \A w \in AvWorkers, v \in AvWorkers : avWork[w].at # "idle" /\ avWork[v].at # "idle" => w = v
    /\ \A w \in AvWorkers : AvReads(avWork[w], avUrl, avMeta, avToday, avFile)

AvCount == /\ ~avMeta.asked => avToday = 0
           /\ avMeta.edit <= avEdits
           /\ \A w \in AvWorkers : avWork[w].at = "mark" => avWork[w].meta.edit <= avEdits

AvInv == AvTypeInv /\ AvAlone /\ AvCount /\ AvUrlShowsFile /\ AvAskedOnce

LEMMA AvWorkIs ==
  ASSUME NEW r \in AvWorkType
  PROVE  /\ r.at \in {"idle", "mark", "fetch", "save", "write"}
         /\ r.at = "idle" <=> r = AvIdle
         /\ r.at = "mark" => r.url \in AvPhotos /\ r.meta \in AvMetas
         /\ r.at = "fetch" => r.url \in AvPhotos
         /\ r.at \in {"save", "write"} => r \in AvSaves /\ r.url \in AvPhotos /\ r.photo \in AvPhotos
BY DEF AvWorkType, AvIdle, AvMarks, AvFetches, AvSaves

LEMMA AvIdleOK == AvIdle \in AvWorkType /\ AvIdle.at = "idle"
BY DEF AvWorkType, AvIdle

LEMMA AvZero == 0 \in AvPhotos /\ 0 \in 0..AvMaxEdits /\ 0 \in 0..AvMaxAsks
BY AvAssumption DEF AvPhotos

LEMMA AvBusyIs ==
  ASSUME AvInv
  PROVE  AvBusy <=> \E w \in AvWorkers : avWork[w].at # "idle"
<1>1. \A w \in AvWorkers : avWork[w].at = "idle" <=> avWork[w] = AvIdle
  BY AvWorkIs DEF AvInv, AvTypeInv
<1> QED BY <1>1 DEF AvBusy

LEMMA AvInitInv == AvInit => AvInv
<1> SUFFICES ASSUME AvInit PROVE AvInv
  OBVIOUS
<1> DEFINE first == [edit |-> 0, asked |-> FALSE]
<1>0. avMeta = first
  BY DEF AvInit
<1>1. first \in AvMetas /\ first.edit = 0
  BY AvZero DEF AvMetas
<1> HIDE DEF first
<1>2. avWork \in [AvWorkers -> AvWorkType] /\ \A w \in AvWorkers : avWork[w].at = "idle"
  BY AvIdleOK DEF AvInit
<1>3. AvTypeInv
  BY <1>0, <1>1, <1>2, AvZero DEF AvInit, AvTypeInv
<1>4. AvAlone
  BY <1>2 DEF AvAlone, AvReads
<1>5. AvCount /\ AvUrlShowsFile /\ AvAskedOnce
  BY <1>0, <1>1, <1>2 DEF AvInit, AvCount, AvUrlShowsFile, AvAskedOnce
<1> QED BY <1>3, <1>4, <1>5 DEF AvInv

LEMMA AvNumbers ==
  ASSUME NEW n \in AvPhotos, n < AvMaxPhotos PROVE n + 1 \in AvPhotos
BY AvAssumption DEF AvPhotos

LEMMA AvChangePhotoKeeps == ASSUME AvInv, AvChangePhoto PROVE AvInv'
<1>1. /\ avFile' = avFile /\ avAge' = avAge /\ avUrl' = avUrl /\ avMeta' = avMeta
      /\ avJob' = avJob /\ avWork' = avWork /\ avAsks' = avAsks /\ avEdits' = avEdits
      /\ avToday' = avToday /\ avRaced' = avRaced
  BY DEF AvChangePhoto
<1>2. avPhotos' \in AvPhotos /\ avPhoto' \in AvPhotos
  BY AvZero, AvNumbers DEF AvChangePhoto, AvInv, AvTypeInv
<1>3. AvTypeInv'
  BY <1>1, <1>2 DEF AvInv, AvTypeInv
<1> QED BY <1>1, <1>3 DEF AvInv, AvAlone, AvCount, AvUrlShowsFile, AvWriting, AvAskedOnce

\* What was read before an edit was counted before it.
LEMMA AvLaterEdits ==
  ASSUME AvInv, avEdits < AvMaxEdits, avEdits' = avEdits + 1, avWork' = avWork
  PROVE  /\ avEdits' \in 0..AvMaxEdits /\ avMeta.edit <= avEdits'
         /\ \A w \in AvWorkers : avWork'[w].at = "mark" => avWork'[w].meta.edit <= avEdits'
<1>1. avEdits \in 0..AvMaxEdits /\ avMeta.edit \in 0..AvMaxEdits
  BY DEF AvInv, AvTypeInv, AvMetas
<1>2. \A w \in AvWorkers : avWork[w].at = "mark" =>
        avWork[w].meta.edit \in 0..AvMaxEdits /\ avWork[w].meta.edit <= avEdits
  BY AvWorkIs DEF AvInv, AvTypeInv, AvCount, AvMetas
<1>3. avMeta.edit <= avEdits
  BY DEF AvInv, AvCount
<1> QED BY <1>1, <1>2, <1>3, AvAssumption

LEMMA AvDayKeeps == ASSUME AvInv, AvDay PROVE AvInv'
<1> DEFINE new == [avMeta EXCEPT !.asked = FALSE]
<1>1. /\ avPhoto' = avPhoto /\ avPhotos' = avPhotos /\ avFile' = avFile /\ avUrl' = avUrl
      /\ avJob' = avJob /\ avWork' = avWork /\ avAsks' = avAsks
      /\ avEdits < AvMaxEdits /\ avEdits' = avEdits + 1
      /\ avToday' = 0 /\ avRaced' = avRaced /\ avMeta' = new
      /\ avAge' \in {"new", "day", "week"}
  BY DEF AvDay
<1>2. avMeta \in AvMetas
  BY DEF AvInv, AvTypeInv
<1>3. new \in AvMetas /\ new.edit = avMeta.edit
  BY <1>2 DEF AvMetas
<1> HIDE DEF new
<1>4. avEdits' \in 0..AvMaxEdits /\ avMeta'.edit <= avEdits'
  BY <1>1, <1>3, AvLaterEdits
<1>5. AvTypeInv'
  BY <1>1, <1>3, <1>4 DEF AvInv, AvTypeInv
<1>6. AvAlone'
  BY <1>1, <1>3 DEF AvInv, AvAlone, AvReads
<1>7. \A w \in AvWorkers : avWork'[w].at = "mark" => avWork'[w].meta.edit <= avEdits'
  BY <1>1, AvLaterEdits
<1>8. AvCount'
  BY <1>1, <1>4, <1>7 DEF AvInv, AvCount
<1> QED BY <1>1, <1>5, <1>6, <1>8 DEF AvInv, AvUrlShowsFile, AvWriting, AvAskedOnce

LEMMA AvRedeployKeeps == ASSUME AvInv, AvRedeploy PROVE AvInv'
<1>1. /\ avPhoto' = avPhoto /\ avPhotos' = avPhotos /\ avFile' = 0 /\ avUrl' = avUrl
      /\ avJob' = avJob /\ avWork' = avWork /\ avAsks' = avAsks
      /\ avEdits < AvMaxEdits /\ avEdits' = avEdits + 1
      /\ avToday' = avToday /\ avRaced' = avRaced /\ avMeta' = avMeta /\ avAge' = avAge
  BY DEF AvRedeploy
<1>4. avEdits' \in 0..AvMaxEdits /\ avMeta'.edit <= avEdits'
  BY <1>1, AvLaterEdits
<1>5. AvTypeInv'
  BY <1>1, <1>4, AvZero DEF AvInv, AvTypeInv
<1>6. AvAlone'
  BY <1>1 DEF AvInv, AvAlone, AvReads
<1>7. \A w \in AvWorkers : avWork'[w].at = "mark" => avWork'[w].meta.edit <= avEdits'
  BY <1>1, AvLaterEdits
<1>8. AvCount'
  BY <1>1, <1>4, <1>7 DEF AvInv, AvCount
<1> QED BY <1>1, <1>5, <1>6, <1>8 DEF AvInv, AvUrlShowsFile, AvWriting, AvAskedOnce

LEMMA AvEditKeeps == ASSUME AvInv, AvEdit PROVE AvInv'
<1> DEFINE new == [edit |-> avEdits + 1, asked |-> FALSE]
<1>1. /\ avPhoto' = avPhoto /\ avPhotos' = avPhotos /\ avFile' = avFile /\ avUrl' = avUrl
      /\ avJob' = avJob /\ avWork' = avWork /\ avAsks' = avAsks
      /\ avEdits < AvMaxEdits /\ avEdits' = avEdits + 1
      /\ avToday' = 0 /\ avRaced' = (avRaced \/ AvBusy) /\ avMeta' = new /\ avAge' = avAge
  BY DEF AvEdit
<1>2. avEdits' \in 0..AvMaxEdits
  BY <1>1, AvAssumption DEF AvInv, AvTypeInv
<1>3. new \in AvMetas /\ new.edit = avEdits + 1
  BY <1>1, <1>2 DEF AvMetas
<1> HIDE DEF new
<1>4. avMeta'.edit <= avEdits'
  BY <1>1, <1>2, <1>3
<1>5. AvTypeInv'
  BY <1>1, <1>2, <1>3 DEF AvInv, AvTypeInv
<1>6. AvAlone'
  BY <1>1, AvBusyIs DEF AvInv, AvAlone, AvReads
<1>7. \A w \in AvWorkers : avWork'[w].at = "mark" => avWork'[w].meta.edit <= avEdits'
  BY <1>1, AvLaterEdits
<1>8. AvCount'
  BY <1>1, <1>4, <1>7 DEF AvInv, AvCount
<1>9. avRaced => avRaced'
  BY <1>1
<1>10. AvWriting' <=> AvWriting
  BY <1>1 DEF AvWriting
<1>11. AvUrlShowsFile'
  BY <1>1, <1>9, <1>10 DEF AvInv, AvUrlShowsFile
<1>12. AvAskedOnce'
  BY <1>1 DEF AvAskedOnce
<1> QED BY <1>5, <1>6, <1>8, <1>11, <1>12 DEF AvInv, AvUrlShowsFile, AvWriting, AvAskedOnce

LEMMA AvQueueKeeps == ASSUME AvInv, AvOpenInbox \/ AvOpenConversation PROVE AvInv'
<1>1. /\ avPhoto' = avPhoto /\ avPhotos' = avPhotos /\ avFile' = avFile /\ avUrl' = avUrl
      /\ avWork' = avWork /\ avAsks' = avAsks /\ avEdits' = avEdits
      /\ avToday' = avToday /\ avRaced' = avRaced /\ avMeta' = avMeta /\ avAge' = avAge
      /\ avJob' \in {"none", "hydrate", "refresh"}
  BY DEF AvOpenInbox, AvOpenConversation
<1>5. AvTypeInv'
  BY <1>1 DEF AvInv, AvTypeInv
<1> QED BY <1>1, <1>5 DEF AvInv, AvAlone, AvCount, AvUrlShowsFile, AvWriting, AvAskedOnce

\* A call begins: it is alone, or the calls raced.
LEMMA AvBeginKeeps ==
  ASSUME AvInv, NEW w \in AvWorkers, NEW days, avBegin(w, days),
         avJob' \in {"none", "hydrate", "refresh"},
         avPhoto' = avPhoto, avPhotos' = avPhotos, avFile' = avFile, avAge' = avAge,
         avUrl' = avUrl, avMeta' = avMeta, avEdits' = avEdits, avToday' = avToday
  PROVE  AvInv'
<1> DEFINE mark == [at |-> "mark", url |-> avUrl, meta |-> avMeta]
<1>1. /\ avWork[w] = AvIdle /\ avAsks < AvMaxAsks /\ avAsks' = avAsks + 1
      /\ avRaced' = (avRaced \/ AvBusy)
  BY DEF avBegin
<1>2. avMeta \in AvMetas /\ avUrl \in AvPhotos /\ avMeta.asked \in BOOLEAN
  BY DEF AvInv, AvTypeInv, AvMetas
<1>3. /\ mark \in AvWorkType /\ mark.at = "mark" /\ mark.url = avUrl /\ mark.meta = avMeta
  BY <1>2 DEF AvWorkType, AvMarks
<1>4. \/ avWork' = [avWork EXCEPT ![w] = AvIdle]
      \/ /\ avWork' = [avWork EXCEPT ![w] = mark]
         /\ ~(avUrl = 0 /\ avMeta.asked)
  <2> DEFINE recent == CASE avFile = 0 -> FALSE
                         [] avFile # 0 /\ days = 7 -> avAge # "week"
                         [] OTHER -> avAge = "new"
  <2>1. avWork' = [avWork EXCEPT ![w] =
          IF (avUrl # 0 /\ recent) \/ (avUrl = 0 /\ avMeta.asked) THEN AvIdle ELSE mark]
    BY DEF avBegin
  <2> HIDE DEF recent, mark
  <2> QED BY <2>1
<1> HIDE DEF mark
<1>5. avWork \in [AvWorkers -> AvWorkType]
  BY DEF AvInv, AvTypeInv
<1>6. /\ avWork' \in [AvWorkers -> AvWorkType]
      /\ \A v \in AvWorkers : v # w => avWork'[v] = avWork[v]
      /\ avWork'[w] = AvIdle \/ (avWork'[w] = mark /\ ~(avUrl = 0 /\ avMeta.asked))
  BY <1>3, <1>4, <1>5, AvIdleOK
<1>7. avAsks' \in 0..AvMaxAsks
  BY <1>1, AvAssumption DEF AvInv, AvTypeInv
<1>8. AvTypeInv'
  BY <1>1, <1>6, <1>7 DEF AvInv, AvTypeInv
<1>9. AvAlone'
  <2> SUFFICES ASSUME ~avRaced, \A v \in AvWorkers : avWork[v].at = "idle"
               PROVE  AvAlone'
    BY <1>1, AvBusyIs DEF AvAlone
  <2>1. \A v \in AvWorkers : v # w => avWork'[v].at = "idle"
    BY <1>6
  <2>2. AvReads(avWork'[w], avUrl, avMeta, avToday, avFile)
    <3>1. CASE avWork'[w] = AvIdle
      BY <3>1, AvIdleOK DEF AvReads
    <3>2. CASE avWork'[w] = mark /\ ~(avUrl = 0 /\ avMeta.asked)
      BY <3>2, <1>2, <1>3 DEF AvReads, AvInv, AvCount
    <3> QED BY <3>1, <3>2, <1>6
  <2>3. \A v \in AvWorkers : AvReads(avWork'[v], avUrl, avMeta, avToday, avFile)
    BY <2>1, <2>2 DEF AvReads
  <2> QED BY <2>1, <2>3 DEF AvAlone
<1>10. AvWriting => AvWriting'
  <2> SUFFICES ASSUME NEW v \in AvWorkers, avWork[v].at = "write" PROVE avWork'[v].at = "write"
    BY DEF AvWriting
  <2>1. v # w
    BY <1>1, AvIdleOK
  <2> QED BY <2>1, <1>6
<1>12. AvCount'
  BY <1>1, <1>3, <1>6, AvIdleOK DEF AvInv, AvCount
<1>11. AvUrlShowsFile' /\ AvAskedOnce'
  BY <1>1, <1>10 DEF AvInv, AvUrlShowsFile, AvAskedOnce
<1> QED BY <1>8, <1>9, <1>11, <1>12 DEF AvInv

LEMMA AvInboundKeeps == ASSUME AvInv, NEW w \in AvWorkers, AvInbound(w) PROVE AvInv'
<1>1. /\ avBegin(w, 7) /\ avPhoto' = avPhoto /\ avPhotos' = avPhotos /\ avFile' = avFile
      /\ avAge' = avAge /\ avUrl' = avUrl /\ avMeta' = avMeta /\ avEdits' = avEdits
      /\ avToday' = avToday /\ avJob' = avJob
  BY DEF AvInbound
<1>2. avJob' \in {"none", "hydrate", "refresh"}
  BY <1>1 DEF AvInv, AvTypeInv
<1> QED BY <1>1, <1>2, AvBeginKeeps

LEMMA AvTakeJobKeeps == ASSUME AvInv, AvTakeJob PROVE AvInv'
<1>1. /\ \E days \in {1, 7} : avBegin(AvQueueSlot, days)
      /\ avPhoto' = avPhoto /\ avPhotos' = avPhotos /\ avFile' = avFile
      /\ avAge' = avAge /\ avUrl' = avUrl /\ avMeta' = avMeta /\ avEdits' = avEdits
      /\ avToday' = avToday /\ avJob' = "none"
  BY DEF AvTakeJob
<1> QED BY <1>1, AvBeginKeeps, AvAssumption

\* A step of a call: the others, if any, raced with it.
LEMMA AvCallStep ==
  ASSUME AvInv, NEW w \in AvWorkers, avWork[w].at # "idle", NEW new \in AvWorkType,
         avWork' = [avWork EXCEPT ![w] = new],
         avPhoto' = avPhoto, avPhotos' = avPhotos, avJob' = avJob, avAsks' = avAsks,
         avEdits' = avEdits, avRaced' \in BOOLEAN, avRaced => avRaced',
         avFile' \in AvPhotos, avUrl' \in AvPhotos, avAge' \in {"new", "day", "week"},
         avMeta' \in AvMetas, avToday' \in Nat,
         ~avRaced' => AvReads(new, avUrl', avMeta', avToday', avFile')
  PROVE  /\ AvTypeInv' /\ AvAlone'
         /\ avWork'[w] = new /\ \A v \in AvWorkers : v # w => avWork'[v] = avWork[v]
         /\ ~avRaced => \A v \in AvWorkers : v # w => avWork[v].at = "idle" /\ avWork'[v].at = "idle"
<1>1. /\ avWork' \in [AvWorkers -> AvWorkType] /\ avWork'[w] = new
      /\ \A v \in AvWorkers : v # w => avWork'[v] = avWork[v]
  BY DEF AvInv, AvTypeInv
<1>2. AvTypeInv'
  BY <1>1 DEF AvInv, AvTypeInv
<1>3. ~avRaced => \A v \in AvWorkers : v # w => avWork[v].at = "idle" /\ avWork'[v].at = "idle"
  BY <1>1 DEF AvInv, AvAlone
<1>4. AvAlone'
  <2> SUFFICES ASSUME ~avRaced' PROVE AvAlone'
    BY DEF AvAlone
  <2>1. ~avRaced
    OBVIOUS
  <2>2. \A v \in AvWorkers : AvReads(avWork'[v], avUrl', avMeta', avToday', avFile')
    BY <1>1, <1>3, <2>1 DEF AvReads
  <2>3. \A v \in AvWorkers, u \in AvWorkers : avWork'[v].at # "idle" /\ avWork'[u].at # "idle" => v = u
    BY <1>3, <2>1
  <2> QED BY <2>2, <2>3 DEF AvAlone
<1> QED BY <1>1, <1>2, <1>3, <1>4

\* The call reads while it is alone.
LEMMA AvReadsNow ==
  ASSUME AvInv, NEW w \in AvWorkers
  PROVE  /\ avWork[w] \in AvWorkType
         /\ ~avRaced => AvReads(avWork[w], avUrl, avMeta, avToday, avFile)
BY DEF AvInv, AvTypeInv, AvAlone

LEMMA AvMarkKeeps == ASSUME AvInv, NEW w \in AvWorkers, AvMark(w) PROVE AvInv'
<1> DEFINE work == avWork[w]
           meta == [work.meta EXCEPT !.asked = TRUE]
           new == [at |-> "fetch", url |-> work.url]
<1>1. /\ work.at = "mark" /\ avMeta' = meta /\ avWork' = [avWork EXCEPT ![w] = new]
      /\ avToday' = (IF work.url = 0 THEN avToday + 1 ELSE avToday)
      /\ avPhoto' = avPhoto /\ avPhotos' = avPhotos /\ avFile' = avFile /\ avAge' = avAge
      /\ avUrl' = avUrl /\ avJob' = avJob /\ avAsks' = avAsks /\ avEdits' = avEdits
      /\ avRaced' = avRaced
  BY DEF AvMark
<1>2. work.url \in AvPhotos /\ work.meta \in AvMetas
  BY <1>1, AvReadsNow, AvWorkIs
<1>3. meta \in AvMetas /\ meta.edit = work.meta.edit /\ meta.asked = TRUE
  BY <1>2 DEF AvMetas
<1>4. new \in AvWorkType /\ new.at = "fetch" /\ new.url = work.url
  BY <1>2 DEF AvWorkType, AvFetches
<1>5. ~avRaced => /\ work.url = avUrl /\ work.meta.edit = avMeta.edit
                  /\ avUrl = 0 => avToday = 0
  BY <1>1, AvReadsNow DEF AvReads
<1> HIDE DEF new, meta
<1>6. avToday' \in Nat
  BY <1>1 DEF AvInv, AvTypeInv
<1>7. ~avRaced' => AvReads(new, avUrl', avMeta', avToday', avFile')
  BY <1>1, <1>4, <1>5 DEF AvReads
<1>8. /\ AvTypeInv' /\ AvAlone' /\ avWork'[w] = new
      /\ \A v \in AvWorkers : v # w => avWork'[v] = avWork[v]
      /\ ~avRaced => \A v \in AvWorkers : v # w => avWork[v].at = "idle" /\ avWork'[v].at = "idle"
  <2>1. /\ avFile' \in AvPhotos /\ avUrl' \in AvPhotos /\ avAge' \in {"new", "day", "week"}
        /\ avRaced' \in BOOLEAN /\ avMeta' \in AvMetas
    BY <1>1, <1>3 DEF AvInv, AvTypeInv
  <2> HIDE DEF work
  <2> QED BY <1>1, <1>4, <1>6, <1>7, <2>1, AvCallStep DEF work
<1>9. AvUrlShowsFile'
  <2>1. ~avRaced => ~AvWriting
    BY <1>1, <1>8 DEF AvWriting
  <2> QED BY <1>1, <2>1 DEF AvInv, AvUrlShowsFile
<1>10. AvAskedOnce'
  BY <1>1, <1>5 DEF AvInv, AvAskedOnce, AvTypeInv
<1>11. AvCount'
  <2>1. meta.edit <= avEdits
    BY <1>1, <1>3 DEF AvInv, AvCount
  <2> QED BY <1>1, <1>3, <1>4, <1>8, <2>1 DEF AvInv, AvCount
<1> QED BY <1>8, <1>9, <1>10, <1>11 DEF AvInv

LEMMA AvFetchKeeps == ASSUME AvInv, NEW w \in AvWorkers, AvFetch(w) PROVE AvInv'
<1> DEFINE work == avWork[w]
           save == [at |-> "save", url |-> work.url, photo |-> avPhoto]
           new == IF avPhoto = 0 THEN AvIdle ELSE save
<1>1. /\ work.at = "fetch" /\ avWork' = [avWork EXCEPT ![w] = new]
      /\ avToday' = avToday /\ avMeta' = avMeta
      /\ avPhoto' = avPhoto /\ avPhotos' = avPhotos /\ avFile' = avFile /\ avAge' = avAge
      /\ avUrl' = avUrl /\ avJob' = avJob /\ avAsks' = avAsks /\ avEdits' = avEdits
      /\ avRaced' = avRaced
  BY DEF AvFetch
<1>2. work.url \in AvPhotos /\ avPhoto \in AvPhotos
  BY <1>1, AvReadsNow, AvWorkIs DEF AvInv, AvTypeInv
<1>3. save \in AvWorkType /\ save.at = "save" /\ save.url = work.url
  BY <1>2 DEF AvWorkType, AvSaves
<1> HIDE DEF save
<1>4. new \in AvWorkType /\ (new.at = "idle" \/ (new.at = "save" /\ new.url = work.url))
  BY <1>3, AvIdleOK
<1>5. ~avRaced => work.url = avUrl
  BY <1>1, AvReadsNow DEF AvReads
<1> HIDE DEF new
<1>7. ~avRaced' => AvReads(new, avUrl', avMeta', avToday', avFile')
  BY <1>1, <1>4, <1>5 DEF AvReads
<1>8. /\ AvTypeInv' /\ AvAlone' /\ avWork'[w] = new
      /\ \A v \in AvWorkers : v # w => avWork'[v] = avWork[v]
      /\ ~avRaced => \A v \in AvWorkers : v # w => avWork[v].at = "idle" /\ avWork'[v].at = "idle"
  <2>1. /\ avFile' \in AvPhotos /\ avUrl' \in AvPhotos /\ avAge' \in {"new", "day", "week"}
        /\ avRaced' \in BOOLEAN /\ avMeta' \in AvMetas /\ avToday' \in Nat
    BY <1>1 DEF AvInv, AvTypeInv
  <2> HIDE DEF work
  <2> QED BY <1>1, <1>4, <1>7, <2>1, AvCallStep DEF work
<1>9. AvUrlShowsFile'
  <2>1. ~avRaced => ~AvWriting
    BY <1>1, <1>8 DEF AvWriting
  <2> QED BY <1>1, <2>1 DEF AvInv, AvUrlShowsFile
<1>10. AvAskedOnce'
  BY <1>1 DEF AvInv, AvAskedOnce
<1>11. AvCount'
  BY <1>1, <1>4, <1>8 DEF AvInv, AvCount
<1> QED BY <1>8, <1>9, <1>10, <1>11 DEF AvInv

LEMMA AvFailKeeps == ASSUME AvInv, NEW w \in AvWorkers, AvFail(w) PROVE AvInv'
<1>1. /\ avWork[w].at \in {"fetch", "save", "write"} /\ avWork' = [avWork EXCEPT ![w] = AvIdle]
      /\ avToday' = avToday /\ avMeta' = avMeta
      /\ avPhoto' = avPhoto /\ avPhotos' = avPhotos /\ avFile' = avFile /\ avAge' = avAge
      /\ avUrl' = avUrl /\ avJob' = avJob /\ avAsks' = avAsks /\ avEdits' = avEdits
      /\ avRaced' = (avRaced \/ avWork[w].at = "write")
  BY DEF AvFail
<1>2. avRaced => avRaced'
  BY <1>1
<1>7. ~avRaced' => AvReads(AvIdle, avUrl', avMeta', avToday', avFile')
  BY AvIdleOK DEF AvReads
<1>8. /\ AvTypeInv' /\ AvAlone' /\ avWork'[w] = AvIdle
      /\ \A v \in AvWorkers : v # w => avWork'[v] = avWork[v]
      /\ ~avRaced => \A v \in AvWorkers : v # w => avWork[v].at = "idle" /\ avWork'[v].at = "idle"
  <2>1. /\ avFile' \in AvPhotos /\ avUrl' \in AvPhotos /\ avAge' \in {"new", "day", "week"}
        /\ avMeta' \in AvMetas /\ avToday' \in Nat
    BY <1>1 DEF AvInv, AvTypeInv
  <2>2. avRaced' \in BOOLEAN /\ avWork[w].at # "idle"
    BY <1>1
  <2> QED BY <1>1, <1>2, <1>7, <2>1, <2>2, AvIdleOK, AvCallStep
<1>9. AvUrlShowsFile'
  <2>1. ~avRaced' => ~AvWriting
    BY <1>1, <1>2, <1>8 DEF AvWriting
  <2> QED BY <1>1, <1>2, <2>1 DEF AvInv, AvUrlShowsFile
<1>10. AvAskedOnce'
  BY <1>1, <1>2 DEF AvInv, AvAskedOnce
<1>11. AvCount'
  BY <1>1, <1>8, AvIdleOK DEF AvInv, AvCount
<1> QED BY <1>8, <1>9, <1>10, <1>11 DEF AvInv

LEMMA AvSaveKeeps == ASSUME AvInv, NEW w \in AvWorkers, AvSave(w) PROVE AvInv'
<1> DEFINE new == [avWork[w] EXCEPT !.at = "write"]
<1>1. /\ avWork[w].at = "save"
      /\ avFile' = avWork[w].photo /\ avAge' = "new"
      /\ avToday' = avToday /\ avMeta' = avMeta
      /\ avPhoto' = avPhoto /\ avPhotos' = avPhotos
      /\ avUrl' = avUrl /\ avJob' = avJob /\ avAsks' = avAsks /\ avEdits' = avEdits
      /\ avRaced' = avRaced
  BY DEF AvSave
<1>2. avWork[w] \in AvSaves /\ avWork[w].photo \in AvPhotos
  BY <1>1, AvReadsNow, AvWorkIs
<1>3. /\ new \in AvSaves /\ new.at = "write" /\ new.url = avWork[w].url
      /\ new.photo = avWork[w].photo
  BY <1>2 DEF AvSaves
<1>4. avWork' = [avWork EXCEPT ![w] = new]
  BY DEF AvSave
<1>5. ~avRaced => avWork[w].url = avUrl
  BY <1>1, AvReadsNow DEF AvReads
<1> HIDE DEF new
<1>6. new \in AvWorkType
  BY <1>3 DEF AvWorkType
<1>7. ~avRaced' => AvReads(new, avUrl', avMeta', avToday', avFile')
  BY <1>1, <1>3, <1>5 DEF AvReads
<1>8. /\ AvTypeInv' /\ AvAlone' /\ avWork'[w] = new
      /\ \A v \in AvWorkers : v # w => avWork'[v] = avWork[v]
      /\ ~avRaced => \A v \in AvWorkers : v # w => avWork[v].at = "idle" /\ avWork'[v].at = "idle"
  <2>1. /\ avFile' \in AvPhotos /\ avUrl' \in AvPhotos /\ avAge' \in {"new", "day", "week"}
        /\ avRaced' \in BOOLEAN /\ avMeta' \in AvMetas /\ avToday' \in Nat
    BY <1>1, <1>2 DEF AvInv, AvTypeInv
  <2>2. avWork[w].at # "idle"
    BY <1>1
  <2> QED BY <1>1, <1>4, <1>6, <1>7, <2>1, <2>2, AvCallStep
<1>9. AvUrlShowsFile'
  BY <1>3, <1>8 DEF AvUrlShowsFile, AvWriting
<1>10. AvAskedOnce'
  BY <1>1 DEF AvInv, AvAskedOnce
<1>11. AvCount'
  BY <1>1, <1>3, <1>8 DEF AvInv, AvCount
<1> QED BY <1>8, <1>9, <1>10, <1>11 DEF AvInv

LEMMA AvWriteKeeps == ASSUME AvInv, NEW w \in AvWorkers, AvWrite(w) PROVE AvInv'
<1>1. /\ avWork[w].at = "write" /\ avWork' = [avWork EXCEPT ![w] = AvIdle]
      /\ avUrl' = AvNewUrl(avWork[w].url, avWork[w].photo)
      /\ avToday' = avToday /\ avMeta' = avMeta
      /\ avPhoto' = avPhoto /\ avPhotos' = avPhotos /\ avFile' = avFile /\ avAge' = avAge
      /\ avJob' = avJob /\ avAsks' = avAsks /\ avEdits' = avEdits
      /\ avRaced' = avRaced
  BY DEF AvWrite
<1>2. avWork[w].photo \in AvPhotos
  BY <1>1, AvReadsNow, AvWorkIs
<1>3. ~avRaced => /\ avWork[w].url = avUrl
                  /\ avFile = 0 \/ avFile = avWork[w].photo
  BY <1>1, AvReadsNow DEF AvReads
<1>4. avUrl' \in AvPhotos /\ (~avRaced => avUrl' = avFile \/ avFile = 0)
  BY <1>1, <1>2, <1>3 DEF AvNewUrl, AvInv, AvTypeInv
<1>7. ~avRaced' => AvReads(AvIdle, avUrl', avMeta', avToday', avFile')
  BY AvIdleOK DEF AvReads
<1>8. /\ AvTypeInv' /\ AvAlone' /\ avWork'[w] = AvIdle
      /\ \A v \in AvWorkers : v # w => avWork'[v] = avWork[v]
      /\ ~avRaced => \A v \in AvWorkers : v # w => avWork[v].at = "idle" /\ avWork'[v].at = "idle"
  <2>1. /\ avFile' \in AvPhotos /\ avAge' \in {"new", "day", "week"}
        /\ avMeta' \in AvMetas /\ avToday' \in Nat /\ avRaced' \in BOOLEAN
    BY <1>1 DEF AvInv, AvTypeInv
  <2>2. avWork[w].at # "idle"
    BY <1>1
  <2> QED BY <1>1, <1>4, <1>7, <2>1, <2>2, AvIdleOK, AvCallStep
<1>9. AvUrlShowsFile'
  BY <1>1, <1>4 DEF AvUrlShowsFile
<1>10. AvAskedOnce'
  BY <1>1 DEF AvInv, AvAskedOnce
<1>11. AvCount'
  BY <1>1, <1>8, AvIdleOK DEF AvInv, AvCount
<1> QED BY <1>8, <1>9, <1>10, <1>11 DEF AvInv

-----------------------------------------------------------------------------

LEMMA AvStep == AvInv /\ [AvNext]_avVars => AvInv'
<1> SUFFICES ASSUME AvInv, [AvNext]_avVars PROVE AvInv'
  OBVIOUS
<1>1. CASE UNCHANGED avVars
  BY <1>1 DEF avVars, AvInv, AvTypeInv, AvAlone, AvCount, AvUrlShowsFile, AvWriting, AvAskedOnce
<1>2. CASE AvNext
  BY <1>2, AvChangePhotoKeeps, AvDayKeeps, AvRedeployKeeps, AvEditKeeps, AvQueueKeeps,
     AvTakeJobKeeps, AvInboundKeeps, AvMarkKeeps, AvFetchKeeps, AvFailKeeps, AvSaveKeeps,
     AvWriteKeeps DEF AvNext
<1> QED BY <1>1, <1>2

\* The url shows the stored file and the provider is asked once a day, unless calls overlap
\* or fail between the file and the row: for any workers, photos, calls and edits.
THEOREM AvSafeCorrect == AvSpec => []AvSafe
<1>1. AvInv => AvSafe
  BY DEF AvInv, AvSafe
<1> QED BY <1>1, AvInitInv, AvStep, PTL DEF AvSpec

\* The variables keep their types, for any workers and bounds.
THEOREM AvTypeCorrect == AvSpec => []AvTypeOK
<1>1. AvInv => AvTypeOK
  BY AvWorkIs DEF AvInv, AvTypeInv, AvTypeOK
<1> QED BY <1>1, AvInitInv, AvStep, PTL DEF AvSpec

\* The metadata an operator wrote last is written over only after calls overlapped.
THEOREM AvEditSurvivesCorrect == AvSpec => [][AvEditSurvives]_avVars
<1>1. AvInv /\ [AvNext]_avVars => [AvEditSurvives]_avVars
  <2> SUFFICES ASSUME AvInv, AvNext, ~avRaced PROVE ~(avMeta'.edit < avMeta.edit)
    BY DEF AvEditSurvives
  <2>0. avMeta \in AvMetas /\ avMeta.edit \in Nat /\ avEdits \in Nat /\ avMeta.edit <= avEdits
    BY AvAssumption DEF AvInv, AvTypeInv, AvMetas, AvCount
  <2>1. CASE AvDay
    <3>1. avMeta'.edit = avMeta.edit
      BY <2>0, <2>1 DEF AvDay, AvMetas
    <3> QED BY <2>0, <3>1
  <2>2. CASE AvEdit
    <3>1. avMeta'.edit = avEdits + 1
      BY <2>2 DEF AvEdit
    <3> QED BY <2>0, <3>1
  <2>3. ASSUME NEW w \in AvWorkers, AvMark(w) PROVE ~(avMeta'.edit < avMeta.edit)
    <3>1. avWork[w].at = "mark" /\ avMeta' = [avWork[w].meta EXCEPT !.asked = TRUE]
      BY <2>3 DEF AvMark
    <3>2. avWork[w].meta \in AvMetas /\ avWork[w].meta.edit = avMeta.edit
      BY <3>1, AvReadsNow, AvWorkIs DEF AvReads
    <3>3. avMeta'.edit = avMeta.edit
      BY <3>1, <3>2 DEF AvMetas
    <3> QED BY <2>0, <3>3
  <2>4. CASE avMeta' = avMeta
    BY <2>0, <2>4
  <2>5. AvDay \/ AvEdit \/ (\E w \in AvWorkers : AvMark(w)) \/ avMeta' = avMeta
    BY DEF AvNext, AvChangePhoto, AvRedeploy, AvOpenInbox, AvOpenConversation, AvTakeJob,
       AvInbound, AvFetch, AvFail, AvSave, AvWrite
  <2> QED BY <2>1, <2>2, <2>3, <2>4, <2>5
<1> QED BY <1>1, AvInitInv, AvStep, PTL DEF AvSpec

-----------------------------------------------------------------------------
(* Access: any channels, sockets and administrators *)

CaSockType == [pc : {"closed", "auth", "join", "online", "ready"}, open : BOOLEAN,
               seen : SUBSET CaChannels, rooms : SUBSET CaChannels, ids : SUBSET CaChannels]
CaCallType == [pc : {"idle", "write", "push"}, add : SUBSET CaChannels,
               remove : SUBSET CaChannels]

\* A socket is told of what it sees, of the change that is being pushed included; before it
\* has joined its rooms it is in no others.
CaShows(X, call, live, sees) ==
  /\ (\A u \in CaCallers : call[u].pc # "push") => X \intersect live = sees
  /\ \A u \in CaCallers : call[u].pc = "push" =>
       ((X \union call[u].add) \ call[u].remove) \intersect live = sees
CaWithin(X, call, live, sees) ==
  /\ (\A u \in CaCallers : call[u].pc # "push") => X \intersect live \subseteq sees
  /\ \A u \in CaCallers : call[u].pc = "push" =>
       ((X \union call[u].add) \ call[u].remove) \intersect live \subseteq sees

CaSockFollows(sock, call, live, sees) ==
  sock.open =>
    /\ sock.pc \in {"auth", "join"} => CaWithin(sock.rooms, call, live, sees)
    /\ sock.pc = "join" => CaShows(sock.seen, call, live, sees)
    /\ sock.pc \in {"online", "ready"} =>
         CaShows(sock.rooms, call, live, sees) /\ CaShows(sock.ids, call, live, sees)

\* What a request adds and takes away, while no other overlapped it.
CaCallFits(call, role, channel, grants) ==
  call.pc # "idle" =>
    /\ call.add \intersect call.remove = {}
    /\ \A c \in call.add \union call.remove : channel[c] # "none"
    /\ role = "ADMIN" => \A c \in call.remove : channel[c] # "ORG"
    /\ call.pc = "push" => call.add \subseteq grants

CaFollow ==
  ~caDrift =>
    /\ \A u \in CaCallers, v \in CaCallers : caCall[u].pc # "idle" /\ caCall[v].pc # "idle" => u = v
    /\ \A u \in CaCallers : CaCallFits(caCall[u], caRole, caChannel, caGrants)
    /\ \A s \in CaSockets : CaSockFollows(caSock[s], caCall, CaLive, CaAccessible)

CaHandshake ==
  \A s \in CaSockets :
    /\ caSock[s].pc = "closed" => ~caSock[s].open
    /\ caSock[s].pc = "ready" => caSock[s].open
    /\ ~caSock[s].open /\ caSock[s].pc # "closed" => caGhost

CaInv == CaTypeOK /\ CaHandshake /\ CaOnlineHasSocket /\ CaFollow

LEMMA CaHasTypes ==
  ASSUME CaInv
  PROVE  /\ caRole \in {"AGENT", "ADMIN"}
         /\ caChannel \in [CaChannels -> {"none", "ORG", "PRIVATE", "deleted"}]
         /\ caGrants \subseteq CaChannels
         /\ caSock \in [CaSockets -> CaSockType]
         /\ caCall \in [CaCallers -> CaCallType]
         /\ caChanges \in 0..CaMaxChanges
         /\ caOnline \in BOOLEAN /\ caDrift \in BOOLEAN /\ caGhost \in BOOLEAN
BY DEF CaInv, CaTypeOK, CaSockType, CaCallType

LEMMA CaIdleOK == CaIdle \in CaCallType /\ CaIdle.pc = "idle"
BY DEF CaIdle, CaCallType

LEMMA CaClosedOK ==
  /\ CaClosed \in CaSockType /\ CaClosed.pc = "closed" /\ CaClosed.open = FALSE
  /\ CaClosed.rooms = {}
BY DEF CaClosed, CaSockType

LEMMA CaInitInv == CaInit => CaInv
<1> SUFFICES ASSUME CaInit PROVE CaInv
  OBVIOUS
<1>1. caSock \in [CaSockets -> CaSockType] /\ \A s \in CaSockets : caSock[s] = CaClosed
  BY CaClosedOK DEF CaInit
<1>2. caCall \in [CaCallers -> CaCallType] /\ \A u \in CaCallers : caCall[u] = CaIdle
  BY CaIdleOK DEF CaInit
<1>3. caChanges \in 0..CaMaxChanges
  BY CaAssumption DEF CaInit
<1>4. CaTypeOK
  BY <1>1, <1>2, <1>3 DEF CaInit, CaTypeOK, CaSockType, CaCallType
<1>5. CaHandshake /\ CaOnlineHasSocket
  BY <1>1, CaClosedOK DEF CaInit, CaHandshake, CaOnlineHasSocket
<1>6. CaFollow
  BY <1>1, <1>2, CaClosedOK, CaIdleOK DEF CaFollow, CaCallFits, CaSockFollows
<1> QED BY <1>4, <1>5, <1>6 DEF CaInv

\* What the sockets hold follows from one state of the requests and rights to another.
LEMMA CaSockStays ==
  ASSUME NEW sock \in CaSockType, NEW call, NEW live, NEW sees, NEW call2, NEW live2, NEW sees2,
         CaSockFollows(sock, call, live, sees),
         \A X \in SUBSET CaChannels :
           /\ CaShows(X, call, live, sees) => CaShows(X, call2, live2, sees2)
           /\ CaWithin(X, call, live, sees) => CaWithin(X, call2, live2, sees2)
  PROVE  CaSockFollows(sock, call2, live2, sees2)
<1>1. /\ sock.rooms \in SUBSET CaChannels /\ sock.ids \in SUBSET CaChannels
      /\ sock.seen \in SUBSET CaChannels
  BY DEF CaSockType
<1> QED BY <1>1 DEF CaSockFollows

-----------------------------------------------------------------------------
(* Channels *)

LEMMA CaCounts == ASSUME CaInv, CaCount PROVE caChanges' \in 0..CaMaxChanges
<1>1. caChanges \in 0..CaMaxChanges /\ caChanges < CaMaxChanges /\ caChanges' = caChanges + 1
  BY CaHasTypes DEF CaCount
<1> QED BY <1>1, CaAssumption

\* A step that leaves the sockets alone.
LEMMA CaSocketsRest ==
  ASSUME CaInv, UNCHANGED CaSession PROVE CaHandshake' /\ CaOnlineHasSocket'
BY DEF CaInv, CaSession, CaHandshake, CaOnlineHasSocket

LEMMA CaCreateKeeps ==
  ASSUME CaInv, NEW c \in CaChannels, NEW v \in {"ORG", "PRIVATE"}, NEW mine \in BOOLEAN,
         CaCreate(c, v, mine)
  PROVE  CaInv'
<1>1. /\ caChannel[c] = "none" /\ caChannel' = [caChannel EXCEPT ![c] = v]
      /\ caGrants' = caGrants \/ caGrants' = caGrants \union {c}
      /\ caDrift' = (caDrift \/ \E s \in CaSockets : caSock[s].pc # "closed")
      /\ caRole' = caRole /\ caCall' = caCall /\ UNCHANGED CaSession
  BY DEF CaCreate
<1>2. /\ caChannel' \in [CaChannels -> {"none", "ORG", "PRIVATE", "deleted"}]
      /\ \A d \in CaChannels : d # c => caChannel'[d] = caChannel[d]
  BY <1>1, CaHasTypes
<1>3. caChanges' \in 0..CaMaxChanges
  BY CaCounts DEF CaCreate
<1>4. caGrants' \subseteq CaChannels /\ caGrants \subseteq caGrants'
  BY <1>1, CaHasTypes
<1>5. caDrift' \in BOOLEAN
  BY <1>1
<1>6. CaTypeOK'
  BY <1>1, <1>2, <1>3, <1>4, <1>5, CaHasTypes DEF CaTypeOK, CaSession, CaSockType, CaCallType
<1>7. CaFollow'
  <2> SUFFICES ASSUME ~caDrift, \A s \in CaSockets : caSock[s].pc = "closed"
               PROVE  CaFollow'
    BY <1>1 DEF CaFollow
  <2>1. \A s \in CaSockets : caSock'[s] = caSock[s] /\ ~caSock[s].open
    BY <1>1 DEF CaInv, CaHandshake, CaSession
  <2>2. \A u \in CaCallers : CaCallFits(caCall[u], caRole, caChannel', caGrants')
    <3> SUFFICES ASSUME NEW u \in CaCallers
                 PROVE  CaCallFits(caCall[u], caRole, caChannel', caGrants')
      OBVIOUS
    <3>1. CaCallFits(caCall[u], caRole, caChannel, caGrants) /\ caCall[u] \in CaCallType
      BY CaHasTypes DEF CaInv, CaFollow
    <3>2. caCall[u].add \subseteq CaChannels /\ caCall[u].remove \subseteq CaChannels
      BY <3>1 DEF CaCallType
    <3>3. caCall[u].pc # "idle" =>
            \A d \in caCall[u].add \union caCall[u].remove : d \in CaChannels /\ d # c
      BY <1>1, <3>1, <3>2 DEF CaCallFits
    <3> QED BY <1>2, <1>4, <3>1, <3>3 DEF CaCallFits
  <2>3. \A s \in CaSockets : CaSockFollows(caSock'[s], caCall', CaLive', CaAccessible')
    BY <2>1 DEF CaSockFollows
  <2>4. \A u \in CaCallers, w \in CaCallers : caCall[u].pc # "idle" /\ caCall[w].pc # "idle" => u = w
    BY DEF CaInv, CaFollow
  <2> QED BY <1>1, <2>2, <2>3, <2>4 DEF CaFollow
<1> QED BY <1>1, <1>6, <1>7, CaSocketsRest DEF CaInv

LEMMA CaSetVisibilityKeeps ==
  ASSUME CaInv, NEW c \in CaChannels, CaSetVisibility(c) PROVE CaInv'
<1> DEFINE over == (\E s \in CaSockets : caSock[s].pc # "closed") \/ \E u \in CaCallers : caCall[u].pc # "idle"
<1>1. /\ caChannel[c] \in {"ORG", "PRIVATE"}
      /\ caChannel' = [caChannel EXCEPT ![c] = IF caChannel[c] = "ORG" THEN "PRIVATE" ELSE "ORG"]
      /\ caGrants' = caGrants
      /\ caDrift' = (caDrift \/ (caRole = "ADMIN" /\ over))
      /\ caRole' = caRole /\ caCall' = caCall /\ UNCHANGED CaSession
  BY CaHasTypes DEF CaSetVisibility
<1>2. /\ caChannel' \in [CaChannels -> {"none", "ORG", "PRIVATE", "deleted"}]
      /\ \A d \in CaChannels : d # c => caChannel'[d] = caChannel[d]
      /\ caChannel'[c] \in {"ORG", "PRIVATE"}
  BY <1>1, CaHasTypes
<1>3. caChanges' \in 0..CaMaxChanges
  BY CaCounts DEF CaSetVisibility
<1>5. caDrift' \in BOOLEAN
  BY <1>1
<1>6. CaTypeOK'
  BY <1>1, <1>2, <1>3, <1>5, CaHasTypes DEF CaTypeOK, CaSession, CaSockType, CaCallType
<1>7. CaLive' = CaLive
  BY <1>1, <1>2 DEF CaLive
<1>8. CaFollow'
  <2> SUFFICES ASSUME ~caDrift, caRole = "ADMIN" => ~over
               PROVE  CaFollow'
    BY <1>1 DEF CaFollow
  <2>4. \A u \in CaCallers, w \in CaCallers : caCall[u].pc # "idle" /\ caCall[w].pc # "idle" => u = w
    BY DEF CaInv, CaFollow
  <2>5. \A u \in CaCallers : CaCallFits(caCall[u], caRole, caChannel, caGrants)
    BY DEF CaInv, CaFollow
  <2>1. CASE caRole = "ADMIN"
    <3>1. \A u \in CaCallers : CaCallFits(caCall[u], caRole, caChannel', caGrants')
      BY <2>1 DEF CaCallFits
    <3>2. \A s \in CaSockets : caSock'[s] = caSock[s] /\ ~caSock[s].open
      BY <1>1, <2>1 DEF CaInv, CaHandshake, CaSession
    <3>3. \A s \in CaSockets : CaSockFollows(caSock'[s], caCall', CaLive', CaAccessible')
      BY <3>2 DEF CaSockFollows
    <3> QED BY <1>1, <2>4, <3>1, <3>3 DEF CaFollow
  <2>2. CASE caRole = "AGENT"
    <3>1. CaAccessible' = CaAccessible
      BY <1>1, <1>7, <2>2 DEF CaAccessible
    <3>2. \A u \in CaCallers : CaCallFits(caCall[u], caRole, caChannel', caGrants')
      <4> SUFFICES ASSUME NEW u \in CaCallers
                   PROVE  CaCallFits(caCall[u], caRole, caChannel', caGrants')
        OBVIOUS
      <4>1. CaCallFits(caCall[u], caRole, caChannel, caGrants) /\ caCall[u] \in CaCallType
        BY CaHasTypes DEF CaInv, CaFollow
      <4>2. caCall[u].add \subseteq CaChannels /\ caCall[u].remove \subseteq CaChannels
        BY <4>1 DEF CaCallType
      <4> QED BY <1>1, <1>2, <2>2, <4>1, <4>2 DEF CaCallFits
    <3>3. \A s \in CaSockets : CaSockFollows(caSock'[s], caCall', CaLive', CaAccessible')
      BY <1>1, <1>7, <3>1 DEF CaInv, CaFollow, CaSession
    <3> QED BY <1>1, <2>4, <3>2, <3>3 DEF CaFollow
  <2> QED BY <2>1, <2>2, CaHasTypes
<1> QED BY <1>1, <1>6, <1>8, CaSocketsRest DEF CaInv

LEMMA CaRemoveChannelKeeps ==
  ASSUME CaInv, NEW c \in CaChannels, CaRemoveChannel(c) PROVE CaInv'
<1>1. /\ caChannel' = [caChannel EXCEPT ![c] = "deleted"]
      /\ caGrants' = caGrants /\ caDrift' = caDrift
      /\ caRole' = caRole /\ caCall' = caCall /\ UNCHANGED CaSession
  BY DEF CaRemoveChannel
<1>2. /\ caChannel' \in [CaChannels -> {"none", "ORG", "PRIVATE", "deleted"}]
      /\ \A d \in CaChannels : d # c => caChannel'[d] = caChannel[d]
      /\ caChannel'[c] = "deleted"
  BY <1>1, CaHasTypes
<1>3. caChanges' \in 0..CaMaxChanges
  BY CaCounts DEF CaRemoveChannel
<1>6. CaTypeOK'
  BY <1>1, <1>2, <1>3, CaHasTypes DEF CaTypeOK, CaSession, CaSockType, CaCallType
<1>7. CaLive' = CaLive \ {c}
  BY <1>1, <1>2 DEF CaLive
<1>8. CaAccessible' = CaAccessible \ {c}
  BY <1>1, <1>2, <1>7 DEF CaAccessible, CaLive
<1>9. CaFollow'
  <2> SUFFICES ASSUME ~caDrift PROVE CaFollow'
    BY <1>1 DEF CaFollow
  <2>4. \A u \in CaCallers, w \in CaCallers : caCall[u].pc # "idle" /\ caCall[w].pc # "idle" => u = w
    BY DEF CaInv, CaFollow
  <2>2. \A u \in CaCallers : CaCallFits(caCall[u], caRole, caChannel', caGrants')
    <4> SUFFICES ASSUME NEW u \in CaCallers
                 PROVE  CaCallFits(caCall[u], caRole, caChannel', caGrants')
      OBVIOUS
    <4>1. CaCallFits(caCall[u], caRole, caChannel, caGrants) /\ caCall[u] \in CaCallType
      BY CaHasTypes DEF CaInv, CaFollow
    <4>2. caCall[u].add \subseteq CaChannels /\ caCall[u].remove \subseteq CaChannels
      BY <4>1 DEF CaCallType
    <4> QED BY <1>1, <1>2, <4>1, <4>2 DEF CaCallFits
  <2>3. \A s \in CaSockets : CaSockFollows(caSock[s], caCall, CaLive', CaAccessible')
    <3> SUFFICES ASSUME NEW s \in CaSockets
                 PROVE  CaSockFollows(caSock[s], caCall, CaLive', CaAccessible')
      OBVIOUS
    <3>1. \A X \in SUBSET CaChannels :
            /\ CaShows(X, caCall, CaLive, CaAccessible) => CaShows(X, caCall, CaLive', CaAccessible')
            /\ CaWithin(X, caCall, CaLive, CaAccessible) => CaWithin(X, caCall, CaLive', CaAccessible')
      <4> HIDE DEF CaLive, CaAccessible
      <4> QED BY <1>7, <1>8 DEF CaShows, CaWithin
    <3>2. caSock[s] \in CaSockType /\ CaSockFollows(caSock[s], caCall, CaLive, CaAccessible)
      BY CaHasTypes DEF CaInv, CaFollow
    <3> QED BY <3>1, <3>2, CaSockStays
  <2> QED BY <1>1, <2>2, <2>3, <2>4 DEF CaFollow, CaSession
<1> QED BY <1>1, <1>6, <1>9, CaSocketsRest DEF CaInv

-----------------------------------------------------------------------------
(* Requests *)

\* What a socket is in once the request is pushed.
CaAfter(X, call) == IF call.pc = "push" THEN (X \union call.add) \ call.remove ELSE X

CaOthersIdle(u, call) == \A v \in CaCallers : v # u => call[v].pc = "idle"

LEMMA CaShowsOne ==
  ASSUME NEW u \in CaCallers, NEW call, CaOthersIdle(u, call), NEW X, NEW live, NEW sees
  PROVE  /\ CaShows(X, call, live, sees) <=> CaAfter(X, call[u]) \intersect live = sees
         /\ CaWithin(X, call, live, sees) <=> CaAfter(X, call[u]) \intersect live \subseteq sees
<1>1. \A v \in CaCallers : call[v].pc = "push" => v = u
  BY DEF CaOthersIdle
<1>2. CASE call[u].pc = "push"
  BY <1>1, <1>2 DEF CaShows, CaWithin, CaAfter
<1>3. CASE call[u].pc # "push"
  BY <1>1, <1>3 DEF CaShows, CaWithin, CaAfter
<1> QED BY <1>2, <1>3

LEMMA CaNotBusy ==
  ASSUME CaInv, NEW u \in CaCallers, ~CaBusyBut(u)
  PROVE  CaOthersIdle(u, caCall) /\ \A s \in CaSockets : caSock[s].pc # "join"
BY DEF CaBusyBut, CaOthersIdle

\* The step of one request that leaves the channels and the sockets alone.
LEMMA CaCallStep ==
  ASSUME CaInv, NEW u \in CaCallers, NEW call \in CaCallType,
         caCall' = [caCall EXCEPT ![u] = call],
         caRole' = caRole, caChannel' = caChannel, UNCHANGED CaSession,
         caGrants' \subseteq CaChannels, caChanges' \in 0..CaMaxChanges, caDrift' \in BOOLEAN,
         caDrift => caDrift',
         ~caDrift' =>
           /\ CaOthersIdle(u, caCall)
           /\ CaCallFits(call, caRole, caChannel, caGrants')
           /\ \A X \in SUBSET CaChannels :
                /\ CaAfter(X, caCall[u]) \intersect CaLive = CaAccessible =>
                     CaAfter(X, call) \intersect CaLive = CaAccessible'
                /\ CaAfter(X, caCall[u]) \intersect CaLive \subseteq CaAccessible =>
                     CaAfter(X, call) \intersect CaLive \subseteq CaAccessible'
  PROVE  CaInv'
<1>1. /\ caCall' \in [CaCallers -> CaCallType] /\ caCall'[u] = call
      /\ \A v \in CaCallers : v # u => caCall'[v] = caCall[v]
  BY CaHasTypes
<1>2. CaTypeOK'
  BY <1>1, CaHasTypes DEF CaTypeOK, CaSession, CaSockType, CaCallType
<1>3. CaLive' = CaLive
  BY DEF CaLive
<1>4. CaFollow'
  <2> SUFFICES ASSUME ~caDrift' PROVE CaFollow'
    BY DEF CaFollow
  <2>1. CaOthersIdle(u, caCall) /\ CaOthersIdle(u, caCall')
    BY <1>1 DEF CaOthersIdle
  <2>2. \A v \in CaCallers, w \in CaCallers : caCall'[v].pc # "idle" /\ caCall'[w].pc # "idle" => v = w
    BY <2>1 DEF CaOthersIdle
  <2>3. \A v \in CaCallers : CaCallFits(caCall'[v], caRole', caChannel', caGrants')
    BY <1>1, <2>1 DEF CaCallFits, CaOthersIdle
  <2>4. \A X \in SUBSET CaChannels :
          /\ CaShows(X, caCall, CaLive, CaAccessible) => CaShows(X, caCall', CaLive', CaAccessible')
          /\ CaWithin(X, caCall, CaLive, CaAccessible) => CaWithin(X, caCall', CaLive', CaAccessible')
    <3> SUFFICES ASSUME NEW X \in SUBSET CaChannels
                 PROVE  /\ CaShows(X, caCall, CaLive, CaAccessible) => CaShows(X, caCall', CaLive, CaAccessible')
                        /\ CaWithin(X, caCall, CaLive, CaAccessible) => CaWithin(X, caCall', CaLive, CaAccessible')
      BY <1>3
    <3>1. /\ CaShows(X, caCall, CaLive, CaAccessible) <=> CaAfter(X, caCall[u]) \intersect CaLive = CaAccessible
          /\ CaWithin(X, caCall, CaLive, CaAccessible) <=> CaAfter(X, caCall[u]) \intersect CaLive \subseteq CaAccessible
      BY <2>1, CaShowsOne
    <3> DEFINE calls == caCall'
               sees == CaAccessible'
    <3>2. CaOthersIdle(u, calls) /\ calls[u] = call
      BY <1>1, <2>1
    <3> HIDE DEF calls, sees
    <3>3. /\ CaShows(X, calls, CaLive, sees) <=> CaAfter(X, calls[u]) \intersect CaLive = sees
          /\ CaWithin(X, calls, CaLive, sees) <=> CaAfter(X, calls[u]) \intersect CaLive \subseteq sees
      BY <3>2, CaShowsOne
    <3> USE DEF calls, sees
    <3>4. /\ CaShows(X, caCall', CaLive, CaAccessible') <=> CaAfter(X, call) \intersect CaLive = CaAccessible'
          /\ CaWithin(X, caCall', CaLive, CaAccessible') <=> CaAfter(X, call) \intersect CaLive \subseteq CaAccessible'
      BY <3>2, <3>3
    <3> HIDE DEF CaLive, CaAccessible, calls, sees
    <3> QED BY <3>1, <3>4
  <2>5. \A s \in CaSockets : CaSockFollows(caSock[s], caCall', CaLive', CaAccessible')
    <3> SUFFICES ASSUME NEW s \in CaSockets
                 PROVE  CaSockFollows(caSock[s], caCall', CaLive', CaAccessible')
      OBVIOUS
    <3>2. caSock[s] \in CaSockType /\ CaSockFollows(caSock[s], caCall, CaLive, CaAccessible)
      BY CaHasTypes DEF CaInv, CaFollow
    <3> QED BY <2>4, <3>2, CaSockStays
  <2> QED BY <2>2, <2>3, <2>5 DEF CaFollow, CaSession
<1> QED BY <1>2, <1>4, CaSocketsRest DEF CaInv

\* A channel added, or taken away: what the member sees changes by that channel.
LEMMA CaAddKeeps ==
  ASSUME CaInv, NEW u \in CaCallers, NEW c \in CaChannels, CaAdd(u, c) PROVE CaInv'
<1> DEFINE call == [CaIdle EXCEPT !.pc = "push", !.add = {c}]
<1>1. /\ caCall[u].pc = "idle" /\ c \in CaLive /\ caGrants' = caGrants \union {c}
      /\ caCall' = [caCall EXCEPT ![u] = call]
      /\ caDrift' = (caDrift \/ CaBusyBut(u))
      /\ caRole' = caRole /\ caChannel' = caChannel /\ UNCHANGED CaSession
  BY DEF CaAdd
<1>2. call \in CaCallType /\ call.pc = "push" /\ call.add = {c} /\ call.remove = {}
  BY DEF CaIdle, CaCallType
<1> HIDE DEF call
<1>3. caGrants' \subseteq CaChannels /\ caChanges' \in 0..CaMaxChanges
  BY <1>1, CaHasTypes, CaCounts DEF CaAdd
<1>4. caDrift' \in BOOLEAN /\ (caDrift => caDrift')
  BY <1>1, CaHasTypes DEF CaBusyBut
<1>5. CaAccessible' = CaAccessible \union {c}
  BY <1>1 DEF CaAccessible, CaLive
<1>6. CaCallFits(call, caRole, caChannel, caGrants')
  BY <1>1, <1>2 DEF CaCallFits, CaLive
<1>7. \A X \in SUBSET CaChannels :
        CaAfter(X, caCall[u]) = X /\ CaAfter(X, call) = X \union {c}
  BY <1>1, <1>2 DEF CaAfter
<1>8. ~caDrift' => CaOthersIdle(u, caCall)
  BY <1>1, CaNotBusy
<1>9. \A X \in SUBSET CaChannels :
        /\ CaAfter(X, caCall[u]) \intersect CaLive = CaAccessible =>
             CaAfter(X, call) \intersect CaLive = CaAccessible'
        /\ CaAfter(X, caCall[u]) \intersect CaLive \subseteq CaAccessible =>
             CaAfter(X, call) \intersect CaLive \subseteq CaAccessible'
  <2> HIDE DEF CaLive, CaAccessible
  <2> QED BY <1>1, <1>5, <1>7
<1> QED BY <1>1, <1>2, <1>3, <1>4, <1>6, <1>8, <1>9, CaCallStep

LEMMA CaRemoveKeeps ==
  ASSUME CaInv, NEW u \in CaCallers, NEW c \in CaChannels, CaRemove(u, c) PROVE CaInv'
<1> DEFINE call == [CaIdle EXCEPT !.pc = "push", !.remove = {c}]
<1>1. /\ caCall[u].pc = "idle" /\ caChannel[c] # "none" /\ caGrants' = caGrants \ {c}
      /\ caCall' = [caCall EXCEPT ![u] = call]
      /\ caDrift' = (caDrift \/ CaBusyBut(u) \/ (caRole = "ADMIN" /\ caChannel[c] = "ORG"))
      /\ caRole' = caRole /\ caChannel' = caChannel /\ UNCHANGED CaSession
  BY DEF CaRemove
<1>2. call \in CaCallType /\ call.pc = "push" /\ call.add = {} /\ call.remove = {c}
  BY DEF CaIdle, CaCallType
<1> HIDE DEF call
<1>3. caGrants' \subseteq CaChannels /\ caChanges' \in 0..CaMaxChanges
  BY <1>1, CaHasTypes, CaCounts DEF CaRemove
<1>4. caDrift' \in BOOLEAN /\ (caDrift => caDrift')
  BY <1>1, CaHasTypes DEF CaBusyBut
<1>5. ~caDrift' => CaAccessible' = CaAccessible \ {c}
  BY <1>1 DEF CaAccessible, CaLive
<1>6. ~caDrift' => CaCallFits(call, caRole, caChannel, caGrants')
  BY <1>1, <1>2 DEF CaCallFits
<1>7. \A X \in SUBSET CaChannels :
        CaAfter(X, caCall[u]) = X /\ CaAfter(X, call) = X \ {c}
  BY <1>1, <1>2 DEF CaAfter
<1>8. ~caDrift' => CaOthersIdle(u, caCall)
  BY <1>1, CaNotBusy
<1>9. ~caDrift' => \A X \in SUBSET CaChannels :
        /\ CaAfter(X, caCall[u]) \intersect CaLive = CaAccessible =>
             CaAfter(X, call) \intersect CaLive = CaAccessible'
        /\ CaAfter(X, caCall[u]) \intersect CaLive \subseteq CaAccessible =>
             CaAfter(X, call) \intersect CaLive \subseteq CaAccessible'
  <2> HIDE DEF CaLive, CaAccessible
  <2> QED BY <1>1, <1>5, <1>7
<1> QED BY <1>1, <1>2, <1>3, <1>4, <1>6, <1>8, <1>9, CaCallStep

LEMMA CaSetReadKeeps ==
  ASSUME CaInv, NEW u \in CaCallers, NEW target \in SUBSET CaChannels, CaSetRead(u, target)
  PROVE  CaInv'
<1> DEFINE call == [pc |-> "write", add |-> target \ caGrants, remove |-> CaToRemove(target)]
<1>1. /\ caCall[u].pc = "idle" /\ target \subseteq CaScope /\ caGrants' = caGrants
      /\ caCall' = [caCall EXCEPT ![u] = call]
      /\ caDrift' = (caDrift \/ CaBusyBut(u) \/
           (caRole = "ADMIN" /\ \E c \in CaToRemove(target) : caChannel[c] = "ORG"))
      /\ caRole' = caRole /\ caChannel' = caChannel /\ UNCHANGED CaSession
  BY DEF CaSetRead
<1>2. CaToRemove(target) \subseteq CaLive /\ CaToRemove(target) \subseteq caGrants /\ target \subseteq CaLive
      /\ CaLive \subseteq CaChannels /\ \A c \in CaLive : caChannel[c] # "none"
  BY <1>1 DEF CaToRemove, CaScope, CaLive
<1>3. call \in CaCallType /\ call.pc = "write" /\ call.add = target \ caGrants /\ call.remove = CaToRemove(target)
  <2> HIDE DEF CaToRemove, CaLive
  <2> QED BY <1>2 DEF CaCallType
<1> HIDE DEF call
<1>4. caGrants' \subseteq CaChannels /\ caChanges' \in 0..CaMaxChanges
  BY <1>1, CaHasTypes, CaCounts DEF CaSetRead
<1>5. caDrift' \in BOOLEAN /\ (caDrift => caDrift')
  BY <1>1, CaHasTypes DEF CaBusyBut
<1>6. CaAccessible' = CaAccessible
  BY <1>1 DEF CaAccessible, CaLive
<1>7. ~caDrift' => CaCallFits(call, caRole, caChannel, caGrants')
  <2> HIDE DEF CaToRemove, CaLive
  <2> QED BY <1>1, <1>2, <1>3 DEF CaCallFits
<1>8. \A X \in SUBSET CaChannels :
        CaAfter(X, caCall[u]) = X /\ CaAfter(X, call) = X
  BY <1>1, <1>3 DEF CaAfter
<1>9. ~caDrift' => CaOthersIdle(u, caCall)
  BY <1>1, CaNotBusy
<1> HIDE DEF CaLive, CaAccessible, CaToRemove
<1> QED BY <1>1, <1>3, <1>4, <1>5, <1>6, <1>7, <1>8, <1>9, CaCallStep

\* Alone, the request is the only one.
LEMMA CaAlone ==
  ASSUME CaInv, ~caDrift, NEW u \in CaCallers, caCall[u].pc # "idle"
  PROVE  CaOthersIdle(u, caCall) /\ CaCallFits(caCall[u], caRole, caChannel, caGrants)
BY DEF CaInv, CaFollow, CaOthersIdle

LEMMA CaSetWriteKeeps ==
  ASSUME CaInv, NEW u \in CaCallers, CaSetWrite(u) PROVE CaInv'
<1> DEFINE add == caCall[u].add
           remove == caCall[u].remove
<1>1. /\ caCall[u].pc = "write" /\ caDrift' = caDrift /\ caChanges' = caChanges
      /\ caRole' = caRole /\ caChannel' = caChannel /\ UNCHANGED CaSession
  BY DEF CaSetWrite
<1>2. /\ caCall[u] \in CaCallType /\ add \subseteq CaChannels /\ remove \subseteq CaChannels
      /\ caDrift' \in BOOLEAN /\ caChanges' \in 0..CaMaxChanges /\ caGrants \subseteq CaChannels
  BY <1>1, CaHasTypes DEF CaCallType
<1>3. ~caDrift => CaOthersIdle(u, caCall) /\ CaCallFits(caCall[u], caRole, caChannel, caGrants)
  BY <1>1, CaAlone
<1>4. CASE add \intersect caGrants = {}
  <2> DEFINE call == [caCall[u] EXCEPT !.pc = "push"]
  <2>1. caGrants' = (caGrants \ remove) \union add /\ caCall' = [caCall EXCEPT ![u] = call]
    BY <1>4 DEF CaSetWrite
  <2>2. call \in CaCallType /\ call.pc = "push" /\ call.add = add /\ call.remove = remove
    BY <1>2 DEF CaCallType
  <2> HIDE DEF call
  <2>3. caGrants' \subseteq CaChannels
    BY <1>2, <2>1
  <2>4. ~caDrift => CaCallFits(call, caRole, caChannel, caGrants')
    BY <1>1, <1>3, <2>1, <2>2 DEF CaCallFits
  <2>5. ~caDrift => CaAccessible' = ((CaAccessible \union add) \ remove) \intersect CaLive
    <3> SUFFICES ASSUME ~caDrift
                 PROVE  CaAccessible' = ((CaAccessible \union add) \ remove) \intersect CaLive
      OBVIOUS
    <3>1. add \intersect remove = {} /\ (caRole = "ADMIN" => \A c \in remove : caChannel[c] # "ORG")
      BY <1>1, <1>3 DEF CaCallFits
    <3> HIDE DEF add, remove
    <3> QED BY <1>1, <2>1, <3>1 DEF CaAccessible, CaLive
  <2>6. \A X \in SUBSET CaChannels :
          CaAfter(X, caCall[u]) = X /\ CaAfter(X, call) = (X \union add) \ remove
    BY <1>1, <2>2 DEF CaAfter
  <2>7. ~caDrift => \A X \in SUBSET CaChannels :
        /\ CaAfter(X, caCall[u]) \intersect CaLive = CaAccessible =>
             CaAfter(X, call) \intersect CaLive = CaAccessible'
        /\ CaAfter(X, caCall[u]) \intersect CaLive \subseteq CaAccessible =>
             CaAfter(X, call) \intersect CaLive \subseteq CaAccessible'
    <3> HIDE DEF CaLive, CaAccessible, add, remove
    <3> QED BY <2>5, <2>6
  <2> QED BY <1>1, <1>2, <1>3, <2>1, <2>2, <2>3, <2>4, <2>7, CaCallStep
<1>5. CASE add \intersect caGrants # {}
  <2>1. caGrants' = caGrants /\ caCall' = [caCall EXCEPT ![u] = CaIdle]
    BY <1>5 DEF CaSetWrite
  <2>2. CaAccessible' = CaAccessible
    BY <1>1, <2>1 DEF CaAccessible, CaLive
  <2>3. CaCallFits(CaIdle, caRole, caChannel, caGrants')
    BY CaIdleOK DEF CaCallFits
  <2>4. \A X \in SUBSET CaChannels : CaAfter(X, caCall[u]) = X /\ CaAfter(X, CaIdle) = X
    BY <1>1, CaIdleOK DEF CaAfter
  <2> HIDE DEF CaLive, CaAccessible
  <2> QED BY <1>1, <1>2, <1>3, <2>1, <2>2, <2>3, <2>4, CaIdleOK, CaCallStep
<1> QED BY <1>4, <1>5

LEMMA CaPushKeeps ==
  ASSUME CaInv, NEW u \in CaCallers, CaPush(u) PROVE CaInv'
<1>1. /\ caCall[u].pc = "push" /\ caCall' = [caCall EXCEPT ![u] = CaIdle]
      /\ caDrift' = (caDrift \/ CaBusyBut(u))
      /\ caRole' = caRole /\ caChannel' = caChannel /\ caGrants' = caGrants
      /\ caChanges' = caChanges /\ caOnline' = caOnline /\ caGhost' = caGhost
  BY DEF CaPush
<1>2. \A s \in CaSockets :
        /\ caSock[s] \in CaSockType
        /\ caCall[u] \in CaCallType
        /\ ~caSock[s].open => caSock'[s] = caSock[s]
        /\ caSock[s].open => caSock'[s] = CaPushTo(caSock[s], caCall[u])
  BY CaHasTypes DEF CaPush
<1>3. \A s \in CaSockets :
        /\ caSock'[s] \in CaSockType /\ caSock'[s].pc = caSock[s].pc
        /\ caSock'[s].open = caSock[s].open
        /\ caSock[s].open =>
             /\ caSock'[s].rooms = CaAfter(caSock[s].rooms, caCall[u])
             /\ caSock'[s].ids = CaAfter(caSock[s].ids, caCall[u])
  <2> SUFFICES ASSUME NEW s \in CaSockets
               PROVE  /\ caSock'[s] \in CaSockType /\ caSock'[s].pc = caSock[s].pc
                      /\ caSock'[s].open = caSock[s].open
                      /\ caSock[s].open =>
                           /\ caSock'[s].rooms = CaAfter(caSock[s].rooms, caCall[u])
                           /\ caSock'[s].ids = CaAfter(caSock[s].ids, caCall[u])
    OBVIOUS
  <2> DEFINE sock == caSock[s]
             call == caCall[u]
  <2>1. sock \in CaSockType /\ call \in CaCallType /\ call.pc = "push"
    BY <1>1, <1>2
  <2>2. CaPushTo(sock, call) \in CaSockType
        /\ CaPushTo(sock, call).pc = sock.pc /\ CaPushTo(sock, call).open = sock.open
        /\ CaPushTo(sock, call).rooms = CaAfter(sock.rooms, call)
        /\ CaPushTo(sock, call).ids = CaAfter(sock.ids, call)
    <3> HIDE DEF sock, call
    <3> QED BY <2>1 DEF CaPushTo, CaAfter, CaSockType, CaCallType
  <2> QED BY <1>2, <2>2
<1>4. caSock' \in [CaSockets -> CaSockType]
  BY <1>3 DEF CaPush
<1>5. /\ caCall' \in [CaCallers -> CaCallType] /\ caCall'[u] = CaIdle
      /\ \A v \in CaCallers : v # u => caCall'[v] = caCall[v]
  BY <1>1, CaHasTypes, CaIdleOK
<1>6. caDrift' \in BOOLEAN /\ (caDrift => caDrift')
  BY <1>1, CaHasTypes DEF CaBusyBut
<1>7. CaTypeOK'
  BY <1>1, <1>4, <1>5, <1>6, CaHasTypes DEF CaTypeOK, CaSockType, CaCallType
<1>8. CaHandshake' /\ CaOnlineHasSocket'
  BY <1>1, <1>3 DEF CaInv, CaHandshake, CaOnlineHasSocket
<1>9. CaLive' = CaLive /\ CaAccessible' = CaAccessible
  BY <1>1 DEF CaLive, CaAccessible
<1>10. CaFollow'
  <2> SUFFICES ASSUME ~caDrift' PROVE CaFollow'
    BY DEF CaFollow
  <2>1. CaOthersIdle(u, caCall) /\ \A s \in CaSockets : caSock[s].pc # "join"
    BY <1>1, CaNotBusy
  <2>2. \A v \in CaCallers : caCall'[v].pc = "idle"
    BY <1>5, <2>1, CaIdleOK DEF CaOthersIdle
  <2>3. \A v \in CaCallers : CaCallFits(caCall'[v], caRole', caChannel', caGrants')
    BY <2>2 DEF CaCallFits
  <2>4. \A X \in SUBSET CaChannels :
          /\ CaShows(X, caCall, CaLive, CaAccessible) =>
               CaShows(CaAfter(X, caCall[u]), caCall', CaLive, CaAccessible)
          /\ CaWithin(X, caCall, CaLive, CaAccessible) =>
               CaWithin(CaAfter(X, caCall[u]), caCall', CaLive, CaAccessible)
    <3> SUFFICES ASSUME NEW X \in SUBSET CaChannels
                 PROVE  /\ CaShows(X, caCall, CaLive, CaAccessible) =>
                             CaShows(CaAfter(X, caCall[u]), caCall', CaLive, CaAccessible)
                        /\ CaWithin(X, caCall, CaLive, CaAccessible) =>
                             CaWithin(CaAfter(X, caCall[u]), caCall', CaLive, CaAccessible)
      OBVIOUS
    <3>1. /\ CaShows(X, caCall, CaLive, CaAccessible) <=> CaAfter(X, caCall[u]) \intersect CaLive = CaAccessible
          /\ CaWithin(X, caCall, CaLive, CaAccessible) <=> CaAfter(X, caCall[u]) \intersect CaLive \subseteq CaAccessible
      BY <2>1, CaShowsOne
    <3>2. \A v \in CaCallers : caCall'[v].pc # "push"
      BY <2>2
    <3> QED BY <3>1, <3>2 DEF CaShows, CaWithin
  <2>5. \A s \in CaSockets : CaSockFollows(caSock'[s], caCall', CaLive, CaAccessible)
    <3> SUFFICES ASSUME NEW s \in CaSockets, caSock[s].open
                 PROVE  CaSockFollows(caSock'[s], caCall', CaLive, CaAccessible)
      BY <1>3 DEF CaSockFollows
    <3>1. caSock[s] \in CaSockType /\ CaSockFollows(caSock[s], caCall, CaLive, CaAccessible)
      BY <1>6, CaHasTypes DEF CaInv, CaFollow
    <3>2. caSock[s].rooms \in SUBSET CaChannels /\ caSock[s].ids \in SUBSET CaChannels
      BY <3>1 DEF CaSockType
    <3> QED BY <1>3, <2>1, <2>4, <3>1, <3>2 DEF CaSockFollows
  <2> QED BY <1>9, <2>2, <2>3, <2>5 DEF CaFollow
<1> QED BY <1>7, <1>8, <1>10 DEF CaInv

-----------------------------------------------------------------------------
(* Sockets *)

\* The step of one socket that leaves the data alone.
LEMMA CaSockStep ==
  ASSUME CaInv, NEW s \in CaSockets, NEW sock \in CaSockType,
         caSock' = [caSock EXCEPT ![s] = sock],
         caRole' = caRole, caChannel' = caChannel, caGrants' = caGrants, caCall' = caCall,
         caChanges' = caChanges,
         caDrift' \in BOOLEAN, caOnline' \in BOOLEAN, caGhost' \in BOOLEAN,
         caDrift => caDrift', caGhost => caGhost',
         sock.pc = "closed" => ~sock.open,
         sock.pc = "ready" => sock.open,
         ~sock.open /\ sock.pc # "closed" => caGhost',
         ~caDrift' => CaSockFollows(sock, caCall, CaLive, CaAccessible),
         CaOnlineHasSocket'
  PROVE  CaInv'
<1>1. /\ caSock' \in [CaSockets -> CaSockType] /\ caSock'[s] = sock
      /\ \A t \in CaSockets : t # s => caSock'[t] = caSock[t]
  BY CaHasTypes
<1>2. CaTypeOK'
  BY <1>1, CaHasTypes DEF CaTypeOK, CaSockType, CaCallType
<1>3. CaHandshake'
  BY <1>1 DEF CaInv, CaHandshake
<1>4. CaLive' = CaLive /\ CaAccessible' = CaAccessible
  BY DEF CaLive, CaAccessible
<1>5. CaFollow'
  BY <1>1, <1>4 DEF CaInv, CaFollow
<1> QED BY <1>2, <1>3, <1>5 DEF CaInv

LEMMA CaFollowsNow ==
  ASSUME CaInv, ~caDrift, NEW s \in CaSockets
  PROVE  CaSockFollows(caSock[s], caCall, CaLive, CaAccessible)
BY DEF CaInv, CaFollow

\* A socket that has just come in is in no room; what is being added has been granted.
LEMMA CaConnectKeeps ==
  ASSUME CaInv, NEW s \in CaSockets, CaConnect(s) PROVE CaInv'
<1> DEFINE sock == [CaClosed EXCEPT !.pc = "auth", !.open = TRUE]
<1>1. /\ caSock[s].pc = "closed" /\ caSock' = [caSock EXCEPT ![s] = sock]
      /\ caRole' = caRole /\ caChannel' = caChannel /\ caGrants' = caGrants /\ caCall' = caCall
      /\ caChanges' = caChanges /\ caDrift' = caDrift /\ caOnline' = caOnline /\ caGhost' = caGhost
  BY DEF CaConnect, CaData
<1>2. sock \in CaSockType /\ sock.pc = "auth" /\ sock.open = TRUE /\ sock.rooms = {}
  BY DEF CaClosed, CaSockType
<1> HIDE DEF sock
<1>3. caDrift' \in BOOLEAN /\ caOnline' \in BOOLEAN /\ caGhost' \in BOOLEAN
  BY <1>1, CaHasTypes
<1>4. ~caDrift => CaSockFollows(sock, caCall, CaLive, CaAccessible)
  <2> SUFFICES ASSUME ~caDrift PROVE CaWithin({}, caCall, CaLive, CaAccessible)
    BY <1>2 DEF CaSockFollows
  <2>1. \A u \in CaCallers : caCall[u].pc = "push" => caCall[u].add \subseteq caGrants
    BY DEF CaInv, CaFollow, CaCallFits
  <2>2. caGrants \intersect CaLive \subseteq CaAccessible
    BY DEF CaAccessible
  <2> HIDE DEF CaLive, CaAccessible
  <2> QED BY <2>1, <2>2 DEF CaWithin
<1>5. CaOnlineHasSocket'
  <2>1. \A t \in CaSockets : caSock[t].pc = "ready" => caSock'[t].pc = "ready"
    BY <1>1, CaHasTypes
  <2> QED BY <1>1, <2>1 DEF CaInv, CaOnlineHasSocket
<1> QED BY <1>1, <1>2, <1>3, <1>4, <1>5, CaSockStep

LEMMA CaResolveKeeps ==
  ASSUME CaInv, NEW s \in CaSockets, CaResolve(s) PROVE CaInv'
<1> DEFINE sock == [caSock[s] EXCEPT !.pc = "join", !.seen = CaAccessible]
<1>0. caSock[s] \in CaSockType /\ caSock[s].pc = "auth"
  BY CaHasTypes DEF CaResolve
<1>1. /\ caSock' = [caSock EXCEPT ![s] = sock]
      /\ caDrift' = (caDrift \/ \E u \in CaCallers : caCall[u].pc = "push")
      /\ caRole' = caRole /\ caChannel' = caChannel /\ caGrants' = caGrants /\ caCall' = caCall
      /\ caChanges' = caChanges /\ caOnline' = caOnline /\ caGhost' = caGhost
  BY CaHasTypes DEF CaResolve
<1>2. CaAccessible \subseteq CaLive /\ CaAccessible \in SUBSET CaChannels
  BY DEF CaAccessible, CaLive
<1>3. /\ sock \in CaSockType /\ sock.pc = "join" /\ sock.open = caSock[s].open
      /\ sock.rooms = caSock[s].rooms /\ sock.seen = CaAccessible
  <2> HIDE DEF CaAccessible
  <2> QED BY <1>0, <1>2 DEF CaSockType
<1> HIDE DEF sock
<1>4. caDrift' \in BOOLEAN /\ caOnline' \in BOOLEAN /\ caGhost' \in BOOLEAN /\ (caDrift => caDrift')
  BY <1>1, CaHasTypes
<1>5. ~caDrift' => CaSockFollows(sock, caCall, CaLive, CaAccessible)
  <2> SUFFICES ASSUME ~caDrift', sock.open
               PROVE  /\ CaWithin(caSock[s].rooms, caCall, CaLive, CaAccessible)
                      /\ CaShows(CaAccessible, caCall, CaLive, CaAccessible)
    BY <1>3 DEF CaSockFollows
  <2>1. CaWithin(caSock[s].rooms, caCall, CaLive, CaAccessible)
    BY <1>0, <1>3, <1>4, CaFollowsNow DEF CaSockFollows
  <2>2. \A u \in CaCallers : caCall[u].pc # "push"
    BY <1>1
  <2> HIDE DEF CaLive, CaAccessible
  <2> QED BY <1>2, <2>1, <2>2 DEF CaShows
<1>6. /\ ~sock.open => caGhost'
  BY <1>0, <1>1, <1>3 DEF CaInv, CaHandshake
<1>7. CaOnlineHasSocket'
  <2>1. \A t \in CaSockets : caSock[t].pc = "ready" => caSock'[t].pc = "ready"
    BY <1>0, <1>1, CaHasTypes
  <2> QED BY <1>1, <2>1 DEF CaInv, CaOnlineHasSocket
<1> HIDE DEF CaLive, CaAccessible
<1> QED BY <1>1, <1>3, <1>4, <1>5, <1>6, <1>7, CaSockStep

LEMMA CaJoinRoomsKeeps ==
  ASSUME CaInv, NEW s \in CaSockets, CaJoinRooms(s) PROVE CaInv'
<1> DEFINE old == caSock[s]
           sock == [old EXCEPT !.pc = "online", !.rooms = old.rooms \union old.seen,
                               !.ids = old.seen, !.seen = {}]
<1>0. old \in CaSockType /\ old.pc = "join"
  BY CaHasTypes DEF CaJoinRooms
<1>1. /\ caSock' = [caSock EXCEPT ![s] = sock]
      /\ caRole' = caRole /\ caChannel' = caChannel /\ caGrants' = caGrants /\ caCall' = caCall
      /\ caChanges' = caChanges /\ caDrift' = caDrift /\ caOnline' = caOnline /\ caGhost' = caGhost
  BY CaHasTypes DEF CaJoinRooms, CaData
<1>2. /\ sock \in CaSockType /\ sock.pc = "online" /\ sock.open = old.open
      /\ sock.rooms = old.rooms \union old.seen /\ sock.ids = old.seen
  <2> HIDE DEF old
  <2> QED BY <1>0 DEF CaSockType
<1> HIDE DEF sock
<1>3. caDrift' \in BOOLEAN /\ caOnline' \in BOOLEAN /\ caGhost' \in BOOLEAN
  BY <1>1, CaHasTypes
<1>4. ~caDrift => CaSockFollows(sock, caCall, CaLive, CaAccessible)
  <2> SUFFICES ASSUME ~caDrift, sock.open
               PROVE  /\ CaShows(old.rooms \union old.seen, caCall, CaLive, CaAccessible)
                      /\ CaShows(old.seen, caCall, CaLive, CaAccessible)
    BY <1>2 DEF CaSockFollows
  <2>1. CaWithin(old.rooms, caCall, CaLive, CaAccessible) /\ CaShows(old.seen, caCall, CaLive, CaAccessible)
    BY <1>0, <1>2, CaFollowsNow DEF CaSockFollows
  <2> HIDE DEF CaLive, CaAccessible, old
  <2> QED BY <2>1 DEF CaShows, CaWithin
<1>5. ~sock.open => caGhost'
  BY <1>0, <1>1, <1>2 DEF CaInv, CaHandshake
<1>6. CaOnlineHasSocket'
  <2>1. \A t \in CaSockets : caSock[t].pc = "ready" => caSock'[t].pc = "ready"
    BY <1>0, <1>1, CaHasTypes
  <2> QED BY <1>1, <2>1 DEF CaInv, CaOnlineHasSocket
<1> HIDE DEF CaLive, CaAccessible
<1> QED BY <1>1, <1>2, <1>3, <1>4, <1>5, <1>6, CaSockStep

LEMMA CaSetOnlineKeeps ==
  ASSUME CaInv, NEW s \in CaSockets, CaSetOnline(s) PROVE CaInv'
<1> DEFINE old == caSock[s]
           now == [old EXCEPT !.pc = "ready"]
<1>0. old \in CaSockType /\ old.pc = "online"
  BY CaHasTypes DEF CaSetOnline
<1>1. /\ caSock' = [caSock EXCEPT ![s] = IF old.open THEN now ELSE CaClosed]
      /\ caRole' = caRole /\ caChannel' = caChannel /\ caGrants' = caGrants /\ caCall' = caCall
      /\ caChanges' = caChanges /\ caDrift' = caDrift /\ caOnline' = TRUE /\ caGhost' = caGhost
  BY CaHasTypes DEF CaSetOnline, CaData
<1>2. /\ now \in CaSockType /\ now.pc = "ready" /\ now.open = old.open
      /\ now.rooms = old.rooms /\ now.ids = old.ids
  <2> HIDE DEF old
  <2> QED BY <1>0 DEF CaSockType
<1> HIDE DEF now
<1>3. caDrift' \in BOOLEAN /\ caOnline' \in BOOLEAN /\ caGhost' \in BOOLEAN
  BY <1>1, CaHasTypes
<1>4. CASE old.open
  <2>1. ~caDrift => CaSockFollows(now, caCall, CaLive, CaAccessible)
    BY <1>0, <1>2, CaFollowsNow DEF CaSockFollows
  <2>2. caSock' = [caSock EXCEPT ![s] = now] /\ caSock'[s] = now
    BY <1>1, <1>4, CaHasTypes
  <2>3. CaOnlineHasSocket'
    BY <1>2, <2>2 DEF CaOnlineHasSocket
  <2> HIDE DEF CaLive, CaAccessible
  <2> QED BY <1>1, <1>2, <1>3, <1>4, <2>1, <2>2, <2>3, CaSockStep
<1>5. CASE ~old.open
  <2>1. ~caDrift => CaSockFollows(CaClosed, caCall, CaLive, CaAccessible)
    BY CaClosedOK DEF CaSockFollows
  <2>2. caSock' = [caSock EXCEPT ![s] = CaClosed] /\ caGhost
    BY <1>0, <1>1, <1>5 DEF CaInv, CaHandshake
  <2>3. CaOnlineHasSocket'
    BY <1>1, <2>2 DEF CaOnlineHasSocket
  <2> HIDE DEF CaLive, CaAccessible
  <2> QED BY <1>1, <1>3, <2>1, <2>2, <2>3, CaClosedOK, CaSockStep
<1> QED BY <1>4, <1>5

LEMMA CaDisconnectKeeps ==
  ASSUME CaInv, NEW s \in CaSockets, CaDisconnect(s) PROVE CaInv'
<1> DEFINE old == caSock[s]
           gone == [old EXCEPT !.open = FALSE]
<1>0. old \in CaSockType /\ old.open
  BY CaHasTypes DEF CaDisconnect
<1>1. /\ caSock' = [caSock EXCEPT ![s] = IF old.pc = "ready" THEN CaClosed ELSE gone]
      /\ caRole' = caRole /\ caChannel' = caChannel /\ caGrants' = caGrants /\ caCall' = caCall
      /\ caChanges' = caChanges /\ caDrift' = caDrift /\ caOnline' = FALSE
      /\ caGhost' = (caGhost \/ old.pc # "ready")
  BY CaHasTypes DEF CaDisconnect, CaData, CaOnlineAfter
<1>2. gone \in CaSockType /\ gone.pc = old.pc /\ gone.open = FALSE
  <2> HIDE DEF old
  <2> QED BY <1>0 DEF CaSockType
<1> HIDE DEF gone
<1>3. caDrift' \in BOOLEAN /\ caOnline' \in BOOLEAN /\ caGhost' \in BOOLEAN /\ (caGhost => caGhost')
  BY <1>1, CaHasTypes
<1>4. CaOnlineHasSocket'
  BY <1>1 DEF CaOnlineHasSocket
<1>5. CaSockFollows(CaClosed, caCall, CaLive, CaAccessible) /\ CaSockFollows(gone, caCall, CaLive, CaAccessible)
  BY <1>2, CaClosedOK DEF CaSockFollows
<1>6. old.pc # "closed"
  BY <1>0 DEF CaInv, CaHandshake
<1> HIDE DEF CaLive, CaAccessible
<1>7. CASE old.pc = "ready"
  BY <1>1, <1>3, <1>4, <1>5, <1>7, CaClosedOK, CaSockStep
<1>8. CASE old.pc # "ready"
  BY <1>1, <1>2, <1>3, <1>4, <1>5, <1>8, CaSockStep
<1> QED BY <1>7, <1>8

LEMMA CaExpireKeeps == ASSUME CaInv, CaExpire PROVE CaInv'
<1>1. /\ caRole' = caRole /\ caChannel' = caChannel /\ caGrants' = caGrants /\ caCall' = caCall
      /\ caChanges' = caChanges /\ caDrift' = caDrift /\ caOnline' = FALSE /\ caSock' = caSock
      /\ caGhost' = caGhost
  BY DEF CaExpire, CaData
<1> QED BY <1>1 DEF CaInv, CaTypeOK, CaHandshake, CaOnlineHasSocket, CaFollow, CaLive, CaAccessible

LEMMA CaStep == CaInv /\ [CaNext]_caVars => CaInv'
<1> SUFFICES ASSUME CaInv, [CaNext]_caVars PROVE CaInv'
  OBVIOUS
<1>1. CASE UNCHANGED caVars
  BY <1>1 DEF caVars, CaInv, CaTypeOK, CaHandshake, CaOnlineHasSocket, CaFollow, CaLive, CaAccessible
<1>2. CASE CaNext
  BY <1>2, CaCreateKeeps, CaSetVisibilityKeeps, CaRemoveChannelKeeps, CaAddKeeps, CaRemoveKeeps,
     CaSetReadKeeps, CaSetWriteKeeps, CaPushKeeps, CaConnectKeeps, CaResolveKeeps,
     CaJoinRoomsKeeps, CaSetOnlineKeeps, CaDisconnectKeeps, CaExpireKeeps DEF CaNext
<1> QED BY <1>1, <1>2

LEMMA CaInvCorrect == CaSpec => []CaInv
BY CaInitInv, CaStep, PTL DEF CaSpec

\* What a member is shown live follows what the member was granted: between requests an open
\* socket is in the rooms of exactly the live channels that its member sees, and a member
\* shown online has an open socket, for any channels, sockets and administrators.
THEOREM CaSafeCorrect == CaSpec => []CaSafe
<1>1. CaInv => CaSafe
  <2> SUFFICES ASSUME CaInv, ~caDrift, \A u \in CaCallers : caCall[u].pc = "idle",
                      NEW s \in CaSockets, caSock[s].open, caSock[s].pc \in {"online", "ready"}
               PROVE  /\ caSock[s].rooms \intersect CaLive = CaAccessible
                      /\ caSock[s].ids \intersect CaLive = CaAccessible
    BY DEF CaSafe, CaRoomsFollowGrants, CaInv
  <2> HIDE DEF CaLive, CaAccessible
  <2> QED BY CaFollowsNow DEF CaSockFollows, CaShows
<1> QED BY <1>1, CaInvCorrect, PTL

\* Roles, channels, grants, sockets and requests keep their shapes.
THEOREM CaTypeCorrect == CaSpec => []CaTypeOK
<1>1. CaInv => CaTypeOK
  BY DEF CaInv
<1> QED BY <1>1, CaInvCorrect, PTL

-----------------------------------------------------------------------------
(* Members: any people, organizations and invitations *)

MbInviteType == [org : MbOrgs, who : MbEverybody, role : MbRoles, status : MbStatus,
                 late : BOOLEAN]
MbCallType == [step : MbSteps, org : MbOrgs, who : MbEverybody, role : MbRoles,
               exists : BOOLEAN, inv : MbInvites]
MbMembers == MbEverybody \X MbOrgs

MbTypeInv ==
  /\ mbUsers \subseteq MbEverybody
  /\ mbRole \in [MbMembers -> MbRoles \union {MbNone}]
  /\ mbInvite \in [MbInvites -> MbInviteType]
  /\ mbCall \in [MbCallers -> MbCallType]
  /\ mbCalls \in 0..MbMaxCalls /\ mbFaults \in 0..MbMaxFaults
  /\ mbRevoked \subseteq MbInvites /\ mbCrossed \subseteq MbMembers

MbMember(call) == <<call.who, call.org>>
MbRedeems(call) == call.step \in {"add", "accept", "join"}
MbEdits(call) == call.step \in {"role", "remove"}

\* What a request read still holds when it writes.
MbFits(call, users, role, invite, revoked, crossed) ==
  /\ call.who = MbFounder =>
       call.step \in {"idle", "role", "revoke"} /\ (call.step = "role" => call.role = "OWNER")
  /\ call.step = "invite" /\ call.exists => call.who \in users
  /\ call.step \in {"add", "accept"} => call.who \in users
  /\ MbRedeems(call) => /\ invite[call.inv].who = call.who
                        /\ invite[call.inv].org = call.org
                        /\ invite[call.inv].status # MbNone
                        /\ call.inv \notin revoked
  /\ call.step = "revoke" => invite[call.inv].status # MbNone
  /\ MbEdits(call) /\ call.exists => role[MbMember(call)] # MbNone
  /\ MbEdits(call) /\ MbMember(call) \notin crossed =>
       /\ call.exists
       /\ role[MbMember(call)] = "OWNER" => call.step = "role" /\ call.role = "OWNER"

MbCallsFit ==
  \A c \in MbCallers : MbFits(mbCall[c], mbUsers, mbRole, mbInvite, mbRevoked, mbCrossed)

\* Two requests that edit one membership, or edit and join it, are known to cross.
MbAlone ==
  \A c \in MbCallers, d \in MbCallers :
    c # d /\ MbEdits(mbCall[c]) /\ (MbEdits(mbCall[d]) \/ mbCall[d].step = "join")
      /\ MbMember(mbCall[c]) = MbMember(mbCall[d])
      => MbMember(mbCall[c]) \in mbCrossed

MbRevokedStay == \A i \in mbRevoked : mbInvite[i].status = "REVOKED"

MbOwned == MbFounder \in mbUsers /\ MbAlwaysOwned

\* A member has a row that was sent to it, redeemed unless its request is under way or died.
MbCameIn(p, o, users, invite, call, faults) ==
  /\ p \in users
  /\ \E i \in MbInvites :
       /\ invite[i].who = p /\ invite[i].org = o /\ invite[i].status # MbNone
       /\ \/ invite[i].status \in {"ACCEPTED", "REVOKED"}
          \/ \E c \in MbCallers : call[c].step = "accept" /\ call[c].inv = i
          \/ faults > 0

MbInvited ==
  \A p \in MbPeople, o \in MbOrgs :
    mbRole[<<p, o>>] # MbNone => MbCameIn(p, o, mbUsers, mbInvite, mbCall, mbFaults)

MbInv == /\ MbTypeInv /\ MbOwned /\ MbRevokedStay /\ MbInvited
         /\ MbCallsFit /\ MbAlone

LEMMA MbRestOK == MbRest \in MbCallType /\ MbRest.step = "idle" /\ MbRest.who = MbFounder
<1>1. (CHOOSE o \in MbOrgs : TRUE) \in MbOrgs /\ (CHOOSE i \in MbInvites : TRUE) \in MbInvites
  BY MbAssumption
<1> QED BY <1>1 DEF MbRest, MbCallType, MbSteps, MbEverybody, MbRoles

\* A request that waits keeps what it read while the others leave it alone.
LEMMA MbFitsStays ==
  ASSUME NEW call \in MbCallType, NEW U, NEW R, NEW I, NEW V, NEW C,
         NEW U2, NEW R2, NEW I2, NEW V2, NEW C2,
         MbFits(call, U, R, I, V, C),
         U \subseteq U2, C \subseteq C2,
         \A i \in MbInvites : I[i].status # MbNone =>
            I2[i].who = I[i].who /\ I2[i].org = I[i].org /\ I2[i].status # MbNone,
         MbRedeems(call) => call.inv \notin V2,
         MbEdits(call) => \/ R2[MbMember(call)] = R[MbMember(call)]
                          \/ R2[MbMember(call)] # MbNone /\ MbMember(call) \in C2
  PROVE  MbFits(call, U2, R2, I2, V2, C2)
<1>1. call.inv \in MbInvites
  BY DEF MbCallType
<1> QED BY <1>1 DEF MbFits

LEMMA MbInitInv == MbInit => MbInv
<1> SUFFICES ASSUME MbInit PROVE MbInv
  OBVIOUS
<1> USE MbRestOK
<1>1. MbFounder \in MbEverybody /\ \A p \in MbPeople : p # MbFounder
  BY MbAssumption DEF MbEverybody
<1>2. mbCall \in [MbCallers -> MbCallType] /\ \A c \in MbCallers : mbCall[c] = MbRest
  BY DEF MbInit
<1>3. MbRest.org \in MbOrgs
  BY DEF MbCallType
<1>4. mbInvite \in [MbInvites -> MbInviteType]
  <2> DEFINE new == [org |-> MbRest.org, who |-> MbFounder, role |-> "AGENT",
                     status |-> MbNone, late |-> FALSE]
  <2>1. new \in MbInviteType
    BY <1>1, <1>3 DEF MbInviteType, MbRoles, MbStatus
  <2>2. mbInvite = [i \in MbInvites |-> new]
    BY DEF MbInit
  <2> HIDE DEF new
  <2> QED BY <2>1, <2>2
<1>5. /\ mbRole \in [MbMembers -> MbRoles \union {MbNone}]
      /\ \A p \in MbEverybody, o \in MbOrgs :
           mbRole[<<p, o>>] = IF p = MbFounder THEN "OWNER" ELSE MbNone
  BY DEF MbInit, MbMembers, MbRoles
<1>10. mbCalls \in 0..MbMaxCalls /\ mbFaults \in 0..MbMaxFaults
  BY MbAssumption DEF MbInit
<1>11. mbUsers \subseteq MbEverybody /\ mbRevoked \subseteq MbInvites /\ mbCrossed \subseteq MbMembers
  BY <1>1 DEF MbInit
<1>6. MbTypeInv
  BY <1>2, <1>4, <1>5, <1>10, <1>11 DEF MbTypeInv
<1>7. MbOwned /\ MbInvited
  BY <1>1, <1>5 DEF MbOwned, MbAlwaysOwned, MbInvited, MbInit, MbEverybody
<1>8. MbRevokedStay
  BY DEF MbRevokedStay, MbInit
<1>9. MbCallsFit /\ MbAlone
  BY <1>2 DEF MbCallsFit, MbAlone, MbFits, MbRedeems, MbEdits
<1> QED BY <1>6, <1>7, <1>8, <1>9 DEF MbInv

-----------------------------------------------------------------------------

\* A new request: what it asks for fits what it read.
LEMMA MbAskKeeps ==
  ASSUME MbInv, NEW c \in MbCallers, NEW call \in MbCallType, MbAsk(c, call),
         MbFits(call, mbUsers, mbRole, mbInvite, mbRevoked, mbCrossed')
  PROVE  MbInv'
<1>1. /\ mbUsers' = mbUsers /\ mbRole' = mbRole /\ mbInvite' = mbInvite
      /\ mbFaults' = mbFaults /\ mbRevoked' = mbRevoked
      /\ mbCalls' = mbCalls + 1 /\ mbCalls < MbMaxCalls
      /\ mbCall[c].step = "idle"
  BY DEF MbAsk
<1>2. /\ mbCall' \in [MbCallers -> MbCallType] /\ mbCall'[c] = call
      /\ \A d \in MbCallers : d # c => mbCall'[d] = mbCall[d]
  BY DEF MbAsk, MbInv, MbTypeInv
<1>3. call.who \in MbEverybody /\ call.org \in MbOrgs
  BY DEF MbCallType
<1>4. /\ mbCrossed \subseteq mbCrossed' /\ mbCrossed' \subseteq MbMembers
      /\ MbChanging(call.org, call.who) => MbMember(call) \in mbCrossed'
  BY <1>3 DEF MbAsk, MbMember, MbMembers, MbInv, MbTypeInv
<1>5. mbCalls' \in 0..MbMaxCalls
  BY <1>1, MbAssumption DEF MbInv, MbTypeInv
<1>6. MbTypeInv'
  BY <1>1, <1>2, <1>4, <1>5 DEF MbInv, MbTypeInv
<1>7. MbOwned' /\ MbRevokedStay'
  BY <1>1 DEF MbInv, MbOwned, MbAlwaysOwned, MbRevokedStay
<1>8. MbInvited'
  <2> SUFFICES ASSUME NEW p \in MbPeople, NEW o \in MbOrgs, mbRole'[<<p, o>>] # MbNone
               PROVE  MbCameIn(p, o, mbUsers', mbInvite', mbCall', mbFaults')
    BY DEF MbInvited
  <2>1. MbCameIn(p, o, mbUsers, mbInvite, mbCall, mbFaults)
    BY <1>1 DEF MbInv, MbInvited
  <2>2. \A d \in MbCallers : mbCall[d].step = "accept" => mbCall'[d] = mbCall[d]
    BY <1>1, <1>2
  <2> QED BY <2>1, <2>2, <1>1 DEF MbCameIn
<1>9. MbCallsFit'
  <2> SUFFICES ASSUME NEW d \in MbCallers
               PROVE  MbFits(mbCall'[d], mbUsers', mbRole', mbInvite', mbRevoked', mbCrossed')
    BY DEF MbCallsFit
  <2>1. CASE d = c
    BY <2>1, <1>1, <1>2
  <2>2. CASE d # c
    <3>1. /\ mbCall[d] \in MbCallType /\ mbCall'[d] = mbCall[d]
          /\ MbFits(mbCall[d], mbUsers, mbRole, mbInvite, mbRevoked, mbCrossed)
      BY <2>2, <1>2 DEF MbInv, MbCallsFit, MbTypeInv
    <3>2. MbRedeems(mbCall[d]) => mbCall[d].inv \notin mbRevoked
      BY <3>1 DEF MbFits
    <3>3. MbFits(mbCall[d], mbUsers, mbRole, mbInvite, mbRevoked, mbCrossed')
      BY <3>1, <3>2, <1>4, MbFitsStays
    <3> QED BY <3>1, <3>3, <1>1
  <2> QED BY <2>1, <2>2
<1>10. MbAlone'
  <2> SUFFICES ASSUME NEW d \in MbCallers, NEW e \in MbCallers, d # e, MbEdits(mbCall'[d]),
                      MbEdits(mbCall'[e]) \/ mbCall'[e].step = "join",
                      MbMember(mbCall'[d]) = MbMember(mbCall'[e])
               PROVE  MbMember(mbCall'[d]) \in mbCrossed'
    BY DEF MbAlone
  <2>1. CASE d # c /\ e # c
    BY <2>1, <1>2, <1>4 DEF MbInv, MbAlone
  <2>2. CASE d = c
    <3>1. mbCall'[e] = mbCall[e] /\ MbMember(mbCall[e]) = MbMember(call)
      BY <2>2, <1>2
    <3>2. mbCall[e].who = call.who /\ mbCall[e].org = call.org
      BY <3>1 DEF MbMember
    <3>3. MbChanging(call.org, call.who)
      BY <3>1, <3>2 DEF MbChanging, MbEdits
    <3> QED BY <3>3, <1>4, <1>2, <2>2
  <2>3. CASE e = c
    <3>1. mbCall'[d] = mbCall[d] /\ MbMember(mbCall[d]) = MbMember(call)
      BY <2>3, <1>2
    <3>2. mbCall[d].who = call.who /\ mbCall[d].org = call.org
      BY <3>1 DEF MbMember
    <3>3. MbChanging(call.org, call.who)
      BY <3>1, <3>2 DEF MbChanging, MbEdits
    <3> QED BY <3>3, <1>4, <1>2, <2>3, <3>1
  <2> QED BY <2>1, <2>2, <2>3
<1> QED BY <1>6, <1>7, <1>8, <1>9, <1>10 DEF MbInv

\* A member stays one that was invited, whatever happens to other rows and requests.
LEMMA MbCameInStays ==
  ASSUME NEW p, NEW o, NEW U, NEW I, NEW L, NEW F, NEW U2, NEW I2, NEW L2, NEW F2,
         MbCameIn(p, o, U, I, L, F), U \subseteq U2, F > 0 => F2 > 0,
         \A i \in MbInvites : I[i].status # MbNone =>
            I2[i].who = I[i].who /\ I2[i].org = I[i].org /\ I2[i].status # MbNone,
         \A i \in MbInvites : I[i].status \in {"ACCEPTED", "REVOKED"} =>
            I2[i].status \in {"ACCEPTED", "REVOKED"},
         \A c \in MbCallers : L[c].step = "accept" =>
            \/ L2[c].step = "accept" /\ L2[c].inv = L[c].inv
            \/ I2[L[c].inv].status \in {"ACCEPTED", "REVOKED"} \/ F2 > 0
  PROVE  MbCameIn(p, o, U2, I2, L2, F2)
<1>1. PICK i \in MbInvites :
        /\ I[i].who = p /\ I[i].org = o /\ I[i].status # MbNone
        /\ \/ I[i].status \in {"ACCEPTED", "REVOKED"}
           \/ \E c \in MbCallers : L[c].step = "accept" /\ L[c].inv = i
           \/ F > 0
  BY DEF MbCameIn
<1>2. I2[i].who = p /\ I2[i].org = o /\ I2[i].status # MbNone /\ p \in U2
  BY <1>1 DEF MbCameIn
<1>3. \/ I2[i].status \in {"ACCEPTED", "REVOKED"}
      \/ \E c \in MbCallers : L2[c].step = "accept" /\ L2[c].inv = i
      \/ F2 > 0
  BY <1>1
<1> QED BY <1>2, <1>3 DEF MbCameIn

\* A step of a request that leaves the others as they are.
LEMMA MbMoveKeeps ==
  ASSUME MbInv, NEW c \in MbCallers,
         MbTypeInv', MbOwned', MbRevokedStay', MbInvited',
         \A d \in MbCallers : d # c => mbCall'[d] = mbCall[d],
         ~MbEdits(mbCall'[c]) /\ mbCall'[c].step # "join",
         MbFits(mbCall'[c], mbUsers', mbRole', mbInvite', mbRevoked', mbCrossed'),
         mbUsers \subseteq mbUsers', mbCrossed' = mbCrossed,
         \A i \in MbInvites : mbInvite[i].status # MbNone =>
            /\ mbInvite'[i].who = mbInvite[i].who /\ mbInvite'[i].org = mbInvite[i].org
            /\ mbInvite'[i].status # MbNone,
         \A d \in MbCallers : d # c /\ MbRedeems(mbCall[d]) => mbCall[d].inv \notin mbRevoked',
         \A d \in MbCallers : d # c /\ MbEdits(mbCall[d]) =>
            \/ mbRole'[MbMember(mbCall[d])] = mbRole[MbMember(mbCall[d])]
            \/ mbRole'[MbMember(mbCall[d])] # MbNone /\ MbMember(mbCall[d]) \in mbCrossed
  PROVE  MbInv'
<1>1. MbCallsFit'
  <2> SUFFICES ASSUME NEW d \in MbCallers
               PROVE  MbFits(mbCall'[d], mbUsers', mbRole', mbInvite', mbRevoked', mbCrossed')
    BY DEF MbCallsFit
  <2>1. CASE d = c
    BY <2>1
  <2>2. CASE d # c
    <3>1. /\ mbCall[d] \in MbCallType /\ mbCall'[d] = mbCall[d]
          /\ MbFits(mbCall[d], mbUsers, mbRole, mbInvite, mbRevoked, mbCrossed)
      BY <2>2 DEF MbInv, MbCallsFit, MbTypeInv
    <3>2. MbRedeems(mbCall[d]) => mbCall[d].inv \notin mbRevoked'
      BY <2>2
    <3>3. MbEdits(mbCall[d]) =>
            \/ mbRole'[MbMember(mbCall[d])] = mbRole[MbMember(mbCall[d])]
            \/ mbRole'[MbMember(mbCall[d])] # MbNone /\ MbMember(mbCall[d]) \in mbCrossed'
      BY <2>2
    <3>4. MbFits(mbCall[d], mbUsers', mbRole', mbInvite', mbRevoked', mbCrossed')
      BY <3>1, <3>2, <3>3, MbFitsStays
    <3> QED BY <3>1, <3>4
  <2> QED BY <2>1, <2>2
<1>2. MbAlone'
  <2> SUFFICES ASSUME NEW d \in MbCallers, NEW e \in MbCallers, d # e, MbEdits(mbCall'[d]),
                      MbEdits(mbCall'[e]) \/ mbCall'[e].step = "join",
                      MbMember(mbCall'[d]) = MbMember(mbCall'[e])
               PROVE  MbMember(mbCall'[d]) \in mbCrossed'
    BY DEF MbAlone
  <2>1. d # c /\ e # c
    OBVIOUS
  <2> QED BY <2>1 DEF MbInv, MbAlone
<1> QED BY <1>1, <1>2 DEF MbInv

\* A request ends.
LEMMA MbRestFits ==
  ASSUME NEW U, NEW R, NEW I, NEW V, NEW C
  PROVE  /\ MbFits(MbRest, U, R, I, V, C)
         /\ ~MbEdits(MbRest) /\ MbRest.step # "join" /\ MbRest.step # "accept"
BY MbRestOK DEF MbFits, MbEdits, MbRedeems

\* The rows and requests a step leaves alone.
LEMMA MbInvitedStays ==
  ASSUME MbInv, mbUsers \subseteq mbUsers', mbFaults > 0 => mbFaults' > 0,
         \A i \in MbInvites : mbInvite[i].status # MbNone =>
            /\ mbInvite'[i].who = mbInvite[i].who /\ mbInvite'[i].org = mbInvite[i].org
            /\ mbInvite'[i].status # MbNone,
         \A i \in MbInvites : mbInvite[i].status \in {"ACCEPTED", "REVOKED"} =>
            mbInvite'[i].status \in {"ACCEPTED", "REVOKED"},
         \A c \in MbCallers : mbCall[c].step = "accept" =>
            \/ mbCall'[c].step = "accept" /\ mbCall'[c].inv = mbCall[c].inv
            \/ mbInvite'[mbCall[c].inv].status \in {"ACCEPTED", "REVOKED"} \/ mbFaults' > 0,
         \A p \in MbPeople, o \in MbOrgs :
            mbRole'[<<p, o>>] # MbNone =>
              \/ mbRole[<<p, o>>] # MbNone
              \/ MbCameIn(p, o, mbUsers', mbInvite', mbCall', mbFaults')
  PROVE  MbInvited'
<1> SUFFICES ASSUME NEW p \in MbPeople, NEW o \in MbOrgs, mbRole'[<<p, o>>] # MbNone
             PROVE  MbCameIn(p, o, mbUsers', mbInvite', mbCall', mbFaults')
  BY DEF MbInvited
<1>1. CASE mbRole[<<p, o>>] # MbNone
  <2>1. MbCameIn(p, o, mbUsers, mbInvite, mbCall, mbFaults)
    BY <1>1 DEF MbInv, MbInvited
  <2> QED BY <2>1, MbCameInStays
<1>2. CASE ~(mbRole[<<p, o>>] # MbNone)
  BY <1>2
<1> QED BY <1>1, <1>2

-----------------------------------------------------------------------------
(* The requests: what each asks for fits what it read *)

LEMMA MbAskInviteKeeps ==
  ASSUME MbInv, NEW c \in MbCallers, NEW actor, NEW o \in MbOrgs, NEW who \in MbEverybody,
         NEW role \in MbRoles, MbAskInvite(c, actor, o, who, role)
  PROVE  MbInv'
<1> DEFINE new == [MbRest EXCEPT !.step = "invite", !.org = o, !.who = who, !.role = role,
                                 !.exists = who \in mbUsers]
           known == who \in mbUsers
<1>0. known \in BOOLEAN
  OBVIOUS
<1>5. new = [MbRest EXCEPT !.step = "invite", !.org = o, !.who = who, !.role = role,
                           !.exists = known]
  OBVIOUS
<1> HIDE DEF known
<1>6. /\ new \in MbCallType
      /\ new.step = "invite" /\ new.who = who /\ new.exists = known
  BY <1>0, <1>5, MbRestOK DEF MbCallType, MbSteps
<1>1. /\ new \in MbCallType
      /\ new.step = "invite" /\ new.who = who /\ (new.exists => who \in mbUsers)
  BY <1>6 DEF known
<1>2. MbAsk(c, new) /\ mbRole[<<who, o>>] = MbNone
  BY DEF MbAskInvite
<1> HIDE DEF new
<1>3. who # MbFounder
  BY <1>2 DEF MbInv, MbOwned, MbAlwaysOwned, MbNone
<1>4. MbFits(new, mbUsers, mbRole, mbInvite, mbRevoked, mbCrossed')
  BY <1>1, <1>3 DEF MbFits, MbRedeems, MbEdits
<1> QED BY <1>1, <1>2, <1>4, MbAskKeeps

LEMMA MbAskRevokeKeeps ==
  ASSUME MbInv, NEW c \in MbCallers, NEW actor, NEW i \in MbInvites, MbAskRevoke(c, actor, i)
  PROVE  MbInv'
<1> DEFINE new == [MbRest EXCEPT !.step = "revoke", !.org = mbInvite[i].org, !.inv = i]
<1>0. mbInvite[i] \in MbInviteType
  BY DEF MbInv, MbTypeInv
<1>1. /\ new \in MbCallType
      /\ new.step = "revoke" /\ new.inv = i
  BY <1>0, MbRestOK DEF MbCallType, MbSteps, MbInviteType
<1>2. MbAsk(c, new) /\ mbInvite[i].status = "PENDING"
  BY DEF MbAskRevoke
<1> HIDE DEF new
<1>4. MbFits(new, mbUsers, mbRole, mbInvite, mbRevoked, mbCrossed')
  BY <1>1, <1>2 DEF MbFits, MbRedeems, MbEdits, MbNone
<1> QED BY <1>1, <1>2, <1>4, MbAskKeeps

LEMMA MbAskJoinKeeps ==
  ASSUME MbInv, NEW c \in MbCallers, NEW i \in MbInvites, MbAskJoin(c, i)
  PROVE  MbInv'
<1> DEFINE new == [MbRest EXCEPT !.step = "join", !.org = mbInvite[i].org,
                     !.who = mbInvite[i].who, !.role = mbInvite[i].role, !.inv = i]
<1>0. mbInvite[i] \in MbInviteType
  BY DEF MbInv, MbTypeInv
<1>1. /\ new \in MbCallType
      /\ new.step = "join" /\ new.inv = i /\ new.who = mbInvite[i].who
      /\ new.org = mbInvite[i].org
  BY <1>0, MbRestOK DEF MbCallType, MbSteps, MbInviteType
<1>2. MbAsk(c, new) /\ mbInvite[i].status = "PENDING" /\ mbInvite[i].who \notin mbUsers
  BY DEF MbAskJoin
<1> HIDE DEF new
<1>3. mbInvite[i].who # MbFounder /\ i \notin mbRevoked
  BY <1>2 DEF MbInv, MbOwned, MbRevokedStay
<1>4. MbFits(new, mbUsers, mbRole, mbInvite, mbRevoked, mbCrossed')
  BY <1>1, <1>2, <1>3 DEF MbFits, MbRedeems, MbEdits, MbNone
<1> QED BY <1>1, <1>2, <1>4, MbAskKeeps

LEMMA MbAskFoundKeeps ==
  ASSUME MbInv, NEW c \in MbCallers, NEW who \in MbPeople, MbAskFound(c, who)
  PROVE  MbInv'
<1> DEFINE new == [MbRest EXCEPT !.step = "found", !.who = who]
<1>1. new \in MbCallType /\ new.step = "found" /\ new.who = who
  BY MbRestOK DEF MbCallType, MbSteps, MbEverybody
<1>2. MbAsk(c, new)
  BY DEF MbAskFound
<1> HIDE DEF new
<1>3. who # MbFounder
  BY MbAssumption
<1>4. MbFits(new, mbUsers, mbRole, mbInvite, mbRevoked, mbCrossed')
  BY <1>1, <1>3 DEF MbFits, MbRedeems, MbEdits
<1> QED BY <1>1, <1>2, <1>4, MbAskKeeps

LEMMA MbAskRoleKeeps ==
  ASSUME MbInv, NEW c \in MbCallers, NEW actor, NEW o \in MbOrgs, NEW who \in MbEverybody,
         NEW role \in MbRoles, MbAskRole(c, actor, o, who, role)
  PROVE  MbInv'
<1> DEFINE new == [MbRest EXCEPT !.step = "role", !.org = o, !.who = who, !.role = role,
                                 !.exists = TRUE]
<1>1. /\ new \in MbCallType
      /\ new.step = "role" /\ new.who = who /\ new.org = o /\ new.role = role
      /\ new.exists = TRUE
  BY MbRestOK DEF MbCallType, MbSteps
<1>2. /\ MbAsk(c, new) /\ mbRole[<<who, o>>] # MbNone
      /\ mbRole[<<who, o>>] = "OWNER" => role = "OWNER"
  BY DEF MbAskRole
<1> HIDE DEF new
<1>3. who = MbFounder => role = "OWNER"
  BY <1>2 DEF MbInv, MbOwned, MbAlwaysOwned
<1>4. MbFits(new, mbUsers, mbRole, mbInvite, mbRevoked, mbCrossed')
  BY <1>1, <1>2, <1>3 DEF MbFits, MbRedeems, MbEdits, MbMember
<1> QED BY <1>1, <1>2, <1>4, MbAskKeeps

LEMMA MbAskRemoveKeeps ==
  ASSUME MbInv, NEW c \in MbCallers, NEW actor, NEW o \in MbOrgs, NEW who \in MbEverybody,
         NEW byUser, MbAskRemove(c, actor, o, who, byUser)
  PROVE  MbInv'
<1> DEFINE new == [MbRest EXCEPT !.step = "remove", !.org = o, !.who = who, !.exists = TRUE]
<1>1. /\ new \in MbCallType
      /\ new.step = "remove" /\ new.who = who /\ new.org = o /\ new.exists = TRUE
  BY MbRestOK DEF MbCallType, MbSteps
<1>2. MbAsk(c, new) /\ mbRole[<<who, o>>] # MbNone /\ mbRole[<<who, o>>] # "OWNER"
  BY DEF MbAskRemove
<1> HIDE DEF new
<1>3. who # MbFounder
  BY <1>2 DEF MbInv, MbOwned, MbAlwaysOwned
<1>4. MbFits(new, mbUsers, mbRole, mbInvite, mbRevoked, mbCrossed')
  BY <1>1, <1>2, <1>3 DEF MbFits, MbRedeems, MbEdits, MbMember
<1> QED BY <1>1, <1>2, <1>4, MbAskKeeps

-----------------------------------------------------------------------------
(* Their writes *)

LEMMA MbDieKeeps ==
  ASSUME MbInv, NEW c \in MbCallers, MbDie(c)
  PROVE  MbInv'
<1>1. /\ mbUsers' = mbUsers /\ mbRole' = mbRole /\ mbInvite' = mbInvite /\ mbCalls' = mbCalls
      /\ mbRevoked' = mbRevoked /\ mbCrossed' = mbCrossed
      /\ mbFaults < MbMaxFaults /\ mbFaults' = mbFaults + 1
      /\ mbCall' = [mbCall EXCEPT ![c] = MbRest]
  BY DEF MbDie
<1>2. /\ mbCall' \in [MbCallers -> MbCallType] /\ mbCall'[c] = MbRest
      /\ \A d \in MbCallers : d # c => mbCall'[d] = mbCall[d]
  BY <1>1, MbRestOK DEF MbInv, MbTypeInv
<1>3. mbFaults' \in 0..MbMaxFaults /\ mbFaults' > 0
  BY <1>1, MbAssumption DEF MbInv, MbTypeInv
<1>4. MbTypeInv'
  BY <1>1, <1>2, <1>3 DEF MbInv, MbTypeInv
<1>5. MbOwned' /\ MbRevokedStay'
  BY <1>1 DEF MbInv, MbOwned, MbAlwaysOwned, MbRevokedStay
<1>6. MbInvited'
  BY <1>1, <1>3, MbInvitedStays
<1>7. \A d \in MbCallers : d # c /\ MbRedeems(mbCall[d]) => mbCall[d].inv \notin mbRevoked'
  BY <1>1 DEF MbInv, MbCallsFit, MbFits
<1>8. MbFits(mbCall'[c], mbUsers', mbRole', mbInvite', mbRevoked', mbCrossed')
  BY <1>2, MbRestFits
<1>9. ~MbEdits(mbCall'[c]) /\ mbCall'[c].step # "join"
  BY <1>2, MbRestFits
<1> QED BY <1>1, <1>2, <1>4, <1>5, <1>6, <1>7, <1>8, <1>9, MbMoveKeeps

LEMMA MbFoundKeeps ==
  ASSUME MbInv, NEW c \in MbCallers, MbFound(c)
  PROVE  MbInv'
<1>1. /\ mbRole' = mbRole /\ mbInvite' = mbInvite /\ mbCalls' = mbCalls
      /\ mbRevoked' = mbRevoked /\ mbCrossed' = mbCrossed /\ mbFaults' = mbFaults
      /\ mbUsers' = mbUsers \union {mbCall[c].who}
      /\ mbCall' = [mbCall EXCEPT ![c] = MbRest] /\ mbCall[c].step = "found"
  BY DEF MbFound, MbGo
<1>2. /\ mbCall' \in [MbCallers -> MbCallType] /\ mbCall'[c] = MbRest
      /\ \A d \in MbCallers : d # c => mbCall'[d] = mbCall[d]
  BY <1>1, MbRestOK DEF MbInv, MbTypeInv
<1>3. mbUsers \subseteq mbUsers' /\ mbUsers' \subseteq MbEverybody
  BY <1>1 DEF MbInv, MbTypeInv, MbCallType
<1>4. MbTypeInv'
  BY <1>1, <1>2, <1>3 DEF MbInv, MbTypeInv
<1>5. MbOwned' /\ MbRevokedStay'
  BY <1>1, <1>3 DEF MbInv, MbOwned, MbAlwaysOwned, MbRevokedStay
<1>6. \A d \in MbCallers : mbCall[d].step = "accept" => mbCall'[d] = mbCall[d]
  BY <1>1, <1>2
<1>10. MbInvited'
  BY <1>1, <1>3, <1>6, MbInvitedStays
<1>7. \A d \in MbCallers : d # c /\ MbRedeems(mbCall[d]) => mbCall[d].inv \notin mbRevoked'
  BY <1>1 DEF MbInv, MbCallsFit, MbFits
<1>8. MbFits(mbCall'[c], mbUsers', mbRole', mbInvite', mbRevoked', mbCrossed')
  BY <1>2, MbRestFits
<1>9. ~MbEdits(mbCall'[c]) /\ mbCall'[c].step # "join"
  BY <1>2, MbRestFits
<1> QED BY <1>1, <1>2, <1>3, <1>4, <1>5, <1>10, <1>7, <1>8, <1>9, MbMoveKeeps

LEMMA MbExpireKeeps ==
  ASSUME MbInv, NEW i \in MbInvites, MbExpire(i)
  PROVE  MbInv'
<1> DEFINE new == [mbInvite[i] EXCEPT !.late = TRUE]
<1>1. /\ mbUsers' = mbUsers /\ mbRole' = mbRole /\ mbCalls' = mbCalls /\ mbCall' = mbCall
      /\ mbRevoked' = mbRevoked /\ mbCrossed' = mbCrossed /\ mbFaults' = mbFaults
  BY DEF MbExpire
<1>2. mbInvite[i] \in MbInviteType
  BY DEF MbInv, MbTypeInv
<1>3. /\ new \in MbInviteType /\ new.who = mbInvite[i].who /\ new.org = mbInvite[i].org
      /\ new.status = mbInvite[i].status
  BY <1>2 DEF MbInviteType
<1>4. mbInvite' = [mbInvite EXCEPT ![i] = new]
  BY DEF MbExpire
<1> HIDE DEF new
<1>5. /\ mbInvite' \in [MbInvites -> MbInviteType]
      /\ \A j \in MbInvites : /\ mbInvite'[j].who = mbInvite[j].who
                              /\ mbInvite'[j].org = mbInvite[j].org
                              /\ mbInvite'[j].status = mbInvite[j].status
  BY <1>3, <1>4 DEF MbInv, MbTypeInv
<1>6. MbTypeInv' /\ MbOwned' /\ MbRevokedStay'
  BY <1>1, <1>5 DEF MbInv, MbTypeInv, MbOwned, MbAlwaysOwned, MbRevokedStay
<1>7. MbInvited'
  BY <1>1, <1>5, MbInvitedStays
<1>8. MbCallsFit'
  <2> SUFFICES ASSUME NEW d \in MbCallers
               PROVE  MbFits(mbCall[d], mbUsers, mbRole, mbInvite', mbRevoked, mbCrossed)
    BY <1>1 DEF MbCallsFit
  <2>1. /\ mbCall[d] \in MbCallType
        /\ MbFits(mbCall[d], mbUsers, mbRole, mbInvite, mbRevoked, mbCrossed)
    BY DEF MbInv, MbCallsFit, MbTypeInv
  <2>2. MbRedeems(mbCall[d]) => mbCall[d].inv \notin mbRevoked
    BY <2>1 DEF MbFits
  <2> QED BY <2>1, <2>2, <1>5, MbFitsStays
<1>9. MbAlone'
  BY <1>1 DEF MbInv, MbAlone
<1> QED BY <1>6, <1>7, <1>8, <1>9 DEF MbInv

LEMMA MbAcceptKeeps ==
  ASSUME MbInv, NEW c \in MbCallers, MbAccept(c)
  PROVE  MbInv'
<1> DEFINE i == mbCall[c].inv
           new == [mbInvite[i] EXCEPT !.status = "ACCEPTED"]
<1>1. /\ mbUsers' = mbUsers /\ mbRole' = mbRole /\ mbCalls' = mbCalls
      /\ mbRevoked' = mbRevoked /\ mbCrossed' = mbCrossed /\ mbFaults' = mbFaults
      /\ mbCall' = [mbCall EXCEPT ![c] = MbRest] /\ mbCall[c].step = "accept"
  BY DEF MbAccept, MbGo
<1>2. i \in MbInvites /\ mbInvite[i] \in MbInviteType
  BY DEF MbInv, MbTypeInv, MbCallType
<1>3. /\ new \in MbInviteType /\ new.who = mbInvite[i].who /\ new.org = mbInvite[i].org
      /\ new.status = "ACCEPTED"
  BY <1>2 DEF MbInviteType, MbStatus
<1>4. mbInvite' = [mbInvite EXCEPT ![i] = new]
  BY DEF MbAccept
<1>5. i \notin mbRevoked
  BY <1>1 DEF MbInv, MbCallsFit, MbFits, MbRedeems
<1> HIDE DEF new
<1>6. /\ mbInvite' \in [MbInvites -> MbInviteType]
      /\ mbInvite'[i].status = "ACCEPTED"
      /\ \A j \in MbInvites : /\ mbInvite'[j].who = mbInvite[j].who
                              /\ mbInvite'[j].org = mbInvite[j].org
                              /\ j # i => mbInvite'[j].status = mbInvite[j].status
  BY <1>2, <1>3, <1>4 DEF MbInv, MbTypeInv
<1>7. /\ mbCall' \in [MbCallers -> MbCallType] /\ mbCall'[c] = MbRest
      /\ \A d \in MbCallers : d # c => mbCall'[d] = mbCall[d]
  BY <1>1, MbRestOK DEF MbInv, MbTypeInv
<1>8. MbTypeInv' /\ MbOwned'
  BY <1>1, <1>6, <1>7 DEF MbInv, MbTypeInv, MbOwned, MbAlwaysOwned
<1>9. MbRevokedStay'
  <2>1. \A j \in mbRevoked : j \in MbInvites /\ j # i /\ mbInvite[j].status = "REVOKED"
    BY <1>5 DEF MbInv, MbRevokedStay, MbTypeInv
  <2> QED BY <2>1, <1>1, <1>6 DEF MbRevokedStay
<1>10. \A d \in MbCallers : mbCall[d].step = "accept" =>
         mbCall'[d] = mbCall[d] \/ mbInvite'[mbCall[d].inv].status \in {"ACCEPTED", "REVOKED"}
  BY <1>6, <1>7
<1>15. \A j \in MbInvites : mbInvite[j].status # MbNone => mbInvite'[j].status # MbNone
  BY <1>6 DEF MbNone
<1>11. MbInvited'
  BY <1>1, <1>6, <1>10, <1>15, MbInvitedStays
<1>12. \A d \in MbCallers : d # c /\ MbRedeems(mbCall[d]) => mbCall[d].inv \notin mbRevoked'
  BY <1>1 DEF MbInv, MbCallsFit, MbFits
<1>13. MbFits(mbCall'[c], mbUsers', mbRole', mbInvite', mbRevoked', mbCrossed')
  BY <1>7, MbRestFits
<1>14. ~MbEdits(mbCall'[c]) /\ mbCall'[c].step # "join"
  BY <1>7, MbRestFits
<1> QED BY <1>1, <1>6, <1>7, <1>8, <1>9, <1>11, <1>12, <1>13, <1>14, <1>15, MbMoveKeeps

LEMMA MbRevokeKeeps ==
  ASSUME MbInv, NEW c \in MbCallers, MbRevoke(c)
  PROVE  MbInv'
<1> DEFINE i == mbCall[c].inv
           new == [mbInvite[i] EXCEPT !.status = "REVOKED"]
<1>1. /\ mbUsers' = mbUsers /\ mbRole' = mbRole /\ mbCalls' = mbCalls
      /\ mbCrossed' = mbCrossed /\ mbFaults' = mbFaults
      /\ mbCall' = [mbCall EXCEPT ![c] = MbRest] /\ mbCall[c].step = "revoke"
  BY DEF MbRevoke, MbGo
<1>2. i \in MbInvites /\ mbInvite[i] \in MbInviteType
  BY DEF MbInv, MbTypeInv, MbCallType
<1>3. /\ new \in MbInviteType /\ new.who = mbInvite[i].who /\ new.org = mbInvite[i].org
      /\ new.status = "REVOKED"
  BY <1>2 DEF MbInviteType, MbStatus
<1>4. mbInvite' = [mbInvite EXCEPT ![i] = new]
  BY DEF MbRevoke
<1>5. \/ mbRevoked' = mbRevoked
      \/ /\ mbRevoked' = mbRevoked \union {i}
         /\ \A d \in MbCallers : mbCall[d].step \in {"join", "add", "accept"} => mbCall[d].inv # i
  BY DEF MbRevoke
<1> HIDE DEF new
<1>6. /\ mbInvite' \in [MbInvites -> MbInviteType]
      /\ mbInvite'[i].status = "REVOKED"
      /\ \A j \in MbInvites : /\ mbInvite'[j].who = mbInvite[j].who
                              /\ mbInvite'[j].org = mbInvite[j].org
                              /\ j # i => mbInvite'[j].status = mbInvite[j].status
  BY <1>2, <1>3, <1>4 DEF MbInv, MbTypeInv
<1>7. /\ mbCall' \in [MbCallers -> MbCallType] /\ mbCall'[c] = MbRest
      /\ \A d \in MbCallers : d # c => mbCall'[d] = mbCall[d]
  BY <1>1, MbRestOK DEF MbInv, MbTypeInv
<1>20. mbRevoked' \subseteq MbInvites /\ mbRevoked' \subseteq mbRevoked \union {i}
  BY <1>2, <1>5 DEF MbInv, MbTypeInv
<1>8. MbTypeInv' /\ MbOwned'
  BY <1>1, <1>6, <1>7, <1>20 DEF MbInv, MbTypeInv, MbOwned, MbAlwaysOwned
<1>9. MbRevokedStay'
  <2>1. \A j \in mbRevoked : j \in MbInvites /\ mbInvite[j].status = "REVOKED"
    BY DEF MbInv, MbRevokedStay, MbTypeInv
  <2> QED BY <2>1, <1>6, <1>20 DEF MbRevokedStay
<1>10. \A d \in MbCallers : mbCall[d].step = "accept" => mbCall'[d] = mbCall[d]
  BY <1>1, <1>7
<1>15. \A j \in MbInvites : mbInvite[j].status # MbNone => mbInvite'[j].status # MbNone
  BY <1>6 DEF MbNone
<1>11. MbInvited'
  BY <1>1, <1>6, <1>10, <1>15, MbInvitedStays
<1>12. \A d \in MbCallers : d # c /\ MbRedeems(mbCall[d]) => mbCall[d].inv \notin mbRevoked'
  <2>1. \A d \in MbCallers : MbRedeems(mbCall[d]) => mbCall[d].inv \notin mbRevoked
    BY DEF MbInv, MbCallsFit, MbFits
  <2> QED BY <2>1, <1>5 DEF MbRedeems
<1>13. MbFits(mbCall'[c], mbUsers', mbRole', mbInvite', mbRevoked', mbCrossed')
  BY <1>7, MbRestFits
<1>14. ~MbEdits(mbCall'[c]) /\ mbCall'[c].step # "join"
  BY <1>7, MbRestFits
<1> QED BY <1>1, <1>6, <1>7, <1>8, <1>9, <1>11, <1>12, <1>13, <1>14, <1>15, MbMoveKeeps

LEMMA MbCreateInvitationKeeps ==
  ASSUME MbInv, NEW c \in MbCallers, NEW i \in MbInvites, MbCreateInvitation(c, i)
  PROVE  MbInv'
<1> DEFINE row == [org |-> mbCall[c].org, who |-> mbCall[c].who, role |-> mbCall[c].role,
                   status |-> "PENDING", late |-> FALSE]
           add == [mbCall[c] EXCEPT !.step = "add", !.inv = i]
           new == IF mbCall[c].exists THEN add ELSE MbRest
<1>1. /\ mbUsers' = mbUsers /\ mbRole' = mbRole /\ mbCalls' = mbCalls
      /\ mbRevoked' = mbRevoked /\ mbCrossed' = mbCrossed /\ mbFaults' = mbFaults
      /\ mbCall[c].step = "invite" /\ mbInvite[i].status = MbNone
  BY DEF MbCreateInvitation
<1>2. mbCall[c] \in MbCallType
  BY DEF MbInv, MbTypeInv
<1>3. row \in MbInviteType /\ row.status = "PENDING" /\ row.who = mbCall[c].who
      /\ row.org = mbCall[c].org
  BY <1>2 DEF MbInviteType, MbCallType, MbStatus
<1>4. /\ add \in MbCallType /\ add.step = "add" /\ add.inv = i /\ add.who = mbCall[c].who
      /\ add.org = mbCall[c].org
  BY <1>2 DEF MbCallType, MbSteps
<1>5. mbInvite' = [mbInvite EXCEPT ![i] = row] /\ mbCall' = [mbCall EXCEPT ![c] = new]
  BY DEF MbCreateInvitation
<1>6. i \notin mbRevoked
  BY <1>1 DEF MbInv, MbRevokedStay, MbNone
<1>7. mbCall[c].who # MbFounder /\ (mbCall[c].exists => mbCall[c].who \in mbUsers)
  BY <1>1 DEF MbInv, MbCallsFit, MbFits
<1> HIDE DEF row, add
<1>8. new \in MbCallType
  BY <1>4, MbRestOK
<1>9. /\ mbInvite' \in [MbInvites -> MbInviteType]
      /\ mbInvite'[i] = row
      /\ \A j \in MbInvites : j # i => mbInvite'[j] = mbInvite[j]
  BY <1>3, <1>5 DEF MbInv, MbTypeInv
<1>10. MbFits(new, mbUsers, mbRole, mbInvite', mbRevoked, mbCrossed)
  <2>1. CASE mbCall[c].exists
    <3>1. MbFits(add, mbUsers, mbRole, mbInvite', mbRevoked, mbCrossed)
      BY <2>1, <1>3, <1>4, <1>6, <1>7, <1>9 DEF MbFits, MbRedeems, MbEdits, MbNone
    <3> QED BY <3>1, <2>1
  <2>2. CASE ~mbCall[c].exists
    BY <2>2, MbRestFits
  <2> QED BY <2>1, <2>2
<1>11. ~MbEdits(new) /\ new.step # "join"
  BY <1>4, MbRestFits DEF MbEdits
<1> HIDE DEF new
<1>12. /\ mbCall' \in [MbCallers -> MbCallType] /\ mbCall'[c] = new
       /\ \A d \in MbCallers : d # c => mbCall'[d] = mbCall[d]
  BY <1>5, <1>8 DEF MbInv, MbTypeInv
<1>13. MbTypeInv' /\ MbOwned'
  BY <1>1, <1>9, <1>12 DEF MbInv, MbTypeInv, MbOwned, MbAlwaysOwned
<1>14. MbRevokedStay'
  BY <1>1, <1>6, <1>9 DEF MbInv, MbRevokedStay, MbTypeInv
<1>15. \A j \in MbInvites : mbInvite[j].status # MbNone => mbInvite'[j] = mbInvite[j]
  BY <1>1, <1>9
<1>16. \A d \in MbCallers : mbCall[d].step = "accept" => mbCall'[d] = mbCall[d]
  BY <1>1, <1>12
<1>18. \A j \in MbInvites : mbInvite[j].status \in {"ACCEPTED", "REVOKED"} =>
            mbInvite'[j].status \in {"ACCEPTED", "REVOKED"}
  BY <1>1, <1>9 DEF MbNone
<1>17. MbInvited'
  BY <1>1, <1>15, <1>16, <1>18, MbInvitedStays
<1>19. \A d \in MbCallers : d # c /\ MbRedeems(mbCall[d]) => mbCall[d].inv \notin mbRevoked'
  BY <1>1 DEF MbInv, MbCallsFit, MbFits
<1> QED BY <1>1, <1>10, <1>11, <1>12, <1>13, <1>14, <1>15, <1>17, <1>19, MbMoveKeeps

LEMMA MbAddMemberKeeps ==
  ASSUME MbInv, NEW c \in MbCallers, MbAddMember(c)
  PROVE  MbInv'
<1> DEFINE m == <<mbCall[c].who, mbCall[c].org>>
           go == [mbCall[c] EXCEPT !.step = "accept"]
<1>1. /\ mbUsers' = mbUsers /\ mbInvite' = mbInvite /\ mbCalls' = mbCalls
      /\ mbRevoked' = mbRevoked /\ mbCrossed' = mbCrossed /\ mbFaults' = mbFaults
      /\ mbCall[c].step = "add"
  BY DEF MbAddMember, MbGo
<1>2. mbCall[c] \in MbCallType
  BY DEF MbInv, MbTypeInv
<1>3. /\ go \in MbCallType /\ go.step = "accept" /\ go.who = mbCall[c].who
      /\ go.org = mbCall[c].org /\ go.inv = mbCall[c].inv
  BY <1>2 DEF MbCallType, MbSteps
<1>4. MbFits(mbCall[c], mbUsers, mbRole, mbInvite, mbRevoked, mbCrossed)
  BY DEF MbInv, MbCallsFit
<1>19. \A d \in MbCallers : d # c /\ MbRedeems(mbCall[d]) => mbCall[d].inv \notin mbRevoked'
  BY <1>1 DEF MbInv, MbCallsFit, MbFits
<1>5. CASE mbRole[m] = MbNone
  <2>1. /\ mbRole' = [mbRole EXCEPT ![m] = mbCall[c].role]
        /\ mbCall' = [mbCall EXCEPT ![c] = go]
    BY <1>5 DEF MbAddMember, MbGo
  <2> HIDE DEF go
  <2>2. m \in MbMembers /\ mbCall[c].role \in MbRoles
    BY <1>2 DEF MbMembers, MbCallType
  <2> HIDE DEF m
  <2>3. /\ mbRole' \in [MbMembers -> MbRoles \union {MbNone}]
        /\ \A n \in MbMembers : n # m => mbRole'[n] = mbRole[n]
    BY <2>1, <2>2 DEF MbInv, MbTypeInv
  <2>4. /\ mbCall' \in [MbCallers -> MbCallType] /\ mbCall'[c] = go
        /\ \A d \in MbCallers : d # c => mbCall'[d] = mbCall[d]
    BY <2>1, <1>3 DEF MbInv, MbTypeInv
  <2>5. MbTypeInv'
    BY <1>1, <2>3, <2>4 DEF MbInv, MbTypeInv
  <2>6. MbOwned'
    <3> SUFFICES ASSUME NEW o \in MbOrgs PROVE mbRole'[<<MbFounder, o>>] = "OWNER"
      BY <1>1 DEF MbInv, MbOwned, MbAlwaysOwned
    <3>1. mbRole[<<MbFounder, o>>] = "OWNER" /\ <<MbFounder, o>> \in MbMembers
      BY DEF MbInv, MbOwned, MbAlwaysOwned, MbMembers, MbEverybody
    <3>2. <<MbFounder, o>> # m
      BY <3>1, <1>5 DEF MbNone
    <3> QED BY <3>1, <3>2, <2>3
  <2>7. MbRevokedStay'
    BY <1>1 DEF MbInv, MbRevokedStay
  <2>8. \A d \in MbCallers : mbCall[d].step = "accept" => mbCall'[d] = mbCall[d]
    BY <1>1, <2>4
  <2>9. \A p \in MbPeople, o \in MbOrgs :
            mbRole'[<<p, o>>] # MbNone =>
              \/ mbRole[<<p, o>>] # MbNone
              \/ MbCameIn(p, o, mbUsers', mbInvite', mbCall', mbFaults')
    <3> SUFFICES ASSUME NEW p \in MbPeople, NEW o \in MbOrgs, mbRole'[<<p, o>>] # MbNone,
                        mbRole[<<p, o>>] = MbNone
                 PROVE  MbCameIn(p, o, mbUsers', mbInvite', mbCall', mbFaults')
      OBVIOUS
    <3>1. <<p, o>> \in MbMembers
      BY DEF MbMembers, MbEverybody
    <3>2. <<p, o>> = m
      BY <3>1, <2>3
    <3>3. p = mbCall[c].who /\ o = mbCall[c].org
      BY <3>2 DEF m
    <3>4. mbCall[c].inv \in MbInvites
      BY <1>2 DEF MbCallType
    <3>5. /\ mbInvite[mbCall[c].inv].who = p /\ mbInvite[mbCall[c].inv].org = o
          /\ mbInvite[mbCall[c].inv].status # MbNone /\ p \in mbUsers
      BY <3>3, <1>1, <1>4 DEF MbFits, MbRedeems
    <3>6. mbCall'[c].step = "accept" /\ mbCall'[c].inv = mbCall[c].inv
      BY <2>4, <1>3
    <3> QED BY <3>4, <3>5, <3>6, <1>1 DEF MbCameIn
  <2>10. MbInvited'
    BY <1>1, <2>8, <2>9, MbInvitedStays
  <2>11. MbFits(go, mbUsers, mbRole', mbInvite, mbRevoked, mbCrossed)
    BY <1>1, <1>3, <1>4 DEF MbFits, MbRedeems, MbEdits
  <2>12. \A d \in MbCallers : d # c /\ MbEdits(mbCall[d]) =>
            \/ mbRole'[MbMember(mbCall[d])] = mbRole[MbMember(mbCall[d])]
            \/ mbRole'[MbMember(mbCall[d])] # MbNone /\ MbMember(mbCall[d]) \in mbCrossed
    <3> SUFFICES ASSUME NEW d \in MbCallers, d # c, MbEdits(mbCall[d]),
                        mbRole'[MbMember(mbCall[d])] # mbRole[MbMember(mbCall[d])]
                 PROVE  /\ mbRole'[MbMember(mbCall[d])] # MbNone
                        /\ MbMember(mbCall[d]) \in mbCrossed
      OBVIOUS
    <3>1. MbMember(mbCall[d]) \in MbMembers
      BY DEF MbInv, MbTypeInv, MbCallType, MbMember, MbMembers
    <3>2. MbMember(mbCall[d]) = m
      BY <3>1, <2>3
    <3>3. MbFits(mbCall[d], mbUsers, mbRole, mbInvite, mbRevoked, mbCrossed)
      BY DEF MbInv, MbCallsFit
    <3>4. MbMember(mbCall[d]) \in mbCrossed
      BY <3>2, <3>3, <1>5 DEF MbFits
    <3> QED BY <3>1, <3>2, <3>4, <1>5
  <2>13. ~MbEdits(mbCall'[c]) /\ mbCall'[c].step # "join"
    BY <2>4, <1>3 DEF MbEdits
  <2> QED BY <1>1, <1>19, <2>4, <2>5, <2>6, <2>7, <2>10, <2>11, <2>12, <2>13, MbMoveKeeps
<1>6. CASE mbRole[m] # MbNone
  <2>1. mbRole' = mbRole /\ mbCall' = [mbCall EXCEPT ![c] = MbRest]
    BY <1>6 DEF MbAddMember, MbGo
  <2>4. /\ mbCall' \in [MbCallers -> MbCallType] /\ mbCall'[c] = MbRest
        /\ \A d \in MbCallers : d # c => mbCall'[d] = mbCall[d]
    BY <2>1, MbRestOK DEF MbInv, MbTypeInv
  <2>5. MbTypeInv'
    BY <1>1, <2>1, <2>4 DEF MbInv, MbTypeInv
  <2>6. MbOwned' /\ MbRevokedStay'
    BY <1>1, <2>1 DEF MbInv, MbOwned, MbAlwaysOwned, MbRevokedStay
  <2>8. \A d \in MbCallers : mbCall[d].step = "accept" => mbCall'[d] = mbCall[d]
    BY <1>1, <2>4
  <2>10. MbInvited'
    BY <1>1, <2>1, <2>8, MbInvitedStays
  <2>11. MbFits(mbCall'[c], mbUsers', mbRole', mbInvite', mbRevoked', mbCrossed')
    BY <2>4, MbRestFits
  <2>13. ~MbEdits(mbCall'[c]) /\ mbCall'[c].step # "join"
    BY <2>4, MbRestFits
  <2> QED BY <1>1, <1>19, <2>1, <2>4, <2>5, <2>6, <2>10, <2>11, <2>13, MbMoveKeeps
<1> QED BY <1>5, <1>6

LEMMA MbJoinKeeps ==
  ASSUME MbInv, NEW c \in MbCallers, MbJoin(c)
  PROVE  MbInv'
<1> DEFINE call == mbCall[c]
           m == <<mbCall[c].who, mbCall[c].org>>
<1>1. /\ mbCalls' = mbCalls
      /\ mbRevoked' = mbRevoked /\ mbCrossed' = mbCrossed /\ mbFaults' = mbFaults
      /\ mbCall[c].step = "join" /\ mbCall' = [mbCall EXCEPT ![c] = MbRest]
  BY DEF MbJoin, MbGo
<1>2. mbCall[c] \in MbCallType
  BY DEF MbInv, MbTypeInv
<1>3. MbFits(mbCall[c], mbUsers, mbRole, mbInvite, mbRevoked, mbCrossed)
  BY DEF MbInv, MbCallsFit
<1>4. /\ mbCall' \in [MbCallers -> MbCallType] /\ mbCall'[c] = MbRest
      /\ \A d \in MbCallers : d # c => mbCall'[d] = mbCall[d]
  BY <1>1, MbRestOK DEF MbInv, MbTypeInv
<1>5. MbFits(mbCall'[c], mbUsers', mbRole', mbInvite', mbRevoked', mbCrossed')
  BY <1>4, MbRestFits
<1>6. ~MbEdits(mbCall'[c]) /\ mbCall'[c].step # "join"
  BY <1>4, MbRestFits
<1>7. \A d \in MbCallers : d # c /\ MbRedeems(mbCall[d]) => mbCall[d].inv \notin mbRevoked'
  BY <1>1 DEF MbInv, MbCallsFit, MbFits
<1>8. \A d \in MbCallers : mbCall[d].step = "accept" => mbCall'[d] = mbCall[d]
  BY <1>1, <1>4
<1>9. CASE mbCall[c].who \in mbUsers
  <2>1. mbUsers' = mbUsers /\ mbRole' = mbRole /\ mbInvite' = mbInvite
    BY <1>9 DEF MbJoin
  <2>5. MbTypeInv' /\ MbOwned' /\ MbRevokedStay'
    BY <1>1, <1>4, <2>1 DEF MbInv, MbTypeInv, MbOwned, MbAlwaysOwned, MbRevokedStay
  <2>6. MbInvited'
    BY <1>1, <2>1, <1>8, MbInvitedStays
  <2> QED BY <1>1, <1>4, <1>5, <1>6, <1>7, <2>1, <2>5, <2>6, MbMoveKeeps
<1>10. CASE mbCall[c].who \notin mbUsers
  <2> DEFINE accepted == [mbInvite[call.inv] EXCEPT !.status = "ACCEPTED"]
             late(i) == [mbInvite[i] EXCEPT !.status = "EXPIRED"]
             row(i) == IF i = call.inv THEN accepted
                       ELSE IF mbInvite[i].who = call.who /\ mbInvite[i].status = "PENDING"
                            THEN late(i) ELSE mbInvite[i]
  <2>1. /\ mbUsers' = mbUsers \union {call.who}
        /\ mbRole' = [mbRole EXCEPT ![m] = call.role]
        /\ mbInvite' = [i \in MbInvites |-> row(i)]
    BY <1>10 DEF MbJoin
  <2>2. \A i \in MbInvites : mbInvite[i] \in MbInviteType
    BY DEF MbInv, MbTypeInv
  <2>3. call.inv \in MbInvites /\ call.who \in MbEverybody /\ call.role \in MbRoles
    BY <1>2 DEF MbCallType
  <2>4. /\ accepted \in MbInviteType /\ accepted.who = mbInvite[call.inv].who
        /\ accepted.org = mbInvite[call.inv].org /\ accepted.status = "ACCEPTED"
    BY <2>2, <2>3 DEF MbInviteType, MbStatus
  <2>5. \A i \in MbInvites : /\ late(i) \in MbInviteType /\ late(i).who = mbInvite[i].who
                             /\ late(i).org = mbInvite[i].org /\ late(i).status = "EXPIRED"
    BY <2>2 DEF MbInviteType, MbStatus
  <2> HIDE DEF accepted, late
  <2>6. \A i \in MbInvites : row(i) \in MbInviteType /\ row(i).who = mbInvite[i].who
                             /\ row(i).org = mbInvite[i].org
    BY <2>2, <2>4, <2>5
  <2>7. row(call.inv).status = "ACCEPTED"
    BY <2>4
  <2>8. \A i \in MbInvites : i # call.inv => \/ row(i).status = mbInvite[i].status
                                             \/ mbInvite[i].status = "PENDING"
                                                /\ row(i).status = "EXPIRED"
    BY <2>5
  <2> HIDE DEF row
  <2>9. /\ mbInvite' \in [MbInvites -> MbInviteType]
        /\ \A i \in MbInvites : mbInvite'[i].who = mbInvite[i].who /\ mbInvite'[i].org = mbInvite[i].org
        /\ mbInvite'[call.inv].status = "ACCEPTED"
        /\ \A i \in MbInvites : i # call.inv => \/ mbInvite'[i].status = mbInvite[i].status
                                                \/ mbInvite[i].status = "PENDING"
                                                   /\ mbInvite'[i].status = "EXPIRED"
    BY <2>1, <2>3, <2>6, <2>7, <2>8
  <2>10. m \in MbMembers
    BY <1>2 DEF MbMembers, MbCallType
  <2> HIDE DEF m
  <2>11. /\ mbRole' \in [MbMembers -> MbRoles \union {MbNone}]
         /\ mbRole'[m] = call.role
         /\ \A n \in MbMembers : n # m => mbRole'[n] = mbRole[n]
    BY <2>1, <2>3, <2>10 DEF MbInv, MbTypeInv
  <2>12. MbTypeInv'
    <3>1. mbUsers' \subseteq MbEverybody
      BY <2>1, <2>3 DEF MbInv, MbTypeInv
    <3> QED BY <1>1, <1>4, <2>9, <2>11, <3>1 DEF MbInv, MbTypeInv
  <2>13. MbOwned'
    <3> SUFFICES ASSUME NEW o \in MbOrgs PROVE mbRole'[<<MbFounder, o>>] = "OWNER"
      BY <2>1 DEF MbInv, MbOwned, MbAlwaysOwned
    <3>1. mbRole[<<MbFounder, o>>] = "OWNER" /\ <<MbFounder, o>> \in MbMembers
      BY DEF MbInv, MbOwned, MbAlwaysOwned, MbMembers, MbEverybody
    <3>2. <<MbFounder, o>> # m
      BY <1>10 DEF m, MbInv, MbOwned
    <3> QED BY <3>1, <3>2, <2>11
  <2>14. call.inv \notin mbRevoked
    BY <1>1, <1>3 DEF MbFits, MbRedeems
  <2>15. MbRevokedStay'
    <3>1. \A j \in mbRevoked : j \in MbInvites /\ j # call.inv /\ mbInvite[j].status = "REVOKED"
      BY <2>14 DEF MbInv, MbRevokedStay, MbTypeInv
    <3> QED BY <3>1, <1>1, <2>9 DEF MbRevokedStay
  <2>16. \A i \in MbInvites : mbInvite[i].status # MbNone => mbInvite'[i].status # MbNone
    BY <2>9 DEF MbNone
  <2>17. \A i \in MbInvites : mbInvite[i].status \in {"ACCEPTED", "REVOKED"} =>
            mbInvite'[i].status \in {"ACCEPTED", "REVOKED"}
    BY <2>9
  <2>18. \A p \in MbPeople, o \in MbOrgs :
            mbRole'[<<p, o>>] # MbNone =>
              \/ mbRole[<<p, o>>] # MbNone
              \/ MbCameIn(p, o, mbUsers', mbInvite', mbCall', mbFaults')
    <3> SUFFICES ASSUME NEW p \in MbPeople, NEW o \in MbOrgs, mbRole'[<<p, o>>] # MbNone,
                        mbRole[<<p, o>>] = MbNone
                 PROVE  MbCameIn(p, o, mbUsers', mbInvite', mbCall', mbFaults')
      OBVIOUS
    <3>1. <<p, o>> \in MbMembers
      BY DEF MbMembers, MbEverybody
    <3>2. <<p, o>> = m
      BY <3>1, <2>11
    <3>3. p = call.who /\ o = call.org
      BY <3>2 DEF m
    <3>5. mbInvite[call.inv].who = p /\ mbInvite[call.inv].org = o
      BY <3>3, <1>1, <1>3 DEF MbFits, MbRedeems
    <3>6. /\ mbInvite'[call.inv].who = p /\ mbInvite'[call.inv].org = o
          /\ mbInvite'[call.inv].status = "ACCEPTED" /\ p \in mbUsers'
      BY <3>3, <3>5, <2>1, <2>3, <2>9
    <3> QED BY <3>6, <2>3 DEF MbCameIn, MbNone
  <2>19. MbInvited'
    BY <1>1, <1>8, <2>1, <2>9, <2>16, <2>17, <2>18, MbInvitedStays
  <2>20. \A d \in MbCallers : d # c /\ MbEdits(mbCall[d]) =>
            \/ mbRole'[MbMember(mbCall[d])] = mbRole[MbMember(mbCall[d])]
            \/ mbRole'[MbMember(mbCall[d])] # MbNone /\ MbMember(mbCall[d]) \in mbCrossed
    <3> SUFFICES ASSUME NEW d \in MbCallers, d # c, MbEdits(mbCall[d]),
                        mbRole'[MbMember(mbCall[d])] # mbRole[MbMember(mbCall[d])]
                 PROVE  /\ mbRole'[MbMember(mbCall[d])] # MbNone
                        /\ MbMember(mbCall[d]) \in mbCrossed
      OBVIOUS
    <3>1. MbMember(mbCall[d]) \in MbMembers
      BY DEF MbInv, MbTypeInv, MbCallType, MbMember, MbMembers
    <3>2. MbMember(mbCall[d]) = m
      BY <3>1, <2>11
    <3>3. MbMember(mbCall[d]) = MbMember(mbCall[c])
      BY <3>2 DEF m, MbMember
    <3>4. MbMember(mbCall[d]) \in mbCrossed
      BY <3>3, <1>1 DEF MbInv, MbAlone
    <3>5. call.role # MbNone
      BY <2>3 DEF MbRoles, MbNone
    <3> HIDE DEF call
    <3> QED BY <3>2, <3>4, <3>5, <2>11
  <2>21. mbUsers \subseteq mbUsers'
    BY <2>1
  <2>22. \A i \in MbInvites : mbInvite[i].status # MbNone =>
            /\ mbInvite'[i].who = mbInvite[i].who /\ mbInvite'[i].org = mbInvite[i].org
            /\ mbInvite'[i].status # MbNone
    BY <2>9, <2>16
  <2>23. \A d \in MbCallers : d # c => mbCall'[d] = mbCall[d]
    BY <1>4
  <2> HIDE DEF call
  <2> QED BY <1>1, <1>5, <1>6, <1>7, <2>12, <2>13, <2>15, <2>19, <2>20, <2>21, <2>22, <2>23,
             MbMoveKeeps
<1> QED BY <1>9, <1>10

LEMMA MbSetRoleKeeps ==
  ASSUME MbInv, NEW c \in MbCallers, MbSetRole(c)
  PROVE  MbInv'
<1> DEFINE m == <<mbCall[c].who, mbCall[c].org>>
<1>1. /\ mbUsers' = mbUsers /\ mbInvite' = mbInvite /\ mbCalls' = mbCalls
      /\ mbRevoked' = mbRevoked /\ mbCrossed' = mbCrossed /\ mbFaults' = mbFaults
      /\ mbCall[c].step = "role" /\ mbCall' = [mbCall EXCEPT ![c] = MbRest]
  BY DEF MbSetRole, MbGo
<1>2. mbCall[c] \in MbCallType
  BY DEF MbInv, MbTypeInv
<1>3. MbFits(mbCall[c], mbUsers, mbRole, mbInvite, mbRevoked, mbCrossed)
  BY DEF MbInv, MbCallsFit
<1>4. /\ mbCall' \in [MbCallers -> MbCallType] /\ mbCall'[c] = MbRest
      /\ \A d \in MbCallers : d # c => mbCall'[d] = mbCall[d]
  BY <1>1, MbRestOK DEF MbInv, MbTypeInv
<1>5. MbFits(mbCall'[c], mbUsers', mbRole', mbInvite', mbRevoked', mbCrossed')
  BY <1>4, MbRestFits
<1>6. ~MbEdits(mbCall'[c]) /\ mbCall'[c].step # "join"
  BY <1>4, MbRestFits
<1>7. \A d \in MbCallers : d # c /\ MbRedeems(mbCall[d]) => mbCall[d].inv \notin mbRevoked'
  BY <1>1 DEF MbInv, MbCallsFit, MbFits
<1>8. \A d \in MbCallers : mbCall[d].step = "accept" => mbCall'[d] = mbCall[d]
  BY <1>1, <1>4
<1>9. m \in MbMembers /\ mbCall[c].role \in MbRoles
  BY <1>2 DEF MbMembers, MbCallType
<1>10. mbRole' = IF mbCall[c].exists THEN [mbRole EXCEPT ![m] = mbCall[c].role] ELSE mbRole
  BY DEF MbSetRole
<1>11. mbCall[c].exists => mbRole[m] # MbNone
  BY <1>1, <1>3 DEF MbFits, MbEdits, MbMember
<1>12. /\ mbRole' \in [MbMembers -> MbRoles \union {MbNone}]
       /\ \A n \in MbMembers : n # m => mbRole'[n] = mbRole[n]
       /\ \/ mbRole'[m] = mbRole[m]
          \/ mbRole'[m] = mbCall[c].role /\ mbRole'[m] # MbNone /\ mbRole[m] # MbNone
  <2> HIDE DEF m
  <2> QED BY <1>9, <1>10, <1>11 DEF MbInv, MbTypeInv, MbRoles, MbNone
<1>13. MbTypeInv'
  BY <1>1, <1>4, <1>12 DEF MbInv, MbTypeInv
<1>14. MbOwned'
  <2> SUFFICES ASSUME NEW o \in MbOrgs PROVE mbRole'[<<MbFounder, o>>] = "OWNER"
    BY <1>1 DEF MbInv, MbOwned, MbAlwaysOwned
  <2>1. mbRole[<<MbFounder, o>>] = "OWNER" /\ <<MbFounder, o>> \in MbMembers
    BY DEF MbInv, MbOwned, MbAlwaysOwned, MbMembers, MbEverybody
  <2>2. CASE <<MbFounder, o>> = m
    <3>1. mbCall[c].who = MbFounder
      BY <2>2
    <3>2. mbCall[c].role = "OWNER"
      BY <3>1, <1>1, <1>3 DEF MbFits
    <3> HIDE DEF m
    <3> QED BY <3>2, <2>1, <2>2, <1>12
  <2>3. CASE <<MbFounder, o>> # m
    BY <2>1, <2>3, <1>12
  <2> QED BY <2>2, <2>3
<1>15. MbRevokedStay'
  BY <1>1 DEF MbInv, MbRevokedStay
<1>16. \A p \in MbPeople, o \in MbOrgs : mbRole'[<<p, o>>] # MbNone => mbRole[<<p, o>>] # MbNone
  <2> SUFFICES ASSUME NEW p \in MbPeople, NEW o \in MbOrgs, mbRole'[<<p, o>>] # MbNone
               PROVE  mbRole[<<p, o>>] # MbNone
    OBVIOUS
  <2>1. <<p, o>> \in MbMembers
    BY DEF MbMembers, MbEverybody
  <2> HIDE DEF m
  <2> QED BY <2>1, <1>12
<1>17. MbInvited'
  BY <1>1, <1>8, <1>16, MbInvitedStays
<1>20. \A d \in MbCallers : d # c /\ MbEdits(mbCall[d]) =>
          \/ mbRole'[MbMember(mbCall[d])] = mbRole[MbMember(mbCall[d])]
          \/ mbRole'[MbMember(mbCall[d])] # MbNone /\ MbMember(mbCall[d]) \in mbCrossed
  <2> SUFFICES ASSUME NEW d \in MbCallers, d # c, MbEdits(mbCall[d]),
                      mbRole'[MbMember(mbCall[d])] # mbRole[MbMember(mbCall[d])]
               PROVE  /\ mbRole'[MbMember(mbCall[d])] # MbNone
                      /\ MbMember(mbCall[d]) \in mbCrossed
    OBVIOUS
  <2>1. MbMember(mbCall[d]) \in MbMembers
    BY DEF MbInv, MbTypeInv, MbCallType, MbMember, MbMembers
  <2> HIDE DEF m
  <2>2. MbMember(mbCall[d]) = m
    BY <2>1, <1>12
  <2>3. MbMember(mbCall[d]) = MbMember(mbCall[c])
    BY <2>2 DEF m, MbMember
  <2>4. MbMember(mbCall[d]) \in mbCrossed
    BY <2>3, <1>1 DEF MbInv, MbAlone, MbEdits
  <2> QED BY <2>2, <2>4, <1>12
<1> QED BY <1>1, <1>4, <1>5, <1>6, <1>7, <1>13, <1>14, <1>15, <1>17, <1>20, MbMoveKeeps

LEMMA MbRemoveKeeps ==
  ASSUME MbInv, NEW c \in MbCallers, MbRemove(c)
  PROVE  MbInv'
<1> DEFINE call == mbCall[c]
           m == <<mbCall[c].who, mbCall[c].org>>
           hit(d) == call.exists /\ MbEdits(mbCall[d]) /\ MbMember(mbCall[d]) = m
           gone(d) == [mbCall[d] EXCEPT !.exists = FALSE]
           new(d) == IF d = c THEN MbRest ELSE IF hit(d) THEN gone(d) ELSE mbCall[d]
<1>1. /\ mbUsers' = mbUsers /\ mbInvite' = mbInvite /\ mbCalls' = mbCalls
      /\ mbRevoked' = mbRevoked /\ mbCrossed' = mbCrossed /\ mbFaults' = mbFaults
      /\ mbCall[c].step = "remove"
      /\ mbRole' = IF mbCall[c].exists THEN [mbRole EXCEPT ![m] = MbNone] ELSE mbRole
  BY DEF MbRemove
<1>2. \A d \in MbCallers : mbCall[d] \in MbCallType
  BY DEF MbInv, MbTypeInv
<1>3. \A d \in MbCallers : MbFits(mbCall[d], mbUsers, mbRole, mbInvite, mbRevoked, mbCrossed)
  BY DEF MbInv, MbCallsFit
<1>4. \A d \in MbCallers : /\ gone(d) \in MbCallType /\ gone(d).exists = FALSE
                           /\ gone(d).step = mbCall[d].step /\ gone(d).who = mbCall[d].who
                           /\ gone(d).org = mbCall[d].org /\ gone(d).role = mbCall[d].role
                           /\ gone(d).inv = mbCall[d].inv
  BY <1>2 DEF MbCallType
<1>5. mbCall' = [d \in MbCallers |-> new(d)]
  <2>1. \A d \in MbCallers : hit(d) <=> /\ call.exists /\ mbCall[d].step \in {"role", "remove"}
                                      /\ mbCall[d].who = call.who /\ mbCall[d].org = call.org
    BY DEF MbEdits, MbMember
  <2>2. mbCall' = [d \in MbCallers |->
          IF d = c THEN MbRest
          ELSE IF /\ call.exists /\ mbCall[d].step \in {"role", "remove"}
                  /\ mbCall[d].who = call.who /\ mbCall[d].org = call.org
               THEN gone(d) ELSE mbCall[d]]
    BY DEF MbRemove
  <2> HIDE DEF hit, gone
  <2> QED BY <2>1, <2>2
<1> HIDE DEF gone
<1>6. \A d \in MbCallers : new(d) \in MbCallType
  BY <1>2, <1>4, MbRestOK
<1>7. /\ new(c) = MbRest
      /\ \A d \in MbCallers : d # c =>
           /\ new(d).step = mbCall[d].step /\ new(d).who = mbCall[d].who
           /\ new(d).org = mbCall[d].org /\ new(d).inv = mbCall[d].inv
           /\ new(d) = mbCall[d] \/ (hit(d) /\ new(d).exists = FALSE)
  BY <1>4
<1>8. \A d \in MbCallers : d # c /\ hit(d) => new(d).exists = FALSE
  BY <1>4
<1> HIDE DEF new
<1>9. /\ mbCall' \in [MbCallers -> MbCallType] /\ mbCall'[c] = MbRest
      /\ \A d \in MbCallers : d # c =>
           /\ mbCall'[d].step = mbCall[d].step /\ mbCall'[d].who = mbCall[d].who
           /\ mbCall'[d].org = mbCall[d].org /\ mbCall'[d].inv = mbCall[d].inv
           /\ mbCall'[d] = mbCall[d] \/ (hit(d) /\ mbCall'[d].exists = FALSE)
           /\ hit(d) => mbCall'[d].exists = FALSE
  BY <1>5, <1>6, <1>7, <1>8
<1>10. m \in MbMembers
  BY <1>2 DEF MbMembers, MbCallType
<1>11. mbCall[c].exists => mbRole[m] # MbNone
  BY <1>1, <1>3 DEF MbFits, MbEdits, MbMember
<1>12. /\ mbRole' \in [MbMembers -> MbRoles \union {MbNone}]
       /\ \A n \in MbMembers : n # m => mbRole'[n] = mbRole[n]
       /\ ~call.exists => mbRole' = mbRole
       /\ call.exists => mbRole'[m] = MbNone
  <2> HIDE DEF m
  <2> QED BY <1>1, <1>10 DEF MbInv, MbTypeInv
<1>13. MbTypeInv'
  BY <1>1, <1>9, <1>12 DEF MbInv, MbTypeInv
<1>14. MbOwned'
  <2> SUFFICES ASSUME NEW o \in MbOrgs PROVE mbRole'[<<MbFounder, o>>] = "OWNER"
    BY <1>1 DEF MbInv, MbOwned, MbAlwaysOwned
  <2>1. mbRole[<<MbFounder, o>>] = "OWNER" /\ <<MbFounder, o>> \in MbMembers
    BY DEF MbInv, MbOwned, MbAlwaysOwned, MbMembers, MbEverybody
  <2>2. call.who # MbFounder
    BY <1>1, <1>3 DEF MbFits
  <2>3. <<MbFounder, o>> # m
    BY <2>2
  <2> HIDE DEF m
  <2> QED BY <2>1, <2>3, <1>12
<1>15. MbRevokedStay'
  BY <1>1 DEF MbInv, MbRevokedStay
<1>16. \A p \in MbPeople, o \in MbOrgs : mbRole'[<<p, o>>] # MbNone => mbRole[<<p, o>>] # MbNone
  <2> SUFFICES ASSUME NEW p \in MbPeople, NEW o \in MbOrgs, mbRole'[<<p, o>>] # MbNone
               PROVE  mbRole[<<p, o>>] # MbNone
    OBVIOUS
  <2>1. <<p, o>> \in MbMembers
    BY DEF MbMembers, MbEverybody
  <2> HIDE DEF m
  <2> QED BY <2>1, <1>12
<1>17. MbInvited'
  <2>1. \A d \in MbCallers : mbCall[d].step = "accept" =>
          mbCall'[d].step = "accept" /\ mbCall'[d].inv = mbCall[d].inv
    BY <1>1, <1>9
  <2> QED BY <1>1, <2>1, <1>16, MbInvitedStays
<1>18. \A d \in MbCallers : d # c /\ MbEdits(mbCall[d]) /\ MbMember(mbCall[d]) = m =>
         m \in mbCrossed
  <2>1. MbEdits(mbCall[c]) /\ MbMember(mbCall[c]) = m
    BY <1>1 DEF MbEdits, MbMember
  <2> HIDE DEF m
  <2> QED BY <2>1 DEF MbInv, MbAlone
<1>19. MbCallsFit'
  <2> SUFFICES ASSUME NEW d \in MbCallers
               PROVE  MbFits(mbCall'[d], mbUsers, mbRole', mbInvite, mbRevoked, mbCrossed)
    BY <1>1 DEF MbCallsFit
  <2>1. CASE d = c
    BY <2>1, <1>9, MbRestFits
  <2>2. CASE d # c /\ hit(d)
    <3>1. /\ MbEdits(mbCall[d]) /\ MbMember(mbCall[d]) = m
          /\ mbCall'[d].exists = FALSE
          /\ mbCall'[d].step = mbCall[d].step /\ mbCall'[d].who = mbCall[d].who
          /\ mbCall'[d].org = mbCall[d].org
      BY <2>2, <1>9
    <3>2. m \in mbCrossed
      BY <2>2, <3>1, <1>18
    <3>3. MbMember(mbCall'[d]) \in mbCrossed
      BY <3>1, <3>2 DEF MbMember
    <3>4. mbCall'[d].step \in {"role", "remove"}
      BY <3>1 DEF MbEdits
    <3>5. mbCall'[d].who # MbFounder
      <4>1. mbCall[d].who = call.who
        BY <3>1 DEF MbMember
      <4> QED BY <4>1, <3>1, <1>1, <1>3 DEF MbFits
    <3> QED BY <3>1, <3>3, <3>4, <3>5 DEF MbFits, MbRedeems
  <2>3. CASE d # c /\ ~hit(d)
    <3>1. mbCall'[d] = mbCall[d]
      BY <2>3, <1>9
    <3>2. MbEdits(mbCall[d]) => mbRole'[MbMember(mbCall[d])] = mbRole[MbMember(mbCall[d])]
      <4>1. MbMember(mbCall[d]) \in MbMembers
        BY <1>2 DEF MbCallType, MbMember, MbMembers
      <4> HIDE DEF m
      <4> QED BY <4>1, <2>3, <1>12
    <3>3. MbRedeems(mbCall[d]) => mbCall[d].inv \notin mbRevoked
      BY <1>3 DEF MbFits
    <3>4. MbFits(mbCall[d], mbUsers, mbRole', mbInvite, mbRevoked, mbCrossed)
      BY <1>2, <1>3, <3>2, <3>3, MbFitsStays
    <3> QED BY <3>1, <3>4
  <2> QED BY <2>1, <2>2, <2>3
<1>20. MbAlone'
  <2> SUFFICES ASSUME NEW d \in MbCallers, NEW e \in MbCallers, d # e, MbEdits(mbCall'[d]),
                      MbEdits(mbCall'[e]) \/ mbCall'[e].step = "join",
                      MbMember(mbCall'[d]) = MbMember(mbCall'[e])
               PROVE  MbMember(mbCall'[d]) \in mbCrossed
    BY <1>1 DEF MbAlone
  <2>1. d # c /\ e # c
    BY <1>9, MbRestFits
  <2>2. /\ MbEdits(mbCall[d]) /\ (MbEdits(mbCall[e]) \/ mbCall[e].step = "join")
        /\ MbMember(mbCall[d]) = MbMember(mbCall'[d])
        /\ MbMember(mbCall[e]) = MbMember(mbCall'[e])
    BY <2>1, <1>9 DEF MbEdits, MbMember
  <2> QED BY <2>2 DEF MbInv, MbAlone
<1> QED BY <1>13, <1>14, <1>15, <1>17, <1>19, <1>20 DEF MbInv

-----------------------------------------------------------------------------

LEMMA MbStep == MbInv /\ [MbNext]_mbVars => MbInv'
<1> SUFFICES ASSUME MbInv, [MbNext]_mbVars PROVE MbInv'
  OBVIOUS
<1>1. ASSUME NEW c \in MbCallers, NEW actor \in mbUsers, NEW o \in MbOrgs,
             NEW who \in MbEverybody,
             \/ \E role \in MbRoles : MbAskInvite(c, actor, o, who, role)
                                      \/ MbAskRole(c, actor, o, who, role)
             \/ \E byUser \in BOOLEAN : MbAskRemove(c, actor, o, who, byUser)
      PROVE  MbInv'
  BY <1>1, MbAskInviteKeeps, MbAskRoleKeeps, MbAskRemoveKeeps
<1>2. ASSUME NEW c \in MbCallers, NEW i \in MbInvites,
             \/ MbCreateInvitation(c, i) \/ MbAskJoin(c, i)
             \/ \E actor \in mbUsers : MbAskRevoke(c, actor, i)
      PROVE  MbInv'
  BY <1>2, MbCreateInvitationKeeps, MbAskJoinKeeps, MbAskRevokeKeeps
<1>3. ASSUME NEW c \in MbCallers,
             \/ MbAddMember(c) \/ MbAccept(c) \/ MbRevoke(c) \/ MbJoin(c) \/ MbFound(c)
             \/ MbSetRole(c) \/ MbRemove(c) \/ MbDie(c)
             \/ \E who \in MbPeople : MbAskFound(c, who)
      PROVE  MbInv'
  BY <1>3, MbAddMemberKeeps, MbAcceptKeeps, MbRevokeKeeps, MbJoinKeeps, MbFoundKeeps,
     MbSetRoleKeeps, MbRemoveKeeps, MbDieKeeps, MbAskFoundKeeps
<1>4. ASSUME NEW i \in MbInvites, MbExpire(i) PROVE MbInv'
  BY <1>4, MbExpireKeeps
<1>5. CASE UNCHANGED mbVars
  BY <1>5 DEF mbVars, MbInv, MbTypeInv, MbOwned, MbAlwaysOwned, MbRevokedStay, MbInvited,
     MbCameIn, MbCallsFit, MbAlone
<1> QED BY <1>1, <1>2, <1>3, <1>4, <1>5 DEF MbNext

\* The founder stays an owner, a revoked invitation brings nobody in, and every member was
\* invited, whatever requests cross or die: for any people, organizations and invitations.
THEOREM MbSafeCorrect == MbSpec => []MbSafe
<1>1. MbInv => MbSafe
  <2> SUFFICES ASSUME MbInv PROVE MbSafe
    OBVIOUS
  <2>1. MbAlwaysOwned
    BY DEF MbInv, MbOwned
  <2>2. MbRevokedIsFinal
    BY DEF MbInv, MbRevokedStay, MbRevokedIsFinal, MbCallsFit, MbFits, MbRedeems
  <2>3. MbMembersWereInvited
    BY DEF MbInv, MbInvited, MbCameIn, MbMembersWereInvited
  <2> QED BY <2>1, <2>2, <2>3 DEF MbSafe
<1> QED BY <1>1, MbInitInv, MbStep, PTL DEF MbSpec

\* The variables keep their types, for any people, organizations, invitations and bounds.
THEOREM MbTypeCorrect == MbSpec => []MbTypeOK
<1>1. MbInv => MbTypeOK
  BY DEF MbInv, MbTypeInv, MbTypeOK, MbInviteType, MbCallType, MbMembers
<1> QED BY <1>1, MbInitInv, MbStep, PTL DEF MbSpec

\* No request takes the role of an owner, except one that read the membership before it
\* was an owner's while another changed it.
THEOREM MbOwnersStayCorrect == MbSpec => [][MbOwnersStay]_mbVars
<1>1. MbInv /\ [MbNext]_mbVars => [MbOwnersStay]_mbVars
  <2> SUFFICES ASSUME MbInv, MbNext PROVE MbOwnersStay
    BY DEF mbVars, MbOwnersStay
  <2> SUFFICES ASSUME NEW m \in MbMembers \ mbCrossed, mbRole[m] = "OWNER"
               PROVE  mbRole'[m] = "OWNER"
    BY DEF MbOwnersStay, MbMembers
  <2>1. \A c \in MbCallers : /\ mbCall[c] \in MbCallType
                             /\ MbFits(mbCall[c], mbUsers, mbRole, mbInvite, mbRevoked, mbCrossed)
    BY DEF MbInv, MbTypeInv, MbCallsFit
  <2>2. mbRole \in [MbMembers -> MbRoles \union {MbNone}]
    BY DEF MbInv, MbTypeInv
  <2>3. ASSUME NEW c \in MbCallers, MbAddMember(c) PROVE mbRole'[m] = "OWNER"
    <3>1. mbRole' = mbRole \/ /\ mbRole[MbMember(mbCall[c])] = MbNone
                              /\ mbRole' = [mbRole EXCEPT ![MbMember(mbCall[c])] = mbCall[c].role]
      BY <2>3 DEF MbAddMember, MbMember
    <3> QED BY <3>1, <2>2 DEF MbNone
  <2>4. ASSUME NEW c \in MbCallers, MbJoin(c) PROVE mbRole'[m] = "OWNER"
    <3>1. mbRole' = mbRole \/ /\ mbCall[c].who \notin mbUsers
                              /\ mbRole' = [mbRole EXCEPT ![MbMember(mbCall[c])] = mbCall[c].role]
      BY <2>4 DEF MbJoin, MbMember
    <3>2. PICK p \in MbEverybody, o \in MbOrgs : m = <<p, o>>
      BY DEF MbMembers
    <3>3. p \in mbUsers
      <4>1. CASE p = MbFounder
        BY <4>1 DEF MbInv, MbOwned
      <4>2. CASE p \in MbPeople
        BY <4>2, <3>2 DEF MbInv, MbInvited, MbCameIn, MbNone
      <4> QED BY <4>1, <4>2 DEF MbEverybody
    <3>4. mbCall[c].who \notin mbUsers => MbMember(mbCall[c]) # m
      BY <3>2, <3>3 DEF MbMember
    <3> QED BY <3>1, <3>4, <2>2
  <2>5. ASSUME NEW c \in MbCallers, MbSetRole(c) PROVE mbRole'[m] = "OWNER"
    <3>1. /\ mbCall[c].step = "role"
          /\ mbRole' = mbRole \/ mbRole' = [mbRole EXCEPT ![MbMember(mbCall[c])] = mbCall[c].role]
      BY <2>5 DEF MbSetRole, MbGo, MbMember
    <3>2. MbMember(mbCall[c]) = m => mbCall[c].role = "OWNER"
      BY <3>1, <2>1 DEF MbFits, MbEdits
    <3> QED BY <3>1, <3>2, <2>2
  <2>6. ASSUME NEW c \in MbCallers, MbRemove(c) PROVE mbRole'[m] = "OWNER"
    <3>1. /\ mbCall[c].step = "remove"
          /\ mbRole' = mbRole \/ mbRole' = [mbRole EXCEPT ![MbMember(mbCall[c])] = MbNone]
      BY <2>6 DEF MbRemove, MbMember
    <3>2. MbMember(mbCall[c]) # m
      BY <3>1, <2>1 DEF MbFits, MbEdits
    <3> QED BY <3>1, <3>2, <2>2
  <2>7. ASSUME NEW c \in MbCallers, NEW call, MbAsk(c, call) PROVE mbRole' = mbRole
    BY <2>7 DEF MbAsk
  <2>8. ASSUME NEW c \in MbCallers, NEW actor, NEW o, NEW who,
               \/ \E role \in MbRoles : MbAskInvite(c, actor, o, who, role)
                                        \/ MbAskRole(c, actor, o, who, role)
               \/ \E byUser \in BOOLEAN : MbAskRemove(c, actor, o, who, byUser)
        PROVE  mbRole' = mbRole
    BY <2>7, <2>8 DEF MbAskInvite, MbAskRole, MbAskRemove
  <2>9. ASSUME NEW c \in MbCallers, NEW i \in MbInvites,
               \/ MbCreateInvitation(c, i) \/ MbAskJoin(c, i)
               \/ \E actor \in mbUsers : MbAskRevoke(c, actor, i)
        PROVE  mbRole' = mbRole
    BY <2>7, <2>9 DEF MbCreateInvitation, MbAskJoin, MbAskRevoke
  <2>10. ASSUME NEW c \in MbCallers,
                \/ MbAccept(c) \/ MbRevoke(c) \/ MbFound(c) \/ MbDie(c)
                \/ \E who \in MbPeople : MbAskFound(c, who)
         PROVE  mbRole' = mbRole
    BY <2>7, <2>10 DEF MbAccept, MbRevoke, MbFound, MbDie, MbAskFound
  <2>11. ASSUME NEW i \in MbInvites, MbExpire(i) PROVE mbRole' = mbRole
    BY <2>11 DEF MbExpire
  <2>12. \/ mbRole' = mbRole
         \/ \E c \in MbCallers : MbAddMember(c) \/ MbJoin(c) \/ MbSetRole(c) \/ MbRemove(c)
    BY <2>8, <2>9, <2>10, <2>11 DEF MbNext
  <2> QED BY <2>3, <2>4, <2>5, <2>6, <2>12
<1> QED BY <1>1, MbInitInv, MbStep, PTL DEF MbSpec

-----------------------------------------------------------------------------
(* The parts together *)

\* The composition adds nothing to a part: each one behaves as its own specification says.
LEMMA DeskPartsMove ==
  /\ MCSpec => CvSpec
  /\ MCSpec => IbSpec
  /\ MCSpec => CtSpec
  /\ MCSpec => CaSpec
  /\ MCSpec => AvSpec
  /\ MCSpec => GpSpec
  /\ MCSpec => MbSpec
  /\ MCSpec => KbSpec
  /\ MCSpec => MdSpec
  /\ MCSpec => CsSpec
  /\ MCSpec => TsSpec
  /\ MCSpec => AdSpec
  /\ MCSpec => WrSpec
  /\ MCSpec => CbSpec
<1>1. MCInit => /\ CvInit /\ IbInit /\ CtInit /\ CaInit /\ AvInit /\ GpInit /\ MbInit
                /\ KbInit /\ MdInit /\ CsInit /\ TsInit /\ AdInit /\ WrInit /\ CbInit
  BY DEF MCInit
<1>2. [MCNext]_mcVars => [CvNext]_cvVars
  BY DEF MCNext, mcVars
<1>3. [MCNext]_mcVars => [IbNext]_ibVars
  BY DEF MCNext, mcVars
<1>4. [MCNext]_mcVars => [CtNext]_ctVars
  BY DEF MCNext, mcVars
<1>5. [MCNext]_mcVars => [CaNext]_caVars
  BY DEF MCNext, mcVars
<1>6. [MCNext]_mcVars => [AvNext]_avVars
  BY DEF MCNext, mcVars
<1>7. [MCNext]_mcVars => [GpNext]_gpVars
  BY DEF MCNext, mcVars
<1>8. [MCNext]_mcVars => [MbNext]_mbVars
  BY DEF MCNext, mcVars
<1>9. [MCNext]_mcVars => [KbNext]_kbVars
  BY DEF MCNext, mcVars
<1>10. [MCNext]_mcVars => [MdNext]_mdVars
  BY DEF MCNext, mcVars
<1>11. [MCNext]_mcVars => [CsNext]_csVars
  BY DEF MCNext, mcVars
<1>12. [MCNext]_mcVars => [TsNext]_tsVars
  BY DEF MCNext, mcVars
<1>13. [MCNext]_mcVars => [AdNext]_adVars
  BY DEF MCNext, mcVars
<1>14. [MCNext]_mcVars => [WrNext]_wrVars
  BY DEF MCNext, mcVars
<1>15. [MCNext]_mcVars => [CbNext]_cbVars
  BY DEF MCNext, mcVars
<1>16. MCSpec => CvSpec
  BY <1>1, <1>2, PTL DEF MCSpec, CvSpec
<1>17. MCSpec => IbSpec
  BY <1>1, <1>3, PTL DEF MCSpec, IbSpec
<1>18. MCSpec => CtSpec
  BY <1>1, <1>4, PTL DEF MCSpec, CtSpec
<1>19. MCSpec => CaSpec
  BY <1>1, <1>5, PTL DEF MCSpec, CaSpec
<1>20. MCSpec => AvSpec
  BY <1>1, <1>6, PTL DEF MCSpec, AvSpec
<1>21. MCSpec => GpSpec
  BY <1>1, <1>7, PTL DEF MCSpec, GpSpec
<1>22. MCSpec => MbSpec
  BY <1>1, <1>8, PTL DEF MCSpec, MbSpec
<1>23. MCSpec => KbSpec
  BY <1>1, <1>9, PTL DEF MCSpec, KbSpec
<1>24. MCSpec => MdSpec
  BY <1>1, <1>10, PTL DEF MCSpec, MdSpec
<1>25. MCSpec => CsSpec
  BY <1>1, <1>11, PTL DEF MCSpec, CsSpec
<1>26. MCSpec => TsSpec
  BY <1>1, <1>12, PTL DEF MCSpec, TsSpec
<1>27. MCSpec => AdSpec
  BY <1>1, <1>13, PTL DEF MCSpec, AdSpec
<1>28. MCSpec => WrSpec
  BY <1>1, <1>14, PTL DEF MCSpec, WrSpec
<1>29. MCSpec => CbSpec
  BY <1>1, <1>15, PTL DEF MCSpec, CbSpec
<1> QED BY <1>16, <1>17, <1>18, <1>19, <1>20, <1>21, <1>22, <1>23, <1>24, <1>25, <1>26, <1>27,
        <1>28, <1>29

\* A conversation moves along its legal transitions and a force-on survives an answer; a name
\* an operator gave and an edit of a contact stay; the Gmail scan moves forward only; an owner
\* stays one, whichever part of the desk moves.
THEOREM DeskStepsCorrect == MCSpec => DeskSteps
<1>1. UNCHANGED cvVars => CvLegalMoves /\ CvForcedOnSurvives
  BY DEF cvVars, CvLegalMoves, CvForcedOnSurvives
<1>2. UNCHANGED ctVars => CtGivenNameStays
  BY DEF ctVars, CtGivenNameStays
<1>3. AvTypeOK /\ UNCHANGED avVars => AvEditSurvives
  <2> SUFFICES ASSUME AvTypeOK, UNCHANGED avVars PROVE ~(avMeta'.edit < avMeta.edit)
    BY DEF AvEditSurvives
  <2>1. avMeta.edit \in Nat /\ avMeta'.edit = avMeta.edit
    BY AvAssumption DEF AvTypeOK, AvMetas, avVars
  <2> QED BY <2>1
<1>4. UNCHANGED gpVars => GpScanMoves
  BY DEF gpVars, GpScanMoves
<1>5. UNCHANGED mbVars => MbOwnersStay
  BY DEF mbVars, MbOwnersStay
<1>6. /\ AvTypeOK /\ [CvLegalMoves]_cvVars /\ [CvForcedOnSurvives]_cvVars /\ [CtGivenNameStays]_ctVars
      /\ [AvEditSurvives]_avVars /\ [GpScanMoves]_gpVars /\ [MbOwnersStay]_mbVars
      => [/\ CvLegalMoves /\ CvForcedOnSurvives /\ CtGivenNameStays /\ AvEditSurvives
          /\ GpScanMoves /\ MbOwnersStay]_mcVars
  BY <1>1, <1>2, <1>3, <1>4, <1>5
<1> QED BY <1>6, DeskPartsMove, CvLegalMovesCorrect, CvForcedOnSurvivesCorrect,
        CtGivenNameStaysCorrect, AvEditSurvivesCorrect,
        AvTypeCorrect, GpScanMovesCorrect, MbOwnersStayCorrect,
        PTL DEF DeskSteps

\* The badge and the lists of an operator's inbox agree and nothing unread hides.
THEOREM InboxSafeCorrect == MCSpec => []InboxSafe
BY DeskPartsMove, IbSafeCorrect, PTL DEF InboxSafe

\* Contacts are found again, a photo shows the file that is kept, a member is shown live what
\* the member was granted, and an organization keeps its owner and its invitations.
THEOREM PeopleSafeCorrect == MCSpec => []PeopleSafe
BY DeskPartsMove, CtSafeCorrect, AvSafeCorrect, CaSafeCorrect, MbSafeCorrect, PTL DEF PeopleSafe

\* Events reach the channel they are for, rows of a provider's messages show and merge, imports are
\* whole and stop when told to, and the thread of a chat is what the server has.
THEOREM ChannelsSafeCorrect == MCSpec => []ChannelsSafe
BY DeskPartsMove, WrSafeCorrect, AdSafeCorrect, CsSafeCorrect, TsSafeCorrect, PTL DEF ChannelsSafe

\* Every part keeps its types, and a part of the desk is always in focus.
THEOREM DeskTypeCorrect == MCSpec => []DeskTypeOK
<1>1. MCSpec => [](focus \in Parts)
  <2>1. MCInit => focus \in Parts
    BY DEF MCInit
  <2>2. focus \in Parts /\ [MCNext]_mcVars => (focus \in Parts)'
    BY DEF MCNext, mcVars
  <2> QED BY <2>1, <2>2, PTL DEF MCSpec
<1>2. /\ focus \in Parts /\ CvTypeOK /\ IbTypeOK /\ CtTypeOK /\ CaTypeOK /\ KbTypeOK /\ AvTypeOK /\ MdTypeOK
      /\ CsTypeOK /\ GpTypeOK /\ AdTypeOK /\ WrTypeOK /\ CbTypeOK /\ TsTypeOK /\ MbTypeOK
      => DeskTypeOK
  BY DEF Parts, DeskTypeOK
<1> QED BY <1>1, <1>2, DeskPartsMove, CvTypeCorrect, IbTypeCorrect, CtTypeCorrect, CaTypeCorrect,
        KbTypeCorrect, AvTypeCorrect, MdTypeCorrect, CsTypeCorrect, GpTypeCorrect, AdTypeCorrect,
        WrTypeCorrect, CbTypeCorrect, TsTypeCorrect, MbTypeCorrect, PTL
=============================================================================
