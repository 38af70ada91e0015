------------------------ MODULE MessageDeliveryProofs ------------------------
(***************************************************************************)
(* Proofs about MessageDelivery: whatever the race between the outbound    *)
(* worker and the echo, and however many attempts, stalls and failures are *)
(* allowed.  The inductive invariant says which rows exist at each step of *)
(* the job, and, separately, what holds as long as nothing failed.         *)
(***************************************************************************)
EXTENDS MessageDelivery, TLAPS

\* The counters of a job that can still run are below their limits, and a copy
\* that it works on was accepted.
JobOK ==
  /\ pc \in Running \union {"created", "waiting"} =>
       tries < Attempts /\ stalls <= MaxStalls
  /\ pc \in {"sent", "patch", "delete", "mark"} => cur \in 1..sends

\* An echo's row has the id of its copy; ours never has the id of the copy the
\* job is about to record.
RowsOK ==
  /\ \A k \in Copies : Exists(k) => ext[k] = k /\ k <= sends
  /\ \A k \in Copies : echo[k] # "none" => k <= sends
  /\ ext[0] <= sends
  /\ pc = "sent" => ext[0] < cur
  /\ pc \in {"patch", "delete"} => Exists(cur)
  /\ pc = "delete" => cur \in sender

\* Ours names the operator, and is deleted only when an echo's row does.
SenderOK ==
  /\ Exists(0) => 0 \in sender
  /\ ~Exists(0) => \E k \in Copies : Exists(k) /\ k \in sender

\* While nothing failed: one copy, and the rows that the step of the job says.
CleanOK ==
  faults = 0 =>
    /\ pc \notin {"catch", "failed"}
    /\ pc \in {"created", "waiting"} => sends = 0
    /\ pc \notin {"created", "waiting"} => sends = 1 /\ cur = 1
    /\ pc \in {"sent", "patch", "delete"} => Exists(0) /\ ext[0] = 0
    /\ pc \in {"mark", "done"} =>
         \/ Exists(0) /\ ext[0] = 1 /\ ~Exists(1)
              /\ status[0] # "QUEUED"
         \/ ~Exists(0) /\ Exists(1)

IInv == TypeOK /\ JobOK /\ RowsOK /\ SenderOK /\ CleanOK

USE DeliveryAssumption
USE DEF Copies, RowIds, Status, NoRow, Running, PCs, Exists, rows, job, Goto

\* A status that is written is never QUEUED.
LEMMA MaxStatusNotQueued ==
  ASSUME NEW c \in Status, NEW n \in Reports
  PROVE  MaxStatus(c, n) \in Status \ {"QUEUED"}
  BY DeliveryAssumption DEF MaxStatus, Rank

\* The initial state: one row, nothing sent.
LEMMA InitIInv == Init => IInv
<1> SUFFICES ASSUME Init PROVE IInv
  OBVIOUS
<1> USE DEF Init
<1>1. TypeOK
  <2>1. RowTypes /\ JobTypes /\ WireTypes
    BY DEF RowTypes, JobTypes, WireTypes
  <2>2. ReportTypes
    BY DEF ReportTypes, ReportState, At
  <2> QED BY <2>1, <2>2 DEF TypeOK
<1>2. JobOK
  BY DEF JobOK
<1>3. RowsOK
  <2>1. \A k \in Copies : ~Exists(k) /\ echo[k] = "none"
    OBVIOUS
  <2>2. ext[0] = 0 /\ sends = 0 /\ pc = "created"
    OBVIOUS
  <2> HIDE DEF Init
  <2> QED BY <2>1, <2>2 DEF RowsOK
<1>4. SenderOK
  BY DEF SenderOK
<1>5. CleanOK
  BY DEF CleanOK
<1> QED BY <1>1, <1>2, <1>3, <1>4, <1>5 DEF IInv

\* The parts of the type invariant that a step leaves alone.
LEMMA Frames ==
  ASSUME TypeOK
  PROVE  /\ UNCHANGED rows => RowTypes'
         /\ UNCHANGED <<sends, visible, claims, echo>> => WireTypes'
         /\ UNCHANGED report => ReportTypes'
         /\ UNCHANGED <<job, faults>> => JobTypes'
<1>1. UNCHANGED rows => RowTypes'
  BY DEF TypeOK, RowTypes
<1>2. UNCHANGED <<sends, visible, claims, echo>> => WireTypes'
  BY DEF TypeOK, WireTypes
<1>3. UNCHANGED report => ReportTypes'
  BY DEF TypeOK, ReportTypes
<1>4. UNCHANGED <<job, faults>> => JobTypes'
  BY DEF TypeOK, JobTypes
<1> QED BY <1>1, <1>2, <1>3, <1>4

\* The other parts read only some of the variables.
LEMMA PartFrames ==
  ASSUME TypeOK, JobOK, RowsOK, SenderOK, CleanOK
  PROVE  /\ UNCHANGED <<job, sends>> => JobOK'
         /\ UNCHANGED <<status, ext, sender, job, sends, echo>> => RowsOK'
         /\ UNCHANGED <<status, sender>> => SenderOK'
         /\ UNCHANGED <<status, ext, job, sends, faults>> => CleanOK'
<1>1. UNCHANGED <<job, sends>> => JobOK'
  BY DEF JobOK
<1>2. UNCHANGED <<status, ext, sender, job, sends, echo>> => RowsOK'
  BY DEF RowsOK
<1>3. UNCHANGED <<status, sender>> => SenderOK'
  BY DEF SenderOK
<1>4. UNCHANGED <<status, ext, job, sends, faults>> => CleanOK'
  BY DEF CleanOK
<1> QED BY <1>1, <1>2, <1>3, <1>4

\* Every step keeps the invariant.
LEMMA NextIInv == IInv /\ [Next]_vars => IInv'
<1> SUFFICES ASSUME IInv, [Next]_vars PROVE IInv'
  OBVIOUS
<1>0. /\ TypeOK /\ JobOK /\ RowsOK /\ SenderOK /\ CleanOK
      /\ RowTypes /\ JobTypes /\ WireTypes /\ ReportTypes
  BY DEF IInv, TypeOK
<1>1. CASE Enqueue
  <2> USE <1>1 DEF Enqueue
  <2>1. RowTypes'
    BY <1>0, Frames DEF RowTypes, JobTypes
  <2>2. JobTypes'
    BY <1>0, Frames DEF JobTypes, WireTypes, JobOK
  <2>3. WireTypes'
    BY <1>0, Frames DEF WireTypes, JobTypes, JobOK
  <2>4. ReportTypes'
    BY <1>0, Frames DEF ReportTypes
  <2>5. JobOK'
    BY <1>0 DEF JobTypes, WireTypes, JobOK
  <2>6. RowsOK'
    BY <1>0 DEF RowTypes, JobTypes, WireTypes, JobOK, RowsOK
  <2>7. SenderOK'
    BY <1>0 DEF RowTypes, SenderOK
  <2>8. CleanOK'
    BY <1>0 DEF RowTypes, JobTypes, WireTypes, JobOK, RowsOK, CleanOK
  <2> QED BY <2>1, <2>2, <2>3, <2>4, <2>5, <2>6, <2>7, <2>8 DEF IInv, TypeOK
<1>2. CASE EnqueueFails
  <2> USE <1>2 DEF EnqueueFails, Fail, CanFail
  <2>1. RowTypes'
    BY <1>0, Frames DEF RowTypes, JobTypes
  <2>2. JobTypes'
    BY <1>0, Frames DEF JobTypes, WireTypes, JobOK
  <2>3. WireTypes'
    BY <1>0, Frames DEF WireTypes, JobTypes, JobOK
  <2>4. ReportTypes'
    BY <1>0, Frames DEF ReportTypes
  <2>5. JobOK'
    BY <1>0 DEF JobTypes, WireTypes, JobOK
  <2>6. RowsOK'
    BY <1>0 DEF RowTypes, JobTypes, WireTypes, JobOK, RowsOK
  <2>7. SenderOK'
    BY <1>0 DEF RowTypes, SenderOK
  <2>8. CleanOK'
    BY <1>0 DEF RowTypes, JobTypes, WireTypes, JobOK, RowsOK, CleanOK
  <2> QED BY <2>1, <2>2, <2>3, <2>4, <2>5, <2>6, <2>7, <2>8 DEF IInv, TypeOK
<1>3. CASE EarlyThrow
  <2> USE <1>3 DEF EarlyThrow, Fail, CanFail, Retry
  <2>1. RowTypes'
    BY <1>0, Frames DEF RowTypes, JobTypes
  <2>2. JobTypes'
    BY <1>0, Frames DEF JobTypes, WireTypes, JobOK
  <2>3. WireTypes'
    BY <1>0, Frames DEF WireTypes, JobTypes, JobOK
  <2>4. ReportTypes'
    BY <1>0, Frames DEF ReportTypes
  <2>5. JobOK'
    BY <1>0 DEF JobTypes, WireTypes, JobOK
  <2>6. RowsOK'
    BY <1>0 DEF RowTypes, JobTypes, WireTypes, JobOK, RowsOK
  <2>7. SenderOK'
    BY <1>0 DEF RowTypes, SenderOK
  <2>8. CleanOK'
    BY <1>0 DEF RowTypes, JobTypes, WireTypes, JobOK, RowsOK, CleanOK
  <2> QED BY <2>1, <2>2, <2>3, <2>4, <2>5, <2>6, <2>7, <2>8 DEF IInv, TypeOK
<1>4. CASE Send
  <2> USE <1>4 DEF Send, Accept
  <2>1. RowTypes'
    BY <1>0, Frames DEF RowTypes, JobTypes
  <2>2. JobTypes'
    BY <1>0, Frames DEF JobTypes, WireTypes, JobOK
  <2>3. WireTypes'
    BY <1>0, Frames DEF WireTypes, JobTypes, JobOK
  <2>4. ReportTypes'
    BY <1>0, Frames DEF ReportTypes
  <2>5. JobOK'
    BY <1>0 DEF JobTypes, WireTypes, JobOK
  <2>6. RowsOK'
    <3>1. sends' = sends + 1 /\ UNCHANGED rows
      OBVIOUS
    <3>2. \A j \in Copies : echo'[j] # "none" => j <= sends + 1
      BY <1>0 DEF WireTypes, RowsOK
    <3>3. pc' # "sent" \/ ext[0] < cur'
      BY <1>0 DEF RowTypes, WireTypes, RowsOK
    <3>4. pc' \notin {"patch", "delete"}
      OBVIOUS
    <3>5. ext[0] <= sends + 1 /\ sends \in Nat
      BY <1>0 DEF RowTypes, WireTypes, RowsOK
    <3>6. \A j \in Copies : Exists(j)' => ext'[j] = j /\ j <= sends + 1
      BY <1>0, <3>1, <3>5 DEF RowsOK
    <3>7. ext'[0] <= sends'
      BY <3>1, <3>5
    <3>8. pc' = "sent" => ext'[0] < cur'
      BY <3>1, <3>3
    <3> QED BY <3>1, <3>2, <3>4, <3>6, <3>7, <3>8 DEF RowsOK
  <2>7. SenderOK'
    BY <1>0 DEF RowTypes, SenderOK
  <2>8. CleanOK'
    <3>1. sends' = sends + 1 /\ cur' = sends + 1 /\ pc' = "sent"
      OBVIOUS
    <3>2. UNCHANGED <<status, ext, faults>>
      OBVIOUS
    <3>3. faults = 0 => Exists(0) /\ ext[0] = 0
      BY <1>0 DEF CleanOK, RowsOK, RowTypes, SenderOK, WireTypes
    <3> QED BY <1>0, <3>1, <3>2, <3>3 DEF CleanOK
  <2> QED BY <2>1, <2>2, <2>3, <2>4, <2>5, <2>6, <2>7, <2>8 DEF IInv, TypeOK
<1>5. CASE SendFails /\ Accept
  <2> USE <1>5 DEF SendFails, Accept, Fail, CanFail
  <2>1. RowTypes'
    BY <1>0, Frames DEF RowTypes, JobTypes
  <2>2. JobTypes'
    BY <1>0, Frames DEF JobTypes, WireTypes, JobOK
  <2>3. WireTypes'
    BY <1>0, Frames DEF WireTypes, JobTypes, JobOK
  <2>4. ReportTypes'
    BY <1>0, Frames DEF ReportTypes
  <2>5. JobOK'
    BY <1>0 DEF JobTypes, WireTypes, JobOK
  <2>6. RowsOK'
    <3>1. sends' = sends + 1 /\ UNCHANGED rows
      OBVIOUS
    <3>2. \A j \in Copies : echo'[j] # "none" => j <= sends + 1
      BY <1>0 DEF WireTypes, RowsOK
    <3>3. pc' # "sent" \/ ext[0] < cur'
      BY <1>0 DEF RowTypes, WireTypes, RowsOK
    <3>4. pc' \notin {"patch", "delete"}
      OBVIOUS
    <3>5. ext[0] <= sends + 1 /\ sends \in Nat
      BY <1>0 DEF RowTypes, WireTypes, RowsOK
    <3>6. \A j \in Copies : Exists(j)' => ext'[j] = j /\ j <= sends + 1
      BY <1>0, <3>1, <3>5 DEF RowsOK
    <3>7. ext'[0] <= sends'
      BY <3>1, <3>5
    <3>8. pc' = "sent" => ext'[0] < cur'
      BY <3>1, <3>3
    <3> QED BY <3>1, <3>2, <3>4, <3>6, <3>7, <3>8 DEF RowsOK
  <2>7. SenderOK'
    BY <1>0 DEF RowTypes, SenderOK
  <2>8. CleanOK'
    BY <1>0 DEF RowTypes, JobTypes, WireTypes, JobOK, RowsOK, CleanOK
  <2> QED BY <2>1, <2>2, <2>3, <2>4, <2>5, <2>6, <2>7, <2>8 DEF IInv, TypeOK
<1>6. CASE SendFails /\ UNCHANGED <<sends, visible, echo>>
  <2> USE <1>6 DEF SendFails, Fail, CanFail
  <2>1. RowTypes'
    BY <1>0, Frames DEF RowTypes, JobTypes
  <2>2. JobTypes'
    BY <1>0, Frames DEF JobTypes, WireTypes, JobOK
  <2>3. WireTypes'
    BY <1>0, Frames DEF WireTypes, JobTypes, JobOK
  <2>4. ReportTypes'
    BY <1>0, Frames DEF ReportTypes
  <2>5. JobOK'
    BY <1>0 DEF JobTypes, WireTypes, JobOK
  <2>6. RowsOK'
    BY <1>0 DEF RowTypes, JobTypes, WireTypes, JobOK, RowsOK
  <2>7. SenderOK'
    BY <1>0 DEF RowTypes, SenderOK
  <2>8. CleanOK'
    BY <1>0 DEF RowTypes, JobTypes, WireTypes, JobOK, RowsOK, CleanOK
  <2> QED BY <2>1, <2>2, <2>3, <2>4, <2>5, <2>6, <2>7, <2>8 DEF IInv, TypeOK
<1>7. CASE Record
  <2> USE <1>7 DEF Record, RecordOn, RowsOf
  <2>1. RowTypes'
    BY <1>0, Frames DEF RowTypes, JobTypes
  <2>2. JobTypes'
    BY <1>0, Frames DEF JobTypes, WireTypes, JobOK
  <2>3. WireTypes'
    BY <1>0, Frames DEF WireTypes, JobTypes, JobOK
  <2>4. ReportTypes'
    BY <1>0, Frames DEF ReportTypes
  <2>5. JobOK'
    BY <1>0 DEF JobTypes, WireTypes, JobOK
  <2>6. RowsOK'
    <3>1. CASE ~Exists(0)
      BY <1>0, <3>1 DEF RowsOK
    <3>2. CASE Exists(0) /\ RowsOf(cur) = {}
      <4>1. ext' = [ext EXCEPT ![0] = cur] /\ pc' = "mark" /\ UNCHANGED <<sends, echo>>
        BY <3>2
      <4>2. status' = [status EXCEPT ![0] = "SENT"]
        BY <3>2
      <4>3. \A j \in Copies : (Exists(j)' <=> Exists(j)) /\ ext'[j] = ext[j]
        BY <1>0, <4>1, <4>2 DEF RowTypes
      <4>4. ext'[0] = cur /\ cur <= sends
        BY <1>0, <4>1 DEF RowTypes, JobOK
      <4> QED BY <1>0, <4>1, <4>3, <4>4 DEF RowsOK
    <3>3. CASE Exists(0) /\ RowsOf(cur) # {}
      <4>1. PICK q \in RowIds : Exists(q) /\ ext[q] = cur
        BY <3>3
      <4>2. q = cur
        BY <1>0, <4>1 DEF RowsOK, RowTypes, JobTypes
      <4>3. pc' = "patch" /\ UNCHANGED <<status, ext, cur, sends, echo>>
        BY <3>3
      <4> QED BY <1>0, <4>1, <4>2, <4>3 DEF RowsOK
    <3> QED BY <3>1, <3>2, <3>3
  <2>7. SenderOK'
    BY <1>0 DEF RowTypes, SenderOK
  <2>8. CleanOK'
    <3>1. CASE ~Exists(0)
      BY <1>0, <3>1 DEF CleanOK
    <3>2. CASE Exists(0) /\ RowsOf(cur) = {}
      <4>1. ~Exists(1) \/ cur # 1
        BY <1>0, <3>2 DEF RowsOK, WireTypes, JobOK
      <4>2. /\ status' = [status EXCEPT ![0] = "SENT"]
            /\ ext' = [ext EXCEPT ![0] = cur]
            /\ pc' = "mark" /\ UNCHANGED <<cur, sends, faults>>
        BY <3>2
      <4>3. status'[0] = "SENT" /\ ext'[0] = cur /\ (Exists(1)' <=> Exists(1))
        BY <1>0, <4>2 DEF RowTypes
      <4> QED BY <1>0, <4>1, <4>2, <4>3 DEF CleanOK
    <3>3. CASE Exists(0) /\ RowsOf(cur) # {}
      <4>1. pc' = "patch" /\ UNCHANGED <<status, ext, cur, sends, faults>>
        BY <3>3
      <4> QED BY <1>0, <3>3, <4>1 DEF CleanOK
    <3> QED BY <3>1, <3>2, <3>3
  <2> QED BY <2>1, <2>2, <2>3, <2>4, <2>5, <2>6, <2>7, <2>8 DEF IInv, TypeOK
<1>8. CASE MergePatch
  <2> USE <1>8 DEF MergePatch
  <2>1. RowTypes'
    BY <1>0, Frames DEF RowTypes, JobTypes
  <2>2. JobTypes'
    BY <1>0, Frames DEF JobTypes, WireTypes, JobOK
  <2>3. WireTypes'
    BY <1>0, Frames DEF WireTypes, JobTypes, JobOK
  <2>4. ReportTypes'
    BY <1>0, Frames DEF ReportTypes
  <2>5. JobOK'
    BY <1>0 DEF JobTypes, WireTypes, JobOK
  <2>6. RowsOK'
    BY <1>0 DEF RowTypes, JobTypes, WireTypes, JobOK, RowsOK
  <2>7. SenderOK'
    BY <1>0 DEF RowTypes, SenderOK
  <2>8. CleanOK'
    BY <1>0 DEF RowTypes, JobTypes, WireTypes, JobOK, RowsOK, CleanOK
  <2> QED BY <2>1, <2>2, <2>3, <2>4, <2>5, <2>6, <2>7, <2>8 DEF IInv, TypeOK
<1>9. CASE MergeDelete
  <2> USE <1>9 DEF MergeDelete, Fail, CanFail
  <2>1. RowTypes'
    BY <1>0, Frames DEF RowTypes, JobTypes
  <2>2. JobTypes'
    BY <1>0, Frames DEF JobTypes, WireTypes, JobOK
  <2>3. WireTypes'
    BY <1>0, Frames DEF WireTypes, JobTypes, JobOK
  <2>4. ReportTypes'
    BY <1>0, Frames DEF ReportTypes
  <2>5. JobOK'
    BY <1>0 DEF JobTypes, WireTypes, JobOK
  <2>6. RowsOK'
    <3>1. \A j \in Copies : Exists(j)' <=> Exists(j)
      <4>1. status' = [status EXCEPT ![0] = NoRow] \/ status' = status
        OBVIOUS
      <4> HIDE DEF MergeDelete
      <4> QED BY <1>0, <4>1 DEF RowTypes
    <3>2. pc' = "mark" /\ UNCHANGED <<ext, cur, sends, echo>>
      OBVIOUS
    <3> QED BY <1>0, <3>1, <3>2 DEF RowsOK
  <2>7. SenderOK'
    <3>1. cur \in Copies /\ Exists(cur)' /\ cur \in sender /\ UNCHANGED sender
      BY <1>0 DEF RowTypes, JobTypes, WireTypes, JobOK, RowsOK
    <3>2. Exists(0)' => Exists(0)
      BY <1>0 DEF RowTypes
    <3> QED BY <1>0, <3>1, <3>2 DEF SenderOK
  <2>8. CleanOK'
    BY <1>0 DEF RowTypes, JobTypes, WireTypes, JobOK, RowsOK, CleanOK
  <2> QED BY <2>1, <2>2, <2>3, <2>4, <2>5, <2>6, <2>7, <2>8 DEF IInv, TypeOK
<1>10. CASE MarkSent
  <2> USE <1>10 DEF MarkSent
  <2>1. RowTypes'
    BY <1>0, Frames DEF RowTypes, JobTypes
  <2>2. JobTypes'
    BY <1>0, Frames DEF JobTypes, WireTypes, JobOK
  <2>3. WireTypes'
    BY <1>0, Frames DEF WireTypes, JobTypes, JobOK
  <2>4. ReportTypes'
    BY <1>0, Frames DEF ReportTypes
  <2>5. JobOK'
    BY <1>0 DEF JobTypes, WireTypes, JobOK
  <2>6. RowsOK'
    BY <1>0 DEF RowTypes, JobTypes, WireTypes, JobOK, RowsOK
  <2>7. SenderOK'
    BY <1>0 DEF RowTypes, SenderOK
  <2>8. CleanOK'
    BY <1>0 DEF RowTypes, JobTypes, WireTypes, JobOK, RowsOK, CleanOK
  <2> QED BY <2>1, <2>2, <2>3, <2>4, <2>5, <2>6, <2>7, <2>8 DEF IInv, TypeOK
<1>11. CASE StepFails
  <2> USE <1>11 DEF StepFails, Fail, CanFail
  <2>1. RowTypes'
    BY <1>0, Frames DEF RowTypes, JobTypes
  <2>2. JobTypes'
    BY <1>0, Frames DEF JobTypes, WireTypes, JobOK
  <2>3. WireTypes'
    BY <1>0, Frames DEF WireTypes, JobTypes, JobOK
  <2>4. ReportTypes'
    BY <1>0, Frames DEF ReportTypes
  <2>5. JobOK'
    BY <1>0 DEF JobTypes, WireTypes, JobOK
  <2>6. RowsOK'
    BY <1>0 DEF RowTypes, JobTypes, WireTypes, JobOK, RowsOK
  <2>7. SenderOK'
    BY <1>0 DEF RowTypes, SenderOK
  <2>8. CleanOK'
    BY <1>0 DEF RowTypes, JobTypes, WireTypes, JobOK, RowsOK, CleanOK
  <2> QED BY <2>1, <2>2, <2>3, <2>4, <2>5, <2>6, <2>7, <2>8 DEF IInv, TypeOK
<1>12. CASE Catch
  <2> USE <1>12 DEF Catch, Retry
  <2>1. RowTypes'
    BY <1>0, Frames DEF RowTypes, JobTypes
  <2>2. JobTypes'
    BY <1>0, Frames DEF JobTypes, WireTypes, JobOK
  <2>3. WireTypes'
    BY <1>0, Frames DEF WireTypes, JobTypes, JobOK
  <2>4. ReportTypes'
    BY <1>0, Frames DEF ReportTypes
  <2>5. JobOK'
    BY <1>0 DEF JobTypes, WireTypes, JobOK
  <2>6. RowsOK'
    BY <1>0 DEF RowTypes, JobTypes, WireTypes, JobOK, RowsOK
  <2>7. SenderOK'
    BY <1>0 DEF RowTypes, SenderOK
  <2>8. CleanOK'
    BY <1>0 DEF RowTypes, JobTypes, WireTypes, JobOK, RowsOK, CleanOK
  <2> QED BY <2>1, <2>2, <2>3, <2>4, <2>5, <2>6, <2>7, <2>8 DEF IInv, TypeOK
<1>13. CASE Stall
  <2> USE <1>13 DEF Stall
  <2>1. RowTypes'
    BY <1>0, Frames DEF RowTypes, JobTypes
  <2>2. JobTypes'
    BY <1>0, Frames DEF JobTypes, WireTypes, JobOK
  <2>3. WireTypes'
    BY <1>0, Frames DEF WireTypes, JobTypes, JobOK
  <2>4. ReportTypes'
    BY <1>0, Frames DEF ReportTypes
  <2>5. JobOK'
    BY <1>0 DEF JobTypes, WireTypes, JobOK
  <2>6. RowsOK'
    BY <1>0 DEF RowTypes, JobTypes, WireTypes, JobOK, RowsOK
  <2>7. SenderOK'
    BY <1>0 DEF RowTypes, SenderOK
  <2>8. CleanOK'
    BY <1>0 DEF RowTypes, JobTypes, WireTypes, JobOK, RowsOK, CleanOK
  <2> QED BY <2>1, <2>2, <2>3, <2>4, <2>5, <2>6, <2>7, <2>8 DEF IInv, TypeOK
<1>14. ASSUME NEW k \in Copies, EchoClaim(k) PROVE IInv'
  <2> USE <1>14 DEF EchoClaim
  <2>1. UNCHANGED <<rows, job, sends, faults, report>>
    OBVIOUS
  <2>2. WireTypes'
    BY <1>0 DEF WireTypes
  <2>3. \A j \in Copies : echo'[j] # "none" => echo[j] # "none"
    BY <1>0 DEF WireTypes
  <2> HIDE DEF EchoClaim
  <2>4. RowsOK'
    BY <1>0, <2>1, <2>3 DEF RowsOK
  <2> QED BY <1>0, <2>1, <2>2, <2>4, Frames, PartFrames DEF IInv, TypeOK
<1>15. ASSUME NEW k \in Copies, EchoStore(k) PROVE IInv'
  <2>1. /\ echo[k] = "claimed"
        /\ echo' = [echo EXCEPT ![k] = "done"]
        /\ UNCHANGED <<job, sends, visible, claims, report, faults>>
    BY <1>15 DEF EchoStore
  <2>2. JobTypes' /\ WireTypes' /\ ReportTypes' /\ JobOK'
    BY <1>0, <2>1, Frames DEF WireTypes, JobOK
  <2>3. \A j \in Copies : echo'[j] # "none" => j <= sends
    BY <1>0, <2>1 DEF WireTypes, RowsOK
  <2>4. CASE UNCHANGED rows
    <3>1. RowTypes' /\ RowsOK' /\ SenderOK' /\ CleanOK'
      BY <1>0, <2>1, <2>3, <2>4, Frames DEF RowsOK, SenderOK, CleanOK
    <3> QED BY <2>2, <3>1 DEF IInv, TypeOK
  <2>5. CASE RowsOf(k) = {} /\ ~UNCHANGED rows
    <3>1. /\ status' = [status EXCEPT ![k] = "SENT"]
          /\ ext' = [ext EXCEPT ![k] = k]
          /\ quote' = quote \union {k}
          /\ UNCHANGED <<sender, revoked>>
      BY <1>15, <2>5 DEF EchoStore
    <3>2. RowTypes'
      <4>1. status' \in [RowIds -> Status \union {NoRow}]
        BY <1>0, <3>1 DEF RowTypes
      <4>2. ext' \in [RowIds -> 0..MaxSends]
        BY <1>0, <3>1 DEF RowTypes
      <4>3. quote' \subseteq RowIds
        BY <1>0, <3>1 DEF RowTypes
      <4> QED BY <1>0, <3>1, <4>1, <4>2, <4>3 DEF RowTypes
    <3>3. /\ \A r \in RowIds : r # k =>
               status'[r] = status[r] /\ ext'[r] = ext[r]
          /\ Exists(k)' /\ ext'[k] = k
      BY <1>0, <3>1 DEF RowTypes
    <3>4. k <= sends
      BY <1>0, <2>1 DEF RowsOK
    <3>5. RowsOK'
      BY <1>0, <2>1, <2>3, <3>1, <3>3, <3>4 DEF RowsOK, JobTypes, JobOK, WireTypes
    <3>6. SenderOK'
      BY <1>0, <3>1, <3>3 DEF SenderOK
    <3>7. ~(Exists(0) /\ ext[0] = k)
      BY <2>5 DEF RowsOf
    <3>8. CleanOK'
      BY <1>0, <2>1, <3>3, <3>4, <3>7 DEF CleanOK, RowsOK, JobTypes
    <3> QED BY <2>2, <3>2, <3>5, <3>6, <3>8 DEF IInv, TypeOK
  <2> QED BY <1>15, <2>4, <2>5 DEF EchoStore
<1>16. ASSUME NEW k \in Copies, EchoFails(k) PROVE IInv'
  <2> USE <1>16 DEF EchoFails, Fail, CanFail
  <2>1. UNCHANGED <<rows, job, sends, claims, report>> /\ faults' = faults + 1
    OBVIOUS
  <2>2. WireTypes' /\ JobTypes'
    BY <1>0 DEF WireTypes, JobTypes
  <2>3. \A j \in Copies : echo'[j] # "none" => echo[j] # "none"
    BY <1>0 DEF WireTypes
  <2> HIDE DEF EchoFails
  <2>4. RowsOK'
    BY <1>0, <2>1, <2>3 DEF RowsOK
  <2>5. CleanOK'
    BY <1>0, <2>1 DEF JobTypes, CleanOK
  <2> QED BY <1>0, <2>1, <2>2, <2>4, <2>5, Frames, PartFrames DEF IInv, TypeOK
<1>17. ASSUME NEW r \in RowIds, RevokeAtProvider(r) \/ RevokeRecord(r)
       PROVE  IInv'
  <2> USE <1>17 DEF RevokeAtProvider, RevokeRecord
  <2>1. UNCHANGED <<status, ext, sender, quote, job, sends, claims, echo, report,
                    faults>>
    OBVIOUS
  <2>2. RowTypes' /\ WireTypes'
    BY <1>0 DEF RowTypes, WireTypes
  <2> HIDE DEF RevokeAtProvider, RevokeRecord
  <2> QED BY <1>0, <2>1, <2>2, Frames, PartFrames DEF IInv, TypeOK
<1>18. CASE UNCHANGED vars
  BY <1>0, <1>18, Frames, PartFrames DEF vars, IInv, TypeOK
<1>19. ASSUME NEW k \in Copies, NEW s \in Reports, Report(k, s) PROVE IInv'
  <2>1. UNCHANGED <<rows, job, sends, visible, claims, echo, faults>>
    BY <1>19 DEF Report
  <2>2. ReportTypes'
    BY <1>0, <1>19 DEF Report, ReportTypes, ReportState, At
  <2> QED BY <1>0, <2>1, <2>2, Frames, PartFrames DEF IInv, TypeOK
<1>20. ASSUME NEW k \in Copies, NEW s \in Reports, FindReported(k, s)
       PROVE  IInv'
  <2>1. UNCHANGED <<rows, job, sends, visible, claims, echo, faults>>
    BY <1>20 DEF FindReported
  <2>2. Reported \in ReportState
    BY DEF Reported, At, ReportState
  <2>3. \A q \in RowsOf(k) : At("found", q, status[q]) \in ReportState
    BY <1>0 DEF RowsOf, At, ReportState, RowTypes
  <2>4. PICK e \in ReportState : report' = [report EXCEPT ![<<k, s>>] = e]
    BY <1>20, <2>2, <2>3 DEF FindReported
  <2>5. ReportTypes'
    BY <1>0, <2>4 DEF ReportTypes
  <2> QED BY <1>0, <2>1, <2>5, Frames, PartFrames DEF IInv, TypeOK
<1>21. ASSUME NEW k \in Copies, NEW s \in Reports, WriteReported(k, s)
       PROVE  IInv'
  <2> DEFINE r == report[<<k, s>>].row
             m == MaxStatus(report[<<k, s>>].seen, s)
  <2>1. r \in RowIds /\ m \in Status \ {"QUEUED"}
    BY <1>0, MaxStatusNotQueued DEF ReportTypes, ReportState
  <2>2. status' = IF Exists(r) THEN [status EXCEPT ![r] = m] ELSE status
    BY <1>21 DEF WriteReported
  <2>3. ReportTypes'
    <3>1. Reported \in ReportState /\ At("queued", 0, "QUEUED") \in ReportState
      BY DEF Reported, At, ReportState
    <3>2. PICK e \in ReportState : report' = [report EXCEPT ![<<k, s>>] = e]
      BY <1>21, <3>1 DEF WriteReported
    <3> QED BY <1>0, <3>2 DEF ReportTypes
  <2>4. UNCHANGED <<ext, sender, quote, revoked, job, sends, visible, claims,
                    echo, faults>>
    BY <1>21 DEF WriteReported
  <2> HIDE DEF r, m
  <2>5. \A q \in RowIds :
          /\ Exists(q)' <=> Exists(q)
          /\ status'[q] = "QUEUED" => status[q] = "QUEUED"
    BY <1>0, <2>1, <2>2 DEF RowTypes
  <2>6. RowTypes'
    BY <1>0, <2>1, <2>2, <2>4 DEF RowTypes
  <2>7. JobTypes' /\ WireTypes'
    BY <1>0, <2>4, Frames
  <2>8. JobOK'
    BY <1>0, <2>4 DEF JobOK
  <2>9. RowsOK'
    BY <1>0, <2>4, <2>5 DEF RowsOK, JobTypes, WireTypes
  <2>10. SenderOK'
    BY <1>0, <2>4, <2>5 DEF SenderOK
  <2>11. CleanOK'
    BY <1>0, <2>4, <2>5 DEF CleanOK, WireTypes
  <2> QED BY <2>3, <2>6, <2>7, <2>8, <2>9, <2>10, <2>11 DEF IInv, TypeOK
<1> QED
  BY <1>1, <1>2, <1>3, <1>4, <1>5, <1>6, <1>7, <1>8, <1>9, <1>10, <1>11,
     <1>12, <1>13, <1>14, <1>15, <1>16, <1>17, <1>18, <1>19, <1>20, <1>21 DEF Next, JobStep, SendFails

\* The invariant holds in every reachable state.
THEOREM Invariance == Spec => []IInv
  BY InitIInv, NextIInv, PTL DEF Spec

\* Type correctness.
THEOREM TypeCorrect == Spec => []TypeOK
<1>1. IInv => TypeOK
  BY DEF IInv
<1> QED BY <1>1, Invariance, PTL

\* The worker and the echo may come in any order: without a failure a job that
\* is done leaves exactly one row, with the operator on it.
THEOREM NoPhantomRowCorrect == Spec => []NoPhantomRow
<1>1. IInv => NoPhantomRow
  BY DEF IInv, TypeOK, RowTypes, JobTypes, RowsOK, CleanOK, NoPhantomRow,
         RowsOf
<1> QED BY <1>1, Invariance, PTL

\* Losing the race against the echo never sends the message again.
THEOREM ResendNeedsFaultCorrect == Spec => []ResendNeedsFault
<1>1. IInv => ResendNeedsFault
  BY DEF IInv, TypeOK, JobTypes, WireTypes, CleanOK,
         ResendNeedsFault
<1> QED BY <1>1, Invariance, PTL

\* No merge, retry or crash loses the row that names the operator.
THEOREM OperatorIsKnownCorrect == Spec => []OperatorIsKnown
<1>1. IInv => OperatorIsKnown
  BY DEF IInv, SenderOK, OperatorIsKnown
<1> QED BY <1>1, Invariance, PTL

\* A row stays QUEUED for ever only after a failure.
THEOREM QueuedForeverCorrect == Spec => []QueuedForeverNeedsFault
<1>1. IInv => QueuedForeverNeedsFault
  BY DEF IInv, TypeOK, JobTypes, CleanOK, QueuedForeverNeedsFault
<1> QED BY <1>1, Invariance, PTL
=============================================================================
