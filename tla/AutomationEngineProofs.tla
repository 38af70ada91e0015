------------------------ MODULE AutomationEngineProofs ------------------------
(***************************************************************************)
(* Proofs about AutomationEngine, for any automations, users and limits.   *)
(***************************************************************************)
EXTENDS AutomationEngine, FiniteSetTheorems, SequenceTheorems, WellFoundedInduction, TLAPS

-----------------------------------------------------------------------------
(* Lemmas about the current automation and the jobs *)

\* A set of automations that is not empty has a first one.
LEMMA FirstExists ==
  ASSUME NEW S \in SUBSET Nat, S # {}
  PROVE  \E a \in S : \A b \in S : a <= b
<1>1. PICK a \in S : \A b \in S : <<b, a>> \notin OpToRel(<, Nat)
  BY NatLessThanWellFounded, WFMin
<1>2. ASSUME NEW b \in S PROVE a <= b
  <2>1. b < a => <<b, a>> \in {p \in Nat \X Nat : p[1] < p[2]}
    OBVIOUS
  <2>2. ~(b < a)
    BY <1>1, <2>1 DEF OpToRel
  <2>3. a \in Nat /\ b \in Nat
    OBVIOUS
  <2> QED BY <2>2, <2>3
<1> QED BY <1>2

\* First finds it.
LEMMA FirstInSet ==
  ASSUME NEW S \in SUBSET Autos, S # {}
  PROVE  First(S) \in S /\ First(S) \in Autos
BY FirstExists, EngineAssumption DEF First

\* A job that was replaced, and no other, is what changed.
LEMMA Replaced ==
  ASSUME NEW s \in Seq(Job), NEW e \in 1..Len(s), NEW j \in Job
  PROVE  /\ [s EXCEPT ![e] = j] \in Seq(Job)
         /\ Len([s EXCEPT ![e] = j]) = Len(s)
         /\ \A f \in 1..Len(s) : [s EXCEPT ![e] = j][f] = IF f = e THEN j ELSE s[f]
OBVIOUS

\* A new job has its type.
LEMMA NewJobType ==
  ASSUME NEW t \in Triggers, NEW d \in Nat, NEW path \in SUBSET Autos
  PROVE  /\ NewJob(t, d, path) \in Job
         /\ NewJob(t, d, path).pc = "waiting"
         /\ NewJob(t, d, path).tries = 0
         /\ NewJob(t, d, path).stalls = 0
         /\ NewJob(t, d, path).depth = d
         /\ NewJob(t, d, path).act = 1
BY EngineAssumption DEF NewJob, Job, PCs, Section, Unseen

-----------------------------------------------------------------------------
(* Type correctness *)

\* A job is within the cap, and one at the cap runs nothing.  It points at an
\* action that exists when it applies one, and can still be attempted while it
\* is not over.
Sound(j) ==
  /\ j \in Job
  /\ j.depth <= MaxDepth
  /\ j.depth = MaxDepth => j.pc \in {"waiting", "completed", "failed"}
  /\ j.act > 0
  /\ j.pc \in Section => j.todo # {}
  /\ j.pc = "apply" => j.act <= Len(Actions[First(j.todo)])
  /\ j.pc \notin {"completed", "failed"} => j.tries < MaxAttempts /\ j.stalls <= MaxStalls

TypeInv == TypeOK /\ \A e \in Jobs : Sound(jobs[e])

\* It is enough to look at the job a step replaces.
LEMMA OneJob ==
  ASSUME TypeInv, NEW e \in Jobs, NEW j, Sound(j), jobs' = [jobs EXCEPT ![e] = j]
  PROVE  /\ jobs' \in Seq(Job)
         /\ Len(jobs') = Len(jobs)
         /\ \A f \in Jobs : jobs'[f] = IF f = e THEN j ELSE jobs[f]
         /\ \A f \in Jobs' : Sound(jobs'[f])
<1>1. jobs \in Seq(Job) /\ j \in Job
  BY DEF TypeInv, TypeOK, Sound
<1> QED BY <1>1, Replaced DEF Jobs, TypeInv

LEMMA OneJobType ==
  ASSUME TypeInv, NEW e \in Jobs, NEW j, Sound(j)
  PROVE  [jobs EXCEPT ![e] = j] \in Seq(Job)
BY Replaced DEF Jobs, TypeInv, TypeOK, Sound

\* A job that forgets what it had in memory.
LEMMA ClearedJob ==
  ASSUME NEW j \in Job
  PROVE  /\ Cleared(j) \in Job
         /\ Cleared(j).act = 1
         /\ Cleared(j).lost = FALSE
         /\ Cleared(j).tries = j.tries
         /\ Cleared(j).stalls = j.stalls
         /\ Cleared(j).depth = j.depth
BY DEF Cleared, Unseen, Job

\* A failed attempt and a dead worker leave a sound job, waiting again or failed.
LEMMA RetriedJob ==
  ASSUME NEW j, Sound(j), j.pc \notin {"completed", "failed"}
  PROVE  /\ Sound(Retry(j)) /\ Sound(Stalled(j))
         /\ Retry(j).pc \in {"waiting", "failed"} /\ Stalled(j).pc \in {"waiting", "failed"}
         /\ Retry(j).depth = j.depth /\ Stalled(j).depth = j.depth
         /\ Retry(j).tries > 0 /\ Stalled(j).stalls > 0
<1> DEFINE c == Cleared(j)
<1>1. /\ j \in Job /\ j.tries < MaxAttempts /\ j.stalls <= MaxStalls
      /\ j.depth <= MaxDepth
      /\ MaxAttempts \in Nat /\ MaxStalls \in Nat
      /\ j.tries \in Nat /\ j.stalls \in Nat
  BY EngineAssumption DEF Sound, Job
<1>2. /\ c \in Job /\ c.act = 1 /\ c.lost = FALSE /\ c.tries = j.tries
      /\ c.stalls = j.stalls /\ c.depth = j.depth
  BY <1>1, ClearedJob
<1>3. Retry(j) = [c EXCEPT !.pc = IF j.tries + 1 < MaxAttempts THEN "waiting" ELSE "failed",
                           !.tries = j.tries + 1, !.todo = {}]
  BY DEF Retry
<1>4. Stalled(j) = [c EXCEPT !.pc = IF j.stalls < MaxStalls THEN "waiting" ELSE "failed",
                             !.stalls = @ + 1, !.todo = {}]
  BY DEF Stalled
<1> HIDE DEF c
<1>5. Sound(Retry(j)) /\ Retry(j).pc \in {"waiting", "failed"}
      /\ Retry(j).depth = j.depth /\ Retry(j).tries > 0
  <2>1. Retry(j) \in Job
    <3> DEFINE pc == IF j.tries + 1 < MaxAttempts THEN "waiting" ELSE "failed"
               t == j.tries + 1
    <3>1. t \in 0..MaxAttempts
      BY <1>1
    <3>2. pc \in PCs
      BY DEF PCs
    <3>3. Retry(j) = [c EXCEPT !.pc = pc, !.tries = t, !.todo = {}]
      BY <1>3
    <3> HIDE DEF pc, t
    <3> QED BY <1>2, <3>1, <3>2, <3>3 DEF Job
  <2>2. /\ Retry(j).pc = IF j.tries + 1 < MaxAttempts THEN "waiting" ELSE "failed"
        /\ Retry(j).tries = j.tries + 1 /\ Retry(j).todo = {} /\ Retry(j).act = 1
        /\ Retry(j).stalls = j.stalls /\ Retry(j).depth = j.depth
    BY <1>2, <1>3 DEF Job
  <2> QED BY <1>1, <2>1, <2>2 DEF Sound, Section
<1>6. Sound(Stalled(j)) /\ Stalled(j).pc \in {"waiting", "failed"}
      /\ Stalled(j).depth = j.depth /\ Stalled(j).stalls > 0
  <2>1. Stalled(j) \in Job
    <3> DEFINE pc == IF j.stalls < MaxStalls THEN "waiting" ELSE "failed"
               n == c.stalls + 1
    <3>1. n \in 0..(MaxStalls + 1)
      BY <1>1, <1>2
    <3>2. pc \in PCs
      BY DEF PCs
    <3>3. Stalled(j) = [c EXCEPT !.pc = pc, !.stalls = n, !.todo = {}]
      BY <1>4
    <3> HIDE DEF pc, n
    <3> QED BY <1>2, <3>1, <3>2, <3>3 DEF Job
  <2>2. /\ Stalled(j).pc = IF j.stalls < MaxStalls THEN "waiting" ELSE "failed"
        /\ Stalled(j).stalls = j.stalls + 1 /\ Stalled(j).todo = {} /\ Stalled(j).act = 1
        /\ Stalled(j).tries = j.tries /\ Stalled(j).depth = j.depth
    BY <1>2, <1>4 DEF Job
  <2> QED BY <1>1, <2>1, <2>2 DEF Sound, Section
<1> QED BY <1>5, <1>6

\* Going on to another action of the run leaves a sound job.
LEMMA NextAction ==
  ASSUME NEW k, Sound(k), k.pc \in Section,
         NEW b \in BOOLEAN, NEW n \in Nat, n > 0
  PROVE  Sound([k EXCEPT !.bad = b, !.act = n, !.pc = "act", !.seen = Unseen])
<1> DEFINE j == [k EXCEPT !.bad = b, !.act = n, !.pc = "act", !.seen = Unseen]
<1>1. k \in Job
  BY DEF Sound
<1>2. /\ j \in Job /\ j.pc = "act" /\ j.act = n /\ j.todo = k.todo /\ j.depth = k.depth
      /\ j.tries = k.tries /\ j.stalls = k.stalls
  BY <1>1 DEF Job, PCs, Section, Unseen
<1> HIDE DEF j
<1>3. Sound(j)
  BY <1>2 DEF Sound, Section
<1> QED BY <1>3 DEF j

\* So an action that succeeded does.
LEMMA SuccessSound ==
  ASSUME TypeInv, NEW e \in Jobs, jobs[e].pc \in Section
  PROVE  Sound(AfterSuccess(e)) /\ AfterSuccess(e).lost = jobs[e].lost
<1> DEFINE k == jobs[e]
<1>1. Sound(k) /\ k \in Job /\ k.act + 1 \in Nat /\ k.act + 1 > 0 /\ k.bad \in BOOLEAN
  BY DEF TypeInv, Sound, Job
<1>2. AfterSuccess(e) = [k EXCEPT !.bad = k.bad, !.act = k.act + 1, !.pc = "act",
                                  !.seen = Unseen]
  BY <1>1 DEF AfterSuccess, Job
<1>3. Sound([k EXCEPT !.bad = k.bad, !.act = k.act + 1, !.pc = "act", !.seen = Unseen])
  <2>1. k.pc \in Section
    OBVIOUS
  <2> HIDE DEF k
  <2> QED BY <1>1, <2>1, NextAction
<1>4. AfterSuccess(e).lost = k.lost
  BY <1>1 DEF AfterSuccess, Job
<1> QED BY <1>2, <1>3, <1>4

\* A step that starts, skips or ends an attempt leaves sound jobs.
LEMMA AttemptJobs ==
  ASSUME TypeInv, NEW e \in Jobs,
         \/ Begin(e) \/ SkipAutomation(e) \/ SkipUnauthorized(e) \/ LockContact(e)
         \/ LockBusy(e) \/ Finish(e)
  PROVE  \E j : Sound(j) /\ jobs' = [jobs EXCEPT ![e] = j]
<1> DEFINE k == jobs[e]
<1>1. Sound(k) /\ Matching(k.trigger) \in SUBSET Autos
  BY DEF TypeInv, Matching
<1> USE EngineAssumption DEF Job, PCs, Section
<1>2. CASE Begin(e)
  <2>1. Sound([k EXCEPT !.pc = "completed"])
    BY <1>1, <1>2 DEF Sound, Begin
  <2>2. ASSUME k.depth < MaxDepth
        PROVE  Sound([k EXCEPT !.pc = "next", !.todo = Matching(k.trigger)])
    <3> HIDE DEF k
    <3> DEFINE j == [k EXCEPT !.pc = "next", !.todo = Matching(k.trigger)]
    <3>1. /\ j \in Job /\ j.pc = "next" /\ j.depth = k.depth /\ j.act = k.act
          /\ j.tries = k.tries /\ j.stalls = k.stalls
      BY <1>1 DEF Sound
    <3>2. k.pc = "waiting" /\ k.depth \in Nat
      BY <1>1, <1>2 DEF Begin, k, Sound
    <3> QED BY <1>1, <2>2, <3>1, <3>2 DEF Sound
  <2>3. k.depth \in Nat
    BY <1>1 DEF Sound
  <2>4. CASE k.depth >= MaxDepth \/ Matching(k.trigger) = {}
    BY <1>2, <2>1, <2>4 DEF Begin
  <2>5. CASE ~(k.depth >= MaxDepth) /\ Matching(k.trigger) # {}
    <3>1. k.depth < MaxDepth
      BY <2>3, <2>5
    <3>2. jobs' = [jobs EXCEPT ![e] =
                    [k EXCEPT !.pc = "next", !.todo = Matching(k.trigger)]]
      BY <1>2, <2>5 DEF Begin
    <3> QED BY <2>2, <3>1, <3>2
  <2> QED BY <2>4, <2>5
<1>3. CASE SkipAutomation(e) \/ SkipUnauthorized(e)
  <2>1. Sound([k EXCEPT !.todo = Others(e)])
    BY <1>1, <1>3 DEF Sound, SkipAutomation, SkipUnauthorized, Others
  <2> QED BY <1>3, <2>1 DEF SkipAutomation, SkipUnauthorized
<1>4. CASE LockContact(e)
  <2>1. Sound([k EXCEPT !.pc = "act"])
    BY <1>1, <1>4 DEF Sound, LockContact
  <2> QED BY <1>4, <2>1 DEF LockContact
<1>5. CASE LockBusy(e)
  <2>1. Sound(Retry(k))
    BY <1>1, <1>5, RetriedJob DEF LockBusy
  <2> QED BY <1>5, <2>1 DEF LockBusy
<1>6. CASE Finish(e)
  <2>1. Sound([k EXCEPT !.pc = "completed"])
    BY <1>1, <1>6 DEF Sound, Finish
  <2> QED BY <1>6, <2>1 DEF Finish
<1> QED BY <1>2, <1>3, <1>4, <1>5, <1>6

\* A step inside an automation's run leaves a sound job.
LEMMA ActionJobs ==
  ASSUME TypeInv, NEW e \in Jobs,
         \/ SendMessage(e) \/ ReadAssignee(e) \/ ActionFails(e) \/ CountRun(e)
         \/ Pause(e) \/ Unlock(e) \/ CountThrows(e) \/ Stall(e)
  PROVE  \E j : Sound(j) /\ jobs' = [jobs EXCEPT ![e] = j]
<1> DEFINE k == jobs[e]
<1>1. Sound(k) /\ k \in Job /\ Current(e) = First(k.todo)
  BY DEF TypeInv, Sound, Current
<1>2. assignee \in Users \union {NoUser} /\ pending \in BOOLEAN
  BY DEF TypeInv, TypeOK
<1>3. k.pc \in Section => Current(e) \in Autos /\ Len(Actions[Current(e)]) \in Nat
  BY <1>1, FirstInSet, EngineAssumption DEF Sound, Job
<1>4. Unseen \in [assignee : Users \union {NoUser}, pending : BOOLEAN]
  BY DEF Unseen
<1>5. ASSUME k.pc \in Section PROVE Sound(AfterSuccess(e)) /\ Sound(AfterFailure(e))
  <2>1. k.act \in Nat /\ k.bad \in BOOLEAN
    BY <1>1 DEF Job
  <2>2. Sound(AfterSuccess(e))
    BY <1>5, SuccessSound
  <2>3. Sound(AfterFailure(e))
    <3> DEFINE n == IF CurrentAction(e).cont
                    THEN k.act + 1 ELSE Len(Actions[Current(e)]) + 1
    <3>1. n \in Nat /\ n > 0
      BY <1>3, <1>5, <2>1
    <3>2. AfterFailure(e) = [k EXCEPT !.bad = TRUE, !.act = n, !.pc = "act",
                                      !.seen = Unseen]
      BY DEF AfterFailure
    <3> HIDE DEF n, k
    <3>3. Sound([k EXCEPT !.bad = TRUE, !.act = n, !.pc = "act", !.seen = Unseen])
      BY <1>1, <1>5, <3>1, NextAction
    <3> QED BY <3>2, <3>3
  <2> QED BY <2>2, <2>3
<1>6. CASE SendMessage(e) \/ ActionFails(e)
  BY <1>5, <1>6 DEF SendMessage, ActionFails, Section
<1>7. CASE ReadAssignee(e)
  <2>1. Sound([k EXCEPT !.pc = "apply",
                        !.seen = [assignee |-> assignee, pending |-> pending]])
    BY <1>1, <1>2, <1>7 DEF ReadAssignee, ActionsLeft, Sound, Job, PCs, Section
  <2> QED BY <1>5, <1>7, <2>1 DEF ReadAssignee, Section
<1>8. CASE CountRun(e)
  <2>1. Sound([k EXCEPT !.pc = "pause"]) /\ Sound([k EXCEPT !.pc = "unlock"])
    BY <1>1, <1>8 DEF CountRun, RunEnded, Sound, Job, PCs, Section
  <2> QED BY <1>8, <2>1 DEF CountRun
<1>9. CASE Pause(e)
  <2>1. Sound([k EXCEPT !.pc = "unlock"])
    BY <1>1, <1>9 DEF Pause, Sound, Job, PCs, Section
  <2> QED BY <1>9, <2>1 DEF Pause
<1>10. CASE Unlock(e)
  <2>1. Sound([Cleared(k) EXCEPT !.pc = "next", !.todo = Others(e)])
    <3> DEFINE c == Cleared(k)
               j == [c EXCEPT !.pc = "next", !.todo = Others(e)]
    <3>1. Others(e) \in SUBSET Autos
      BY <1>1 DEF Others, Job
    <3>2. /\ c \in Job /\ c.act = 1 /\ c.tries = k.tries /\ c.stalls = k.stalls
          /\ c.depth = k.depth
      BY <1>1, ClearedJob
    <3> HIDE DEF c
    <3>3. /\ j \in Job /\ j.pc = "next" /\ j.act = 1 /\ j.tries = k.tries
          /\ j.stalls = k.stalls /\ j.depth = k.depth
      BY <3>1, <3>2 DEF Job, PCs
    <3>4. k.pc = "unlock"
      BY <1>10 DEF Unlock
    <3> HIDE DEF j, k
    <3>5. Sound(j)
      BY <1>1, <3>3, <3>4 DEF Sound, Section
    <3> QED BY <3>5 DEF j, c
  <2> QED BY <1>10, <2>1 DEF Unlock
<1>11. CASE CountThrows(e) \/ Stall(e)
  <2>1. k.pc \notin {"completed", "failed"}
    BY <1>11 DEF CountThrows, RunEnded, Stall, Section
  <2> QED BY <1>1, <1>11, <2>1, RetriedJob DEF CountThrows, Stall
<1> QED BY <1>6, <1>7, <1>8, <1>9, <1>10, <1>11

\* A job whose lock ran out is still sound.
LEMMA ExpiredJob ==
  ASSUME TypeInv, ExpireLock
  PROVE  /\ lock \in Jobs
         /\ \E j : Sound(j) /\ jobs' = [jobs EXCEPT ![lock] = j]
                  /\ j = [jobs[lock] EXCEPT !.lost = InSection(lock)]
<1>1. lock \in Jobs
  BY DEF TypeInv, TypeOK, ExpireLock, Jobs
<1>2. InSection(lock) \in BOOLEAN
  BY DEF InSection
<1>3. Sound([jobs[lock] EXCEPT !.lost = InSection(lock)])
  BY <1>1, <1>2 DEF TypeInv, Sound, Job
<1> QED BY <1>1, <1>3 DEF ExpireLock

\* What a step that touches job e alone leaves of the jobs: they keep their
\* places, the others stay as they are, and those it emits wait.
Touches(e) ==
  /\ jobs' \in Seq(Job)
  /\ Len(jobs) <= Len(jobs')
  /\ \A f \in Jobs' : Sound(jobs'[f])
  /\ \A f \in Jobs : f # e => jobs'[f] = jobs[f]
  /\ \A f \in Jobs' : f \notin Jobs => jobs'[f].pc = "waiting"

\* An event emitted within the cap starts a sound job.
LEMMA EmittedJob ==
  ASSUME NEW t \in Triggers, NEW d \in Nat, NEW path \in SUBSET Autos, d <= MaxDepth
  PROVE  Sound(NewJob(t, d, path)) /\ NewJob(t, d, path).pc = "waiting"
<1> DEFINE j == NewJob(t, d, path)
<1>1. /\ j \in Job /\ j.pc = "waiting" /\ j.tries = 0 /\ j.stalls = 0 /\ j.depth = d
      /\ j.act = 1
  BY NewJobType
<1> HIDE DEF j
<1>2. Sound(j) /\ j.pc = "waiting"
  BY <1>1, EngineAssumption DEF Sound, Section
<1> QED BY <1>2 DEF j

\* Jobs that are emitted go to the end of the queue.
LEMMA AppendedJobs ==
  ASSUME TypeInv, NEW e \in Jobs, NEW j, Sound(j),
         NEW t \in Seq(Job), \A i \in 1..Len(t) : Sound(t[i]) /\ t[i].pc = "waiting",
         jobs' = [jobs EXCEPT ![e] = j] \o t
  PROVE  Touches(e)
<1> DEFINE s == [jobs EXCEPT ![e] = j]
<1>1. jobs \in Seq(Job) /\ j \in Job
  BY DEF TypeInv, TypeOK, Sound
<1>2. /\ s \in Seq(Job) /\ Len(s) = Len(jobs)
      /\ \A f \in 1..Len(s) : s[f] = IF f = e THEN j ELSE jobs[f]
  BY <1>1, Replaced DEF Jobs
<1>3. \A f \in 1..Len(s) : Sound(s[f])
  BY <1>2 DEF TypeInv, Jobs
<1> HIDE DEF s
<1>4. /\ jobs' \in Seq(Job) /\ Len(jobs') = Len(s) + Len(t)
      /\ \A f \in 1..Len(jobs') :
            jobs'[f] = IF f <= Len(s) THEN s[f] ELSE t[f - Len(s)]
  BY <1>2 DEF s
<1>5. Len(s) \in Nat /\ Len(t) \in Nat
  BY <1>2
<1>6. ASSUME NEW f \in 1..Len(jobs'), f > Len(s)
      PROVE  Sound(jobs'[f]) /\ jobs'[f].pc = "waiting"
  BY <1>4, <1>5, <1>6
<1>7. ASSUME NEW f \in 1..Len(jobs'), f <= Len(s)
      PROVE  f \in 1..Len(s) /\ jobs'[f] = s[f] /\ Sound(jobs'[f])
  BY <1>3, <1>4, <1>5, <1>7
<1>8. \A f \in Jobs' : Sound(jobs'[f])
  BY <1>4, <1>5, <1>6, <1>7 DEF Jobs
<1>9. \A f \in Jobs : f # e => jobs'[f] = jobs[f]
  BY <1>2, <1>4, <1>5 DEF Jobs
<1>10. \A f \in Jobs' : f \notin Jobs => jobs'[f].pc = "waiting"
  BY <1>2, <1>4, <1>5, <1>6 DEF Jobs
<1>11. Len(jobs) <= Len(jobs')
  BY <1>2, <1>4, <1>5
<1> QED BY <1>4, <1>8, <1>9, <1>10, <1>11 DEF Touches

\* Every step of a job touches that job alone.
LEMMA StepTouches ==
  ASSUME TypeInv, NEW e \in Jobs, JobStep(e) \/ Stall(e)
  PROVE  Touches(e)
<1>1. ASSUME NEW j, Sound(j), jobs' = [jobs EXCEPT ![e] = j] PROVE Touches(e)
  <2>1. /\ jobs' \in Seq(Job)
        /\ Len(jobs') = Len(jobs)
        /\ \A f \in Jobs : jobs'[f] = IF f = e THEN j ELSE jobs[f]
        /\ \A f \in Jobs' : Sound(jobs'[f])
    BY <1>1, OneJob
  <2>2. Jobs' = Jobs
    BY <2>1 DEF Jobs
  <2>3. Len(jobs) <= Len(jobs')
    BY <2>1 DEF TypeInv, TypeOK
  <2> QED BY <2>1, <2>2, <2>3 DEF Touches
<1>2. CASE ApplyAssign(e)
  <2> DEFINE k == jobs[e]
             a == NewJob("ASSIGNED", k.depth + 1, k.path \union {Current(e)})
             b == NewJob("STATUS", k.depth + 1, k.path \union {Current(e)})
             t == <<a>> \o IF k.seen.pending THEN <<b>> ELSE <<>>
  <2>1. Sound(k) /\ k \in Job /\ k.pc = "apply" /\ k.depth \in Nat
    BY <1>2 DEF TypeInv, ApplyAssign, Sound, Job
  <2>2. k.depth + 1 \in Nat /\ k.depth + 1 <= MaxDepth
    BY <2>1, EngineAssumption DEF Sound
  <2>3. k.path \union {Current(e)} \in SUBSET Autos
    BY <2>1, FirstInSet DEF Sound, Job, Section, Current
  <2>4. Sound(a) /\ a.pc = "waiting" /\ Sound(b) /\ b.pc = "waiting"
    BY <2>2, <2>3, EmittedJob DEF Triggers
  <2>5. Sound(AfterSuccess(e))
    BY <2>1, SuccessSound DEF Section
  <2>6. a \in Job /\ b \in Job
    BY <2>4 DEF Sound
  <2>7. jobs' = [jobs EXCEPT ![e] = AfterSuccess(e)] \o t
    <3> DEFINE s == [jobs EXCEPT ![e] = AfterSuccess(e)]
               u == IF k.seen.pending THEN <<b>> ELSE <<>>
    <3>1. s \in Seq(Job)
      BY <2>5, OneJobType
    <3>2. <<a>> \in Seq(Job) /\ u \in Seq(Job)
      BY <2>6
    <3>3. jobs' = (s \o <<a>>) \o u
      BY <1>2 DEF ApplyAssign
    <3> HIDE DEF s, u
    <3>4. (s \o <<a>>) \o u = s \o (<<a>> \o u)
      BY <3>1, <3>2, ConcatAssociative
    <3> QED BY <3>3, <3>4 DEF s, u
  <2> HIDE DEF a, b
  <2>8. t \in Seq(Job) /\ \A i \in 1..Len(t) : Sound(t[i]) /\ t[i].pc = "waiting"
    BY <2>4, <2>6
  <2> HIDE DEF t
  <2> QED BY <2>5, <2>7, <2>8, AppendedJobs
<1> QED BY <1>1, <1>2, AttemptJobs, ActionJobs DEF JobStep

\* The messages that were queued stay typed while the jobs grow in number.
LEMMA SentGrows ==
  ASSUME NEW n \in Nat, NEW m \in Nat, n <= m,
         NEW q \in Seq((1..n) \X Autos \X Nat)
  PROVE  q \in Seq((1..m) \X Autos \X Nat)
<1>1. (1..n) \X Autos \X Nat \subseteq (1..m) \X Autos \X Nat
  <2>1. 1..n \subseteq 1..m
    OBVIOUS
  <2> QED BY <2>1
<1> QED BY <1>1

\* The action a job points at, while there is one, is one of its automation's.
LEMMA ActionType ==
  ASSUME TypeInv, NEW e \in Jobs, jobs[e].pc \in Section
  PROVE  /\ Current(e) \in Autos
         /\ ActionsLeft(e) => CurrentAction(e) \in Action
<1>1. Sound(jobs[e])
  BY DEF TypeInv
<1>2. Current(e) \in Autos /\ jobs[e].act \in Nat \ {0}
  BY <1>1, FirstInSet DEF Sound, Current, Job
<1> QED BY <1>2, EngineAssumption DEF ActionsLeft, CurrentAction

\* Every step of a job keeps the types.
LEMMA StepType ==
  ASSUME TypeInv, NEW e \in Jobs, JobStep(e) \/ Stall(e)
  PROVE  TypeInv'
<1> DEFINE k == jobs[e]
<1>1. /\ jobs \in Seq(Job) /\ lock \in 0..Len(jobs) /\ Len(jobs) \in Nat
      /\ auto \in [Autos -> [enabled : BOOLEAN, failures : Nat]]
      /\ assignee \in Users \union {NoUser} /\ pending \in BOOLEAN
      /\ sent \in Seq((1..Len(jobs)) \X Autos \X Nat)
      /\ interrupted \subseteq Autos /\ inputs \in 0..MaxInputs
  BY DEF TypeInv, TypeOK
<1>2. /\ jobs' \in Seq(Job) /\ Len(jobs) <= Len(jobs') /\ Len(jobs') \in Nat
      /\ \A f \in Jobs' : Sound(jobs'[f])
  BY StepTouches DEF Touches
<1>3. k \in Job /\ Sound(k)
  BY DEF TypeInv, Sound
<1>4. k.todo # {} => Current(e) \in Autos
  BY <1>3, FirstInSet DEF Job, Current
<1>5. k.pc \in Section => k.todo # {}
  BY <1>3 DEF Sound
<1>6. lock' \in 0..Len(jobs')
  <2>1. lock' \in {lock, e, 0}
    BY DEF JobStep, Stall, Begin, SkipAutomation, SkipUnauthorized, LockContact, LockBusy,
           Finish, SendMessage, ReadAssignee, ApplyAssign, ActionFails, CountRun, Pause,
           Unlock, CountThrows
  <2> QED BY <1>1, <1>2, <2>1 DEF Jobs
<1>7. auto' \in [Autos -> [enabled : BOOLEAN, failures : Nat]]
  <2>1. CASE UNCHANGED auto
    BY <1>1, <2>1
  <2>2. CASE SkipUnauthorized(e) \/ Pause(e)
    BY <1>1, <2>2 DEF SkipUnauthorized, Pause
  <2>3. CASE CountRun(e)
    <3>1. Current(e) \in Autos
      BY <1>4, <1>5, <2>3 DEF CountRun, RunEnded, Section
    <3> DEFINE n == IF k.bad THEN auto[Current(e)].failures + 1 ELSE 0
    <3>2. n \in Nat
      BY <1>1, <3>1
    <3>3. auto' = [auto EXCEPT ![Current(e)].failures = n]
      BY <2>3 DEF CountRun
    <3> HIDE DEF n
    <3> QED BY <1>1, <3>1, <3>2, <3>3
  <2> QED BY <2>1, <2>2, <2>3
          DEF JobStep, Stall, Begin, SkipAutomation, LockContact, LockBusy, Finish,
              SendMessage, ReadAssignee, ApplyAssign, ActionFails, Unlock, CountThrows
<1>8. assignee' \in Users \union {NoUser} /\ pending' \in BOOLEAN
  <2>1. CASE UNCHANGED <<assignee, pending>>
    BY <1>1, <2>1
  <2>2. CASE ApplyAssign(e)
    <3>1. k.pc = "apply"
      BY <2>2 DEF ApplyAssign
    <3>2. ActionsLeft(e)
      BY <1>3, <3>1 DEF Sound, ActionsLeft, Current
    <3>3. CurrentAction(e) \in Action
      BY <3>1, <3>2, ActionType DEF Section
    <3> QED BY <2>2, <3>3 DEF ApplyAssign, Action
  <2> QED BY <2>1, <2>2
          DEF JobStep, Stall, Begin, SkipAutomation, SkipUnauthorized, LockContact, LockBusy,
              Finish, SendMessage, ReadAssignee, ActionFails, CountRun, Pause, Unlock,
              CountThrows
<1>9. sent' \in Seq((1..Len(jobs')) \X Autos \X Nat)
  <2>1. sent \in Seq((1..Len(jobs')) \X Autos \X Nat)
    BY <1>1, <1>2, SentGrows
  <2>2. CASE UNCHANGED sent
    BY <2>1, <2>2
  <2>3. CASE SendMessage(e)
    <3>1. <<e, Current(e), k.act>> \in (1..Len(jobs')) \X Autos \X Nat
      <4>1. e \in 1..Len(jobs')
        BY <1>1, <1>2 DEF Jobs
      <4>2. Current(e) \in Autos
        BY <1>4, <1>5, <2>3 DEF SendMessage, Section
      <4>3. k.act \in Nat
        BY <1>3 DEF Job
      <4> QED BY <4>1, <4>2, <4>3
    <3>2. sent' = Append(sent, <<e, Current(e), k.act>>)
      BY <2>3 DEF SendMessage
    <3> QED BY <2>1, <3>1, <3>2
  <2> QED BY <2>2, <2>3
          DEF JobStep, Stall, Begin, SkipAutomation, SkipUnauthorized, LockContact, LockBusy,
              Finish, ReadAssignee, ApplyAssign, ActionFails, CountRun, Pause, Unlock,
              CountThrows
<1>10. interrupted' \subseteq Autos
  <2>1. CASE UNCHANGED interrupted
    BY <1>1, <2>1
  <2>2. CASE CountThrows(e) \/ Stall(e)
    BY <1>1, <1>4, <1>5, <2>2 DEF CountThrows, Stall, Section
  <2> QED BY <2>1, <2>2
          DEF JobStep, Begin, SkipAutomation, SkipUnauthorized, LockContact, LockBusy,
              Finish, SendMessage, ReadAssignee, ApplyAssign, ActionFails, CountRun, Pause,
              Unlock
<1>11. inputs' = inputs
  BY DEF JobStep, Stall, Begin, SkipAutomation, SkipUnauthorized, LockContact, LockBusy,
         Finish, SendMessage, ReadAssignee, ApplyAssign, ActionFails, CountRun, Pause,
         Unlock, CountThrows
<1> QED BY <1>1, <1>2, <1>6, <1>7, <1>8, <1>9, <1>10, <1>11 DEF TypeInv, TypeOK

\* Everything the executor keeps stays of its type, whatever the automations,
\* the users and the limits are.
THEOREM TypeInvCorrect == Spec => []TypeInv
<1>1. Init => TypeInv
  BY EngineAssumption DEF Init, TypeInv, TypeOK, Jobs
<1>2. TypeInv /\ [Next]_vars => TypeInv'
  <2> SUFFICES ASSUME TypeInv, [Next]_vars PROVE TypeInv'
    OBVIOUS
  <2>1. /\ jobs \in Seq(Job) /\ lock \in 0..Len(jobs) /\ Len(jobs) \in Nat
        /\ auto \in [Autos -> [enabled : BOOLEAN, failures : Nat]]
        /\ assignee \in Users \union {NoUser} /\ pending \in BOOLEAN
        /\ sent \in Seq((1..Len(jobs)) \X Autos \X Nat)
        /\ interrupted \subseteq Autos /\ inputs \in 0..MaxInputs
    BY DEF TypeInv, TypeOK
  <2>2. CASE EmitRoot
    <3>1. PICK t \in Triggers : jobs' = Append(jobs, NewJob(t, 0, {}))
      BY <2>2 DEF EmitRoot, Triggers
    <3> DEFINE j == NewJob(t, 0, {})
    <3>2. Sound(j) /\ j \in Job
      BY EmittedJob, EngineAssumption DEF Sound
    <3> HIDE DEF j
    <3>3. /\ jobs' \in Seq(Job) /\ Len(jobs') = Len(jobs) + 1
          /\ \A f \in 1..Len(jobs') : jobs'[f] = IF f <= Len(jobs) THEN jobs[f] ELSE j
      BY <2>1, <3>1, <3>2 DEF j
    <3>4. \A f \in Jobs' : Sound(jobs'[f])
      BY <2>1, <3>2, <3>3 DEF Jobs, TypeInv
    <3>5. sent \in Seq((1..Len(jobs')) \X Autos \X Nat)
      BY <2>1, <3>3, SentGrows
    <3> QED BY <2>1, <2>2, <3>3, <3>4, <3>5, EngineAssumption DEF EmitRoot, TypeInv, TypeOK
  <2>3. CASE ExpireLock
    <3>1. PICK j : Sound(j) /\ jobs' = [jobs EXCEPT ![lock] = j]
      BY <2>3, ExpiredJob
    <3>2. lock \in Jobs
      BY <2>3, ExpiredJob
    <3>3. /\ jobs' \in Seq(Job) /\ Len(jobs') = Len(jobs)
          /\ \A f \in Jobs' : Sound(jobs'[f])
      BY <3>1, <3>2, OneJob
    <3>4. lock' \in 0..Len(jobs')
      BY <2>1, <2>3, <3>3 DEF ExpireLock
    <3>5. UNCHANGED <<auto, assignee, pending, sent, interrupted, inputs>>
      BY <2>3 DEF ExpireLock
    <3>6. sent' \in Seq((1..Len(jobs')) \X Autos \X Nat)
      BY <2>1, <3>3, <3>5
    <3> QED BY <2>1, <3>3, <3>4, <3>5, <3>6 DEF TypeInv, TypeOK
  <2>4. CASE \E a \in Autos : Toggle(a)
    <3>1. PICK a \in Autos : Toggle(a)
      BY <2>4
    <3> DEFINE r == IF auto[a].enabled THEN [auto[a] EXCEPT !.enabled = FALSE]
                    ELSE [enabled |-> TRUE, failures |-> 0]
    <3>2. r \in [enabled : BOOLEAN, failures : Nat]
      BY <2>1
    <3>3. auto' = [auto EXCEPT ![a] = r]
      BY <2>1, <3>1 DEF Toggle
    <3> HIDE DEF r
    <3>4. auto' \in [Autos -> [enabled : BOOLEAN, failures : Nat]]
      BY <2>1, <3>2, <3>3
    <3>5. inputs' \in 0..MaxInputs
      BY <2>1, <3>1, EngineAssumption DEF Toggle
    <3>6. UNCHANGED <<jobs, lock, assignee, pending, sent, interrupted>>
      BY <3>1 DEF Toggle
    <3>7. TypeOK'
      BY <2>1, <3>4, <3>5, <3>6 DEF TypeOK
    <3> QED BY <3>6, <3>7 DEF TypeInv, Jobs
  <2>5. CASE \E e \in Jobs : JobStep(e) \/ Stall(e)
    BY <2>5, StepType
  <2>6. CASE UNCHANGED vars
    BY <2>6 DEF vars, TypeInv, TypeOK, Jobs
  <2> QED BY <2>2, <2>3, <2>4, <2>5, <2>6 DEF Next
<1> QED BY <1>1, <1>2, PTL DEF Spec

\* Type correctness.
THEOREM TypeCorrect == Spec => []TypeOK
<1>1. TypeInv => TypeOK
  BY DEF TypeInv
<1> QED BY <1>1, TypeInvCorrect, PTL

\* Cascades are bounded: no event is deeper than the cap, and those at the cap
\* run no automation.
THEOREM CascadeBoundedCorrect == Spec => []CascadeBounded
<1>1. TypeInv => CascadeBounded
  BY DEF TypeInv, Sound, CascadeBounded, InSection, Section
<1> QED BY <1>1, TypeInvCorrect, PTL

-----------------------------------------------------------------------------
(* The contact's lock *)

\* An attempt goes on from k to n, with the tries and stalls it had.
SameAttempt(k, n) == n.tries = k.tries /\ n.stalls = k.stalls

\* What a step makes of its job: it begins, goes through the list, takes the
\* lock, moves inside an automation's run, ends that run, or loses the attempt.
LEMMA JobAfter ==
  ASSUME TypeInv, NEW e \in Jobs, JobStep(e) \/ Stall(e),
         NEW k, k = jobs[e], NEW n, n = jobs'[e]
  PROVE  \/ /\ k.pc = "waiting" /\ n.pc \in {"next", "completed"}
            /\ SameAttempt(k, n)
         \/ /\ k.pc = "next" /\ n.pc \in {"next", "completed"}
            /\ n.todo \subseteq k.todo /\ SameAttempt(k, n)
         \/ /\ LockContact(e) /\ k.pc = "next" /\ n.pc = "act"
            /\ n.todo = k.todo /\ SameAttempt(k, n)
         \/ /\ k.pc \in Section /\ n.pc \in Section /\ n.todo = k.todo
            /\ n.act >= k.act /\ (SendMessage(e) => n.act > k.act)
            /\ SameAttempt(k, n) /\ n.lost = k.lost /\ lock' = lock
         \/ /\ k.pc \in Section /\ n.pc = "next" /\ n.todo = Others(e)
            /\ SameAttempt(k, n)
         \/ /\ n.pc \in {"waiting", "failed"} /\ (n.tries > 0 \/ n.stalls > 0)
<1>1. /\ Sound(k) /\ k \in Job /\ jobs \in Seq(Job)
      /\ \A j : [jobs EXCEPT ![e] = j][e] = j
  BY DEF TypeInv, TypeOK, Sound, Jobs
<1> USE DEF Section, SameAttempt
<1>2. CASE Begin(e)
  <2>1. n = [k EXCEPT !.pc = "completed"]
        \/ n = [k EXCEPT !.pc = "next", !.todo = Matching(k.trigger)]
    BY <1>1, <1>2 DEF Begin
  <2>2. k.pc = "waiting"
    BY <1>2 DEF Begin
  <2> QED BY <1>1, <2>1, <2>2 DEF Job
<1>3. CASE SkipAutomation(e) \/ SkipUnauthorized(e)
  <2>1. n = [k EXCEPT !.todo = Others(e)] /\ k.pc = "next"
    BY <1>1, <1>3 DEF SkipAutomation, SkipUnauthorized
  <2> QED BY <1>1, <2>1 DEF Job, Others
<1>4. CASE Finish(e)
  <2>1. n = [k EXCEPT !.pc = "completed"] /\ k.pc = "next"
    BY <1>1, <1>4 DEF Finish
  <2> QED BY <1>1, <2>1 DEF Job
<1>5. CASE LockContact(e)
  <2>1. n = [k EXCEPT !.pc = "act"] /\ k.pc = "next"
    BY <1>1, <1>5 DEF LockContact
  <2> QED BY <1>1, <1>5, <2>1 DEF Job
<1>6. CASE LockBusy(e) \/ CountThrows(e) \/ Stall(e)
  <2>1. k.pc \notin {"completed", "failed"}
    BY <1>6 DEF LockBusy, CountThrows, RunEnded, Stall
  <2>2. n = Retry(k) \/ n = Stalled(k)
    BY <1>1, <1>6 DEF LockBusy, CountThrows, Stall
  <2> QED BY <1>1, <2>1, <2>2, RetriedJob
<1>7. ASSUME n = AfterSuccess(e)
      PROVE  /\ n.pc = "act" /\ n.todo = k.todo /\ n.act > k.act /\ n.act >= k.act
             /\ SameAttempt(k, n) /\ n.lost = k.lost
  BY <1>1, <1>7 DEF AfterSuccess, Job
<1>8. CASE SendMessage(e)
  <2>1. n = AfterSuccess(e) /\ k.pc = "act" /\ lock' = lock
    BY <1>1, <1>8 DEF SendMessage
  <2> QED BY <1>7, <2>1
<1>9. CASE ActionFails(e)
  <2>1. n = AfterFailure(e) /\ k.pc \in Section /\ lock' = lock
    BY <1>1, <1>9 DEF ActionFails
  <2> DEFINE m == IF CurrentAction(e).cont THEN k.act + 1 ELSE Len(Actions[Current(e)]) + 1
  <2>2. n = [k EXCEPT !.bad = TRUE, !.act = m, !.pc = "act", !.seen = Unseen]
    BY <2>1 DEF AfterFailure
  <2>3. Current(e) \in Autos
    BY <2>1, ActionType
  <2>4. k.act \in Nat /\ Len(Actions[Current(e)]) \in Nat
    <3>1. Actions[Current(e)] \in Seq(Action)
      BY <2>3, EngineAssumption
    <3>2. k.act \in Nat
      BY <1>1 DEF Job
    <3> QED BY <3>1, <3>2
  <2>5. k.act <= Len(Actions[Current(e)])
    BY <1>9 DEF ActionFails, ActionsLeft
  <2>6. m > k.act /\ m >= k.act
    BY <2>4, <2>5
  <2> HIDE DEF m
  <2>7. /\ n.pc = "act" /\ n.todo = k.todo /\ n.act = m /\ SameAttempt(k, n)
        /\ n.lost = k.lost
    BY <1>1, <2>2 DEF Job
  <2> QED BY <2>1, <2>6, <2>7
<1>10. CASE ReadAssignee(e)
  <2>1. k.pc = "act" /\ lock' = lock /\ ~SendMessage(e)
    BY <1>10 DEF ReadAssignee, SendMessage
  <2>2. CASE assignee = CurrentAction(e).user
    <3>1. n = AfterSuccess(e)
      BY <1>1, <1>10, <2>2 DEF ReadAssignee
    <3> QED BY <1>7, <2>1, <3>1
  <2>3. CASE assignee # CurrentAction(e).user
    <3>1. n = [k EXCEPT !.pc = "apply",
                        !.seen = [assignee |-> assignee, pending |-> pending]]
      BY <1>1, <1>10, <2>3 DEF ReadAssignee
    <3> QED BY <1>1, <2>1, <3>1 DEF Job
  <2> QED BY <2>2, <2>3
<1>11. CASE ApplyAssign(e)
  <2>1. k.pc = "apply" /\ lock' = lock /\ ~SendMessage(e)
    BY <1>11 DEF ApplyAssign, SendMessage
  <2> DEFINE s == [jobs EXCEPT ![e] = AfterSuccess(e)]
  <2>2. s \in Seq(Job) /\ s[e] = AfterSuccess(e) /\ e \in 1..Len(s)
    <3>1. AfterSuccess(e) \in Job
      BY <2>1, SuccessSound DEF Sound
    <3> QED BY <1>1, <3>1, Replaced DEF Jobs
  <2>3. PICK a \in Job, u \in Seq(Job) : jobs' = (s \o <<a>>) \o u
    <3> DEFINE hop(t) == NewJob(t, k.depth + 1, k.path \union {Current(e)})
    <3>1. Current(e) \in Autos
      BY <2>1, ActionType
    <3>2. k.depth + 1 \in Nat /\ k.path \union {Current(e)} \in SUBSET Autos
      BY <1>1, <3>1 DEF Job
    <3>3. hop("ASSIGNED") \in Job /\ hop("STATUS") \in Job
      BY <3>2, NewJobType DEF Triggers
    <3>4. jobs' = (s \o <<hop("ASSIGNED")>>)
                   \o IF k.seen.pending THEN <<hop("STATUS")>> ELSE <<>>
      BY <1>11 DEF ApplyAssign
    <3>5. (IF k.seen.pending THEN <<hop("STATUS")>> ELSE <<>>) \in Seq(Job)
      BY <3>3
    <3> HIDE DEF hop, s
    <3> QED BY <3>3, <3>4, <3>5
  <2> HIDE DEF s
  <2>4. n = AfterSuccess(e)
    BY <2>2, <2>3
  <2> QED BY <1>7, <2>1, <2>4
<1>12. CASE CountRun(e) \/ Pause(e)
  <2>1. n = [k EXCEPT !.pc = "pause"] \/ n = [k EXCEPT !.pc = "unlock"]
    BY <1>1, <1>12 DEF CountRun, Pause
  <2>2. k.pc \in Section /\ lock' = lock
    BY <1>12 DEF CountRun, RunEnded, Pause
  <2>3. ~SendMessage(e)
    BY <1>12 DEF CountRun, RunEnded, Pause, SendMessage
  <2>4. /\ n.pc \in {"pause", "unlock"} /\ n.todo = k.todo /\ n.act = k.act
        /\ SameAttempt(k, n) /\ n.lost = k.lost
    BY <1>1, <2>1 DEF Job
  <2>5. k.act >= k.act
    BY <1>1 DEF Job
  <2> QED BY <2>2, <2>3, <2>4, <2>5
<1>13. CASE Unlock(e)
  <2>1. n = [Cleared(k) EXCEPT !.pc = "next", !.todo = Others(e)] /\ k.pc = "unlock"
    BY <1>1, <1>13 DEF Unlock
  <2> QED BY <1>1, <2>1, ClearedJob DEF Job
<1> QED BY <1>2, <1>3, <1>4, <1>5, <1>6, <1>8, <1>9, <1>10, <1>11, <1>12, <1>13 DEF JobStep

\* While a job runs actions it holds the contact's lock, unless the lock's TTL
\* ran out under it: a release never takes the lock from another job.
THEOREM SectionIsLockedCorrect == Spec => []SectionIsLocked
<1>1. Init => SectionIsLocked
  BY DEF Init, SectionIsLocked, Jobs
<1>2. TypeInv /\ SectionIsLocked /\ [Next]_vars => SectionIsLocked'
  <2> SUFFICES ASSUME TypeInv, SectionIsLocked, [Next]_vars PROVE SectionIsLocked'
    OBVIOUS
  <2>1. jobs \in Seq(Job) /\ Len(jobs) \in Nat
    BY DEF TypeInv, TypeOK
  <2>2. CASE EmitRoot
    <3>1. PICK t \in Triggers : jobs' = Append(jobs, NewJob(t, 0, {}))
      BY <2>2 DEF EmitRoot, Triggers
    <3> DEFINE j == NewJob(t, 0, {})
    <3>2. j.pc = "waiting" /\ j \in Job
      BY EmittedJob, EngineAssumption DEF Sound
    <3> HIDE DEF j
    <3>3. \A f \in Jobs' : jobs'[f] = j \/ (f \in Jobs /\ jobs'[f] = jobs[f])
      BY <2>1, <3>1, <3>2 DEF Jobs, j
    <3> QED BY <2>2, <3>2, <3>3 DEF EmitRoot, SectionIsLocked, InSection, Section
  <2>3. CASE ExpireLock
    <3>1. PICK j : /\ Sound(j) /\ jobs' = [jobs EXCEPT ![lock] = j]
                   /\ j = [jobs[lock] EXCEPT !.lost = InSection(lock)]
      BY <2>3, ExpiredJob
    <3>2. lock \in Jobs /\ jobs[lock] \in Job
      BY <2>3, ExpiredJob DEF TypeInv, Sound
    <3>3. /\ Len(jobs') = Len(jobs)
          /\ \A f \in Jobs : jobs'[f] = IF f = lock THEN j ELSE jobs[f]
      <4>1. jobs' = [jobs EXCEPT ![lock] = j] /\ Sound(j)
        BY <3>1
      <4> QED BY <3>2, <4>1, OneJob
    <3>4. Jobs' = Jobs /\ j.lost = InSection(lock) /\ j.pc = jobs[lock].pc
      BY <3>1, <3>2, <3>3 DEF Jobs, Job
    <3>5. ASSUME NEW f \in Jobs, jobs'[f].pc \in Section
          PROVE  lock' = f \/ jobs'[f].lost
      <4>1. CASE f = lock
        BY <3>3, <3>4, <3>5, <4>1 DEF InSection
      <4>2. CASE f # lock
        BY <3>3, <3>5, <4>2 DEF SectionIsLocked, InSection
      <4> QED BY <4>1, <4>2
    <3> QED BY <3>4, <3>5 DEF SectionIsLocked, InSection
  <2>4. CASE \E a \in Autos : Toggle(a)
    BY <2>4 DEF Toggle, SectionIsLocked, Jobs, InSection
  <2>5. CASE \E e \in Jobs : JobStep(e) \/ Stall(e)
    <3>1. PICK e \in Jobs : JobStep(e) \/ Stall(e)
      BY <2>5
    <3>2. Touches(e)
      BY <3>1, StepTouches
    <3>3. ASSUME NEW f \in Jobs', jobs'[f].pc \in Section
          PROVE  lock' = f \/ jobs'[f].lost
      <4>1. f \in Jobs
        BY <3>2, <3>3 DEF Touches, Section
      <4>2. CASE LockContact(e)
        <5>1. lock = 0 /\ lock' = e
          BY <4>2 DEF LockContact
        <5>2. CASE f # e
          BY <2>1, <3>2, <3>3, <4>1, <5>1, <5>2
             DEF Touches, SectionIsLocked, InSection, Jobs
        <5> QED BY <5>1, <5>2
      <4>3. CASE ~LockContact(e) /\ f = e
        <5>1. /\ jobs[e].pc \in Section /\ jobs'[e].lost = jobs[e].lost
              /\ lock' = lock
          BY <3>1, <3>3, <4>3, JobAfter DEF Section
        <5> QED BY <4>1, <4>3, <5>1 DEF SectionIsLocked, InSection
      <4>4. CASE ~LockContact(e) /\ f # e
        <5>1. jobs'[f] = jobs[f]
          BY <3>2, <4>1, <4>4 DEF Touches
        <5>2. lock = f \/ jobs[f].lost
          BY <3>3, <4>1, <5>1 DEF SectionIsLocked, InSection
        <5>3. lock = f => lock' = f
          BY <3>1, <4>4
             DEF JobStep, Stall, Begin, SkipAutomation, SkipUnauthorized, LockBusy, Finish,
                 SendMessage, ReadAssignee, ApplyAssign, ActionFails, CountRun, Pause,
                 Unlock, CountThrows
        <5> QED BY <5>1, <5>2, <5>3
      <4> QED BY <4>2, <4>3, <4>4
    <3> QED BY <3>3 DEF SectionIsLocked, InSection
  <2>6. CASE UNCHANGED vars
    BY <2>6 DEF vars, SectionIsLocked, Jobs, InSection
  <2> QED BY <2>2, <2>3, <2>4, <2>5, <2>6 DEF Next
<1> QED BY <1>1, <1>2, TypeInvCorrect, PTL DEF Spec

-----------------------------------------------------------------------------
(* The ladder of failures *)

\* An automation at the top of the ladder that still runs.
Climbed(a) == auto[a].enabled /\ auto[a].failures >= MaxFailures

\* A run counts a failure at the limit and goes to pause its automation.
LEMMA CountedIsPaused ==
  ASSUME TypeInv, NEW e \in Jobs, CountRun(e)
  PROVE  /\ Current(e) \in Autos
         /\ jobs'[e].todo = jobs[e].todo
         /\ \/ auto'[Current(e)].failures = 0
            \/ jobs'[e].pc = "pause"
            \/ auto'[Current(e)].failures < MaxFailures
         /\ \A a \in Autos : a # Current(e) => auto'[a] = auto[a]
<1> DEFINE k == jobs[e]
           n == auto[Current(e)].failures + 1
<1>1. /\ k \in Job /\ auto \in [Autos -> [enabled : BOOLEAN, failures : Nat]]
      /\ \A j : [jobs EXCEPT ![e] = j][e] = j
  BY DEF TypeInv, TypeOK, Sound, Jobs
<1>2. Current(e) \in Autos
  BY ActionType DEF CountRun, RunEnded, Section
<1>3. n \in Nat
  BY <1>1, <1>2
<1>4. CASE k.bad /\ n >= MaxFailures
  <2>1. jobs'[e] = [k EXCEPT !.pc = "pause"]
    BY <1>1, <1>4 DEF CountRun
  <2>2. auto' = [auto EXCEPT ![Current(e)].failures = n]
    BY <1>4 DEF CountRun
  <2> HIDE DEF n
  <2> QED BY <1>1, <1>2, <2>1, <2>2 DEF Job
<1>5. CASE ~(k.bad /\ n >= MaxFailures)
  <2> DEFINE m == IF k.bad THEN n ELSE 0
  <2>1. jobs'[e] = [k EXCEPT !.pc = "unlock"]
    BY <1>1, <1>5 DEF CountRun
  <2>2. auto' = [auto EXCEPT ![Current(e)].failures = m]
    BY DEF CountRun
  <2>3. m = 0 \/ m < MaxFailures
    BY <1>3, <1>5, EngineAssumption
  <2> HIDE DEF m, n
  <2> QED BY <1>1, <1>2, <2>1, <2>2, <2>3 DEF Job
<1> QED BY <1>4, <1>5

\* An automation with MaxFailures failed runs in a row is disabled, or about to
\* be, unless a crash came between the two updates.
THEOREM LadderPausesCorrect == Spec => []LadderPauses
<1> DEFINE Pausing(a) == \E e \in Jobs : jobs[e].pc = "pause" /\ Current(e) = a
<1>1. Init => LadderPauses
  BY EngineAssumption DEF Init, LadderPauses
<1>2. TypeInv /\ LadderPauses /\ [Next]_vars => LadderPauses'
  <2> SUFFICES ASSUME TypeInv, LadderPauses, [Next]_vars,
                      NEW a \in Autos, Climbed(a)', a \notin interrupted'
               PROVE  Pausing(a)'
    BY DEF LadderPauses, Climbed
  <2>1. /\ jobs \in Seq(Job) /\ Len(jobs) \in Nat
        /\ auto \in [Autos -> [enabled : BOOLEAN, failures : Nat]]
    BY DEF TypeInv, TypeOK
  <2>2. ASSUME auto'[a] = auto[a], a \notin interrupted PROVE Pausing(a)
    BY <2>2 DEF LadderPauses, Climbed
  <2>3. CASE EmitRoot
    <3>1. PICK t \in Triggers : jobs' = Append(jobs, NewJob(t, 0, {}))
      BY <2>3 DEF EmitRoot, Triggers
    <3>2. Jobs \subseteq Jobs' /\ \A f \in Jobs : jobs'[f] = jobs[f]
      <4>1. NewJob(t, 0, {}) \in Job
        BY NewJobType
      <4> QED BY <2>1, <3>1, <4>1 DEF Jobs
    <3>3. Pausing(a)
      BY <2>2, <2>3 DEF EmitRoot
    <3> QED BY <3>2, <3>3 DEF Current
  <2>4. CASE ExpireLock
    <3>1. PICK j : /\ Sound(j) /\ jobs' = [jobs EXCEPT ![lock] = j]
                   /\ j = [jobs[lock] EXCEPT !.lost = InSection(lock)]
      BY <2>4, ExpiredJob
    <3>2. lock \in Jobs /\ jobs[lock] \in Job
      BY <2>4, ExpiredJob DEF TypeInv, Sound
    <3>3. /\ Jobs' = Jobs
          /\ \A f \in Jobs : jobs'[f] = IF f = lock THEN j ELSE jobs[f]
      BY <3>1, <3>2, OneJob DEF Jobs
    <3>4. \A f \in Jobs : jobs'[f].pc = jobs[f].pc /\ jobs'[f].todo = jobs[f].todo
      BY <3>1, <3>2, <3>3 DEF Job
    <3>5. Pausing(a)
      BY <2>2, <2>4 DEF ExpireLock
    <3> QED BY <3>3, <3>4, <3>5 DEF Current
  <2>5. CASE \E b \in Autos : Toggle(b)
    <3>1. PICK b \in Autos : Toggle(b)
      BY <2>5
    <3>2. CASE b = a
      BY <2>1, <3>1, <3>2, EngineAssumption DEF Toggle, Climbed
    <3>3. CASE b # a
      <4>1. Pausing(a) /\ UNCHANGED jobs
        BY <2>1, <2>2, <3>1, <3>3 DEF Toggle
      <4> QED BY <4>1 DEF Current, Jobs
    <3> QED BY <3>2, <3>3
  <2>6. CASE \E e \in Jobs : JobStep(e) \/ Stall(e)
    <3>1. PICK e \in Jobs : JobStep(e) \/ Stall(e)
      BY <2>6
    <3>2. Touches(e) /\ Jobs \subseteq Jobs'
      BY <2>1, <3>1, StepTouches DEF Touches, Jobs
    <3>3. CASE CountRun(e) /\ Current(e) = a
      <4>1. jobs'[e].pc = "pause" /\ jobs'[e].todo = jobs[e].todo
        <5>1. auto'[a].failures >= MaxFailures /\ MaxFailures \in Nat \ {0}
          BY EngineAssumption DEF Climbed
        <5>2. auto'[a].failures \in Nat
          BY <3>1, StepType DEF TypeInv, TypeOK
        <5>3. CASE jobs'[e].pc = "pause"
          BY <3>3, <5>3, CountedIsPaused
        <5> QED BY <3>3, <5>1, <5>2, <5>3, CountedIsPaused
      <4> QED BY <3>2, <3>3, <4>1 DEF Current
    <3>4. CASE ~(CountRun(e) /\ Current(e) = a)
      <4>1. auto'[a] = auto[a] /\ a \notin interrupted
        <5>1. CASE CountRun(e)
          BY <3>4, <5>1, CountedIsPaused DEF CountRun
        <5>2. CASE SkipUnauthorized(e) \/ Pause(e)
          BY <2>1, <5>2 DEF SkipUnauthorized, Pause, Climbed
        <5>3. CASE UNCHANGED auto
          BY <3>1, <5>3
             DEF JobStep, Stall, Begin, SkipAutomation, SkipUnauthorized, LockContact,
                 LockBusy, Finish, SendMessage, ReadAssignee, ApplyAssign, ActionFails,
                 CountRun, Pause, Unlock, CountThrows
        <5> QED BY <3>1, <5>1, <5>2, <5>3
                DEF JobStep, Stall, Begin, SkipAutomation, LockContact, LockBusy, Finish,
                    SendMessage, ReadAssignee, ApplyAssign, ActionFails, Unlock, CountThrows
      <4>2. PICK f \in Jobs : jobs[f].pc = "pause" /\ Current(f) = a
        BY <2>2, <4>1
      <4>3. CASE f # e
        BY <3>2, <4>2, <4>3 DEF Touches, Current
      <4>4. CASE f = e
        <5>1. Pause(e) \/ CountThrows(e) \/ Stall(e)
          BY <3>1, <4>2, <4>4
             DEF JobStep, Begin, SkipAutomation, SkipUnauthorized, LockContact, LockBusy,
                 Finish, SendMessage, ReadAssignee, ApplyAssign, ActionFails, CountRun,
                 RunEnded, Unlock
        <5>2. ~Pause(e)
          BY <2>1, <4>2, <4>4 DEF Pause, Climbed
        <5>3. a \in interrupted'
          BY <4>2, <4>4, <5>1, <5>2 DEF CountThrows, Stall
        <5> QED BY <5>3
      <4> QED BY <4>3, <4>4
    <3> QED BY <3>3, <3>4
  <2>7. CASE UNCHANGED vars
    <3>1. Pausing(a) /\ UNCHANGED jobs
      BY <2>2, <2>7 DEF vars
    <3> QED BY <3>1 DEF Current, Jobs
  <2> QED BY <2>3, <2>4, <2>5, <2>6, <2>7 DEF Next
<1> QED BY <1>1, <1>2, TypeInvCorrect, PTL DEF Spec

-----------------------------------------------------------------------------
(* Messages that cannot be taken back *)

\* A job none of whose attempts failed or stalled.
Calm(j) == j.tries = 0 /\ j.stalls = 0

\* A calm job has begun when it has sent x, and will not come back to an action
\* that did: its automation is off the list, or is the current one and already
\* past the action.
Past(j, x) ==
  Calm(j) =>
    /\ j.pc # "waiting"
    /\ x[2] \in j.todo => j.pc \in Section /\ x[2] = First(j.todo) /\ x[3] < j.act

SentInv ==
  /\ \A i \in DOMAIN sent : Past(jobs[sent[i][1]], sent[i])
  /\ \A i, k \in DOMAIN sent :
       i # k /\ sent[i] = sent[k] => ~Calm(jobs[sent[i][1]])

\* A step of a job leaves behind it what it left behind before.
LEMMA StaysPast ==
  ASSUME TypeInv, NEW e \in Jobs, JobStep(e) \/ Stall(e),
         NEW x \in Jobs \X Autos \X Nat, NEW f, f = x[1], Past(jobs[f], x)
  PROVE  Past(jobs'[f], x) /\ (Calm(jobs'[f]) => Calm(jobs[f]))
<1>1. Touches(e)
  BY StepTouches
<1>2. CASE f # e
  <2>1. jobs'[f] = jobs[f]
    BY <1>1, <1>2 DEF Touches
  <2> QED BY <2>1
<1>3. CASE f = e
  <2> DEFINE k == jobs[e]
             n == jobs'[e]
  <2>1. SUFFICES ASSUME Calm(n) PROVE Past(n, x) /\ Calm(k)
    BY <1>3 DEF Past
  <2>2. k \in Job /\ k.act \in Nat /\ n.act \in Nat
    <3>1. e \in Jobs' /\ n \in Job
      BY <1>1 DEF Touches, Jobs, Sound, TypeInv, TypeOK
    <3> QED BY <3>1 DEF TypeInv, Sound, Job
  <2>3. k.tries = n.tries /\ k.stalls = n.stalls => Calm(k)
    BY <2>1 DEF Calm
  <2>4. Calm(k) => /\ k.pc # "waiting"
                   /\ x[2] \in k.todo =>
                        k.pc \in Section /\ x[2] = First(k.todo) /\ x[3] < k.act
    BY <1>3 DEF Past
  <2> DEFINE Goal == /\ n.pc # "waiting"
                     /\ x[2] \in n.todo =>
                          n.pc \in Section /\ x[2] = First(n.todo) /\ x[3] < n.act
  <2>5. SUFFICES Calm(k) /\ Goal
    BY <1>3 DEF Past
  <2>6. CASE k.pc = "waiting" /\ SameAttempt(k, n)
    BY <2>3, <2>4, <2>6 DEF SameAttempt
  <2>7. CASE /\ k.pc = "next" /\ n.pc \in {"next", "completed"}
             /\ n.todo \subseteq k.todo /\ SameAttempt(k, n)
    BY <2>3, <2>4, <2>7 DEF SameAttempt, Section
  <2>8. CASE /\ k.pc = "next" /\ n.pc = "act" /\ n.todo = k.todo /\ SameAttempt(k, n)
    BY <2>3, <2>4, <2>8 DEF SameAttempt, Section
  <2>9. CASE /\ k.pc \in Section /\ n.pc \in Section /\ n.todo = k.todo
             /\ n.act >= k.act /\ SameAttempt(k, n)
    <3>1. Calm(k) /\ n.pc # "waiting"
      BY <2>3, <2>9 DEF SameAttempt, Section
    <3>2. x[3] \in Nat
      OBVIOUS
    <3>3. x[3] < k.act => x[3] < n.act
      BY <2>2, <2>9, <3>2
    <3> QED BY <2>4, <2>9, <3>1, <3>3
  <2>10. CASE /\ k.pc \in Section /\ n.pc = "next" /\ n.todo = Others(e)
              /\ SameAttempt(k, n)
    BY <2>3, <2>4, <2>10 DEF SameAttempt, Others, Current
  <2>11. CASE n.tries > 0 \/ n.stalls > 0
    BY <2>1, <2>11 DEF Calm
  <2> HIDE DEF Goal, k, n
  <2> QED BY <2>6, <2>7, <2>8, <2>9, <2>10, <2>11, JobAfter DEF k, n
<1> QED BY <1>2, <1>3

\* What a job that has sent nothing more keeps of the messages.
LEMMA SentKept ==
  ASSUME TypeInv, SentInv, sent' = sent,
         \A i \in DOMAIN sent :
           /\ Past(jobs'[sent[i][1]], sent[i])
           /\ Calm(jobs'[sent[i][1]]) => Calm(jobs[sent[i][1]])
  PROVE  SentInv'
BY DEF SentInv

\* An action that sends is one the job is not past yet: its message is new.
LEMMA SentOnce ==
  ASSUME TypeInv, SentInv, NEW e \in Jobs, SendMessage(e)
  PROVE  SentInv'
<1> DEFINE k == jobs[e]
           n == jobs'[e]
           x == <<e, Current(e), k.act>>
<1>1. JobStep(e) /\ ~LockContact(e) /\ k.pc \in Section /\ n.pc = "act" /\ n.todo = k.todo
      /\ k.act < n.act
  <2>1. JobStep(e) /\ k.pc = "act" /\ jobs' = [jobs EXCEPT ![e] = AfterSuccess(e)]
    BY DEF JobStep, SendMessage
  <2>2. n = AfterSuccess(e) /\ k \in Job
    BY <2>1 DEF TypeInv, TypeOK, Sound, Jobs
  <2>3. k.act \in Nat
    BY <2>2 DEF Job
  <2>4. k.act < k.act + 1
    BY <2>3
  <2>5. n.pc = "act" /\ n.todo = k.todo /\ n.act = k.act + 1
    BY <2>2 DEF AfterSuccess, Job
  <2> QED BY <2>1, <2>4, <2>5 DEF Section, LockContact
<1>2. /\ sent \in Seq(Jobs \X Autos \X Nat) /\ x \in Jobs \X Autos \X Nat
      /\ sent' = Append(sent, x)
  <2>1. Current(e) \in Autos /\ k.act \in Nat
    BY <1>1, ActionType DEF TypeInv, Sound, Job
  <2> QED BY <2>1 DEF SendMessage, TypeInv, TypeOK, Jobs
<1>3. /\ Len(sent) \in Nat /\ DOMAIN sent = 1..Len(sent)
      /\ DOMAIN sent' = 1..(Len(sent) + 1)
      /\ sent'[Len(sent) + 1] = x
      /\ \A i \in DOMAIN sent : sent'[i] = sent[i]
  BY <1>2
<1>4. ASSUME NEW i \in DOMAIN sent
      PROVE  /\ Past(jobs'[sent[i][1]], sent[i])
             /\ Calm(jobs'[sent[i][1]]) => Calm(jobs[sent[i][1]])
             /\ sent[i] = x => ~Calm(n)
  <2>1. sent[i] \in Jobs \X Autos \X Nat
    BY <1>2
  <2>2. Past(jobs[sent[i][1]], sent[i])
    BY DEF SentInv
  <2>3. /\ Past(jobs'[sent[i][1]], sent[i])
        /\ Calm(jobs'[sent[i][1]]) => Calm(jobs[sent[i][1]])
    BY <1>1, <2>1, <2>2, StaysPast
  <2>4. ASSUME sent[i] = x, Calm(n) PROVE FALSE
    <3>1. Calm(k)
      BY <2>3, <2>4
    <3>2. Current(e) \in k.todo
      BY <1>1, FirstInSet DEF TypeInv, Sound, Job, Current
    <3>3. k.act < k.act
      BY <2>2, <2>4, <3>1, <3>2 DEF Past
    <3> QED BY <1>2, <3>3
  <2> QED BY <2>3, <2>4
<1>5. Past(n, x)
  <2>1. n.pc \in Section /\ n.pc # "waiting"
    BY <1>1 DEF Section
  <2>2. x[2] = First(n.todo)
    BY <1>1 DEF Current
  <2>3. x[3] < n.act
    BY <1>1
  <2> QED BY <2>1, <2>2, <2>3 DEF Past
<1>6. \A i \in DOMAIN sent' : Past(jobs'[sent'[i][1]], sent'[i])
  BY <1>3, <1>4, <1>5
<1>7. ASSUME NEW i \in DOMAIN sent', NEW j \in DOMAIN sent', i # j, sent'[i] = sent'[j]
      PROVE  ~Calm(jobs'[sent'[i][1]])
  <2>1. CASE i \in DOMAIN sent /\ j \in DOMAIN sent
    BY <1>3, <1>4, <1>7, <2>1 DEF SentInv
  <2>2. CASE i \notin DOMAIN sent
    <3>1. i = Len(sent) + 1 /\ j \in DOMAIN sent
      BY <1>3, <1>7, <2>2
    <3> QED BY <1>3, <1>4, <1>7, <3>1
  <2>3. CASE j \notin DOMAIN sent
    <3>1. j = Len(sent) + 1 /\ i \in DOMAIN sent
      BY <1>3, <1>7, <2>3
    <3> QED BY <1>3, <1>4, <1>7, <3>1
  <2> QED BY <2>1, <2>2, <2>3
<1>8. \A i, j \in DOMAIN sent' :
        i # j /\ sent'[i] = sent'[j] => ~Calm(jobs'[sent'[i][1]])
  BY <1>7
<1> QED BY <1>6, <1>8 DEF SentInv

\* A job only sends a message again when one of its attempts failed or stalled:
\* within an attempt no action runs twice.
THEOREM RepeatedSendNeedsRetryCorrect == Spec => []RepeatedSendNeedsRetry
<1>1. Init => SentInv
  BY DEF Init, SentInv
<1>2. TypeInv /\ SentInv /\ [Next]_vars => SentInv'
  <2> SUFFICES ASSUME TypeInv, SentInv, [Next]_vars PROVE SentInv'
    OBVIOUS
  <2>1. /\ jobs \in Seq(Job) /\ Len(jobs) \in Nat
        /\ \A i \in DOMAIN sent : sent[i] \in Jobs \X Autos \X Nat
        /\ \A i \in DOMAIN sent : Past(jobs[sent[i][1]], sent[i])
    BY DEF TypeInv, TypeOK, Jobs, SentInv
  <2>2. ASSUME sent' = sent, \A f \in Jobs : jobs'[f] = jobs[f] PROVE SentInv'
    BY <2>1, <2>2, SentKept
  <2>3. CASE EmitRoot
    <3>1. PICK t \in Triggers : jobs' = Append(jobs, NewJob(t, 0, {}))
      BY <2>3 DEF EmitRoot, Triggers
    <3>2. NewJob(t, 0, {}) \in Job
      BY NewJobType
    <3>3. \A f \in Jobs : jobs'[f] = jobs[f]
      BY <2>1, <3>1, <3>2 DEF Jobs
    <3> QED BY <2>2, <2>3, <3>3 DEF EmitRoot
  <2>4. CASE ExpireLock
    <3>1. PICK j : /\ Sound(j) /\ jobs' = [jobs EXCEPT ![lock] = j]
                   /\ j = [jobs[lock] EXCEPT !.lost = InSection(lock)]
      BY <2>4, ExpiredJob
    <3>2. lock \in Jobs /\ jobs[lock] \in Job
      BY <2>4, ExpiredJob DEF TypeInv, Sound
    <3>3. \A f \in Jobs : jobs'[f] = IF f = lock THEN j ELSE jobs[f]
      <4>1. jobs' = [jobs EXCEPT ![lock] = j] /\ Sound(j)
        BY <3>1
      <4> QED BY <3>2, <4>1, OneJob
    <3>4. /\ j.pc = jobs[lock].pc /\ j.todo = jobs[lock].todo /\ j.act = jobs[lock].act
          /\ j.tries = jobs[lock].tries /\ j.stalls = jobs[lock].stalls
      BY <3>1, <3>2 DEF Job
    <3>5. \A x : /\ Past(jobs[lock], x) => Past(j, x)
                 /\ Calm(j) => Calm(jobs[lock])
      BY <3>4 DEF Past, Calm
    <3>6. sent' = sent
      BY <2>4 DEF ExpireLock
    <3> QED BY <2>1, <3>3, <3>5, <3>6, SentKept
  <2>5. CASE \E a \in Autos : Toggle(a)
    BY <2>2, <2>5 DEF Toggle
  <2>6. CASE \E e \in Jobs : JobStep(e) \/ Stall(e)
    <3>1. PICK e \in Jobs : JobStep(e) \/ Stall(e)
      BY <2>6
    <3>2. CASE SendMessage(e)
      BY <3>2, SentOnce
    <3>3. CASE ~SendMessage(e)
      <4>1. sent' = sent
        BY <3>1, <3>3
           DEF JobStep, Stall, Begin, SkipAutomation, SkipUnauthorized, LockContact, LockBusy,
               Finish, ReadAssignee, ApplyAssign, ActionFails, CountRun, Pause, Unlock,
               CountThrows
      <4>2. \A i \in DOMAIN sent :
              /\ Past(jobs'[sent[i][1]], sent[i])
              /\ Calm(jobs'[sent[i][1]]) => Calm(jobs[sent[i][1]])
        BY <2>1, <3>1, StaysPast
      <4> QED BY <4>1, <4>2, SentKept
    <3> QED BY <3>2, <3>3
  <2>7. CASE UNCHANGED vars
    BY <2>2, <2>7 DEF vars
  <2> QED BY <2>3, <2>4, <2>5, <2>6, <2>7 DEF Next
<1>3. TypeInv /\ SentInv => RepeatedSendNeedsRetry
  <2> SUFFICES ASSUME TypeInv, SentInv, NEW i \in DOMAIN sent, Times(sent[i]) > 1
               PROVE  jobs[sent[i][1]].tries > 0 \/ jobs[sent[i][1]].stalls > 0
    BY DEF RepeatedSendNeedsRetry
  <2>1. jobs[sent[i][1]].tries \in Nat /\ jobs[sent[i][1]].stalls \in Nat
    <3>1. jobs \in Seq(Job) /\ sent \in Seq((1..Len(jobs)) \X Autos \X Nat)
      BY DEF TypeInv, TypeOK
    <3>2. sent[i][1] \in 1..Len(jobs)
      BY <3>1
    <3>3. jobs[sent[i][1]] \in Job
      BY <3>1, <3>2
    <3> QED BY <3>3, EngineAssumption DEF Job
  <2>2. ASSUME Calm(jobs[sent[i][1]]) PROVE FALSE
    <3>1. {n \in DOMAIN sent : sent[n] = sent[i]} = {i}
      BY <2>2 DEF SentInv
    <3>2. Times(sent[i]) = 1
      BY <3>1, FS_Singleton DEF Times
    <3> QED BY <3>2
  <2> QED BY <2>1, <2>2 DEF Calm
<1> QED BY <1>1, <1>2, <1>3, TypeInvCorrect, PTL DEF Spec
=============================================================================
