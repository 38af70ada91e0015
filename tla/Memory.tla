--------------------------------- MODULE Memory ---------------------------------
(***************************************************************************)
(* What one agent remembers of one contact (AiAgentMemory): after a run, a *)
(* queue with two workers asks a cheap model what changed and merges its   *)
(* answer into the row, read first and written whole.                      *)
(***************************************************************************)
EXTENDS Naturals, Sequences, SequencesExt, FiniteSets, Picking

CONSTANTS
  MmFacts,   \* texts of facts
  MmWorkers, \* workers of the memory-extractor queue
  MmMaxJobs, \* bound: jobs
  MmMaxFaults \* bound: jobs whose worker dies

ASSUME MmAssumption == MmMaxJobs \in Nat /\ MmMaxFaults \in Nat

VARIABLES
  mmRow,     \* the row: "none", or the facts in order and the counters
  mmQueued,  \* jobs waiting
  mmWork,    \* mmWork[w]: the job a worker is on
  mmJobs, mmFaults,
  mmLearned, \* history: facts written and not asked to be removed since
  mmDropped, \* history: facts asked to be removed and not written since
  mmWritten, \* history: summaries written
  mmOverlap, \* history: a worker read the row while another was about to write it
  mmTwins    \* history: an answer listed a fact twice

mmVars == <<mmRow, mmQueued, mmWork, mmJobs, mmFaults, mmLearned, mmDropped, mmWritten,
            mmOverlap, mmTwins>>

MmNone == [facts |-> <<>>, count |-> 0, there |-> FALSE]
MmIdle == [at |-> "idle"]
MmPlaces == {"idle", "begin", "create", "ask", "merge", "write", "sum"}

MmTypeOK ==
  /\ Range(mmRow.facts) \subseteq MmFacts /\ mmRow.count \in Nat /\ mmRow.there \in BOOLEAN
  /\ mmQueued \in 0..MmMaxJobs /\ mmJobs \in 0..MmMaxJobs /\ mmFaults \in 0..MmMaxFaults
  /\ \A w \in MmWorkers : mmWork[w].at \in MmPlaces
  /\ mmLearned \subseteq MmFacts /\ mmDropped \subseteq MmFacts
  /\ mmWritten \in Nat /\ mmOverlap \in BOOLEAN /\ mmTwins \in BOOLEAN

MmInit ==
  /\ mmRow = MmNone /\ mmQueued = 0 /\ mmWork = [w \in MmWorkers |-> MmIdle]
  /\ mmJobs = 0 /\ mmFaults = 0
  /\ mmLearned = {} /\ mmDropped = {} /\ mmWritten = 0 /\ mmOverlap = FALSE /\ mmTwins = FALSE

MmHistory == <<mmLearned, mmDropped, mmWritten, mmOverlap, mmTwins>>

-----------------------------------------------------------------------------
(* The queue *)

\* only a run that answered, delegated or handed over teaches something
MmRunEnds ==
  /\ mmJobs < MmMaxJobs
  /\ mmJobs' = mmJobs + 1 /\ mmQueued' = mmQueued + 1
  /\ UNCHANGED <<mmRow, mmWork, mmFaults, MmHistory>>

\* the last twenty messages; none, or none with text, ends the job
MmTake(w) ==
  /\ mmWork[w] = MmIdle /\ mmQueued > 0
  /\ mmQueued' = mmQueued - 1
  /\ mmWork' \in {mmWork, [mmWork EXCEPT ![w] = [at |-> "begin"]]}
  /\ UNCHANGED <<mmRow, mmJobs, mmFaults, MmHistory>>

\* a worker that dies leaves its job to be run again
MmDie(w) ==
  /\ mmWork[w] # MmIdle /\ mmFaults < MmMaxFaults
  /\ mmWork' = [mmWork EXCEPT ![w] = MmIdle]
  /\ mmQueued' = mmQueued + 1 /\ mmFaults' = mmFaults + 1
  /\ UNCHANGED <<mmRow, mmJobs, MmHistory>>

-----------------------------------------------------------------------------
(* The job *)

\* getOrCreate: the row, or the decision to create it
MmFind(w) ==
  /\ mmWork[w].at = "begin"
  /\ mmWork' = [mmWork EXCEPT ![w].at = IF mmRow.there THEN "ask" ELSE "create"]
  /\ UNCHANGED <<mmRow, mmQueued, mmJobs, mmFaults, MmHistory>>

\* two workers that found nothing: the second one's job fails on the unique pair, for good
MmCreate(w) ==
  /\ mmWork[w].at = "create"
  /\ mmRow' = [mmRow EXCEPT !.there = TRUE]
  /\ mmWork' = [mmWork EXCEPT ![w] = IF mmRow.there THEN MmIdle ELSE [at |-> "ask"]]
  /\ UNCHANGED <<mmQueued, mmJobs, mmFaults, MmHistory>>

\* what the model may answer: facts to add, facts to remove, a new summary or not
MmAnswers == [new : UNION {[1..n -> MmFacts] : n \in 0..2}, gone : SUBSET MmFacts, sum : BOOLEAN]

\* a failed call and an answer that is no JSON count as an answer without changes
MmAsk(w) ==
  /\ mmWork[w].at = "ask"
  /\ \E answer \in MmAnswers :
       /\ mmWork' = [mmWork EXCEPT ![w] =
            IF answer.new # <<>> \/ answer.gone # {} THEN [at |-> "merge", answer |-> answer]
            ELSE IF answer.sum THEN [at |-> "sum"] ELSE MmIdle]
       /\ mmTwins' = (mmTwins \/ (Len(answer.new) = 2 /\ answer.new[1] = answer.new[2]))
  /\ UNCHANGED <<mmRow, mmQueued, mmJobs, mmFaults, mmLearned, mmDropped, mmWritten, mmOverlap>>

\* Mutant: what is to go is taken out of the old and the new facts alike
MmMergedStrictly(facts, answer) ==
  LET all == facts \o answer.new IN Picked(all, {i \in DOMAIN all : all[i] \notin answer.gone})
\* the facts that stay, then the new ones whose text is not among them
MmMerged(facts, answer) ==
  LET kept == Picked(facts, {i \in DOMAIN facts : facts[i] \notin answer.gone})
  IN kept \o Picked(answer.new, {i \in DOMAIN answer.new : answer.new[i] \notin Range(kept)})

\* upsertFacts reads the row again: what another job wrote meanwhile is kept
MmMerge(w) ==
  /\ mmWork[w].at = "merge"
  /\ mmWork' = [mmWork EXCEPT ![w] = [at |-> "write", answer |-> mmWork[w].answer,
                                      facts |-> MmMerged(mmRow.facts, mmWork[w].answer)]]
  /\ mmOverlap' = (mmOverlap \/ \E v \in MmWorkers : mmWork[v].at = "write")
  /\ UNCHANGED <<mmRow, mmQueued, mmJobs, mmFaults, mmLearned, mmDropped, mmWritten, mmTwins>>

MmWrite(w) ==
  LET answer == mmWork[w].answer IN
  /\ mmWork[w].at = "write"
  /\ mmRow' = [mmRow EXCEPT !.facts = mmWork[w].facts]
  /\ mmWork' = [mmWork EXCEPT ![w] = IF answer.sum THEN [at |-> "sum"] ELSE MmIdle]
  /\ mmLearned' = (mmLearned \ answer.gone) \union Range(answer.new)
  /\ mmDropped' = (mmDropped \union answer.gone) \ Range(answer.new)
  /\ UNCHANGED <<mmQueued, mmJobs, mmFaults, mmWritten, mmOverlap, mmTwins>>

\* the counter is an increment of the database
MmSummarize(w) ==
  /\ mmWork[w].at = "sum"
  /\ mmRow' = [mmRow EXCEPT !.count = @ + 1]
  /\ mmWritten' = mmWritten + 1
  /\ mmWork' = [mmWork EXCEPT ![w] = MmIdle]
  /\ UNCHANGED <<mmQueued, mmJobs, mmFaults, mmLearned, mmDropped, mmOverlap, mmTwins>>

MmNext ==
  \/ MmRunEnds
  \/ \E w \in MmWorkers :
       \/ MmTake(w) \/ MmDie(w) \/ MmFind(w) \/ MmCreate(w)
       \/ MmAsk(w) \/ MmMerge(w) \/ MmWrite(w) \/ MmSummarize(w)

MmSpec == MmInit /\ [][MmNext]_mmVars

-----------------------------------------------------------------------------
(* Properties *)

\* A fact some job wrote stays until a job takes it out, and one that was taken out stays
\* out until it is learned again, unless two jobs read the row before either wrote it.
MmKeepsWhatItLearned ==
  mmOverlap \/ (mmLearned \subseteq Range(mmRow.facts) /\ mmDropped \intersect Range(mmRow.facts) = {})

\* "if a fact text already exists, it is not duplicated": a text is there twice only when
\* one answer listed it twice.
MmTwinsNeedTwins ==
  mmTwins \/ \A i, j \in DOMAIN mmRow.facts : mmRow.facts[i] = mmRow.facts[j] => i = j

\* Every summary is counted, whatever jobs overlap.
MmCountIsExact == mmRow.count = mmWritten

MmSafe == MmKeepsWhatItLearned /\ MmTwinsNeedTwins /\ MmCountIsExact
=============================================================================
