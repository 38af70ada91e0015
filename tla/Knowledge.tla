------------------------------- MODULE Knowledge -------------------------------
(***************************************************************************)
(* The documents an organization gives its agents, the queue that cuts and *)
(* embeds them into the vector store, the customer messages a second queue *)
(* embeds after each run, and what a run then finds for its prompt.        *)
(***************************************************************************)
EXTENDS Naturals, FiniteSets

CONSTANTS
  KnSources,     \* documents
  KnAgents,
  KnOrgWide,     \* stands for agentId null: a document of every agent
  KnMessages,    \* customer messages long enough to be indexed
  KnNoOrg,       \* stands for an undefined organizationId
  KnOrg,
  KnScopedTable, \* whether ai_vector_entries has the columns upsert() writes
  KnAttempts,    \* attempts of an indexing job
  KnMaxChunks,   \* bound: chunks of a document
  KnMaxJobs,     \* bound: indexing jobs
  KnMaxClose,    \* bound: entries a question is close to, at most the five the search keeps
  KnMaxFaults    \* bound: faults of the provider, the database, the queue or a worker

ASSUME KnAssumption ==
  /\ KnOrgWide \notin KnAgents /\ KnNoOrg # KnOrg /\ KnScopedTable \in BOOLEAN
  /\ KnAttempts \in Nat \ {0} /\ {KnMaxChunks, KnMaxJobs, KnMaxClose, KnMaxFaults} \subseteq Nat

VARIABLES
  knSrc,    \* knSrc[s]: the KnowledgeSource row and the text it was given
  knJob,    \* knJob[j]: a call that queues a job, then the job
  knStore,  \* ai_vector_entries: <<s, i>> for the chunks, <<m, 0>> for the messages
  knMsg,    \* knMsg[m]: the indexing of a message
  knFound,  \* what the last run found, and for which agent
  knFaults,
  knFaulted, \* history: documents or messages some fault touched
  knLost     \* history: documents whose job could not be queued, or died with its worker

knVars == <<knSrc, knJob, knStore, knMsg, knFound, knFaults, knFaulted, knLost>>

KnUnreadable == KnMaxChunks + 1  \* a scanned PDF, or a paragraph past the token limit
KnNoRow == [status |-> "NONE"]
KnFree == [at |-> "free"]
KnJobs == 1..KnMaxJobs
KnRows == [status : {"PENDING", "PROCESSING", "READY", "FAILED"}, agent : KnAgents \union {KnOrgWide},
           text : 0..KnUnreadable, chunks : 0..KnMaxChunks, error : BOOLEAN]
KnPlaces == {"adding", "queued", "marked", "write", "failing", "ended"}
KnEntries == (KnSources \X (1..KnMaxChunks)) \union (KnMessages \X {0})

KnTypeOK ==
  /\ \A s \in KnSources : knSrc[s] \in KnRows \union {KnNoRow}
  /\ \A j \in KnJobs : knJob[j] = KnFree
       \/ knJob[j] \in [at : KnPlaces, src : KnSources, agent : KnAgents \union {KnOrgWide},
                        text : 0..KnUnreadable, left : 0..KnAttempts, next : 1..(KnMaxChunks + 1),
                        stalled : BOOLEAN]
  /\ knStore \subseteq KnEntries
  /\ knMsg \in [KnMessages -> {"none", "queued", "stored", "failed"}]
  /\ knFound.entries \subseteq KnEntries
  /\ knFaults \in 0..KnMaxFaults
  /\ knFaulted \subseteq KnSources \union KnMessages /\ knLost \subseteq KnSources

KnInit ==
  /\ knSrc = [s \in KnSources |-> KnNoRow]
  /\ knJob = [j \in KnJobs |-> KnFree]
  /\ knStore = {} /\ knMsg = [m \in KnMessages |-> "none"]
  /\ knFound \in [agent : KnAgents, entries : {{}}]
  /\ knFaults = 0 /\ knFaulted = {} /\ knLost = {}

KnRow(s) == knSrc[s] # KnNoRow
KnAt(j, place) == knJob[j].at = place
KnGoes(j, place) == knJob' = [knJob EXCEPT ![j].at = place]
KnSet(s, status) == knSrc' = [knSrc EXCEPT ![s].status = status]
KnFault(x) ==
  /\ knFaults < KnMaxFaults
  /\ knFaults' = knFaults + 1
  /\ knFaulted' = knFaulted \union {x}

-----------------------------------------------------------------------------
(* The operator's calls *)

\* the two writes of a call: the row, then the job
KnQueues(s, agent, text, j) ==
  /\ knJob[j] = KnFree /\ \A i \in KnJobs : i < j => knJob[i] # KnFree
  /\ knJob' = [knJob EXCEPT ![j] = [at |-> "adding", src |-> s, agent |-> agent, text |-> text,
                                    left |-> KnAttempts, next |-> 1, stalled |-> FALSE]]

\* a text, or a PDF whose bytes are kept until the worker extracts them
KnCreate(s, agent, text, j) ==
  /\ ~KnRow(s) /\ \A i \in KnJobs : knJob[i] # KnFree => knJob[i].src # s
  /\ KnQueues(s, agent, text, j)
  /\ knSrc' = [knSrc EXCEPT ![s] = [status |-> "PENDING", agent |-> agent, text |-> text,
                                    chunks |-> 0, error |-> FALSE]]
  /\ UNCHANGED <<knStore, knMsg, knFound, knFaults, knFaulted, knLost>>

KnReindex(s, j) ==
  /\ KnRow(s)
  /\ KnQueues(s, knSrc[s].agent, knSrc[s].text, j)
  /\ knSrc' = [knSrc EXCEPT ![s].status = "PENDING", ![s].chunks = 0, ![s].error = FALSE]
  /\ UNCHANGED <<knStore, knMsg, knFound, knFaults, knFaulted, knLost>>

KnAdd(j) ==
  /\ KnAt(j, "adding")
  /\ \/ KnGoes(j, "queued") /\ UNCHANGED <<knFaults, knFaulted, knLost>>
     \/ /\ KnFault(knJob[j].src)
        /\ KnGoes(j, "ended")
        /\ knLost' = knLost \union {knJob[j].src}
  /\ UNCHANGED <<knSrc, knStore, knMsg, knFound>>

\* the row only: its chunks stay in the store
KnDelete(s) ==
  /\ KnRow(s)
  /\ knSrc' = [knSrc EXCEPT ![s] = KnNoRow]
  /\ UNCHANGED <<knJob, knStore, knMsg, knFound, knFaults, knFaulted, knLost>>

-----------------------------------------------------------------------------
(* The indexing worker *)

\* whether an INSERT of this organization's entry is accepted
KnStorable(org) == KnScopedTable /\ org # KnNoOrg

\* a row that is gone makes the update throw
KnMark(j) ==
  /\ KnAt(j, "queued")
  /\ IF KnRow(knJob[j].src)
     THEN KnSet(knJob[j].src, "PROCESSING") /\ KnGoes(j, "marked")
     ELSE UNCHANGED knSrc /\ KnGoes(j, "failing")
  /\ UNCHANGED <<knStore, knMsg, knFound, knFaults, knFaulted, knLost>>

\* extract, cut and embed: nothing to index is told and not retried
KnEmbed(j) ==
  LET s == knJob[j].src text == knJob[j].text IN
  /\ KnAt(j, "marked")
  /\ \/ /\ text = 0 /\ KnRow(s)
        /\ knSrc' = [knSrc EXCEPT ![s].status = "FAILED", ![s].error = TRUE]
        /\ KnGoes(j, "ended") /\ UNCHANGED <<knFaults, knFaulted>>
     \/ /\ text = KnUnreadable \/ (text = 0 /\ ~KnRow(s))
        /\ KnGoes(j, "failing") /\ UNCHANGED <<knSrc, knFaults, knFaulted>>
     \/ /\ text \in 1..KnMaxChunks
        /\ knJob' = [knJob EXCEPT ![j].at = "write", ![j].next = 1]
        /\ UNCHANGED <<knSrc, knFaults, knFaulted>>
     \/ /\ text \in 1..KnMaxChunks /\ KnFault(s)
        /\ KnGoes(j, "failing") /\ UNCHANGED knSrc
  /\ UNCHANGED <<knStore, knMsg, knFound, knLost>>

\* one row at a time, outside any transaction
KnUpsert(j) ==
  LET s == knJob[j].src i == knJob[j].next IN
  /\ KnAt(j, "write") /\ i <= knJob[j].text
  /\ \/ /\ KnStorable(KnOrg)
        /\ knStore' = knStore \union {<<s, i>>}
        /\ knJob' = [knJob EXCEPT ![j].next = i + 1]
        /\ UNCHANGED <<knFaults, knFaulted>>
     \/ /\ IF KnStorable(KnOrg) THEN KnFault(s) ELSE UNCHANGED <<knFaults, knFaulted>>
        /\ KnGoes(j, "failing") /\ UNCHANGED knStore
  /\ UNCHANGED <<knSrc, knMsg, knFound, knLost>>

\* READY keeps the error an earlier attempt wrote
KnReady(j) ==
  LET s == knJob[j].src IN
  /\ KnAt(j, "write") /\ knJob[j].next > knJob[j].text
  /\ IF KnRow(s)
     THEN /\ knSrc' = [knSrc EXCEPT ![s].status = "READY", ![s].chunks = knJob[j].text]
          /\ KnGoes(j, "ended")
     ELSE UNCHANGED knSrc /\ KnGoes(j, "failing")
  /\ UNCHANGED <<knStore, knMsg, knFound, knFaults, knFaulted, knLost>>

\* FAILED is written on every attempt that failed, before the queue retries it
KnFail(j) ==
  LET s == knJob[j].src IN
  /\ KnAt(j, "failing")
  /\ knSrc' = IF KnRow(s) THEN [knSrc EXCEPT ![s].status = "FAILED", ![s].error = TRUE] ELSE knSrc
  /\ knJob' = [knJob EXCEPT ![j].at = IF knJob[j].left > 1 THEN "queued" ELSE "ended",
                            ![j].left = knJob[j].left - 1]
  /\ UNCHANGED <<knStore, knMsg, knFound, knFaults, knFaulted, knLost>>

\* the worker dies: the queue hands its job out again, once
KnDie(j) ==
  LET s == knJob[j].src IN
  /\ knJob[j].at \in {"marked", "write", "failing"} /\ KnFault(s)
  /\ knJob' = [knJob EXCEPT ![j].at = IF knJob[j].stalled THEN "ended" ELSE "queued",
                            ![j].stalled = TRUE]
  /\ knLost' = IF knJob[j].stalled THEN knLost \union {s} ELSE knLost
  /\ UNCHANGED <<knSrc, knStore, knMsg, knFound>>

-----------------------------------------------------------------------------
(* The messages, and what a run finds *)

\* the scope of the job names the conversation, the agent and the contact, and no organization
KnMessageOrg == KnNoOrg

\* after a run; a queue that refuses is only logged
KnRunEnds(m) ==
  /\ knMsg[m] = "none"
  /\ \/ knMsg' = [knMsg EXCEPT ![m] = "queued"] /\ UNCHANGED <<knFaults, knFaulted>>
     \/ KnFault(m) /\ knMsg' = [knMsg EXCEPT ![m] = "failed"]
  /\ UNCHANGED <<knSrc, knJob, knStore, knFound, knLost>>

\* one attempt: the job has no attempts of its own and the queue no defaults
KnIndexMessage(m) ==
  /\ knMsg[m] = "queued"
  /\ \/ /\ KnStorable(KnMessageOrg)
        /\ knMsg' = [knMsg EXCEPT ![m] = "stored"]
        /\ knStore' = knStore \union {<<m, 0>>}
        /\ UNCHANGED <<knFaults, knFaulted>>
     \/ /\ ~KnStorable(KnMessageOrg)
        /\ knMsg' = [knMsg EXCEPT ![m] = "failed"]
        /\ UNCHANGED <<knStore, knFaults, knFaulted>>
     \/ /\ KnFault(m)
        /\ knMsg' = [knMsg EXCEPT ![m] = "failed"]
        /\ UNCHANGED knStore
  /\ UNCHANGED <<knSrc, knJob, knFound, knLost>>

\* the agent_id the chunks of a document were inserted with, which outlives the document
KnAgentsOf(s) == {knJob[j].agent : j \in {i \in KnJobs : knJob[i] # KnFree /\ knJob[i].src = s}}

\* the filters of the search: the agent's documents and those of every agent
KnDocuments(a, close) == {e \in close : e[2] > 0 /\ KnAgentsOf(e[1]) \intersect {a, KnOrgWide} # {}}

\* one embedding for the two searches; what is close to the question is the provider's to say
KnAsk(a) ==
  /\ \E close \in {c \in SUBSET knStore : Cardinality(c) <= KnMaxClose} :
       knFound' = [agent |-> a,
                   entries |-> KnDocuments(a, close) \union {e \in close : e[2] = 0}]
  /\ UNCHANGED <<knSrc, knJob, knStore, knMsg, knFaults, knFaulted, knLost>>

KnNext ==
  \/ \E s \in KnSources, j \in KnJobs :
       \/ \E agent \in KnAgents \union {KnOrgWide}, text \in 0..KnUnreadable :
            KnCreate(s, agent, text, j)
       \/ KnReindex(s, j)
  \/ \E s \in KnSources : KnDelete(s)
  \/ \E j \in KnJobs :
       KnAdd(j) \/ KnMark(j) \/ KnEmbed(j) \/ KnUpsert(j) \/ KnReady(j) \/ KnFail(j) \/ KnDie(j)
  \/ \E m \in KnMessages : KnRunEnds(m) \/ KnIndexMessage(m)
  \/ \E a \in KnAgents : KnAsk(a)

KnSpec == KnInit /\ [][KnNext]_knVars

-----------------------------------------------------------------------------
(* Properties *)

KnLive(s) == \E j \in KnJobs : knJob[j] # KnFree /\ knJob[j].src = s /\ knJob[j].at # "ended"

\* A document shown as READY has every one of its chunks in the store, whatever jobs of
\* it ran at once, failed half way or were taken again.
KnReadyIsWhole ==
  \A s \in KnSources : knSrc[s].status = "READY" =>
    knSrc[s].text \in 1..KnMaxChunks /\ \A i \in 1..knSrc[s].text : <<s, i>> \in knStore

\* A document that waits or is being processed has a job that will end it, unless its job
\* could not be queued or was given up with its worker.
KnUnfinishedIsPursued ==
  \A s \in KnSources : knSrc[s].status \in {"PENDING", "PROCESSING"} => KnLive(s) \/ s \in knLost

\* A document fails because nothing can be read from it or something outside failed.
KnFailureNeedsFault ==
  \A s \in KnSources : knSrc[s].status = "FAILED" =>
    knSrc[s].text \in {0, KnUnreadable} \/ s \in knFaulted

\* A run finds the documents of its own agent and those of every agent, even of an entry
\* whose document was deleted meanwhile.
KnFindsOwn ==
  \A e \in knFound.entries : e[2] > 0 => KnAgentsOf(e[1]) \subseteq {knFound.agent, KnOrgWide}

KnSafe == KnReadyIsWhole /\ KnUnfinishedIsPursued /\ KnFailureNeedsFault /\ KnFindsOwn
=============================================================================
