-------------------------------- MODULE Contacts --------------------------------
(***************************************************************************)
(* Who a message is from: the workers of the inbound queue, the operators  *)
(* who write to a number first and the sales recovery look up, create and  *)
(* refresh the contacts of one channel.                                    *)
(***************************************************************************)
EXTENDS FiniteSets, Naturals

CONSTANTS
  CtPeople,    \* customers
  CtContacts,  \* ids of contacts rows
  CtWorkers,   \* jobs and requests that run at the same time
  CtNobody,
  CtMaxJobs    \* bound: jobs and requests

ASSUME CtAssumption ==
  CtNobody \notin CtPeople \union CtContacts \union CtWorkers /\ CtMaxJobs \in Nat

VARIABLES
  ctType,     \* type of the channel
  ctLinks,    \* contact_channels: the contact each external id belongs to
  ctContact,  \* contacts: person, name and deletion
  ctLock,     \* ctLock[id]: the worker whose token holds the Redis lock
  ctJob,      \* ctJob[w]: the job, its external id and how far it is
  ctJobs,     \* jobs so far
  ctExpired,  \* history: a lock expired under its holder, or recovery ran: it takes none
  ctCollided  \* history: an insert met the unique index

ctVars == <<ctType, ctLinks, ctContact, ctLock, ctJob, ctJobs, ctExpired, ctCollided>>

CtTypes == {"ZAPPFY", "UAZAPI", "OFFICIAL", "GMAIL"}
\* An external id: the bare number or address, or a WhatsApp JID.
CtIds == CtPeople \X {"plain", "jid"}
CtSources == {"inbound", "manual", "recovery"}
CtNoContact == [person |-> CtNobody, name |-> "none", deleted |-> FALSE]
CtNoJob == [pc |-> "idle", source |-> "inbound", id |-> CtNobody, contact |-> CtNobody,
            named |-> FALSE]

CtTypeOK ==
  /\ ctType \in CtTypes
  /\ ctLinks \in [CtIds -> CtContacts \union {CtNobody}]
  /\ ctContact \in [CtContacts -> [person : CtPeople \union {CtNobody},
                      name : {"none", "profile", "operator"}, deleted : BOOLEAN]]
  /\ ctLock \in [CtIds -> CtWorkers \union {CtNobody}]
  /\ ctJob \in [CtWorkers -> [
       pc : {"idle", "find", "lock", "recheck", "match", "create", "refresh"},
       source : CtSources, id : CtIds \union {CtNobody},
       contact : CtContacts \union {CtNobody}, named : BOOLEAN]]
  /\ ctJobs \in 0..CtMaxJobs
  /\ {ctExpired, ctCollided} \subseteq BOOLEAN

CtInit ==
  /\ ctType \in CtTypes
  /\ ctLinks = [i \in CtIds |-> CtNobody]
  /\ ctContact = [c \in CtContacts |-> CtNoContact]
  /\ ctLock = [i \in CtIds |-> CtNobody]
  /\ ctJob = [w \in CtWorkers |-> CtNoJob]
  /\ ctJobs = 0 /\ ctExpired = FALSE /\ ctCollided = FALSE

\* toExternalContactId and toExternalId know the JID of ZAPPFY alone; both
\* unofficial adapters report the chat's JID.
CtForm(source) ==
  IF ctType = "ZAPPFY" \/ (ctType = "UAZAPI" /\ source = "inbound") THEN "jid" ELSE "plain"

CtGo(w, pc) == ctJob' = [ctJob EXCEPT ![w].pc = pc]
CtRelease(w) == ctLock' = [i \in CtIds |-> IF ctLock[i] = w THEN CtNobody ELSE ctLock[i]]
CtWorld == <<ctType, ctJobs>>

-----------------------------------------------------------------------------

\* A webhook message, startConversation or a forward to a new number, or a
\* recovery opener.
CtTake(w) ==
  /\ ctJob[w].pc = "idle"
  /\ ctJobs < CtMaxJobs
  /\ ctJobs' = ctJobs + 1
  /\ \E p \in CtPeople, source \in CtSources :
       /\ source = "recovery" => ctType # "GMAIL"
       /\ ctJob' = [ctJob EXCEPT ![w] =
            [CtNoJob EXCEPT !.pc = "find", !.source = source, !.id = <<p, CtForm(source)>>]]
       /\ ctExpired' = (ctExpired \/ source = "recovery")
  /\ UNCHANGED <<ctType, ctLinks, ctContact, ctLock, ctCollided>>

\* A link was found: a message refreshes the profile, with the name it read;
\* the others only use the link.
CtFound(w, c) ==
  IF ctJob[w].source = "inbound"
  THEN ctJob' = [ctJob EXCEPT ![w].pc = "refresh", ![w].contact = c,
                              ![w].named = ctContact[c].name # "none"]
  ELSE ctJob' = [ctJob EXCEPT ![w] = CtNoJob]

\* The fast path.
CtFind(w) ==
  LET job == ctJob[w] IN
  /\ job.pc = "find"
  /\ IF ctLinks[job.id] # CtNobody THEN CtFound(w, ctLinks[job.id])
     ELSE CtGo(w, IF job.source = "recovery" THEN "match" ELSE "lock")
  /\ UNCHANGED <<CtWorld, ctLinks, ctContact, ctLock, ctExpired, ctCollided>>

CtTakeLock(w) ==
  /\ ctJob[w].pc = "lock"
  /\ ctLock[ctJob[w].id] = CtNobody
  /\ ctLock' = [ctLock EXCEPT ![ctJob[w].id] = w]
  /\ CtGo(w, "recheck")
  /\ UNCHANGED <<CtWorld, ctLinks, ctContact, ctExpired, ctCollided>>

\* Five seconds without the lock: a message's job is tried again, a request fails.
CtGiveUp(w) ==
  /\ ctJob[w].pc = "lock"
  /\ ctLock[ctJob[w].id] # CtNobody
  /\ ctJob' = [ctJob EXCEPT ![w] = IF @.source = "inbound" THEN [@ EXCEPT !.pc = "find"] ELSE CtNoJob]
  /\ UNCHANGED <<CtWorld, ctLinks, ctContact, ctLock, ctExpired, ctCollided>>

\* Mutant: the holder of the lock trusts what it read before it had it.
CtRecheckNever(w) ==
  /\ ctJob[w].pc = "recheck"
  /\ CtGo(w, "create")
  /\ UNCHANGED <<CtWorld, ctLinks, ctContact, ctLock, ctExpired, ctCollided>>

\* Inside the lock the row is read again.
CtRecheck(w) ==
  LET job == ctJob[w] IN
  /\ job.pc = "recheck"
  /\ IF ctLinks[job.id] # CtNobody
     THEN /\ CtFound(w, ctLinks[job.id])
          /\ IF job.source = "inbound" THEN UNCHANGED ctLock ELSE CtRelease(w)
     ELSE CtGo(w, "create") /\ UNCHANGED ctLock
  /\ UNCHANGED <<CtWorld, ctLinks, ctContact, ctExpired, ctCollided>>

\* Recovery looks for a contact with the number, on any channel.
CtMatch(w) ==
  LET matches == {c \in CtContacts : ctContact[c].person = ctJob[w].id[1] /\ ~ctContact[c].deleted} IN
  /\ ctJob[w].pc = "match"
  /\ IF matches = {} THEN CtGo(w, "create")
     ELSE \E c \in matches : ctJob' = [ctJob EXCEPT ![w].pc = "create", ![w].contact = c]
  /\ UNCHANGED <<CtWorld, ctLinks, ctContact, ctLock, ctExpired, ctCollided>>

\* createContact writes both rows in one statement; the unique index refuses a
\* second link.  A message is then tried again, recovery reads the other's link.
CtCreate(w) ==
  LET job == ctJob[w] IN
  /\ job.pc = "create"
  /\ IF ctLinks[job.id] # CtNobody
     THEN /\ ctCollided' = TRUE
          /\ ctJob' = [ctJob EXCEPT ![w] =
               IF job.source = "inbound" THEN [@ EXCEPT !.pc = "find"] ELSE CtNoJob]
          /\ UNCHANGED <<ctLinks, ctContact>>
     ELSE /\ ctJob' = [ctJob EXCEPT ![w] = CtNoJob]
          /\ IF job.contact # CtNobody
             THEN /\ ctLinks' = [ctLinks EXCEPT ![job.id] = job.contact]
                  /\ UNCHANGED ctContact
             ELSE \E c \in CtContacts, name \in {"none", "profile"} :
                  /\ ctContact[c].person = CtNobody
                  /\ ctLinks' = [ctLinks EXCEPT ![job.id] = c]
                  /\ ctContact' = [ctContact EXCEPT ![c] =
                       [person |-> job.id[1], name |-> name, deleted |-> FALSE]]
          /\ UNCHANGED ctCollided
  /\ CtRelease(w)
  /\ UNCHANGED <<CtWorld, ctExpired>>

\* applyProfileUpdates: the name fills an empty one, by what was read before.
CtRefresh(w) ==
  LET job == ctJob[w] IN
  /\ job.pc = "refresh"
  /\ \/ ~job.named /\ ctContact' = [ctContact EXCEPT ![job.contact].name = "profile"]
     \/ UNCHANGED ctContact
  /\ ctJob' = [ctJob EXCEPT ![w] = CtNoJob]
  /\ CtRelease(w)
  /\ UNCHANGED <<CtWorld, ctLinks, ctExpired, ctCollided>>

\* Ten seconds: the lock goes, its holder goes on.
CtExpire(i) ==
  /\ ctLock[i] # CtNobody
  /\ ctLock' = [ctLock EXCEPT ![i] = CtNobody]
  /\ ctExpired' = TRUE
  /\ UNCHANGED <<CtWorld, ctLinks, ctContact, ctJob, ctCollided>>

\* ContactsService: an operator names the contact, or deletes it; the links stay.
CtEdit(c) ==
  /\ ctContact[c].person # CtNobody /\ ~ctContact[c].deleted
  /\ ctContact' = [ctContact EXCEPT ![c].name = "operator"]
  /\ UNCHANGED <<CtWorld, ctLinks, ctLock, ctJob, ctExpired, ctCollided>>

CtDelete(c) ==
  /\ ctContact[c].person # CtNobody /\ ~ctContact[c].deleted
  /\ ctContact' = [ctContact EXCEPT ![c].deleted = TRUE]
  /\ UNCHANGED <<CtWorld, ctLinks, ctLock, ctJob, ctExpired, ctCollided>>

CtNext ==
  \/ \E w \in CtWorkers :
       \/ CtTake(w) \/ CtFind(w) \/ CtTakeLock(w) \/ CtGiveUp(w) \/ CtRecheck(w)
       \/ CtMatch(w) \/ CtCreate(w) \/ CtRefresh(w)
  \/ \E i \in CtIds : CtExpire(i)
  \/ \E c \in CtContacts : CtEdit(c) \/ CtDelete(c)

CtSpec == CtInit /\ [][CtNext]_ctVars

-----------------------------------------------------------------------------
(* Properties *)

\* A customer is one contact, whichever of a webhook, an operator and the recovery
\* meets them first; on UAZAPI the ids of the three do not agree.
CtOneContact ==
  ctType # "UAZAPI" =>
    \A p \in CtPeople : Cardinality({c \in CtContacts : ctContact[c].person = p}) <= 1

\* A link leads to the customer whose id it is.
CtLinksAgree == \A i \in CtIds : ctLinks[i] # CtNobody => ctContact[ctLinks[i]].person = i[1]

\* Two inserts of one customer meet only when a lock expired or recovery, which
\* takes none, ran.
CtCollisionNeedsExpiry == ctCollided => ctExpired

\* A name the operator gave is overwritten only by a message whose job read the
\* contact before it had a name.
CtGivenNameStays ==
  \A c \in CtContacts : ctContact[c].name = "operator" /\ ctContact'[c].name # "operator" =>
     \E w \in CtWorkers : ctJob[w].contact = c /\ ~ctJob[w].named

\* One contact for a person of a channel, unless a lock expired.
CtSafe == CtOneContact /\ CtLinksAgree /\ CtCollisionNeedsExpiry
=============================================================================
