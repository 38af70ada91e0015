-------------------------------- MODULE Avatars --------------------------------
(***************************************************************************)
(* The photo of one WhatsApp contact: who asks the provider for it (every  *)
(* inbound message while there is none, a queue filled by opening the      *)
(* inbox or the conversation), the file it is kept in and the row that     *)
(* points at it.                                                           *)
(***************************************************************************)
EXTENDS Naturals, FiniteSets

CONSTANTS
  AvWorkers,   \* slots that run enrich(): the queue's one and the inbound workers
  AvQueueSlot, \* the one of the hydration queue
  AvMaxPhotos, \* bound: photos the person puts up
  AvMaxAsks,   \* bound: calls of enrich()
  AvMaxEdits   \* bound: edits of the contact's metadata, redeploys, days

ASSUME AvAssumption ==
  AvQueueSlot \in AvWorkers /\ AvMaxPhotos \in Nat /\ AvMaxAsks \in Nat /\ AvMaxEdits \in Nat

VARIABLES
  avPhoto,   \* the photo at the provider: its number, 0 when there is none to see
  avPhotos,  \* photos so far
  avFile,    \* the stored file: number of the photo, 0 when there is no file
  avAge,     \* days since it was written: "new", "day" or "week"
  avUrl,     \* contacts.avatar_url: number of the photo in its ?v, 0 when null
  avMeta,    \* contacts.metadata: what the operators wrote, and whether asked today
  avJob,     \* the job of the queue: "none", "hydrate" (7 days) or "refresh" (1 day)
  avWork,    \* avWork[w]: a call of enrich()
  avAsks, avEdits,
  avToday,   \* history: times the provider was asked today while there was no url
  avRaced    \* history: a call began or an edit was made during another, or one failed
             \* between the file and the row

avVars == <<avPhoto, avPhotos, avFile, avAge, avUrl, avMeta, avJob, avWork, avAsks, avEdits,
            avToday, avRaced>>

AvPhotos == 0..AvMaxPhotos
AvMetas == [edit : 0..AvMaxEdits, asked : BOOLEAN]
AvIdle == [at |-> "idle"]

AvTypeOK ==
  /\ {avPhoto, avPhotos, avFile, avUrl} \subseteq AvPhotos
  /\ avAge \in {"new", "day", "week"}
  /\ avMeta \in AvMetas
  /\ avJob \in {"none", "hydrate", "refresh"}
  /\ \A w \in AvWorkers : avWork[w].at \in {"idle", "mark", "fetch", "save", "write"}
  /\ avAsks \in 0..AvMaxAsks /\ avEdits \in 0..AvMaxEdits
  /\ avToday \in Nat /\ avRaced \in BOOLEAN

AvInit ==
  /\ avPhoto = 0 /\ avPhotos = 0 /\ avFile = 0 /\ avAge = "new" /\ avUrl = 0
  /\ avMeta = [edit |-> 0, asked |-> FALSE]
  /\ avJob = "none"
  /\ avWork = [w \in AvWorkers |-> AvIdle]
  /\ avAsks = 0 /\ avEdits = 0 /\ avToday = 0 /\ avRaced = FALSE

AvBusy == \E w \in AvWorkers : avWork[w] # AvIdle

-----------------------------------------------------------------------------
(* The world *)

\* The person changes, hides or shows the photo.
AvChangePhoto ==
  /\ \/ avPhoto # 0 /\ avPhoto' = 0 /\ UNCHANGED avPhotos
     \/ avPhotos < AvMaxPhotos /\ avPhotos' = avPhotos + 1 /\ avPhoto' = avPhotos + 1
  /\ UNCHANGED <<avFile, avAge, avUrl, avMeta, avJob, avWork, avAsks, avEdits, avToday, avRaced>>

\* A day, or the rest of a week, goes by.
AvDay ==
  /\ avEdits < AvMaxEdits
  /\ avEdits' = avEdits + 1
  /\ avAge' = IF avAge = "new" THEN "day" ELSE "week"
  /\ avMeta' = [avMeta EXCEPT !.asked = FALSE]
  /\ avToday' = 0
  /\ UNCHANGED <<avPhoto, avPhotos, avFile, avUrl, avJob, avWork, avAsks, avRaced>>

\* A redeploy empties the upload directory.
AvRedeploy ==
  /\ avEdits < AvMaxEdits /\ avFile # 0
  /\ avEdits' = avEdits + 1
  /\ avFile' = 0
  /\ UNCHANGED <<avPhoto, avPhotos, avAge, avUrl, avMeta, avJob, avWork, avAsks, avToday, avRaced>>

\* An operator's PATCH replaces the metadata, the mark of the last attempt with it.
AvEdit ==
  /\ avEdits < AvMaxEdits
  /\ avEdits' = avEdits + 1
  /\ avMeta' = [edit |-> avEdits + 1, asked |-> FALSE]
  /\ avToday' = 0
  /\ avRaced' = (avRaced \/ AvBusy)
  /\ UNCHANGED <<avPhoto, avPhotos, avFile, avAge, avUrl, avJob, avWork, avAsks>>

-----------------------------------------------------------------------------
(* Who asks *)

avBegin(w, days) ==
  /\ avWork[w] = AvIdle /\ avAsks < AvMaxAsks
  /\ avAsks' = avAsks + 1
  /\ avRaced' = (avRaced \/ AvBusy)
  /\ LET recent == CASE avFile = 0 -> FALSE
                     [] avFile # 0 /\ days = 7 -> avAge # "week"
                     [] OTHER -> avAge = "new"
     IN avWork' = [avWork EXCEPT ![w] =
          IF (avUrl # 0 /\ recent) \/ (avUrl = 0 /\ avMeta.asked) THEN AvIdle
          ELSE [at |-> "mark", url |-> avUrl, meta |-> avMeta]]

\* An inbound message of a contact without a photo; nothing waits for the call.
AvInbound(w) ==
  /\ w # AvQueueSlot /\ avUrl = 0
  /\ avBegin(w, 7)
  /\ UNCHANGED <<avPhoto, avPhotos, avFile, avAge, avUrl, avMeta, avJob, avEdits, avToday>>

\* Opening the inbox queues the contacts without a photo that were not asked for today.
AvOpenInbox ==
  /\ avJob = "none" /\ avUrl = 0 /\ ~avMeta.asked
  /\ avJob' = "hydrate"
  /\ UNCHANGED <<avPhoto, avPhotos, avFile, avAge, avUrl, avMeta, avWork, avAsks, avEdits,
                 avToday, avRaced>>

\* Opening the conversation queues its contact; the fixed id drops it while one waits.
AvOpenConversation ==
  /\ avJob = "none" /\ avAsks < AvMaxAsks
  /\ avJob' = "refresh"
  /\ UNCHANGED <<avPhoto, avPhotos, avFile, avAge, avUrl, avMeta, avWork, avAsks, avEdits,
                 avToday, avRaced>>

AvTakeJob ==
  /\ avJob # "none"
  /\ avBegin(AvQueueSlot, IF avJob = "refresh" THEN 1 ELSE 7)
  /\ avJob' = "none"
  /\ UNCHANGED <<avPhoto, avPhotos, avFile, avAge, avUrl, avMeta, avEdits, avToday>>

-----------------------------------------------------------------------------
(* enrich() *)

\* The attempt is marked, with the rest of the metadata as it was read.
AvMark(w) ==
  /\ avWork[w].at = "mark"
  /\ avMeta' = [avWork[w].meta EXCEPT !.asked = TRUE]
  /\ avWork' = [avWork EXCEPT ![w] = [at |-> "fetch", url |-> avWork[w].url]]
  /\ avToday' = IF avWork[w].url = 0 THEN avToday + 1 ELSE avToday
  /\ UNCHANGED <<avPhoto, avPhotos, avFile, avAge, avUrl, avJob, avAsks, avEdits, avRaced>>

\* fetchChat and the picture; without a chat, a picture, or an answer, it ends here.
AvFetch(w) ==
  /\ avWork[w].at = "fetch"
  /\ avWork' = [avWork EXCEPT ![w] =
       IF avPhoto = 0 THEN AvIdle ELSE [at |-> "save", url |-> avWork[w].url, photo |-> avPhoto]]
  /\ UNCHANGED <<avPhoto, avPhotos, avFile, avAge, avUrl, avMeta, avJob, avAsks, avEdits,
                 avToday, avRaced>>

AvFail(w) ==
  /\ avWork[w].at \in {"fetch", "save", "write"}
  /\ avRaced' = (avRaced \/ avWork[w].at = "write")
  /\ avWork' = [avWork EXCEPT ![w] = AvIdle]
  /\ UNCHANGED <<avPhoto, avPhotos, avFile, avAge, avUrl, avMeta, avJob, avAsks, avEdits, avToday>>

\* saveAvatar: one file a contact, written over.
AvSave(w) ==
  /\ avWork[w].at = "save"
  /\ avFile' = avWork[w].photo /\ avAge' = "new"
  /\ avWork' = [avWork EXCEPT ![w].at = "write"]
  /\ UNCHANGED <<avPhoto, avPhotos, avUrl, avMeta, avJob, avAsks, avEdits, avToday, avRaced>>

\* Written whenever it is another one than the one that was read.
AvNewUrl(url, photo) == IF url # photo THEN photo ELSE avUrl

AvWrite(w) ==
  /\ avWork[w].at = "write"
  /\ avUrl' = AvNewUrl(avWork[w].url, avWork[w].photo)
  /\ avWork' = [avWork EXCEPT ![w] = AvIdle]
  /\ UNCHANGED <<avPhoto, avPhotos, avFile, avAge, avMeta, avJob, avAsks, avEdits, avToday, avRaced>>

AvNext ==
  \/ AvChangePhoto \/ AvDay \/ AvRedeploy \/ AvEdit
  \/ AvOpenInbox \/ AvOpenConversation \/ AvTakeJob
  \/ \E w \in AvWorkers :
       AvInbound(w) \/ AvMark(w) \/ AvFetch(w) \/ AvFail(w) \/ AvSave(w) \/ AvWrite(w)

AvSpec == AvInit /\ [][AvNext]_avVars

-----------------------------------------------------------------------------
(* Properties *)

AvWriting == \E w \in AvWorkers : avWork[w].at = "write"

\* The version in the url is the stored file's, so that a browser does not keep an old
\* photo: they part only while it is being written, or after calls that overlapped or failed.
AvUrlShowsFile == avUrl = avFile \/ avFile = 0 \/ AvWriting \/ avRaced

\* The provider is asked for a contact without a photo once a day, unless two calls overlap.
AvAskedOnce == avToday <= 1 \/ avRaced

\* What an operator wrote last into the metadata stays, unless a call overlaps the edit.
AvEditSurvives == avMeta'.edit < avMeta.edit => avRaced

\* The photo shown is the one stored, asked for once a day.
AvSafe == AvUrlShowsFile /\ AvAskedOnce
=============================================================================
