--------------------------------- MODULE Inbox ---------------------------------
(***************************************************************************)
(* What an operator's inbox shows of a conversation: the filters of the    *)
(* listing, and what is unread for a user (messages carry the provider's   *)
(* time, cursors the server's, and two queries answer the same question).  *)
(***************************************************************************)
EXTENDS Integers, FiniteSets

CONSTANTS
  IbUsers,    \* operators
  IbMaxTime   \* bound: milliseconds the clock counts

ASSUME IbAssumption == IbMaxTime \in Nat

VARIABLES
  ibConv,    \* the conversation: where it is and what the filters ask of it
  ibMsgs,    \* messages: direction and createdAt
  ibRead,    \* ConversationRead.lastReadAt per user, -1 when there is no row
  ibClock,
  ibCall,    \* ibCall[u]: a markAsUnread in flight, the inbound it found, else -1
  ibFresh,   \* history: users with an inbound that arrived since they last read
  ibMarked   \* history: users that marked as unread since they last read

ibVars == <<ibConv, ibMsgs, ibRead, ibClock, ibCall, ibFresh, ibMarked>>

IbChannels == {"mine", "other"}
IbDirections == {"INBOUND", "OUTBOUND"}
IbConvType == [channel : IbChannels, isArchived : BOOLEAN,
               tagged : BOOLEAN, hit : BOOLEAN]

IbTypeOK ==
  /\ ibConv \in IbConvType
  /\ ibMsgs \subseteq [dir : IbDirections, at : 0..IbMaxTime]
  /\ ibRead \in [IbUsers -> -1..IbMaxTime]
  /\ ibClock \in 0..IbMaxTime
  /\ ibCall \in [IbUsers -> -1..IbMaxTime]
  /\ ibFresh \subseteq IbUsers
  /\ ibMarked \subseteq IbUsers

IbInit ==
  /\ ibConv \in {c \in IbConvType : ~c.isArchived /\ ~c.tagged}
  /\ ibMsgs = {}
  /\ ibRead = [u \in IbUsers |-> -1]
  /\ ibClock = 0
  /\ ibCall = [u \in IbUsers |-> -1]
  /\ ibFresh = {}
  /\ ibMarked = {}

IbNewest(S) == IF S = {} THEN -1 ELSE CHOOSE t \in S : \A v \in S : v <= t
IbTimes(dir) == {m.at : m \in {n \in ibMsgs : n.dir = dir}}

-----------------------------------------------------------------------------
(* Messages and cursors *)

IbTick ==
  /\ ibClock < IbMaxTime
  /\ ibClock' = ibClock + 1
  /\ UNCHANGED <<ibConv, ibMsgs, ibRead, ibCall, ibFresh, ibMarked>>

\* The pipeline and the import stamp a row with the provider's time, which may
\* be long past when a delayed or imported message is stored.
IbReceive(at) ==
  /\ at <= ibClock
  /\ ibMsgs' = ibMsgs \union {[dir |-> "INBOUND", at |-> at]}
  /\ ibFresh' = {u \in IbUsers : \/ u \in ibFresh
                                 \/ /\ at > ibRead[u]
                                    /\ at > IbNewest(IbTimes("OUTBOUND"))}
  /\ UNCHANGED <<ibConv, ibRead, ibClock, ibCall, ibMarked>>

\* Any answer of the team makes the conversation read for everyone.
IbAnswer ==
  /\ ibMsgs' = ibMsgs \union {[dir |-> "OUTBOUND", at |-> ibClock]}
  /\ ibFresh' = {}
  /\ ibMarked' = {}
  /\ UNCHANGED <<ibConv, ibRead, ibClock, ibCall>>

IbMarkAsRead(u) ==
  /\ ibRead' = [ibRead EXCEPT ![u] = ibClock]
  /\ ibFresh' = ibFresh \ {u}
  /\ ibMarked' = ibMarked \ {u}
  /\ UNCHANGED <<ibConv, ibMsgs, ibClock, ibCall>>

\* markAsUnread: the newest inbound is read first; without one the row goes.
IbAskUnread(u) ==
  /\ ibCall[u] = -1
  /\ IF IbTimes("INBOUND") = {}
     THEN /\ ibRead' = [ibRead EXCEPT ![u] = -1]
          /\ UNCHANGED ibCall
     ELSE /\ ibCall' = [ibCall EXCEPT ![u] = IbNewest(IbTimes("INBOUND"))]
          /\ UNCHANGED ibRead
  /\ UNCHANGED <<ibConv, ibMsgs, ibClock, ibFresh, ibMarked>>

\* Mutant: the cursor goes further back than a millisecond.
IbMarksTooFar(u) ==
  /\ ibCall[u] # -1
  /\ ibRead' = [ibRead EXCEPT ![u] = ibCall[u] - 2]
  /\ ibCall' = [ibCall EXCEPT ![u] = -1]
  /\ ibMarked' = ibMarked
  /\ UNCHANGED <<ibConv, ibMsgs, ibClock, ibFresh>>

\* ... then the cursor goes one millisecond before it.
IbMarkAsUnread(u) ==
  /\ ibCall[u] # -1
  /\ ibRead' = [ibRead EXCEPT ![u] = ibCall[u] - 1]
  /\ ibCall' = [ibCall EXCEPT ![u] = -1]
  /\ ibMarked' = IF ibCall[u] > IbNewest(IbTimes("OUTBOUND"))
                 THEN ibMarked \union {u} ELSE ibMarked
  /\ UNCHANGED <<ibConv, ibMsgs, ibClock, ibFresh>>

\* setArchived; tags set and removed.
IbSet(field, value) ==
  /\ ibConv[field] # value
  /\ ibConv' = [ibConv EXCEPT ![field] = value]
  /\ UNCHANGED <<ibMsgs, ibRead, ibClock, ibCall, ibFresh, ibMarked>>

-----------------------------------------------------------------------------
(* Queries *)

\* Mutant: an answer of a colleague does not take a message off the list.
IbUnreadIgnoresTeam(u) == \E t \in IbTimes("INBOUND") : t > ibRead[u]

\* The unreadOnly query: an inbound newer than the user's cursor and than the
\* newest outbound of anybody, each condition skipped when there is no such row.
IbUnreadOnly(u) ==
  \E t \in IbTimes("INBOUND") :
    /\ ibRead[u] = -1 \/ t > ibRead[u]
    /\ \A o \in IbTimes("OUTBOUND") : t > o

\* attachUnreadCounts: one cursor, the later of the two.
IbUnreadCount(u) ==
  LET cursor == IbNewest({ibRead[u]} \union IbTimes("OUTBOUND"))
  IN  Cardinality({t \in IbTimes("INBOUND") : t > cursor})

\* What a request may ask: access {"ALL"} or the user's channels, channels named
\* in the request ({} is none), an archive scope, tags, a text; "excluded" stands
\* for the conditions on status, kind, assignee, stuck and resolved ids.
IbFilters ==
  [access : {{"ALL"}, {}, {"mine"}}, channels : {{}, {"other"}, IbChannels},
   archived : {"exclude", "only", "any"}, excluded : BOOLEAN, tagIds : BOOLEAN, search : BOOLEAN]

\* The effective channels: those requested within those accessible.
IbChannelWhere(f) ==
  IF f.access = {"ALL"}
  THEN IF f.channels # {} THEN f.channels ELSE IbChannels
  ELSE IF f.channels # {} THEN f.channels \intersect f.access ELSE f.access

\* findInbox: the where clause; a search writes over the tag condition.
IbListed(f) ==
  /\ ibConv.channel \in IbChannelWhere(f)
  /\ f.archived = "exclude" => ~ibConv.isArchived
  /\ f.archived = "only" => ibConv.isArchived
  /\ ~f.excluded
  /\ IF f.search THEN ibConv.hit ELSE f.tagIds => ibConv.tagged

IbNext ==
  \/ IbTick
  \/ \E at \in 0..IbMaxTime : IbReceive(at)
  \/ IbAnswer
  \/ \E u \in IbUsers : IbMarkAsRead(u) \/ IbAskUnread(u) \/ IbMarkAsUnread(u)
  \/ \E f \in {"isArchived", "tagged"}, b \in BOOLEAN :
       IbSet(f, b)

IbSpec == IbInit /\ [][IbNext]_ibVars

-----------------------------------------------------------------------------
(* Properties *)

\* The badge and the unread filter answer alike, whatever was read, answered,
\* marked or delivered late.
IbBadgeMatchesFilter == \A u \in IbUsers : IbUnreadOnly(u) <=> IbUnreadCount(u) > 0

\* A conversation marked as unread stays on the user's unread list until the
\* user reads it or the team answers, even when messages came in meanwhile.
IbMarkedIsUnread == \A u \in ibMarked : IbUnreadOnly(u)

\* An inbound that carries a time after the user's cursor and the last answer
\* is on the list until it is read or answered; one stored late need not be.
IbFreshIsUnread == \A u \in ibFresh : IbUnreadOnly(u)

\* No combination of view, dropdown, segment and search lists a conversation of a
\* channel the user cannot see or did not ask for, nor one outside the archive
\* scope; tags are respected unless the request also searches.
IbListWithinFilters ==
  \A f \in IbFilters : IbListed(f) =>
    /\ f.access # {"ALL"} => ibConv.channel \in f.access
    /\ f.channels # {} => ibConv.channel \in f.channels
    /\ ibConv.isArchived => f.archived # "exclude"
    /\ f.tagIds => ibConv.tagged \/ f.search

\* The badge and the lists agree, and nothing unread hides.
IbSafe == IbBadgeMatchesFilter /\ IbMarkedIsUnread /\ IbFreshIsUnread /\ IbListWithinFilters
=============================================================================
