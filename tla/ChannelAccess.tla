----------------------------- MODULE ChannelAccess -----------------------------
(***************************************************************************)
(* Which channels a member sees, by the grants in the database, and what   *)
(* the member's open sockets receive, by the rooms they have joined; the   *)
(* presence entry the sockets keep in Redis.                               *)
(***************************************************************************)
EXTENDS Naturals

CONSTANTS
  CaChannels,
  CaSockets,     \* sockets (tabs) of the member
  CaCallers,     \* requests of administrators
  CaCallerSees,  \* PRIVATE channels the administrators have a grant on
  CaMaxChanges   \* bound: requests

ASSUME CaAssumption == CaCallerSees \subseteq CaChannels /\ CaMaxChanges \in Nat

VARIABLES
  caRole,      \* role of the member
  caChannel,   \* caChannel[c]: none, ORG, PRIVATE or deleted
  caGrants,    \* channels of the member's channel_agents rows
  caSock,      \* caSock[s]: how far the handshake is, rooms, client.data.channelIds
  caCall,      \* caCall[u]: the grant changes of a request, to write or to push
  caOnline,    \* the member's entry of presence:<org>
  caChanges,   \* requests so far
  caDrift,     \* history: a change that no socket is told of, or an overlap
  caGhost      \* history: a socket went away before its handshake ended

caVars == <<caRole, caChannel, caGrants, caSock, caCall, caOnline, caChanges, caDrift, caGhost>>

CaIdle == [pc |-> "idle", add |-> {}, remove |-> {}]
CaClosed == [pc |-> "closed", open |-> FALSE, seen |-> {}, rooms |-> {}, ids |-> {}]

CaTypeOK ==
  /\ caRole \in {"AGENT", "ADMIN"}
  /\ caChannel \in [CaChannels -> {"none", "ORG", "PRIVATE", "deleted"}]
  /\ caGrants \subseteq CaChannels
  /\ caSock \in [CaSockets -> [pc : {"closed", "auth", "join", "online", "ready"}, open : BOOLEAN,
                   seen : SUBSET CaChannels, rooms : SUBSET CaChannels, ids : SUBSET CaChannels]]
  /\ caCall \in [CaCallers -> [pc : {"idle", "write", "push"}, add : SUBSET CaChannels,
                               remove : SUBSET CaChannels]]
  /\ caChanges \in 0..CaMaxChanges
  /\ {caOnline, caDrift, caGhost} \subseteq BOOLEAN

CaInit ==
  /\ caRole \in {"AGENT", "ADMIN"}
  /\ caChannel = [c \in CaChannels |-> "none"]
  /\ caGrants = {}
  /\ caSock = [s \in CaSockets |-> CaClosed]
  /\ caCall = [u \in CaCallers |-> CaIdle]
  /\ caOnline = FALSE /\ caChanges = 0 /\ caDrift = FALSE /\ caGhost = FALSE

CaSession == <<caSock, caOnline, caGhost>>

CaLive == {c \in CaChannels : caChannel[c] \in {"ORG", "PRIVATE"}}

\* getAccessibleChannelIdSet: the explicit grants, and the ORG channels for an
\* owner or an administrator; deleted channels left out.
CaAccessible == {c \in CaLive : c \in caGrants \/ (caRole = "ADMIN" /\ caChannel[c] = "ORG")}

\* A request begins: the changes are bounded, and another one in progress or a
\* socket between its read and its joins is an overlap.
CaBusyBut(u) ==
  \/ \E v \in CaCallers \ {u} : caCall[v].pc # "idle"
  \/ \E s \in CaSockets : caSock[s].pc = "join"
CaCount == caChanges < CaMaxChanges /\ caChanges' = caChanges + 1

-----------------------------------------------------------------------------
(* Channels *)

\* create: the member is the creator, or not.  An AGENT gets a grant, and so does
\* any creator of a PRIVATE channel; no socket is told.
CaCreate(c, visibility, mine) ==
  /\ CaCount
  /\ caChannel[c] = "none"
  /\ caChannel' = [caChannel EXCEPT ![c] = visibility]
  /\ caGrants' = IF mine /\ (caRole = "AGENT" \/ visibility = "PRIVATE")
                 THEN caGrants \union {c} ELSE caGrants
  /\ caDrift' = (caDrift \/ \E s \in CaSockets : caSock[s].pc # "closed")
  /\ UNCHANGED <<caRole, caCall, CaSession>>

\* setChannelVisibility, by someone else than the member.
CaSetVisibility(c) ==
  /\ CaCount
  /\ caChannel[c] \in {"ORG", "PRIVATE"}
  /\ caChannel' = [caChannel EXCEPT ![c] = IF @ = "ORG" THEN "PRIVATE" ELSE "ORG"]
  /\ caDrift' = (caDrift \/ (caRole = "ADMIN" /\
       ((\E s \in CaSockets : caSock[s].pc # "closed") \/ \E u \in CaCallers : caCall[u].pc # "idle")))
  /\ UNCHANGED <<caRole, caGrants, caCall, CaSession>>

\* softDelete keeps the grants and the rooms.
CaRemoveChannel(c) ==
  /\ CaCount
  /\ c \in CaLive
  /\ caChannel' = [caChannel EXCEPT ![c] = "deleted"]
  /\ UNCHANGED <<caRole, caGrants, caCall, caDrift, CaSession>>

-----------------------------------------------------------------------------
(* Grants: written first, pushed to the member's sockets afterwards *)

\* addChannelAgent
CaAdd(u, c) ==
  /\ CaCount
  /\ caCall[u].pc = "idle"
  /\ c \in CaLive
  /\ caGrants' = caGrants \union {c}
  /\ caCall' = [caCall EXCEPT ![u] = [CaIdle EXCEPT !.pc = "push", !.add = {c}]]
  /\ caDrift' = (caDrift \/ CaBusyBut(u))
  /\ UNCHANGED <<caRole, caChannel, CaSession>>

\* removeChannelAgent; an administrator who sees the channel anyway leaves its room.
CaRemove(u, c) ==
  /\ CaCount
  /\ caCall[u].pc = "idle"
  /\ caChannel[c] # "none"
  /\ caGrants' = caGrants \ {c}
  /\ caCall' = [caCall EXCEPT ![u] = [CaIdle EXCEPT !.pc = "push", !.remove = {c}]]
  /\ caDrift' = (caDrift \/ CaBusyBut(u) \/ (caRole = "ADMIN" /\ caChannel[c] = "ORG"))
  /\ UNCHANGED <<caRole, caChannel, CaSession>>

CaScope == {c \in CaLive : caChannel[c] = "ORG" \/ c \in CaCallerSees}

\* Only what the caller could have granted is revoked.
CaToRemove(target) == (caGrants \intersect CaScope) \ target

\* setMemberChannels reads the grants and works out the difference ...
CaSetRead(u, target) ==
  /\ CaCount
  /\ caCall[u].pc = "idle"
  /\ target \subseteq CaScope
  /\ caCall' = [caCall EXCEPT ![u] =
       [pc |-> "write", add |-> target \ caGrants, remove |-> CaToRemove(target)]]
  /\ caDrift' = (caDrift \/ CaBusyBut(u) \/
       (caRole = "ADMIN" /\ \E c \in CaToRemove(target) : caChannel[c] = "ORG"))
  /\ UNCHANGED <<caRole, caChannel, caGrants, CaSession>>

\* ... and writes it in one transaction; a row that exists by now makes it fail.
CaSetWrite(u) ==
  LET call == caCall[u] IN
  /\ call.pc = "write"
  /\ IF call.add \intersect caGrants = {}
     THEN /\ caGrants' = (caGrants \ call.remove) \union call.add
          /\ caCall' = [caCall EXCEPT ![u].pc = "push"]
     ELSE UNCHANGED caGrants /\ caCall' = [caCall EXCEPT ![u] = CaIdle]
  /\ UNCHANGED <<caRole, caChannel, caChanges, caDrift, CaSession>>

\* grantChannelToUser, revokeChannelFromUser
CaPushTo(sock, call) ==
  [sock EXCEPT !.rooms = (@ \union call.add) \ call.remove,
               !.ids = (@ \union call.add) \ call.remove]

CaPush(u) ==
  /\ caCall[u].pc = "push"
  /\ caSock' = [s \in CaSockets |-> IF caSock[s].open THEN CaPushTo(caSock[s], caCall[u])
                                    ELSE caSock[s]]
  /\ caDrift' = (caDrift \/ CaBusyBut(u))
  /\ caCall' = [caCall EXCEPT ![u] = CaIdle]
  /\ UNCHANGED <<caRole, caChannel, caGrants, caChanges, caOnline, caGhost>>

-----------------------------------------------------------------------------
(* RealtimeGateway *)

CaData == <<caRole, caChannel, caGrants, caCall, caChanges, caDrift>>

\* handleConnection verifies the token and joins the rooms of the user, ...
CaConnect(s) ==
  /\ caSock[s].pc = "closed"
  /\ caSock' = [caSock EXCEPT ![s] = [CaClosed EXCEPT !.pc = "auth", !.open = TRUE]]
  /\ UNCHANGED <<CaData, caOnline, caGhost>>

\* ... reads the membership and what it sees, ...
CaResolve(s) ==
  /\ caSock[s].pc = "auth"
  /\ caSock' = [caSock EXCEPT ![s].pc = "join", ![s].seen = CaAccessible]
  /\ caDrift' = (caDrift \/ \E u \in CaCallers : caCall[u].pc = "push")
  /\ UNCHANGED <<caRole, caChannel, caGrants, caCall, caChanges, caOnline, caGhost>>

\* ... joins those channels' rooms and keeps the list it read, ...
CaJoinRooms(s) ==
  /\ caSock[s].pc = "join"
  /\ caSock' = [caSock EXCEPT ![s].pc = "online", ![s].rooms = @ \union caSock[s].seen,
                              ![s].ids = caSock[s].seen, ![s].seen = {}]
  /\ UNCHANGED <<CaData, caOnline, caGhost>>

\* ... and writes the presence entry, also when the socket has gone meanwhile.
CaSetOnline(s) ==
  /\ caSock[s].pc = "online"
  /\ caOnline' = TRUE
  /\ caSock' = [caSock EXCEPT ![s] = IF @.open THEN [@ EXCEPT !.pc = "ready"] ELSE CaClosed]
  /\ UNCHANGED <<CaData, caGhost>>

\* setOffline, whatever other tabs are open.
CaOnlineAfter == FALSE

CaDisconnect(s) ==
  /\ caSock[s].open
  /\ caOnline' = CaOnlineAfter
  /\ caSock' = [caSock EXCEPT ![s] = IF @.pc = "ready" THEN CaClosed ELSE [@ EXCEPT !.open = FALSE]]
  /\ caGhost' = (caGhost \/ caSock[s].pc # "ready")
  /\ UNCHANGED CaData

\* presence:<org> expires two minutes after the last connection of anyone.
CaExpire ==
  /\ caOnline
  /\ caOnline' = FALSE
  /\ UNCHANGED <<CaData, caSock, caGhost>>

CaNext ==
  \/ \E c \in CaChannels :
       \/ \E v \in {"ORG", "PRIVATE"}, mine \in BOOLEAN : CaCreate(c, v, mine)
       \/ CaSetVisibility(c) \/ CaRemoveChannel(c)
       \/ \E u \in CaCallers : CaAdd(u, c) \/ CaRemove(u, c)
  \/ \E u \in CaCallers : \/ CaSetWrite(u) \/ CaPush(u)
                          \/ \E target \in SUBSET CaChannels : CaSetRead(u, target)
  \/ \E s \in CaSockets : \/ CaConnect(s) \/ CaResolve(s) \/ CaJoinRooms(s)
                          \/ CaSetOnline(s) \/ CaDisconnect(s)
  \/ CaExpire

CaSpec == CaInit /\ [][CaNext]_caVars

-----------------------------------------------------------------------------
(* Properties *)

\* Live updates follow the grants without a new login: when no request is under
\* way, an open socket is in the rooms of exactly the live channels its member
\* sees, and knows them, unless a channel changed under it or requests overlapped.
CaRoomsFollowGrants ==
  ~caDrift /\ (\A u \in CaCallers : caCall[u].pc = "idle") =>
    \A s \in CaSockets : caSock[s].open /\ caSock[s].pc \in {"online", "ready"} =>
      /\ caSock[s].rooms \intersect CaLive = CaAccessible
      /\ caSock[s].ids \intersect CaLive = CaAccessible

\* A member shown online has an open socket, unless one went away in the middle of
\* its handshake.
CaOnlineHasSocket == caOnline /\ ~caGhost => \E s \in CaSockets : caSock[s].pc = "ready"

\* What a member is shown live follows what the member was granted.
CaSafe == CaRoomsFollowGrants /\ CaOnlineHasSocket
=============================================================================
