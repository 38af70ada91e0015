------------------------------ MODULE Membership ------------------------------
(***************************************************************************)
(* Who belongs to an organization: invitations, the registrations that     *)
(* redeem them, and the changes of role.  Every request checks what it     *)
(* read and writes without looking again.                                  *)
(***************************************************************************)
EXTENDS Naturals, FiniteSets

CONSTANTS
  MbPeople,      \* people by their e-mail, not registered at first
  MbFounder,     \* the owner every organization began with
  MbOrgs,        \* organizations
  MbInvites,     \* rows of invitations
  MbCallers,     \* requests in flight at once
  MbMaxCalls,    \* bound: requests made
  MbMaxFaults    \* bound: requests that die between two writes

ASSUME MbAssumption ==
  /\ MbFounder \notin MbPeople
  /\ MbOrgs # {} /\ MbInvites # {}
  /\ {MbMaxCalls, MbMaxFaults} \subseteq Nat

MbEverybody == MbPeople \union {MbFounder}
MbRoles == {"OWNER", "ADMIN", "AGENT"}
MbNone == "NONE"

VARIABLES
  mbUsers,    \* people that registered
  mbRole,     \* user_organizations: the role of a person in an organization
  mbInvite,   \* invitations, NONE before they are created
  mbCall,     \* what a request has read, with the step it does next; "exists": the
              \* user it found, or the membership row it read is still there
  mbCalls, mbFaults,
  mbRevoked,  \* history: invitations revoked before anyone was redeeming them
  mbCrossed   \* history: people whose membership two requests changed at once

mbVars == <<mbUsers, mbRole, mbInvite, mbCall, mbCalls, mbFaults, mbRevoked, mbCrossed>>

MbStatus == {MbNone, "PENDING", "ACCEPTED", "EXPIRED", "REVOKED"}
MbSteps == {"idle", "invite", "add", "accept", "join", "found", "role", "remove", "revoke"}
MbRest == [step |-> "idle", org |-> CHOOSE o \in MbOrgs : TRUE, who |-> MbFounder,
           role |-> "AGENT", exists |-> FALSE, inv |-> CHOOSE i \in MbInvites : TRUE]

MbTypeOK ==
  /\ mbUsers \subseteq MbEverybody
  /\ mbRole \in [MbEverybody \X MbOrgs -> MbRoles \union {MbNone}]
  /\ \A i \in MbInvites :
       mbInvite[i] \in [org : MbOrgs, who : MbEverybody, role : MbRoles, status : MbStatus,
                        late : BOOLEAN]
  /\ \A c \in MbCallers :
       mbCall[c] \in [step : MbSteps, org : MbOrgs, who : MbEverybody, role : MbRoles,
                      exists : BOOLEAN, inv : MbInvites]
  /\ mbCalls \in 0..MbMaxCalls /\ mbFaults \in 0..MbMaxFaults
  /\ mbRevoked \subseteq MbInvites /\ mbCrossed \subseteq MbEverybody \X MbOrgs

MbInit ==
  /\ mbUsers = {MbFounder}
  /\ mbRole = [m \in MbEverybody \X MbOrgs |-> IF m[1] = MbFounder THEN "OWNER" ELSE MbNone]
  /\ mbInvite = [i \in MbInvites |-> [org |-> MbRest.org, who |-> MbFounder, role |-> "AGENT",
                                      status |-> MbNone, late |-> FALSE]]
  /\ mbCall = [c \in MbCallers |-> MbRest]
  /\ mbCalls = 0 /\ mbFaults = 0
  /\ mbRevoked = {} /\ mbCrossed = {}

\* The roles and rights the guards check when a request comes in.
MbMayManage(actor, org) == mbRole[<<actor, org>>] \in {"OWNER", "ADMIN"}
MbChanging(org, who) ==
  \E d \in MbCallers : /\ mbCall[d].step \in {"role", "remove", "add", "join"}
                       /\ mbCall[d].org = org /\ mbCall[d].who = who

\* A request has checked what it asks for; the write is its next step.
MbAsk(c, call) ==
  /\ mbCall[c].step = "idle" /\ mbCalls < MbMaxCalls
  /\ mbCall' = [mbCall EXCEPT ![c] = call]
  /\ mbCalls' = mbCalls + 1
  /\ mbCrossed' = IF MbChanging(call.org, call.who)
                  THEN mbCrossed \union {<<call.who, call.org>>} ELSE mbCrossed
  /\ UNCHANGED <<mbUsers, mbRole, mbInvite, mbFaults, mbRevoked>>

\* A step of a request, and the step after it.
MbGo(c, from, to) ==
  /\ mbCall[c].step = from
  /\ mbCall' = [mbCall EXCEPT ![c] = IF to = "idle" THEN MbRest ELSE [@ EXCEPT !.step = to]]
  /\ UNCHANGED <<mbCalls, mbCrossed>>

-----------------------------------------------------------------------------
(* Invitations *)

\* inviteMember: a member is refused, whoever is registered is added at once.
MbAskInvite(c, actor, org, who, role) ==
  /\ MbMayManage(actor, org)
  /\ mbRole[<<who, org>>] = MbNone
  /\ MbAsk(c, [MbRest EXCEPT !.step = "invite", !.org = org, !.who = who, !.role = role,
                             !.exists = who \in mbUsers])

MbCreateInvitation(c, i) ==
  /\ mbInvite[i].status = MbNone
  /\ mbInvite' = [mbInvite EXCEPT ![i] = [org |-> mbCall[c].org, who |-> mbCall[c].who,
                                          role |-> mbCall[c].role, status |-> "PENDING",
                                          late |-> FALSE]]
  /\ mbCall[c].step = "invite"
  /\ mbCall' = [mbCall EXCEPT ![c] = IF mbCall[c].exists
                                     THEN [@ EXCEPT !.step = "add", !.inv = i] ELSE MbRest]
  /\ UNCHANGED <<mbUsers, mbRole, mbCalls, mbFaults, mbRevoked, mbCrossed>>

\* addMember: one membership per person and organization, else the request fails.
MbAddMember(c) ==
  LET m == <<mbCall[c].who, mbCall[c].org>>
  IN  /\ IF mbRole[m] = MbNone
         THEN /\ mbRole' = [mbRole EXCEPT ![m] = mbCall[c].role]
              /\ MbGo(c, "add", "accept")
         ELSE /\ MbGo(c, "add", "idle")
              /\ UNCHANGED mbRole
      /\ UNCHANGED <<mbUsers, mbInvite, mbFaults, mbRevoked>>

\* acceptInvitation, whatever the row says by now.
MbAccept(c) ==
  /\ MbGo(c, "accept", "idle")
  /\ mbInvite' = [mbInvite EXCEPT ![mbCall[c].inv].status = "ACCEPTED"]
  /\ UNCHANGED <<mbUsers, mbRole, mbFaults, mbRevoked>>

\* Seven days pass.
MbExpire(i) ==
  /\ mbInvite[i].status = "PENDING" /\ ~mbInvite[i].late
  /\ mbInvite' = [mbInvite EXCEPT ![i].late = TRUE]
  /\ UNCHANGED <<mbUsers, mbRole, mbCall, mbCalls, mbFaults, mbRevoked, mbCrossed>>

\* revokeInvitation: only a pending one ...
MbAskRevoke(c, actor, i) ==
  /\ mbInvite[i].status = "PENDING"
  /\ MbMayManage(actor, mbInvite[i].org)
  /\ MbAsk(c, [MbRest EXCEPT !.step = "revoke", !.org = mbInvite[i].org, !.inv = i])

\* ... which is revoked whatever the row says by then.
MbRevoke(c) ==
  LET i == mbCall[c].inv
  IN  /\ MbGo(c, "revoke", "idle")
      /\ mbInvite' = [mbInvite EXCEPT ![i].status = "REVOKED"]
      /\ mbRevoked' = IF \E d \in MbCallers : mbCall[d].step \in {"join", "add", "accept"}
                                              /\ mbCall[d].inv = i
                      THEN mbRevoked ELSE mbRevoked \union {i}
      /\ UNCHANGED <<mbUsers, mbRole, mbFaults>>

-----------------------------------------------------------------------------
(* Registration *)

\* Mutant: an invitation is not asked whether it is still pending.
MbAskJoinAnyStatus(c, i) ==
  /\ mbInvite[i].status # MbNone
  /\ mbInvite[i].who \notin mbUsers
  /\ ~mbInvite[i].late
  /\ MbAsk(c, [MbRest EXCEPT !.step = "join", !.org = mbInvite[i].org, !.who = mbInvite[i].who,
                             !.role = mbInvite[i].role, !.inv = i])

\* registerWithInvite: the e-mail is new, the invitation is its own, pending
\* and in time ...
MbAskJoin(c, i) ==
  /\ mbInvite[i].status = "PENDING"
  /\ mbInvite[i].who \notin mbUsers
  /\ ~mbInvite[i].late
  /\ MbAsk(c, [MbRest EXCEPT !.step = "join", !.org = mbInvite[i].org, !.who = mbInvite[i].who,
                             !.role = mbInvite[i].role, !.inv = i])

\* ... and one transaction creates the user and the membership, accepts the
\* invitation and expires every other pending one of the e-mail, of any
\* organization; it fails whole when the e-mail was registered meanwhile.
MbJoin(c) ==
  LET call == mbCall[c]
  IN  /\ MbGo(c, "join", "idle")
      /\ IF call.who \in mbUsers
         THEN UNCHANGED <<mbUsers, mbRole, mbInvite>>
         ELSE /\ mbUsers' = mbUsers \union {call.who}
              /\ mbRole' = [mbRole EXCEPT ![<<call.who, call.org>>] = call.role]
              /\ mbInvite' = [i \in MbInvites |->
                   IF i = call.inv THEN [mbInvite[i] EXCEPT !.status = "ACCEPTED"]
                   ELSE IF mbInvite[i].who = call.who /\ mbInvite[i].status = "PENDING"
                        THEN [mbInvite[i] EXCEPT !.status = "EXPIRED"] ELSE mbInvite[i]]
      /\ UNCHANGED <<mbFaults, mbRevoked>>

\* registerNewWorkspace: a user with an organization of its own, which invites
\* nobody here; the invitations that wait for the e-mail are not looked at.
MbAskFound(c, who) ==
  /\ who \notin mbUsers
  /\ MbAsk(c, [MbRest EXCEPT !.step = "found", !.who = who])

MbFound(c) ==
  /\ MbGo(c, "found", "idle")
  /\ mbUsers' = mbUsers \union {mbCall[c].who}
  /\ UNCHANGED <<mbRole, mbInvite, mbFaults, mbRevoked>>

-----------------------------------------------------------------------------
(* Members *)

\* updateMemberRole: an owner stays one, only owners make one.
MbAskRole(c, actor, org, who, role) ==
  /\ MbMayManage(actor, org)
  /\ mbRole[<<who, org>>] # MbNone
  /\ mbRole[<<who, org>>] = "OWNER" => role = "OWNER"
  /\ ~(mbRole[<<actor, org>>] = "ADMIN" /\ role = "OWNER")
  /\ MbAsk(c, [MbRest EXCEPT !.step = "role", !.org = org, !.who = who, !.role = role,
                             !.exists = TRUE])

\* The row is updated by its id: a removed one makes the request fail.
MbSetRole(c) ==
  LET m == <<mbCall[c].who, mbCall[c].org>>
  IN  /\ MbGo(c, "role", "idle")
      /\ mbRole' = IF mbCall[c].exists THEN [mbRole EXCEPT ![m] = mbCall[c].role] ELSE mbRole
      /\ UNCHANGED <<mbUsers, mbInvite, mbFaults, mbRevoked>>

\* removeMember: not an owner; not oneself, when the member is named by the user's
\* id and not by the membership's.
MbAskRemove(c, actor, org, who, byUser) ==
  /\ MbMayManage(actor, org)
  /\ mbRole[<<who, org>>] \notin {MbNone, "OWNER"}
  /\ ~(byUser /\ who = actor)
  /\ MbAsk(c, [MbRest EXCEPT !.step = "remove", !.org = org, !.who = who, !.exists = TRUE])

\* The row goes, also from under the other requests that read it.
MbRemove(c) ==
  LET call == mbCall[c]
  IN  /\ call.step = "remove"
      /\ mbRole' = IF call.exists THEN [mbRole EXCEPT ![<<call.who, call.org>>] = MbNone]
                   ELSE mbRole
      /\ mbCall' = [d \in MbCallers |->
           IF d = c THEN MbRest
           ELSE IF /\ call.exists /\ mbCall[d].step \in {"role", "remove"}
                   /\ mbCall[d].who = call.who /\ mbCall[d].org = call.org
                THEN [mbCall[d] EXCEPT !.exists = FALSE] ELSE mbCall[d]]
      /\ UNCHANGED <<mbUsers, mbInvite, mbCalls, mbFaults, mbRevoked, mbCrossed>>

\* The process dies, or the database fails, before a request's next write.
MbDie(c) ==
  /\ mbCall[c].step # "idle" /\ mbFaults < MbMaxFaults
  /\ mbFaults' = mbFaults + 1
  /\ mbCall' = [mbCall EXCEPT ![c] = MbRest]
  /\ UNCHANGED <<mbUsers, mbRole, mbInvite, mbCalls, mbRevoked, mbCrossed>>

MbNext ==
  \/ \E c \in MbCallers, actor \in mbUsers, o \in MbOrgs, who \in MbEverybody :
       \/ \E role \in MbRoles : MbAskInvite(c, actor, o, who, role)
                                \/ MbAskRole(c, actor, o, who, role)
       \/ \E byUser \in BOOLEAN : MbAskRemove(c, actor, o, who, byUser)
  \/ \E c \in MbCallers, i \in MbInvites :
       \/ MbCreateInvitation(c, i) \/ MbAskJoin(c, i)
       \/ \E actor \in mbUsers : MbAskRevoke(c, actor, i)
  \/ \E c \in MbCallers :
       \/ MbAddMember(c) \/ MbAccept(c) \/ MbRevoke(c) \/ MbJoin(c) \/ MbFound(c)
       \/ MbSetRole(c) \/ MbRemove(c) \/ MbDie(c)
       \/ \E who \in MbPeople : MbAskFound(c, who)
  \/ \E i \in MbInvites : MbExpire(i)

MbSpec == MbInit /\ [][MbNext]_mbVars

-----------------------------------------------------------------------------
(* Properties *)

\* However requests overlap or die, the owner an organization began with stays
\* its owner: there is always someone who can manage it.
MbAlwaysOwned == \A o \in MbOrgs : mbRole[<<MbFounder, o>>] = "OWNER"

\* An invitation that was revoked while nobody was redeeming it stays revoked and
\* brings nobody in.
MbRevokedIsFinal ==
  \A i \in mbRevoked :
    /\ mbInvite[i].status = "REVOKED"
    /\ \A c \in MbCallers : mbCall[c].step \in {"join", "accept"} => mbCall[c].inv # i

\* Everyone who came in was invited to that organization, and the invitation says
\* so, unless the request that adds the member has not got to it or died before,
\* or a revocation that had read it pending wrote over it.
MbMembersWereInvited ==
  \A p \in MbPeople, o \in MbOrgs :
    mbRole[<<p, o>>] # MbNone =>
      /\ p \in mbUsers
      /\ \E i \in MbInvites :
           /\ mbInvite[i].who = p /\ mbInvite[i].org = o
           /\ \/ mbInvite[i].status \in {"ACCEPTED", "REVOKED"}
              \/ \E c \in MbCallers : mbCall[c].step = "accept" /\ mbCall[c].inv = i
              \/ mbFaults > 0

\* An owner stays owner and a member, unless a request that read the membership
\* before it became an owner's writes after.
MbOwnersStay ==
  \A m \in (MbEverybody \X MbOrgs) \ mbCrossed :
    mbRole[m] = "OWNER" => mbRole'[m] = "OWNER"

\* What invitations and requests about members may come to.
MbSafe == MbAlwaysOwned /\ MbRevokedIsFinal /\ MbMembersWereInvited
=============================================================================
