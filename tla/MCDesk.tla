------------------------------- MODULE MCDesk -------------------------------
(* TLC instances of the operators' desk and of the channels: one part moves, the others rest. *)
EXTENDS Conversations, Inbox, Contacts, ChannelAccess, Kanban, Avatars, MediaMessages,
        ChannelSync, ThreadSync, GmailPolling, ChannelAdapters, WebhookRouting, Chatbot,
        Membership

VARIABLE focus  \* the part that moves in this behaviour

Parts == {"conversations", "inbox", "contacts", "access", "kanban", "avatars", "media", "sync",
          "thread", "gmail", "adapters", "routing", "chatbot", "members"}

\* The other parts rest in the first of their initial states. Which of the conversations is
\* first in the provider's list makes no difference to the import.
MCInit ==
  /\ focus \in Parts
  /\ CvInit
  /\ IbInit
  /\ focus = "inbox" \/ ibConv = CHOOSE c \in IbConvType : ~c.isArchived /\ ~c.tagged
  /\ CtInit
  /\ focus = "contacts" \/ ctType = CHOOSE t \in CtTypes : TRUE
  /\ CaInit
  /\ focus = "access" \/ caRole = "AGENT"
  /\ KbInit
  /\ focus = "kanban" \/ kbType = [s \in KbStages |-> CHOOSE t \in KbTypes : TRUE]
  /\ AvInit
  /\ MdInit
  /\ focus = "media" \/ mdRow = [kind |-> "plain", media |-> "none", id |-> FALSE, ext |-> TRUE,
                                  text |-> "none"]
  /\ CsInit
  /\ csOrder = CHOOSE s \in [1..Cardinality(CsConvs) -> CsConvs] : ToSet(s) = CsConvs
  /\ TsInit
  /\ GpInit
  /\ AdInit
  /\ focus = "adapters" \/ adKind = CHOOSE k \in AdKinds : TRUE
  /\ WrInit
  /\ focus = "routing" \/ wrType = CHOOSE t \in DOMAIN WrIds : TRUE
  /\ CbInit
  /\ MbInit

\* Bound of the adapters: the second message is a text the inbox sent.
AdBound == Len(adMail) = 2 => adMail[2].by = "inbox" /\ adMail[2].type = "TEXT"

\* Bound of the imports: a conversation moves while one import was asked for at most.
CsBound == csMoves > 0 => Cardinality({j \in CsJobs : csRow[j] # "NONE"}) <= 1

\* Bound of the routing: one channel at a time completes the ids it was created with.
WrBound == Cardinality({c \in WrChannels : wrEnrich[c] \in {"read", "write"}}) <= 1

mcVars == <<focus, cvVars, ibVars, ctVars, caVars, kbVars, avVars, mdVars, csVars, tsVars,
            gpVars, adVars, wrVars, cbVars, mbVars>>

MCNext ==
  \/ /\ focus = "conversations" /\ CvNext
     /\ UNCHANGED <<focus, ibVars, ctVars, caVars, kbVars, avVars, mdVars, csVars,
                    tsVars, gpVars, adVars, wrVars, cbVars, mbVars>>
  \/ /\ focus = "inbox" /\ IbNext
     /\ UNCHANGED <<focus, cvVars, ctVars, caVars, kbVars, avVars, mdVars, csVars,
                    tsVars, gpVars, adVars, wrVars, cbVars, mbVars>>
  \/ /\ focus = "contacts" /\ CtNext
     /\ UNCHANGED <<focus, cvVars, ibVars, caVars, kbVars, avVars, mdVars, csVars,
                    tsVars, gpVars, adVars, wrVars, cbVars, mbVars>>
  \/ /\ focus = "access" /\ CaNext
     /\ UNCHANGED <<focus, cvVars, ibVars, ctVars, kbVars, avVars, mdVars, csVars,
                    tsVars, gpVars, adVars, wrVars, cbVars, mbVars>>
  \/ /\ focus = "kanban" /\ KbNext
     /\ UNCHANGED <<focus, cvVars, ibVars, ctVars, caVars, avVars, mdVars, csVars,
                    tsVars, gpVars, adVars, wrVars, cbVars, mbVars>>
  \/ /\ focus = "avatars" /\ AvNext
     /\ UNCHANGED <<focus, cvVars, ibVars, ctVars, caVars, kbVars, mdVars, csVars,
                    tsVars, gpVars, adVars, wrVars, cbVars, mbVars>>
  \/ /\ focus = "media" /\ MdNext
     /\ UNCHANGED <<focus, cvVars, ibVars, ctVars, caVars, kbVars, avVars, csVars,
                    tsVars, gpVars, adVars, wrVars, cbVars, mbVars>>
  \/ /\ focus = "sync" /\ CsNext /\ CsBound'
     /\ UNCHANGED <<focus, cvVars, ibVars, ctVars, caVars, kbVars, avVars, mdVars,
                    tsVars, gpVars, adVars, wrVars, cbVars, mbVars>>
  \/ /\ focus = "thread" /\ TsNext
     /\ UNCHANGED <<focus, cvVars, ibVars, ctVars, caVars, kbVars, avVars, mdVars,
                    csVars, gpVars, adVars, wrVars, cbVars, mbVars>>
  \/ /\ focus = "gmail" /\ GpNext
     /\ UNCHANGED <<focus, cvVars, ibVars, ctVars, caVars, kbVars, avVars, mdVars,
                    csVars, tsVars, adVars, wrVars, cbVars, mbVars>>
  \/ /\ focus = "adapters" /\ AdNext /\ AdBound'
     /\ UNCHANGED <<focus, cvVars, ibVars, ctVars, caVars, kbVars, avVars, mdVars,
                    csVars, tsVars, gpVars, wrVars, cbVars, mbVars>>
  \/ /\ focus = "routing" /\ WrNext /\ WrBound'
     /\ UNCHANGED <<focus, cvVars, ibVars, ctVars, caVars, kbVars, avVars, mdVars,
                    csVars, tsVars, gpVars, adVars, cbVars, mbVars>>
  \/ /\ focus = "chatbot" /\ CbNext
     /\ UNCHANGED <<focus, cvVars, ibVars, ctVars, caVars, kbVars, avVars, mdVars,
                    csVars, tsVars, gpVars, adVars, wrVars, mbVars>>
  \/ /\ focus = "members" /\ MbNext
     /\ UNCHANGED <<focus, cvVars, ibVars, ctVars, caVars, kbVars, avVars, mdVars,
                    csVars, tsVars, gpVars, adVars, wrVars, cbVars>>

MCSpec == MCInit /\ [][MCNext]_mcVars

-----------------------------------------------------------------------------
(* Properties: of the part that moves, for the others rest *)

\* Every variable has its type.
DeskTypeOK ==
  CASE focus = "conversations" -> CvTypeOK [] focus = "inbox" -> IbTypeOK
    [] focus = "contacts" -> CtTypeOK [] focus = "access" -> CaTypeOK
    [] focus = "kanban" -> KbTypeOK [] focus = "avatars" -> AvTypeOK
    [] focus = "media" -> MdTypeOK [] focus = "sync" -> CsTypeOK
    [] focus = "gmail" -> GpTypeOK [] focus = "adapters" -> AdTypeOK
    [] focus = "routing" -> WrTypeOK [] focus = "chatbot" -> CbTypeOK
    [] focus = "thread" -> TsTypeOK [] focus = "members" -> MbTypeOK

\* A conversation moves along its legal transitions and a force-on survives an answer; a name
\* an operator gave and an edit of a contact stay; the Gmail scan moves forward only; an
\* owner stays one.
DeskSteps ==
  [][/\ CvLegalMoves /\ CvForcedOnSurvives /\ CtGivenNameStays /\ AvEditSurvives
     /\ GpScanMoves /\ MbOwnersStay]_mcVars

\* What an operator is shown of the conversations is what is there, and nothing unread hides.
InboxSafe == focus = "inbox" => IbSafe

\* The people of a channel, their photos, the members who see it live and how they came in.
PeopleSafe ==
  /\ focus = "contacts" => CtSafe
  /\ focus = "avatars" => AvSafe
  /\ focus = "access" => CaSafe
  /\ focus = "members" => MbSafe

\* What comes in from the providers: events, rows and imported history.
ChannelsSafe ==
  /\ focus = "routing" => WrSafe
  /\ focus = "adapters" => AdSafe
  /\ focus = "sync" => CsSafe
  /\ focus = "thread" => TsSafe
=============================================================================
