----------------------------- MODULE ChannelAdapters -----------------------------
(***************************************************************************)
(* The five channel adapters: what a provider's message becomes as rows of *)
(* the inbox, what a row sent from the inbox becomes at the provider, how  *)
(* the echo of it is recognised, and whose messages a receipt marks.       *)
(***************************************************************************)
EXTENDS Naturals, Sequences, SequencesExt

CONSTANTS
  AdPeople,      \* customers of the channel
  AdMaxMessages  \* bound: messages at the provider

ASSUME AdAssumption == AdMaxMessages \in Nat

VARIABLES
  adKind,   \* type of the channel
  adMail,   \* the messages at the provider, in the order they were sent
  adRows,   \* messages rows
  adHooked, \* ids whose webhook or poll has been handled
  adRead,   \* ids of the rows marked READ
  adTold    \* history: ids of the messages the provider said were read

adVars == <<adKind, adMail, adRows, adHooked, adRead, adTold>>

AdKinds == {"ZAPPFY", "UAZAPI", "OFFICIAL", "INSTAGRAM", "GMAIL"}
AdUnofficial == {"ZAPPFY", "UAZAPI"}

-----------------------------------------------------------------------------
(* ZAPPFY and UAZAPI: the type is told from the words in `messageType` *)

AdWords ==
  [Conversation |-> {"conversation"}, ExtendedTextMessage |-> {"text"}, ImageMessage |-> {"image"},
   AudioMessage |-> {"audio"}, PttMessage |-> {"ptt"}, VideoMessage |-> {"video"},
   PtvMessage |-> {"ptv"}, DocumentMessage |-> {"document"}, StickerMessage |-> {"sticker"},
   LocationMessage |-> {"location"}, ReactionMessage |-> {"reaction"},
   TemplateMessage |-> {"template"},
   TemplateButtonReplyMessage |-> {"templatebuttonreply", "template", "button"},
   ContactMessage |-> {"contact"}, PollCreationMessage |-> {"poll"}, AlbumMessage |-> {"album"},
   GroupInviteMessage |-> {"groupinvite"}, ButtonsMessage |-> {"button"},
   ListResponseMessage |-> {"list"}, EventMessage |-> {}]

\* resolveContentType: the first word that occurs.
AdTypeOrder ==
  << <<"text", "TEXT">>, <<"conversation", "TEXT">>, <<"image", "IMAGE">>, <<"audio", "AUDIO">>,
     <<"ptt", "AUDIO">>, <<"video", "VIDEO">>, <<"document", "DOCUMENT">>, <<"sticker", "STICKER">>,
     <<"location", "LOCATION">>, <<"reaction", "REACTION">>, <<"ptv", "VIDEO">>,
     <<"templatebuttonreply", "TEXT">>, <<"template", "TEMPLATE">>, <<"contact", "TEXT">>,
     <<"poll", "TEXT">>, <<"album", "TEXT">>, <<"groupinvite", "TEXT">>,
     <<"button", "INTERACTIVE">>, <<"list", "INTERACTIVE">> >>

\* extractContent goes through the words in an order of its own.
AdContentOrder ==
  << <<"text", {"text"}>>, <<"conversation", {"text"}>>, <<"image", {"media", "caption"}>>,
     <<"audio", {"media"}>>, <<"ptt", {"media"}>>, <<"video", {"media", "caption"}>>,
     <<"document", {"media", "caption"}>>, <<"sticker", {"media"}>>, <<"location", {"place"}>>,
     <<"reaction", {"reaction"}>>, <<"ptv", {"media"}>>, <<"contact", {"text"}>>,
     <<"groupinvite", {"text"}>>, <<"poll", {"text"}>>, <<"album", {"text"}>>,
     <<"templatebuttonreply", {"text"}>>, <<"template", {"text", "template"}>>,
     <<"button", {"text", "interactive"}>>, <<"list", {"text", "interactive"}>> >>

AdFirst(order, shape, default) ==
  LET i == SelectInSeq(order, LAMBDA e : e[1] \in AdWords[shape])
  IN IF i = 0 THEN default ELSE order[i][2]

\* Both end in text: an unknown type shows the readable version the provider adds.
AdUazapi(shape) ==
  <<AdFirst(AdTypeOrder, shape, "TEXT"), AdFirst(AdContentOrder, shape, {"text"})>>

-----------------------------------------------------------------------------
(* OFFICIAL and INSTAGRAM: one table each *)

AdOfficial ==
  [text |-> <<"TEXT", {"text"}>>, image |-> <<"IMAGE", {"media", "caption"}>>,
   audio |-> <<"AUDIO", {"media"}>>, video |-> <<"VIDEO", {"media", "caption"}>>,
   document |-> <<"DOCUMENT", {"media", "caption"}>>, sticker |-> <<"STICKER", {"media"}>>,
   location |-> <<"LOCATION", {"place", "text"}>>, reaction |-> <<"REACTION", {"reaction"}>>,
   interactive |-> <<"INTERACTIVE", {"text", "interactive"}>>,
   button |-> <<"INTERACTIVE", {"text", "interactive"}>>, template |-> <<"TEMPLATE", {"text"}>>,
   contacts |-> <<"TEXT", {"text"}>>, unsupported |-> <<"TEXT", {"text"}>>]

\* Only the first attachment of a message is read.
AdInstagram ==
  [text |-> <<"TEXT", {"text"}>>, image |-> <<"IMAGE", {"media"}>>, audio |-> <<"AUDIO", {"media"}>>,
   video |-> <<"VIDEO", {"media"}>>, file |-> <<"DOCUMENT", {"media"}>>,
   share |-> <<"TEXT", {"text"}>>, story_mention |-> <<"TEXT", {"text", "media"}>>,
   reel |-> <<"VIDEO", {"media"}>>, template |-> <<"TEMPLATE", {"text", "template"}>>,
   none |-> <<"TEXT", {"text"}>>]

\* Bodies of an email once the quoted history is cut off.
AdBodies == {"written", "quoteOnly"}

AdShapes ==
  CASE adKind \in AdUnofficial -> DOMAIN AdWords
    [] adKind = "OFFICIAL" -> DOMAIN AdOfficial
    [] adKind = "INSTAGRAM" -> DOMAIN AdInstagram
    [] adKind = "GMAIL" -> AdBodies

AdParsed(shape) ==
  CASE adKind \in AdUnofficial -> AdUazapi(shape)
    [] adKind = "OFFICIAL" -> AdOfficial[shape]
    [] adKind = "INSTAGRAM" -> AdInstagram[shape]

-----------------------------------------------------------------------------
(* A message at the provider and its rows *)

\* by: the customer, the team in the provider's own app, or the inbox.  An email
\* has a number of attachments, and goes from an alias of the mailbox or to hidden
\* recipients alone.
AdHeaders == {"plain", "alias", "hidden"}
AdMessages ==
  {m \in [who : AdPeople, by : {"contact", "app"}, shape : AdShapes, group : BOOLEAN,
          files : 0..2, header : AdHeaders, type : {"none"}, shows : {{}}] :
     /\ m.group => adKind \in AdUnofficial
     /\ m.by = "app" => adKind # "OFFICIAL"
     /\ m.files > 0 => adKind = "GMAIL"
     /\ m.header # "plain" => adKind = "GMAIL" /\ m.by = "app"}

\* An echo is told by the provider's flag, an email's by its sender.
AdEcho(m) == m.by # "contact" /\ m.header # "alias"

\* Whom the row's contact is and is named after: the chat, the recipient of an
\* echo, the sender otherwise.
AdParty(m) ==
  IF m.group THEN "group" ELSE IF m.by = "contact" \/ AdEcho(m) THEN "contact" ELSE "us"

AdRow(i, part, type, has) ==
  [ext |-> <<i, part>>, who |-> adMail[i].who, dir |-> IF AdEcho(adMail[i]) THEN "OUT" ELSE "IN",
   type |-> type, has |-> has, party |-> AdParty(adMail[i])]

\* The body, if something is left of it, and an attachment each; an echo without a
\* readable recipient is none, and an echo's attachments are not expanded.
AdMailParts(i) ==
  LET m == adMail[i] IN
  IF AdEcho(m) /\ m.header = "hidden" THEN {}
  ELSE (IF m.shape = "written" \/ m.files = 0 THEN {AdRow(i, 0, "TEXT", {"text"})} ELSE {})
       \union (IF AdEcho(m) THEN {}
               ELSE {AdRow(i, k, "DOCUMENT", {"media", "caption"}) : k \in 1..m.files})

\* normalizeInbound; UAZAPI leaves groups out.
AdNormalize(i) ==
  LET m == adMail[i] IN
  CASE adKind = "GMAIL" -> AdMailParts(i)
    [] adKind # "GMAIL" /\ m.by = "inbox" -> {AdRow(i, 0, m.type, {})}
    [] adKind = "UAZAPI" /\ m.group -> {}
    [] OTHER -> {AdRow(i, 0, AdParsed(m.shape)[1], AdParsed(m.shape)[2])}

-----------------------------------------------------------------------------
(* Sending *)

\* What the inbox, a forward or an agent sends; some of it with a caption or text.
AdSendable ==
  {"TEXT", "IMAGE", "AUDIO", "VIDEO", "DOCUMENT", "TEMPLATE"} \union
  IF adKind \in AdUnofficial \union {"OFFICIAL"} THEN {"STICKER", "LOCATION"} ELSE {}

AdMedia == {"IMAGE", "AUDIO", "VIDEO", "DOCUMENT", "STICKER"}
AdCaptioned == {"IMAGE", "VIDEO", "DOCUMENT"}

\* denormalize of the unofficial providers: what the customer gets to see of it.  A
\* type without a case of its own is sent as its text, which is empty.
AdShowsUazapi(type, captioned) ==
  CASE type = "TEXT" -> {"text"}
    [] type \in AdMedia ->
         {"media"} \union IF captioned /\ type \in AdCaptioned THEN {"caption"} ELSE {}
    [] type = "LOCATION" -> {"place"} \union IF captioned THEN {"text"} ELSE {}
    [] OTHER -> {}

\* The same cases (UAZAPI marks the chat as read besides).
AdShowsZappfy(type, captioned) == AdShowsUazapi(type, captioned)

\* Templates are a type here, and a place has no name.
AdShowsOfficial(type, captioned) ==
  CASE type = "TEXT" -> {"text"}
    [] type \in AdMedia ->
         {"media"} \union IF captioned /\ type \in AdCaptioned THEN {"caption"} ELSE {}
    [] type = "LOCATION" -> {"place"}
    [] type = "TEMPLATE" -> {"template"}
    [] OTHER -> {}

\* Media goes without its caption.
AdShowsInstagram(type) ==
  CASE type = "TEXT" -> {"text"}
    [] type \in AdMedia \ {"STICKER"} -> {"media"}
    [] OTHER -> {}

\* The text or else the caption is the body, the media an attachment.
AdShowsGmail(type, captioned) ==
  (IF type = "TEXT" THEN {"text"} ELSE IF captioned THEN {"caption"} ELSE {})
  \union IF type \in AdMedia THEN {"media"} ELSE {}

AdShows(type, captioned) ==
  CASE adKind = "ZAPPFY" -> AdShowsZappfy(type, captioned)
    [] adKind = "UAZAPI" -> AdShowsUazapi(type, captioned)
    [] adKind = "OFFICIAL" -> AdShowsOfficial(type, captioned)
    [] adKind = "INSTAGRAM" -> AdShowsInstagram(type)
    [] adKind = "GMAIL" -> AdShowsGmail(type, captioned)

\* A mail carries the text or caption as its body and the media as an attachment.
AdSendMessage(person, kind, captioned) ==
  LET parts == AdShows(kind, captioned) IN
  [who |-> person, by |-> "inbox", group |-> FALSE, header |-> "plain", type |-> kind, shows |-> parts,
   shape |-> IF parts \intersect {"text", "caption"} # {} THEN "written" ELSE "quoteOnly",
   files |-> IF adKind = "GMAIL" /\ "media" \in parts THEN 1 ELSE 0]

-----------------------------------------------------------------------------

AdIds == 1..AdMaxMessages

AdTypeOK ==
  /\ adKind \in AdKinds
  /\ Len(adMail) <= AdMaxMessages
  /\ \A i \in DOMAIN adMail :
       \/ adMail[i] \in AdMessages
       \/ \E p \in AdPeople, t \in AdSendable, b \in BOOLEAN : adMail[i] = AdSendMessage(p, t, b)
  /\ \A r \in adRows : r.ext \in AdIds \X (0..2) /\ r.who \in AdPeople /\ r.dir \in {"IN", "OUT"}
  /\ {adHooked, adRead, adTold} \subseteq SUBSET AdIds

AdInit ==
  /\ adKind \in AdKinds
  /\ adMail = <<>> /\ adRows = {} /\ adHooked = {} /\ adRead = {} /\ adTold = {}

\* A message appears at the provider.
AdAppear ==
  /\ Len(adMail) < AdMaxMessages
  /\ \E m \in AdMessages : adMail' = Append(adMail, m)
  /\ UNCHANGED <<adKind, adRows, adHooked, adRead, adTold>>

\* The outbound worker sends a row and records the id of the answer: the bare id
\* the echo carries.
AdSend ==
  /\ Len(adMail) < AdMaxMessages
  /\ \E who \in AdPeople, type \in AdSendable, captioned \in BOOLEAN :
       LET i == Len(adMail) + 1 IN
       /\ adMail' = Append(adMail, AdSendMessage(who, type, captioned))
       /\ adRows' = adRows \union {[ext |-> <<i, 0>>, who |-> who, dir |-> "OUT", type |-> type,
                                    has |-> {"sent"}, party |-> "contact"]}
  /\ UNCHANGED <<adKind, adHooked, adRead, adTold>>

\* A webhook or a poll, any number of times and in any order: rows that exist stay
\* as they are.  The echo of a row that the inbox sent is one of them.
AdHook(i) ==
  /\ adMail[i].by = "inbox" => adKind # "OFFICIAL"
  /\ adRows' = adRows \union {r \in AdNormalize(i) : \A x \in adRows : x.ext # r.ext}
  /\ adHooked' = adHooked \union {i}
  /\ UNCHANGED <<adKind, adMail, adRead, adTold>>

AdOut(S) == {i \in S : \E r \in adRows : r.ext[1] = i /\ r.dir = "OUT"}

\* normalizeStatus: of the messages a receipt names, the first.
AdFirstOf(ids) == {ids[1]}

\* A receipt names messages of a customer.
AdReceipt(ids) ==
  /\ adKind \notin {"INSTAGRAM", "GMAIL"}
  /\ adTold' = adTold \union ToSet(ids)
  /\ adRead' = adRead \union AdOut(AdFirstOf(ids))
  /\ UNCHANGED <<adKind, adMail, adRows, adHooked>>

\* The rows a watermark covers, those of the channel's other customers included.
AdUnder(i) == AdOut(1..i)

\* Instagram reports a time up to which a customer has read.
AdWatermark(i) ==
  /\ adKind = "INSTAGRAM"
  /\ adMail[i].by # "contact"
  /\ adTold' = adTold \union {j \in 1..i : adMail[j].who = adMail[i].who}
  /\ adRead' = adRead \union AdUnder(i)
  /\ UNCHANGED <<adKind, adMail, adRows, adHooked>>

AdNext ==
  \/ AdAppear \/ AdSend
  \/ \E i \in DOMAIN adMail : AdHook(i) \/ AdWatermark(i)
  \/ \E i, j \in DOMAIN adMail : adMail[i].who = adMail[j].who /\ AdReceipt(<<i, j>>)

AdSpec == AdInit /\ [][AdNext]_adVars

-----------------------------------------------------------------------------
(* Properties *)

AdNeeds ==
  [TEXT |-> "text", IMAGE |-> "media", AUDIO |-> "media", VIDEO |-> "media", DOCUMENT |-> "media",
   STICKER |-> "media", LOCATION |-> "place", REACTION |-> "reaction",
   TEMPLATE |-> IF adKind = "OFFICIAL" THEN "text" ELSE "template", INTERACTIVE |-> "text"]

\* The type of a row and its content, found by two lists of checks in different
\* orders, agree: no bubble is rendered without what its type shows.
AdTypeHasContent == \A r \in adRows : r.has # {"sent"} => AdNeeds[r.type] \in r.has

\* What the inbox sent is one row, before and after its echo.
AdEchoMerges ==
  \A i \in DOMAIN adMail : adMail[i].by = "inbox" =>
    \A r, x \in adRows : r.ext[1] = i /\ x.ext[1] = i => r = x

\* No contact is the team itself, whichever side wrote; a mail from an alias is
\* taken for a customer's.
AdPartyIsTheirs ==
  \A r \in adRows : r.party = "us" => adMail[r.ext[1]].header = "alias"

\* What the team answered in the provider's own app shows as an answer, except groups
\* on UAZAPI and, on GMAIL, aliases, hidden recipients and attachments without a text.
AdAnswerShows ==
  \A i \in adHooked : adMail[i].by = "app" =>
    \/ \E r \in adRows : r.ext[1] = i /\ r.dir = "OUT"
    \/ adKind = "UAZAPI" /\ adMail[i].group
    \/ adMail[i].header # "plain"
    \/ adKind = "GMAIL" /\ adMail[i].shape = "quoteOnly" /\ adMail[i].files > 0

\* Nothing empty is sent, except a template where templates do not exist.
AdSendsSomething ==
  \A i \in DOMAIN adMail : adMail[i].by = "inbox" /\ adMail[i].shows = {} =>
    adMail[i].type = "TEMPLATE" /\ adKind # "OFFICIAL"

\* A row is marked read when the provider said so of that message; on Instagram, when
\* somebody had read that far.
AdReadIsTold ==
  \A i \in adRead :
    \/ i \in adTold
    \/ adKind = "INSTAGRAM" /\ \E j \in adTold : j >= i

\* What a provider tells becomes rows that can be shown, merged and answered.
AdSafe ==
  /\ AdTypeHasContent
  /\ AdEchoMerges
  /\ AdPartyIsTheirs
  /\ AdAnswerShows
  /\ AdSendsSomething
  /\ AdReadIsTold
=============================================================================
