------------------------------ MODULE ThreadSync ------------------------------
(***************************************************************************)
(* The messages of one chat: the provider's thread, which webhooks carry   *)
(* in one by one, and the calls that read it back page by page, newest     *)
(* first: an operator's sync of a conversation and the channel's import.   *)
(* A message is its place in the thread, which is also its time.           *)
(***************************************************************************)
EXTENDS Integers, FiniteSets, FiniteSetsExt

CONSTANTS
  TsCalls,     \* operators' syncs and the import: calls that read the thread
  TsMax,       \* bound: messages of the thread
  TsPage,      \* SYNC_MESSAGE_PAGE_SIZE, MESSAGE_PAGE_SIZE
  TsMaxPages,  \* SYNC_MAX_PAGES
  TsCap,       \* MAX_MESSAGES_PER_CONVERSATION
  TsMaxFaults  \* bound: pages the provider fails to answer

ASSUME TsAssumption ==
  /\ {TsMax, TsCap, TsMaxFaults} \subseteq Nat
  /\ {TsPage, TsMaxPages} \subseteq Nat \ {0}

VARIABLES
  tsLen,     \* messages of the provider's thread
  tsOdd,     \* those the mapper makes nothing of: reactions, protocol messages
  tsDue,     \* messages whose webhook is still to come
  tsRows,    \* messages stored in the conversation
  tsLast,    \* conversations.last_message_at, 0 for none
  tsCall,    \* what every call does
  tsFaults,
  tsDone,    \* history: how every call ended and the thread its first page saw
  tsBack     \* history: a call found only older messages missing, none newer came since

tsVars == <<tsLen, tsOdd, tsDue, tsRows, tsLast, tsCall, tsFaults, tsDone, tsBack>>

TsModes == {"sync", "import"}
TsSteps == {"idle", "fetch", "read", "create", "last", "ended"}
TsCallType ==
  [mode : TsModes, step : TsSteps, offset : 0..TsMax, got : SUBSET (1..TsMax),
   known : SUBSET (1..TsMax), more : BOOLEAN, pages : 0..TsMax, imported : 0..TsMax]
TsRest == [mode |-> "sync", step |-> "idle", offset |-> 0, got |-> {}, known |-> {},
           more |-> FALSE, pages |-> 0, imported |-> 0]
TsEnds == {"none", "empty", "known", "oldest", "limit", "failed"}

TsTypeOK ==
  /\ tsLen \in 0..TsMax
  /\ tsOdd \subseteq 1..tsLen
  /\ tsDue \subseteq 1..tsLen
  /\ tsRows \subseteq (1..tsLen) \ tsOdd
  /\ tsLast \in 0..tsLen
  /\ tsCall \in [TsCalls -> TsCallType]
  /\ tsFaults \in 0..TsMaxFaults
  /\ tsDone \in [TsCalls -> [how : TsEnds, len : 0..TsMax]]
  /\ tsBack \in BOOLEAN

TsInit ==
  /\ tsLen = 0 /\ tsOdd = {} /\ tsDue = {} /\ tsRows = {} /\ tsLast = 0
  /\ tsCall = [c \in TsCalls |-> TsRest]
  /\ tsFaults = 0
  /\ tsDone = [c \in TsCalls |-> [how |-> "none", len |-> 0]]
  /\ tsBack = FALSE

TsNewest(S) == IF S = {} THEN 0 ELSE Max(S)

-----------------------------------------------------------------------------
(* The provider and its webhooks *)

\* The thread grows; the event goes out, or is missed (the provider or the
\* webhook is down, the channel disconnected).
TsArrive(odd, missed) ==
  /\ tsLen < TsMax
  /\ tsLen' = tsLen + 1
  /\ tsOdd' = IF odd THEN tsOdd \union {tsLen + 1} ELSE tsOdd
  /\ tsDue' = IF odd \/ missed THEN tsDue ELSE tsDue \union {tsLen + 1}
  /\ UNCHANGED <<tsRows, tsLast, tsCall, tsFaults, tsDone, tsBack>>

\* The pipeline stores the message, unless a row has its id, and moves
\* lastMessageAt forward only, in one transaction.
TsWebhook(m) ==
  /\ m \in tsDue
  /\ tsDue' = tsDue \ {m}
  /\ tsRows' = tsRows \union {m}
  /\ tsLast' = TsNewest({tsLast, m})
  /\ tsBack' = (tsBack /\ m < TsNewest(tsRows))
  /\ UNCHANGED <<tsLen, tsOdd, tsCall, tsFaults, tsDone>>

-----------------------------------------------------------------------------
(* The calls *)

TsBegin(c, mode) ==
  /\ tsCall[c].step = "idle"
  /\ tsCall' = [tsCall EXCEPT ![c] = [TsRest EXCEPT !.mode = mode, !.step = "fetch"]]
  /\ UNCHANGED <<tsLen, tsOdd, tsDue, tsRows, tsLast, tsFaults, tsDone, tsBack>>

\* The call is over, with what it found last.
TsEnd(c, how) ==
  /\ tsCall' = [tsCall EXCEPT ![c] = [TsRest EXCEPT !.step = "ended"]]
  /\ tsDone' = [tsDone EXCEPT ![c].how = how]

\* The raw page at an offset that counts from the newest message.
TsRaw(offset) == (tsLen - offset - TsPage + 1)..(tsLen - offset) \intersect 1..tsLen

\* Mutant: a page short of normalised messages is taken for the last one.
TsMoreOfMapped(offset) == Cardinality(TsRaw(offset) \ tsOdd) >= TsPage

\* hasNext: the provider gave as many raw messages as it was asked for.
TsMore(offset) == Cardinality(TsRaw(offset)) >= TsPage

\* fetchMessages: a page, what the mapper makes of it, and whether to go on.
TsFetch(c) ==
  LET call == tsCall[c]
      got  == TsRaw(call.offset) \ tsOdd
  IN  /\ call.step = "fetch"
      /\ IF got = {}
         THEN TsEnd(c, "empty")
         ELSE /\ tsCall' = [tsCall EXCEPT ![c].step = "read", ![c].got = got,
                                          ![c].more = TsMore(call.offset),
                                          ![c].offset = @ + Cardinality(TsRaw(call.offset))]
              /\ tsDone' = IF call.offset = 0 THEN [tsDone EXCEPT ![c].len = tsLen] ELSE tsDone
      /\ UNCHANGED <<tsLen, tsOdd, tsDue, tsRows, tsLast, tsFaults, tsBack>>

\* The provider fails: a sync answers with an error, an import leaves the chat.
TsFail(c) ==
  /\ tsCall[c].step = "fetch"
  /\ tsFaults < TsMaxFaults
  /\ tsFaults' = tsFaults + 1
  /\ TsEnd(c, "failed")
  /\ UNCHANGED <<tsLen, tsOdd, tsDue, tsRows, tsLast, tsBack>>

\* importMessages looks up which ids of the page the conversation has ...
TsRead(c) ==
  /\ tsCall[c].step = "read"
  /\ tsCall' = [tsCall EXCEPT ![c].step = "create", ![c].known = tsCall[c].got \intersect tsRows]
  /\ UNCHANGED <<tsLen, tsOdd, tsDue, tsRows, tsLast, tsFaults, tsDone, tsBack>>

TsNew(c) == tsCall[c].got \ tsCall[c].known

\* syncMessages goes on unless the whole page was known, and for few pages.
TsSyncEnd(c, imported) ==
  CASE imported = 0 -> "known"
    [] ~tsCall[c].more -> "oldest"
    [] tsCall[c].pages + 1 >= TsMaxPages -> "limit"
    [] OTHER -> "none"

\* importConversationMessages goes on to the oldest or to its limit.
TsImportEnd(c, imported) ==
  CASE tsCall[c].imported + imported >= TsCap -> "limit"
    [] ~tsCall[c].more -> "oldest"
    [] OTHER -> "none"

\* A page is done: the next one, or the end.
TsTurn(c) ==
  LET call     == tsCall[c]
      imported == Cardinality(TsNew(c))
      how      == IF call.mode = "sync" THEN TsSyncEnd(c, imported)
                  ELSE TsImportEnd(c, imported)
  IN  IF how # "none"
      THEN TsEnd(c, how)
      ELSE /\ tsCall' = [tsCall EXCEPT ![c].step = "fetch", ![c].got = {}, ![c].known = {},
                                       ![c].pages = @ + 1, ![c].imported = @ + imported]
           /\ UNCHANGED tsDone

\* ... creates the others, rows that appeared meanwhile skipped ...
TsCreate(c) ==
  /\ tsCall[c].step = "create"
  /\ tsRows' = tsRows \union TsNew(c)
  /\ IF TsNew(c) = {}
     THEN TsTurn(c)
     ELSE /\ tsCall' = [tsCall EXCEPT ![c].step = "last"]
          /\ UNCHANGED tsDone
  /\ UNCHANGED <<tsLen, tsOdd, tsDue, tsLast, tsFaults, tsBack>>

\* ... and writes the time of the newest it found missing as lastMessageAt,
\* whatever it is.
TsLastAt(c) ==
  /\ tsCall[c].step = "last"
  /\ tsLast' = TsNewest(TsNew(c))
  /\ tsBack' = (TsNewest(TsNew(c)) < TsNewest(tsRows))
  /\ TsTurn(c)
  /\ UNCHANGED <<tsLen, tsOdd, tsDue, tsRows, tsFaults>>

TsNext ==
  \/ \E odd, missed \in BOOLEAN : TsArrive(odd, missed)
  \/ \E m \in tsDue : TsWebhook(m)
  \/ \E c \in TsCalls :
       \/ \E mode \in TsModes : TsBegin(c, mode)
       \/ TsFetch(c) \/ TsFail(c) \/ TsRead(c) \/ TsCreate(c) \/ TsLastAt(c)

TsSpec == TsInit /\ [][TsNext]_tsVars

-----------------------------------------------------------------------------
(* Properties *)

\* A call that went on to the oldest message leaves none out of those the chat
\* had at its first page, even though messages that arrive meanwhile shift the pages
\* and webhooks store some of them between its steps.
TsWholeThread ==
  \A c \in TsCalls : tsDone[c].how = "oldest" => (1..tsDone[c].len) \ tsOdd \subseteq tsRows

\* A call that stopped earlier, at a page it knew or at its limit, has at least
\* stored the page that was the newest at its first request.
TsNewestPage ==
  \A c \in TsCalls :
    tsDone[c].how \in {"known", "limit"} =>
      {m \in 1..tsDone[c].len : m > tsDone[c].len - TsPage} \ tsOdd \subseteq tsRows

\* The inbox orders a conversation by its newest message, unless an import found
\* an older message missing: then the conversation is back at that time.
TsLastIsNewest ==
  \/ tsLast = TsNewest(tsRows)
  \/ tsBack
  \/ \E c \in TsCalls : tsCall[c].step = "last"

\* What a sync or an import leaves of a chat.
TsSafe == TsWholeThread /\ TsNewestPage /\ TsLastIsNewest
=============================================================================
