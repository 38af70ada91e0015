----------------------------- MODULE WebhookRouting -----------------------------
(***************************************************************************)
(* Whose webhook is it: a payload carries events of several accounts of a  *)
(* provider; the gateway finds the channels of those accounts by the ids   *)
(* in their configuration, and each channel's adapter picks its own.       *)
(* Channels are created, completed, reconfigured and removed meanwhile.    *)
(***************************************************************************)
EXTENDS Naturals, FiniteSets

CONSTANTS
  WrChannels,     \* channels of one type; channel c is connected to account c
  WrMaxPayloads,  \* bound: payloads delivered
  WrMaxEdits      \* bound: times a configuration is replaced or a channel removed

ASSUME WrAssumption ==
  WrMaxPayloads \in Nat /\ WrMaxEdits \in Nat /\ IsFiniteSet(WrChannels)

VARIABLES
  wrType,    \* type of the channels
  wrRow,     \* wrRow[c]: "none", "live" or "gone"
  wrConfig,  \* wrConfig[c]: the kinds of ids (and the secret) that are configured
  wrEnrich,  \* wrEnrich[c]: what create() still does: "no", "read", "write" or "done"
  wrSeen,    \* wrSeen[c]: the configuration enrichProviderIds has read
  wrCall,    \* the payload being handled
  wrQueued,  \* history: events queued, for which channel under which configuration
  wrDropped, \* history: events not queued, though their channel was there and none changed
  wrPayloads, wrEdits

wrVars == <<wrType, wrRow, wrConfig, wrEnrich, wrSeen, wrCall, wrQueued, wrDropped,
            wrPayloads, wrEdits>>

\* What tells the accounts of a type apart; a WABA id is shared by its phones.
WrIds == [OFFICIAL |-> {"phone", "waba", "secret"}, INSTAGRAM |-> {"business", "user", "page"},
          ZAPPFY |-> {"instance", "token"}]

\* The ids an event of the type may carry.
WrCarried == [OFFICIAL |-> {{"phone", "waba"}}, INSTAGRAM |-> {{"business"}, {"user"}, {"page"}},
              ZAPPFY |-> {{"instance"}, {"token"}, {"instance", "token"}}]

WrNoCall == [stage |-> "idle", events |-> {}, ids |-> {}, todo |-> {}, matched |-> {}, changed |-> FALSE]

WrMatches == [channel : WrChannels, config : SUBSET UNION {WrIds[t] : t \in DOMAIN WrIds}]

WrTypeOK ==
  /\ wrType \in DOMAIN WrIds
  /\ wrRow \in [WrChannels -> {"none", "live", "gone"}]
  /\ \A c \in WrChannels : wrConfig[c] \subseteq WrIds[wrType] /\ wrSeen[c] \subseteq WrIds[wrType]
  /\ wrEnrich \in [WrChannels -> {"no", "read", "write", "done"}]
  /\ wrCall.stage \in {"idle", "resolve", "queue"}
  /\ {wrCall.events, wrCall.todo} \subseteq SUBSET WrChannels /\ wrCall.changed \in BOOLEAN
  /\ wrCall.matched \subseteq WrMatches
  /\ \A q \in wrQueued : q.event \in WrChannels /\ q.match \in WrMatches
  /\ wrPayloads \in 0..WrMaxPayloads /\ wrEdits \in 0..WrMaxEdits

WrInit ==
  /\ wrType \in DOMAIN WrIds
  /\ wrRow = [c \in WrChannels |-> "none"]
  /\ wrConfig = [c \in WrChannels |-> {}]
  /\ wrEnrich = [c \in WrChannels |-> "no"]
  /\ wrSeen = [c \in WrChannels |-> {}]
  /\ wrCall = WrNoCall
  /\ wrQueued = {} /\ wrDropped = {} /\ wrPayloads = 0 /\ wrEdits = 0

-----------------------------------------------------------------------------
(* Channels *)

wrChange == wrCall' = [wrCall EXCEPT !.changed = wrCall.stage # "idle"]

\* The row is there, and may be matched, before its ids are completed.
WrCreate(c) ==
  /\ wrRow[c] = "none"
  /\ \E ids \in SUBSET WrIds[wrType] : wrConfig' = [wrConfig EXCEPT ![c] = ids]
  /\ wrRow' = [wrRow EXCEPT ![c] = "live"]
  /\ wrEnrich' = [wrEnrich EXCEPT ![c] = "read"]
  /\ wrChange
  /\ UNCHANGED <<wrType, wrSeen, wrQueued, wrDropped, wrPayloads, wrEdits>>

\* enrichProviderIds reads the row; only Instagram has an id to ask for.
WrEnrichRead(c) ==
  /\ wrEnrich[c] = "read"
  /\ IF wrRow[c] = "live" /\ wrType = "INSTAGRAM" /\ "business" \notin wrConfig[c]
     THEN /\ wrEnrich' = [wrEnrich EXCEPT ![c] = "write"]
          /\ wrSeen' = [wrSeen EXCEPT ![c] = wrConfig[c]]
     ELSE wrEnrich' = [wrEnrich EXCEPT ![c] = "done"] /\ UNCHANGED wrSeen
  /\ UNCHANGED <<wrType, wrRow, wrConfig, wrCall, wrQueued, wrDropped, wrPayloads, wrEdits>>

\* The provider's answer is written with the configuration read before; a failure is
\* logged and the channel stays as it is.
WrEnrichWrite(c) ==
  /\ wrEnrich[c] = "write"
  /\ \/ wrConfig' = [wrConfig EXCEPT ![c] = wrSeen[c] \union {"business"}]
     \/ UNCHANGED wrConfig
  /\ wrEnrich' = [wrEnrich EXCEPT ![c] = "done"]
  /\ wrSeen' = [wrSeen EXCEPT ![c] = {}]
  /\ wrChange
  /\ UNCHANGED <<wrType, wrRow, wrQueued, wrDropped, wrPayloads, wrEdits>>

\* update: the configuration is replaced as a whole.
WrUpdate(c) ==
  /\ wrRow[c] = "live" /\ wrEdits < WrMaxEdits
  /\ wrEdits' = wrEdits + 1
  /\ \E ids \in SUBSET WrIds[wrType] : wrConfig' = [wrConfig EXCEPT ![c] = ids]
  /\ wrChange
  /\ UNCHANGED <<wrType, wrRow, wrEnrich, wrSeen, wrQueued, wrDropped, wrPayloads>>

\* softDelete: the row is inactive for good.
WrRemove(c) ==
  /\ wrRow[c] = "live" /\ wrEdits < WrMaxEdits
  /\ wrEdits' = wrEdits + 1
  /\ wrRow' = [wrRow EXCEPT ![c] = "gone"]
  /\ wrChange
  /\ UNCHANGED <<wrType, wrConfig, wrEnrich, wrSeen, wrQueued, wrDropped, wrPayloads>>

-----------------------------------------------------------------------------
(* The gateway *)

\* matchesChannel of OFFICIAL: by the phone if both have it, by the WABA else.
WrMatchesOfficial(c, e) == IF "phone" \in wrConfig[c] THEN c = e ELSE "waba" \in wrConfig[c]

\* Of INSTAGRAM: any of the ids configured.
WrMatchesInstagram(c, e) == c = e /\ wrCall.ids \intersect wrConfig[c] # {}

\* Of ZAPPFY and UAZAPI: by the instance if both have it, by the token else.
WrMatchesToken(c, e) == c = e /\ wrCall.ids \intersect wrConfig[c] # {}

WrMatchesChannel(c, e) ==
  CASE wrType = "OFFICIAL" -> WrMatchesOfficial(c, e)
    [] wrType = "INSTAGRAM" -> WrMatchesInstagram(c, e)
    [] wrType = "ZAPPFY" -> WrMatchesToken(c, e)

\* A payload arrives: a locator for every account that it has events of.
WrDeliver ==
  /\ wrCall.stage = "idle" /\ wrPayloads < WrMaxPayloads
  /\ wrPayloads' = wrPayloads + 1
  /\ \E S \in SUBSET WrChannels \ {{}}, ids \in WrCarried[wrType] :
       /\ wrType = "ZAPPFY" => Cardinality(S) = 1
       /\ wrCall' = [WrNoCall EXCEPT !.stage = "resolve", !.events = S, !.ids = ids, !.todo = S]
  /\ UNCHANGED <<wrType, wrRow, wrConfig, wrEnrich, wrSeen, wrQueued, wrDropped, wrEdits>>

\* resolveByLocator reads the active channels anew for every locator, in no order.
WrResolve(e) ==
  /\ wrCall.stage = "resolve" /\ e \in wrCall.todo
  /\ LET found == {c \in WrChannels : wrRow[c] = "live" /\ WrMatchesChannel(c, e)} IN
     \E m \in IF found = {} THEN {{}}
              ELSE {{[channel |-> c, config |-> wrConfig[c]]} : c \in found} :
       wrCall' = [wrCall EXCEPT
         !.todo = @ \ {e},
         !.matched = @ \union {x \in m : \A y \in @ : y.channel # x.channel},
         !.stage = IF wrCall.todo = {e} THEN "queue" ELSE @]
  /\ UNCHANGED <<wrType, wrRow, wrConfig, wrEnrich, wrSeen, wrQueued, wrDropped,
                 wrPayloads, wrEdits>>

\* parseWebhook of OFFICIAL: without a phone configured nothing is left out.
WrScopedOfficial(m) == IF "phone" \in m.config THEN {m.channel} ELSE WrChannels

\* Of INSTAGRAM: the events that carry the first id configured, not the one that matched.
WrScopedInstagram(m) ==
  LET expected == CASE "business" \in m.config -> {"business"}
                    [] "business" \notin m.config /\ "user" \in m.config -> {"user"}
                    [] OTHER -> {}
  IN IF expected = {} THEN WrChannels
     ELSE IF expected = wrCall.ids THEN {m.channel} ELSE {}

\* validateWebhook: OFFICIAL rejects a channel without its app's secret.
WrValid(m) == wrType = "OFFICIAL" => "secret" \in m.config

\* What an adapter makes jobs of, for the channel as it was when it was found.
WrParsed(m) ==
  IF ~WrValid(m) THEN {}
  ELSE wrCall.events \intersect
       (CASE wrType = "OFFICIAL" -> WrScopedOfficial(m)
          [] wrType = "INSTAGRAM" -> WrScopedInstagram(m)
          [] wrType = "ZAPPFY" -> WrChannels)

\* The ids of a configuration that say whose event it is: the ones parseWebhook uses.
WrTells(config) ==
  CASE wrType = "OFFICIAL" -> {"phone"} \intersect config
    [] wrType = "INSTAGRAM" /\ "business" \in config -> {"business"}
    [] wrType = "INSTAGRAM" /\ "business" \notin config -> {"user"} \intersect config
    [] wrType = "ZAPPFY" -> config

\* Each matched channel's events are queued and the provider gets its 200; with no
\* match the payload is logged as UNROUTED.
WrQueue ==
  /\ wrCall.stage = "queue"
  /\ LET queued == UNION {{[event |-> e, match |-> m] : e \in WrParsed(m)} : m \in wrCall.matched} IN
     /\ wrQueued' = wrQueued \union queued
     /\ wrDropped' = wrDropped \union
          {[channel |-> e, config |-> wrConfig[e], ids |-> wrCall.ids, rivals |-> wrCall.matched] : e \in
             {e \in wrCall.events :
                wrRow[e] = "live" /\ ~wrCall.changed /\ \A q \in queued : q.event # e}}
  /\ wrCall' = WrNoCall
  /\ UNCHANGED <<wrType, wrRow, wrConfig, wrEnrich, wrSeen, wrPayloads, wrEdits>>

WrNext ==
  \/ \E c \in WrChannels :
       \/ WrCreate(c) \/ WrEnrichRead(c) \/ WrEnrichWrite(c) \/ WrUpdate(c) \/ WrRemove(c)
       \/ WrResolve(c)
  \/ WrDeliver \/ WrQueue

WrSpec == WrInit /\ [][WrNext]_wrVars

-----------------------------------------------------------------------------
(* Properties *)

\* A channel gets another account's event only if its configuration has none of the ids
\* that parseWebhook tells accounts apart by: a WABA alone, a page alone.
WrOwnMessages ==
  \A q \in wrQueued : q.event # q.match.channel => WrTells(q.match.config) = {}

\* While no channel changes, an event of a channel's account is dropped only if it lacks
\* the id the event carries where parseWebhook looks for it, or its app's secret, or if a
\* channel with nothing but the WABA was found for it.
WrNothingDropped ==
  \A d \in wrDropped :
    \/ WrTells(d.config) \intersect d.ids = {}
    \/ wrType = "OFFICIAL" /\ "secret" \notin d.config
    \/ \E m \in d.rivals : m.channel # d.channel /\ WrTells(m.config) = {}

\* Each event reaches its own channel.
WrSafe == WrOwnMessages /\ WrNothingDropped
=============================================================================
