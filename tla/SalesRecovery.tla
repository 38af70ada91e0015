---------------------------- MODULE SalesRecovery ----------------------------
(***************************************************************************)
(* Recovery of abandoned sales: the Kirvano webhook log and its processor, *)
(* the cards of one contact in the recovery pipeline, the opener (sent at  *)
(* once or by a delayed job), the watchdog's follow-ups, the lead's reply  *)
(* and the agent's tool. Every flow reads a card, awaits, then writes it.  *)
(***************************************************************************)
EXTENDS Naturals, FiniteSets

CONSTANTS
  SrCards,        \* cards the pipeline may come to hold
  SrEvents,       \* rows of the webhook log
  SrNone,         \* no card, no event
  SrCheckouts,    \* checkout ids (one sale each)
  SrMaxAttempts,  \* config.maxAttempts
  SrMaxFaults     \* bound: steps that throw

ASSUME SrAssumption ==
  /\ SrMaxAttempts \in Nat \ {0} /\ SrMaxFaults \in Nat
  /\ SrNone \notin SrCards \union SrEvents \union SrCheckouts

VARIABLES
  srCard,    \* the cards
  srEvent,   \* the rows of kirvano_events
  srHook,    \* the event the processor (concurrency 1) works on
  srJobs,    \* cards with a delayed opener job
  srScan,    \* cards the watchdog found stuck and has not escalated yet
  srProc,    \* what each flow has read and does next
  srRecent,  \* a recovery message was really sent within the cooldown
  srSent,    \* history: messages sent for a card
  srPaid,    \* history: cards a payment closed
  srTwice,   \* history: a message was sent within the cooldown of another
  srRaced,   \* history: a flow read a card while another was at work
  srFaults,  \* history: steps that threw
  srGivenUp  \* history: cards whose opener was not sent by decision

srVars == <<srCard, srEvent, srHook, srJobs, srScan, srProc, srRecent, srSent,
            srPaid, srTwice, srRaced, srFaults, srGivenUp>>

SrLive == {"contact_attempt", "in_contact", "follow_up"}
SrStages == {"none", "opportunity", "lost", "won", "refunded"} \union SrLive
SrOpen(card) == card.stage \in {"opportunity"} \union SrLive

\* classifyKirvanoEvent: an abandoned cart has no sale and is contacted at once.
SrKinds == {"none", "ABANDONED_CART", "PIX_GENERATED", "SALE_APPROVED", "SALE_REFUNDED", "OTHER"}
SrCreates(kind) == kind \in {"ABANDONED_CART", "PIX_GENERATED"}

SrProcs == {"hook", "inline", "job", "dog"}
SrIdle == [step |-> "idle", card |-> SrNone, to |-> "none", attempts |-> 0, fresh |-> FALSE]
SrSteps == {"idle", "create", "meta", "merge", "send", "record", "move", "wait"}

SrTypeOK ==
  /\ srCard \in [SrCards -> [stage : SrStages, contact : BOOLEAN, fresh : BOOLEAN,
       checkout : SrCheckouts \union {SrNone}, attempts : 0..SrMaxAttempts,
       conv : BOOLEAN, stuck : BOOLEAN]]
  /\ srEvent \in [SrEvents -> [kind : SrKinds, checkout : SrCheckouts \union {SrNone}, phone : BOOLEAN,
       status : {"none", "RECEIVED", "FAILED", "PROCESSED", "IGNORED", "DUPLICATE"}]]
  /\ srHook \in SrEvents \union {SrNone}
  /\ srJobs \subseteq SrCards /\ srScan \subseteq SrCards
  /\ \A p \in SrProcs : srProc[p].step \in SrSteps /\ srProc[p].to \in SrStages
  /\ srSent \in [SrCards -> Nat]
  /\ srFaults \in 0..SrMaxFaults
  /\ srPaid \union srGivenUp \subseteq SrCards

SrInit ==
  /\ srCard = [c \in SrCards |-> [stage |-> "none", contact |-> FALSE, fresh |-> FALSE,
                 checkout |-> SrNone, attempts |-> 0, conv |-> FALSE, stuck |-> FALSE]]
  /\ srEvent = [e \in SrEvents |-> [kind |-> "none", phone |-> FALSE, status |-> "none",
                  checkout |-> SrNone]]
  /\ srHook = SrNone /\ srJobs = {} /\ srScan = {}
  /\ srProc = [p \in SrProcs |-> SrIdle]
  /\ srRecent = FALSE /\ srTwice = FALSE /\ srRaced = FALSE
  /\ srSent = [c \in SrCards |-> 0]
  /\ srPaid = {} /\ srGivenUp = {}
  /\ srFaults = 0

SrHistory == <<srRecent, srSent, srPaid, srTwice, srGivenUp>>

\* Another flow is between its read and its last write.
SrBusyBut(p) == \E q \in SrProcs \ {p} : srProc[q].step \notin {"idle", "wait"}

\* A flow begins with what it read of a card.
SrBegin(p, step, c, to) ==
  /\ srProc' = [srProc EXCEPT ![p] = [step |-> step, card |-> c, to |-> to,
       attempts |-> IF c = SrNone THEN 0 ELSE srCard[c].attempts,
       fresh |-> IF c = SrNone THEN FALSE ELSE srCard[c].fresh]]
  /\ srRaced' = (srRaced \/ SrBusyBut(p))

-----------------------------------------------------------------------------
(* Webhooks *)

\* KirvanoWebhookController.handle: every delivery is recorded and queued.
SrDeliver(e, kind, k, phone) ==
  /\ srEvent[e].status = "none"
  /\ srEvent' = [srEvent EXCEPT ![e] =
       [kind |-> kind, checkout |-> k, phone |-> phone, status |-> "RECEIVED"]]
  /\ UNCHANGED <<srCard, srHook, srJobs, srScan, srProc, srRaced, srFaults, SrHistory>>

SrSale(e) == srEvent[e].kind # "ABANDONED_CART"

\* alreadyProcessed: another row of the same event and sale is PROCESSED.
SrAlready(e) == SrSale(e) /\ \E f \in SrEvents \ {e} :
  srEvent[f].status = "PROCESSED" /\ srEvent[f].kind = srEvent[e].kind
    /\ srEvent[f].checkout = srEvent[e].checkout

SrByContact == {c \in SrCards : srCard[c].contact /\ SrOpen(srCard[c])}
SrByCheckout(k) == {c \in SrCards : srCard[c].checkout = k}

\* createOpportunity: the contact's open card, else any card of the checkout.
SrExisting(e) == IF srEvent[e].phone /\ SrByContact # {} THEN SrByContact
                 ELSE SrByCheckout(srEvent[e].checkout)

\* findCardForClose: the card of the checkout, else of the contact (a refund
\* takes a closed one too).
SrToClose(e) ==
  IF SrByCheckout(srEvent[e].checkout) # {} THEN SrByCheckout(srEvent[e].checkout)
  ELSE IF ~srEvent[e].phone THEN {}
  ELSE IF srEvent[e].kind = "SALE_APPROVED" THEN SrByContact
  ELSE {c \in SrCards : srCard[c].contact}

SrClosingStage(e) == IF srEvent[e].kind = "SALE_APPROVED" THEN "won" ELSE "refunded"
SrMark(e, status) == srEvent' = [srEvent EXCEPT ![e].status = status]

\* The processor decides at once about duplicates, events without an action and
\* closings without a card; the other events become flows.
SrTake(e) ==
  /\ srHook = SrNone
  /\ srEvent[e].status \in {"RECEIVED", "FAILED"}
  /\ \/ SrAlready(e) /\ SrMark(e, "DUPLICATE") /\ UNCHANGED <<srHook, srProc, srRaced>>
     \/ /\ ~SrAlready(e)
        /\ \/ srEvent[e].kind = "OTHER"
           \/ ~SrCreates(srEvent[e].kind) /\ SrToClose(e) = {}
        /\ SrMark(e, "IGNORED") /\ UNCHANGED <<srHook, srProc, srRaced>>
     \/ /\ ~SrAlready(e) /\ SrCreates(srEvent[e].kind)
        /\ srHook' = e
        /\ IF SrExisting(e) = {} THEN SrBegin("hook", "create", SrNone, "none")
           ELSE \E c \in SrExisting(e) : SrBegin("hook", "merge", c, "none")
        /\ UNCHANGED srEvent
     \/ /\ ~SrAlready(e) /\ srEvent[e].kind \in {"SALE_APPROVED", "SALE_REFUNDED"}
        /\ srHook' = e
        /\ \E c \in SrToClose(e) : SrBegin("hook", "merge", c, SrClosingStage(e))
        /\ UNCHANGED srEvent
  /\ UNCHANGED <<srCard, srJobs, srScan, srFaults, SrHistory>>

\* mergeKirvanoMetadata writes the new checkout and the outreach it read before.
SrMerge ==
  LET p == srProc["hook"] IN
  /\ p.step = "merge"
  /\ srCard' = [srCard EXCEPT ![p.card].checkout = srEvent[srHook].checkout,
       ![p.card].attempts = p.attempts, ![p.card].fresh = p.fresh, ![p.card].stuck = FALSE]
  /\ srProc' = [srProc EXCEPT !["hook"].step = IF p.to = "none" THEN "wait" ELSE "move"]
  /\ UNCHANGED <<srEvent, srHook, srJobs, srScan, srRaced, srFaults, SrHistory>>

\* The card is created, without its metadata: the checkout is written next.
SrCreate(c) ==
  /\ srProc["hook"].step = "create"
  /\ srCard[c].stage = "none"
  /\ srCard' = [srCard EXCEPT ![c].stage = "opportunity", ![c].contact = srEvent[srHook].phone]
  /\ srProc' = [srProc EXCEPT !["hook"].step = "meta", !["hook"].card = c]
  /\ UNCHANGED <<srEvent, srHook, srJobs, srScan, srRaced, srFaults, SrHistory>>

\* buildMetadata, then the opener: at once for an abandoned cart (the processor
\* waits for it), by a delayed job for the rest, none without a contact.
SrMeta ==
  LET c == srProc["hook"].card IN
  /\ srProc["hook"].step = "meta"
  /\ srCard' = [srCard EXCEPT ![c].checkout = srEvent[srHook].checkout,
                              ![c].attempts = 0, ![c].fresh = FALSE]
  /\ srProc' = [srProc EXCEPT !["hook"].step = "wait",
       !["inline"] = IF srCard[c].contact /\ srEvent[srHook].kind = "ABANDONED_CART"
                     THEN [SrIdle EXCEPT !.step = "wait", !.card = c] ELSE @]
  /\ srJobs' = IF srCard[c].contact /\ srEvent[srHook].kind # "ABANDONED_CART"
               THEN srJobs \union {c} ELSE srJobs
  /\ UNCHANGED <<srEvent, srHook, srScan, srRaced, srFaults, SrHistory>>

SrFinish ==
  /\ srHook # SrNone
  /\ srProc["hook"].step = "wait" /\ srProc["inline"].step = "idle"
  /\ SrMark(srHook, "PROCESSED")
  /\ srHook' = SrNone
  /\ srProc' = [srProc EXCEPT !["hook"] = SrIdle]
  /\ UNCHANGED <<srCard, srJobs, srScan, srRaced, srFaults, SrHistory>>

-----------------------------------------------------------------------------
(* The opener *)

\* hasRecentOutreach looks at every card of the contact.
SrCoolingDown == \E c \in SrCards : srCard[c].contact /\ srCard[c].fresh

\* Still in Oportunidade (so not paid) and nothing sent within the cooldown.
SrStillWanted(c) == srCard[c].stage = "opportunity" /\ ~SrCoolingDown

\* dispatchOutreach, from the delayed job or inline.
SrDispatch(p, c) ==
  /\ \/ p = "inline" /\ srProc[p].step = "wait" /\ srProc[p].card = c /\ UNCHANGED srJobs
     \/ p = "job" /\ srProc[p].step = "idle" /\ c \in srJobs /\ srJobs' = srJobs \ {c}
  /\ IF SrStillWanted(c)
     THEN SrBegin(p, "send", c, "contact_attempt") /\ UNCHANGED srGivenUp
     ELSE /\ srProc' = [srProc EXCEPT ![p] = SrIdle]
          /\ srGivenUp' = srGivenUp \union {c}
          /\ UNCHANGED srRaced
  /\ UNCHANGED <<srCard, srEvent, srHook, srScan, srFaults, srRecent, srSent, srPaid, srTwice>>

\* sendOpener and sendFollowUp: the message is queued, unless an official channel
\* has no template. A follow-up does not ask whether it was sent.
SrSend(p) ==
  LET c == srProc[p].card IN
  /\ srProc[p].step = "send"
  /\ \/ /\ srSent' = [srSent EXCEPT ![c] = IF @ > SrMaxAttempts THEN @ ELSE @ + 1]
        /\ srTwice' = (srTwice \/ srRecent)
        /\ srRecent' = TRUE
        /\ srProc' = [srProc EXCEPT ![p].step = "record"]
        /\ UNCHANGED <<srCard, srGivenUp>>
     \/ /\ p # "dog"
        /\ srCard' = [srCard EXCEPT ![c].conv = TRUE, ![c].stuck = FALSE]
        /\ srProc' = [srProc EXCEPT ![p] = SrIdle]
        /\ srGivenUp' = srGivenUp \union {c}
        /\ UNCHANGED <<srSent, srTwice, srRecent>>
     \/ /\ p = "dog"
        /\ srProc' = [srProc EXCEPT ![p].step = "record"]
        /\ UNCHANGED <<srCard, srGivenUp, srSent, srTwice, srRecent>>
  /\ UNCHANGED <<srEvent, srHook, srJobs, srScan, srRaced, srFaults, srPaid>>

\* The attempt is recorded over the metadata read before the message was sent
\* (attempts counts from 1 when none is recorded).
SrRecord(p) ==
  LET c == srProc[p].card
      n == IF p = "dog" THEN (IF srProc[p].attempts = 0 THEN 2 ELSE srProc[p].attempts + 1) ELSE 1 IN
  /\ srProc[p].step = "record"
  /\ srCard' = [srCard EXCEPT ![c].attempts = n, ![c].fresh = TRUE, ![c].stuck = FALSE,
                              ![c].conv = @ \/ p # "dog"]
  /\ srProc' = [srProc EXCEPT ![p].step = "move"]
  /\ UNCHANGED <<srEvent, srHook, srJobs, srScan, srRaced, srFaults, SrHistory>>

\* moveToKey moves the card wherever it is by now.
SrMove(p) ==
  LET c == srProc[p].card IN
  /\ srProc[p].step = "move"
  /\ srCard' = [srCard EXCEPT ![c].stage = srProc[p].to, ![c].stuck = FALSE]
  /\ srPaid' = IF srProc[p].to = "won" THEN srPaid \union {c} ELSE srPaid
  /\ srProc' = [srProc EXCEPT ![p] = IF p = "hook" THEN [SrIdle EXCEPT !.step = "wait"] ELSE SrIdle]
  /\ UNCHANGED <<srEvent, srHook, srJobs, srScan, srRaced, srFaults, srRecent, srSent,
                 srTwice, srGivenUp>>

-----------------------------------------------------------------------------
(* The watchdog, the lead and the agent *)

SrScanStuck ==
  /\ srScan = {} /\ srProc["dog"].step = "idle"
  /\ srScan' = {c \in SrCards : srCard[c].stage \in SrLive /\ srCard[c].stuck}
  /\ srScan' # {}
  /\ UNCHANGED <<srCard, srEvent, srHook, srJobs, srProc, srRaced, srFaults, SrHistory>>

SrExhausted(c) == (IF srCard[c].attempts = 0 THEN 1 ELSE srCard[c].attempts) >= SrMaxAttempts

\* Mutant: a card is escalated as it was scanned.
SrEscalatedAsScanned(c) == TRUE

SrStillOpen(c) == SrOpen(srCard[c])

\* escalateStuckCard reads the card again, but only asks whether it is open.
SrEscalate(c) ==
  /\ srProc["dog"].step = "idle"
  /\ c \in srScan
  /\ srScan' = srScan \ {c}
  /\ IF ~SrStillOpen(c) THEN UNCHANGED <<srProc, srRaced>>
     ELSE IF SrExhausted(c) THEN SrBegin("dog", "move", c, "lost")
     ELSE IF srCard[c].contact /\ ~SrCoolingDown THEN SrBegin("dog", "send", c, "follow_up")
     ELSE SrBegin("dog", "move", c, "follow_up")
  /\ UNCHANGED <<srCard, srEvent, srHook, srJobs, srFaults, SrHistory>>

\* onInboundReply: the lead answered the opener.
SrReply(c) ==
  /\ srCard[c].conv /\ srCard[c].stage = "contact_attempt"
  /\ srCard' = [srCard EXCEPT ![c].stage = "in_contact", ![c].stuck = FALSE]
  /\ srRaced' = (srRaced \/ SrBusyBut("none"))
  /\ UNCHANGED <<srEvent, srHook, srJobs, srScan, srProc, srFaults, SrHistory>>

SrToolStages == {"in_contact", "follow_up", "lost"}

\* moveRecoveryCard: the open card of the conversation.
SrTool(c) ==
  /\ srCard[c].conv /\ SrOpen(srCard[c])
  /\ \E to \in SrToolStages : srCard' = [srCard EXCEPT ![c].stage = to, ![c].stuck = FALSE]
  /\ srRaced' = (srRaced \/ SrBusyBut("none"))
  /\ UNCHANGED <<srEvent, srHook, srJobs, srScan, srProc, srFaults, SrHistory>>

-----------------------------------------------------------------------------
(* Faults and time *)

\* A step throws. The processor marks the event FAILED and is retried; the job is
\* retried from the start; the inline opener is logged; a follow-up that fails is
\* logged and the card is moved all the same.
SrFail(p) ==
  /\ srProc[p].step \notin {"idle", "wait"}
  /\ srFaults < SrMaxFaults
  /\ srFaults' = srFaults + 1
  /\ srProc' = [srProc EXCEPT ![p] =
       IF p = "dog" /\ @.step \in {"send", "record"} THEN [@ EXCEPT !.step = "move"] ELSE SrIdle]
  /\ srJobs' = IF p = "job" THEN srJobs \union {srProc[p].card} ELSE srJobs
  /\ IF p = "hook" THEN SrMark(srHook, "FAILED") /\ srHook' = SrNone
     ELSE UNCHANGED <<srEvent, srHook>>
  /\ UNCHANGED <<srCard, srScan, srRaced, SrHistory>>

\* followUpHours pass without a write to the card; no await takes as long.
SrQuiet(c) ==
  /\ srCard[c].stage \in SrLive /\ ~srCard[c].stuck
  /\ ~SrBusyBut("none")
  /\ srCard' = [srCard EXCEPT ![c].stuck = TRUE]
  /\ UNCHANGED <<srEvent, srHook, srJobs, srScan, srProc, srRaced, srFaults, SrHistory>>

\* cooldownHours pass since the last message.
SrCool ==
  /\ srRecent
  /\ ~SrBusyBut("none")
  /\ srRecent' = FALSE
  /\ srCard' = [c \in SrCards |-> [srCard[c] EXCEPT !.fresh = FALSE]]
  /\ UNCHANGED <<srEvent, srHook, srJobs, srScan, srProc, srRaced, srFaults, srSent, srPaid,
                 srTwice, srGivenUp>>

SrNext ==
  \/ \E e \in SrEvents : \/ SrTake(e)
                         \/ \E kind \in SrKinds \ {"none"}, k \in SrCheckouts, phone \in BOOLEAN :
                              SrDeliver(e, kind, k, phone)
  \/ SrMerge \/ SrMeta \/ SrFinish \/ SrScanStuck \/ SrCool
  \/ \E c \in SrCards :
       \/ SrCreate(c) \/ SrEscalate(c) \/ SrReply(c) \/ SrTool(c) \/ SrQuiet(c)
       \/ SrDispatch("inline", c) \/ SrDispatch("job", c)
  \/ \E p \in SrProcs : SrSend(p) \/ SrRecord(p) \/ SrMove(p) \/ SrFail(p)

SrSpec == SrInit /\ [][SrNext]_srVars

-----------------------------------------------------------------------------
(* Properties *)

\* No step threw and no two flows overlapped.
SrCalm == ~srRaced /\ srFaults = 0

\* A lead gets at most one recovery message per cooldown, whichever of the flows
\* sends it and however many cards the lead has; only a fault between the message
\* and its record, or two flows at once, breaks it.
SrOneMessagePerCooldown == SrCalm => ~srTwice

\* A card a payment closed stays won or is refunded: no opener, follow-up, reply
\* or tool reopens it, unless a flow had read it before the payment.
SrPaidStaysClosed == ~srRaced => \A c \in srPaid : srCard[c].stage \in {"won", "refunded"}

\* A contact has one open card, whatever the order of the webhooks.
SrOneOpenCard == SrCalm => Cardinality(SrByContact) <= 1

\* A lead is written to at most maxAttempts times before the card is lost.
SrAttemptsBounded == SrCalm => \A c \in SrCards : srSent[c] <= SrMaxAttempts

\* A card of a reachable lead waits in Oportunidade only for its opener, for the
\* opener the cooldown or a missing template ruled out, or because a step threw.
SrOpenerIsPursued == \A c \in SrCards :
  srCard[c].stage = "opportunity" /\ srCard[c].contact =>
    \/ c \in srJobs \union srGivenUp
    \/ \E p \in SrProcs : srProc[p].card = c
    \/ srFaults > 0

\* Of the deliveries of one sale's event only one is PROCESSED.
SrProcessedOnce == \A e, f \in SrEvents :
  e # f /\ srEvent[e].status = "PROCESSED" /\ srEvent[f].status = "PROCESSED" /\ SrSale(e) =>
    srEvent[e].kind # srEvent[f].kind \/ srEvent[e].checkout # srEvent[f].checkout

\* A lead is pursued once at a time, as often as allowed, until paid.
SrSafe ==
  /\ SrOneMessagePerCooldown
  /\ SrPaidStaysClosed
  /\ SrOneOpenCard
  /\ SrAttemptsBounded
  /\ SrOpenerIsPursued
  /\ SrProcessedOnce
=============================================================================
