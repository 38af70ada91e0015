----------------------------- MODULE EventPromise -----------------------------
(***************************************************************************)
(* What the domain may rely on when it writes an outbox event, without the *)
(* pollers, leases, jobs and workers that deliver it: the event is run at  *)
(* least once before it is settled, exactly once as long as nothing        *)
(* disturbed it, and only a switch that is off settles it without a run.   *)
(* OutboxDelivery implements this.                                         *)
(***************************************************************************)
EXTENDS Naturals

CONSTANT Events      \* the events of the domain

VARIABLES
  state,       \* state[e]: "unwritten", "open" or "settled"
  runs,        \* runs[e]: clean runs of the event's automations
  swallowed,   \* events that a switch which is off has settled
  disturbed    \* events hit by a failed await or a crash

promiseVars == <<state, runs, swallowed, disturbed>>

PromiseInit ==
  /\ state = [e \in Events |-> "unwritten"]
  /\ runs = [e \in Events |-> 0]
  /\ swallowed = {}
  /\ disturbed = {}

Write(e) ==
  /\ state[e] = "unwritten"
  /\ state' = [state EXCEPT ![e] = "open"]
  /\ UNCHANGED <<runs, swallowed, disturbed>>

\* A second run needs an excuse.
Run(e) ==
  /\ state[e] # "unwritten"
  /\ runs[e] = 0 \/ e \in disturbed
  /\ runs' = [runs EXCEPT ![e] = @ + 1]
  /\ UNCHANGED <<state, swallowed, disturbed>>

Settle(e) ==
  /\ state[e] # "unwritten"
  /\ runs[e] > 0
  /\ state' = [state EXCEPT ![e] = "settled"]
  /\ UNCHANGED <<runs, swallowed, disturbed>>

\* A replica whose switch is off settles all it took.
Swallow(S) ==
  /\ \A e \in S : state[e] # "unwritten"
  /\ state' = [e \in Events |-> IF e \in S THEN "settled" ELSE state[e]]
  /\ swallowed' = swallowed \union S
  /\ UNCHANGED <<runs, disturbed>>

\* A fault may open again at most one event, and only one it disturbs.
Disturb(S) ==
  /\ \A e \in S : state[e] # "unwritten"
  /\ disturbed' = disturbed \union S
  /\ \/ UNCHANGED state
     \/ \E e \in S : state' = [state EXCEPT ![e] = "open"]
  /\ UNCHANGED <<runs, swallowed>>

PromiseNext ==
  \/ \E e \in Events : Write(e) \/ Run(e) \/ Settle(e)
  \/ \E S \in SUBSET Events : Swallow(S) \/ Disturb(S)

PromiseSpec == PromiseInit /\ [][PromiseNext]_promiseVars
=============================================================================
