-------------------------- MODULE MCInboundPipeline --------------------------
(* TLC instances of InboundPipeline. *)
EXTENDS InboundPipeline, TLC

CONSTANTS d1, d2, m1, m2

\* The provider delivers one customer message twice.
MCRedelivered == d1 :> {m1} @@ d2 :> {m1}
\* A delivery of a customer message together with another message.
MCBatch == d1 :> {m1, m2}
MCConvs == 1..2
MCOneConv == {1}
=============================================================================
