-------------------------- MODULE MCRecoveryPipeline --------------------------
(* Small instances of RecoveryPipeline. *)
EXTENDS RecoveryPipeline

CONSTANTS e1, e2, pay

webhook(e, failed) == [event_id |-> e, payment |-> pay, failed |-> failed]

\* Two events about one payment, either of which may be delivered again, and
\* one without an event id.
MCWebhooks  == {webhook(e1, TRUE), webhook(e2, TRUE)}
MCAnonymous == {webhook(e1, TRUE), webhook(NoEventId, TRUE), webhook(e2, FALSE)}
MCOneEvent  == {webhook(e1, TRUE)}
=============================================================================
