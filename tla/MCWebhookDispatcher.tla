------------------------ MODULE MCWebhookDispatcher ------------------------
(* WebhookDispatcher for TLC: one webhook that wants everything. *)
EXTENDS WebhookDispatcher, TLC

CONSTANTS h1, e1, e2, w1, w2, t1, o1

MCWants == [h \in Hooks |-> Events]
=============================================================================
