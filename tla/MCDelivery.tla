----------------------------- MODULE MCDelivery -----------------------------
(* Delivery of a run with two possible contents of its source. *)
EXTENDS Delivery

\* With a push or with a document: the one is done after the commit, the other before it.
PushOrDocument == {[push |-> TRUE, docs |-> FALSE], [push |-> FALSE, docs |-> TRUE]}
=============================================================================
