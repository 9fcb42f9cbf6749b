----------------------------- MODULE MCObservers -----------------------------
(* Two teams, an event in each; the details can be looked up in either.    *)
EXTENDS Observers
CONSTANTS events, event, other, wrong, k, l, r1, r2

Tree == [p \in Path |-> CASE p = Teams           -> {}
                          [] p \in {event, events} -> {Teams} \cup ({events} \ {p})
                          [] OTHER               -> {Teams}]
Above == [p \in Path |-> IF p = event THEN events ELSE NoPath]
Lookup == [t \in Team |-> IF t = k THEN event ELSE wrong]
=============================================================================
