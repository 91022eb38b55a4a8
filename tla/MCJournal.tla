----------------------------- MODULE MCJournal -----------------------------
(* Two sessions with three event identities. The deliveries include a      *)
(* redelivery with another payload under the same key, an event id reused  *)
(* under another key, and the same key used in both sessions.              *)
EXTENDS Journal

CONSTANTS s1, s2, e1, e2, e3, k1, k2, p1, p2

Deliver(s, e, k, p) == [session |-> s, id |-> e, key |-> k, payload |-> p]

MCDelivery ==
    {Deliver(s1, e1, k1, p1), Deliver(s1, e1, k1, p2), Deliver(s1, e2, k1, p1),
     Deliver(s1, e2, k2, p1), Deliver(s2, e3, k1, p1), Deliver(s2, e2, k2, p2)}
============================================================================
