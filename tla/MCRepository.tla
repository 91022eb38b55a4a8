--------------------------- MODULE MCRepository ----------------------------
(* Small instances of the repository. Each event has its own idempotency   *)
(* key and is delivered with one payload; MCJournal explores conflicting   *)
(* deliveries.                                                             *)
EXTENDS Repository, TLC

CONSTANTS s1, s2, e1, e2, e3, p1

Deliver(s, e) == [session |-> s, id |-> e, key |-> e, payload |-> p1]

OneSession == {Deliver(s1, e) : e \in EventId}
TwoSessions == {Deliver(s1, e1), Deliver(s1, e3), Deliver(s2, e2)}

Symmetry == Permutations(SnapshotId) \cup Permutations(CapsuleId)
            \cup Permutations(Content) \cup Permutations(Worker)
EventSymmetry == Symmetry \cup Permutations(EventId)
============================================================================
