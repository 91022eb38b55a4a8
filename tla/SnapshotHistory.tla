-------------------------- MODULE SnapshotHistory --------------------------
(***************************************************************************)
(* What the repository promises a reader about each session, without jobs, *)
(* leases, workers or time: the journal only grows, and now and then the   *)
(* active snapshot is replaced by one that covers more of it.              *)
(***************************************************************************)
EXTENDS Integers

CONSTANT Session

VARIABLES
    journalled,     \* how many events the session has
    covered,        \* how many of them the active snapshot covers
    version         \* how often the active snapshot was replaced

historyVars == <<journalled, covered, version>>

HistoryInit ==
    /\ journalled = [s \in Session |-> 0]
    /\ covered = [s \in Session |-> 0]
    /\ version = [s \in Session |-> 0]

Append(s) ==
    /\ journalled' = [journalled EXCEPT ![s] = @ + 1]
    /\ UNCHANGED <<covered, version>>

Replace(s) ==
    /\ \E end \in covered[s] + 1 .. journalled[s] :
          covered' = [covered EXCEPT ![s] = end]
    /\ version' = [version EXCEPT ![s] = @ + 1]
    /\ UNCHANGED journalled

HistoryNext == \E s \in Session : Append(s) \/ Replace(s)

HistorySpec == HistoryInit /\ [][HistoryNext]_historyVars
============================================================================
