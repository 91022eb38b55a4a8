------------------------------ MODULE JobView ------------------------------
(***************************************************************************)
(* The durable job of one session as its worker meets it.  Repository      *)
(* models the same transactions over numeric time, several sessions and    *)
(* any caller; here one session has at most one job that is not terminal,  *)
(* so its latest job is a record, and time is two facts about it: whether  *)
(* the lease is live and whether the retry time has come.  One worker at a *)
(* time uses the job, so its token is current exactly while the job is in  *)
(* a working state.  claim_job's branch that cancels a job and a publish   *)
(* that ends SUPERSEDED are left to Repository, whose invariants           *)
(* IntentAheadOfCoverage and WorkingBaseIsActive exclude the first always  *)
(* and the second for a worker with identities of its own.                 *)
(***************************************************************************)
EXTENDS Integers

CONSTANTS
    MaxEvents,      \* bound: turns of the session
    MaxAttempts,    \* max_attempts of the worker configuration
    MaxFaults       \* bound: crashes, stalls and failing calls

ASSUME BoundsAssumption ==
    MaxEvents \in Nat /\ MaxAttempts \in Nat \ {0} /\ MaxFaults \in Nat

VARIABLES
    job,        \* the latest compaction job of the session
    mark,       \* high-water mark of the journal
    covered     \* coverage of the active snapshot

WorkingStates == {"LEASED", "COMPILING", "AUDITING", "READY_TO_COMMIT"}
NonterminalStates == WorkingStates \cup {"PENDING", "RETRY_WAIT"}
TerminalStates == {"NONE", "COMMITTED", "FAILED"}

\* spent is history: the attempts that ended in a failure or lost their lease.
Jobs ==
    [state : NonterminalStates \cup TerminalStates, target : Nat, intent : Nat,
     live : BOOLEAN, attempts : Nat, due : BOOLEAN, spent : Nat]

NewJob(target) ==
    [state |-> "PENDING", target |-> target, intent |-> target,
     live |-> FALSE, attempts |-> 0, due |-> FALSE, spent |-> 0]

StoreInit ==
    /\ job = [NewJob(0) EXCEPT !.state = "NONE"]
    /\ mark = 0
    /\ covered = 0

Working(j) == j.state \in WorkingStates

\* raise_compaction_intent: a target that is covered is no work; the open
\* job absorbs the target, or one is made.
Intended(j, target) ==
    IF target <= covered THEN j
    ELSE IF j.state \in NonterminalStates
         THEN [j EXCEPT !.intent = IF target > @ THEN target ELSE @]
         ELSE NewJob(target)

\* claim_job on an eligible row.
Claimable(j) == j.state = "PENDING" \/ (j.state = "RETRY_WAIT" /\ j.due)

Leased(j) ==
    [j EXCEPT !.state = "LEASED", !.target = j.intent, !.live = TRUE,
              !.attempts = @ + 1, !.due = FALSE]

\* _require_live_fence for the token of the latest claim.
Fence == Working(job) /\ job.live

\* fail_job under the fence.
Failed(j, retry, preserve) ==
    [j EXCEPT !.state = IF retry THEN "RETRY_WAIT" ELSE "FAILED",
              !.live = FALSE, !.due = FALSE,
              !.attempts = IF preserve /\ @ > 0 THEN @ - 1 ELSE @]

(* An attempt is over without a snapshot. Deferrals and lost leases spend  *)
(* attempts without end, and attempt_count is only ever compared with      *)
(* max_attempts: the counts above it are kept as one.                      *)
Spent(j) ==
    IF j.spent < MaxAttempts THEN [j EXCEPT !.spent = @ + 1]
    ELSE [j EXCEPT !.attempts = @ - 1]

\* recover_expired_leases.
Recovered(j) ==
    IF Working(j) /\ ~j.live
    THEN Spent([j EXCEPT !.state = "PENDING"])
    ELSE j

\* publish_snapshot: the job ends; an intent above its target goes on as a
\* follow-up job.
Published(j) ==
    IF j.intent > j.target
    THEN NewJob(j.intent)
    ELSE [j EXCEPT !.state = "COMMITTED", !.live = FALSE]
=============================================================================
