--------------------------- MODULE RuntimeWorker ---------------------------
(***************************************************************************)
(* _RuntimeCompactionWorker: one task that loops over recover, claim and   *)
(* one fenced iteration, and waits for a wake or its poll interval when    *)
(* there was no work.  Every database call runs in a thread and is         *)
(* awaited, so every one is a step of its own.                             *)
(***************************************************************************)
EXTENDS WorkerHost

CONSTANTS
    BackfillLimit,  \* metric_backfill_limit
    Limits          \* context limits of the providers a session may have

ASSUME BackfillAssumption == BackfillLimit \in Nat \ {0}

ASSUME LimitAssumption == Limits \subseteq Nat

NoProvider == -1

VARIABLES
    wake,       \* the asyncio event _wake_event
    provider,   \* context limit of the provider the registry resolves now
    binding,    \* the one frozen for this iteration
    canonical,  \* whether the worker was constructed with a canonical counter
    error,      \* the error being persisted: [code, stage]
    orphans,    \* calls of a closed worker still running in their threads
    byPoll      \* history: the wait was entered, or its job made, with no wake to come

runtimeVars == <<wake, provider, binding, canonical, error, orphans, byPoll>>

NoError == [code |-> "NONE", stage |-> "NONE"]

PreservedCodes ==
    {"EXTRACTIVE_PROVIDER_UNAVAILABLE", "TOKEN_METRIC_MISSING", "TOKEN_METRIC_UNAVAILABLE"}

RuntimeInit ==
    /\ wake = FALSE
    /\ provider \in Limits \cup {NoProvider}
    /\ binding = NoProvider
    /\ canonical \in BOOLEAN
    /\ error = NoError
    /\ orphans = {}
    /\ byPoll = FALSE

(* The iteration ends and the heartbeat is cancelled and awaited. A        *)
(* StorageSecurityError it died of is raised now.                          *)
EndIteration ==
    /\ at' = IF beat = "security" THEN "locked" ELSE "loop"
    /\ beat' = "off"
    /\ error' = NoError
    /\ binding' = NoProvider

(* An exception leaves the iteration: _run treats it as no work done.      *)
Escape ==
    /\ at' = "wait"
    /\ byPoll' = TRUE
    /\ beat' = "off"
    /\ error' = NoError
    /\ binding' = NoProvider

Defer(code, stage) ==
    /\ at' = "defer"
    /\ error' = [code |-> code, stage |-> stage]

Fail(stage) ==
    /\ at' = "fail"
    /\ error' = [code |-> "FAILURE", stage |-> stage]

(* One fenced call: a StaleLeaseError ends the iteration as work done.     *)
Fenced(step) ==
    IF Fence THEN step /\ UNCHANGED <<beat, error, binding>>
    ELSE EndIteration /\ UNCHANGED <<job, covered>>
----------------------------------------------------------------------------
(* start and close of the worker, and the wake of a turn.                  *)

StartWorker ==
    /\ at \in {"down", "locked"}
    /\ at' = "loop"
    /\ wake' = FALSE
    /\ canonical' \in BOOLEAN
    /\ UNCHANGED <<job, mark, covered, hostVars, beat, provider, binding, error, orphans, byPoll>>

Wake ==
    /\ turn.stage = "raised"
    /\ turn' = Idle
    /\ wake' = (wake \/ at \notin {"down", "locked"})
    /\ UNCHANGED <<job, mark, covered, lane, strict, unmeasured, units, faults, at, beat,
                   provider, binding, canonical, error, orphans, byPoll>>

(* close cancels the task; a call that runs in a thread goes on.           *)
CloseWorker ==
    /\ at \notin {"down", "locked"}
    /\ Fault
    /\ at' = "down"
    /\ beat' = "off"
    /\ orphans' = orphans \cup ({at} \cap {"claim", "publish"})
    /\ error' = NoError
    /\ binding' = NoProvider
    /\ UNCHANGED <<job, mark, covered, lane, strict, turn, unmeasured, units,
                   wake, provider, canonical, byPoll>>

OrphanPublishes ==
    /\ "publish" \in orphans
    /\ orphans' = orphans \ {"publish"}
    /\ IF Fence
       THEN job' = Published(job) /\ covered' = job.target /\ byPoll' = TRUE
       ELSE UNCHANGED <<job, covered, byPoll>>
    /\ UNCHANGED <<mark, hostVars, at, beat, wake, provider, binding, canonical, error>>

(* The job is leased to a worker that is gone.                             *)
OrphanClaims ==
    /\ "claim" \in orphans
    /\ orphans' = orphans \ {"claim"}
    /\ job' = IF Claimable(job) THEN Leased(job) ELSE job
    /\ UNCHANGED <<mark, covered, hostVars, at, beat,
                   wake, provider, binding, canonical, error, byPoll>>

Crash ==
    /\ Fault
    /\ at' = "down"
    /\ beat' = "off"
    /\ turn' = Idle
    /\ error' = NoError
    /\ binding' = NoProvider
    /\ orphans' = {}
    /\ UNCHANGED <<job, mark, covered, lane, strict, unmeasured, units,
                   wake, provider, canonical, byPoll>>

(* remember, remember_unavailable and the eviction of the registry.        *)
ProviderChanges ==
    /\ provider' \in (Limits \cup {NoProvider}) \ {provider}
    /\ UNCHANGED <<job, mark, covered, hostVars, at, beat,
                   wake, binding, canonical, error, orphans, byPoll>>
----------------------------------------------------------------------------
(* The loop of _run.                                                       *)

ClearWake ==
    /\ at = "loop"
    /\ at' = "recover"
    /\ wake' = FALSE
    /\ UNCHANGED <<job, mark, covered, hostVars, beat,
                   provider, binding, canonical, error, orphans, byPoll>>

(* Mutant: only a job that is still LEASED is recovered. *)
RecoverLeasedOnly ==
    /\ at = "recover"
    /\ at' = "claim"
    /\ job' = IF job.state = "LEASED" THEN Recovered(job) ELSE job
    /\ UNCHANGED <<mark, covered, hostVars, beat, runtimeVars>>

RecoverExpiredLeases ==
    /\ at = "recover"
    /\ at' = "claim"
    /\ job' = Recovered(job)
    /\ orphans' = IF Recovered(job) = job THEN orphans ELSE orphans \ {"publish"}
    /\ UNCHANGED <<mark, covered, hostVars, beat,
                   wake, provider, binding, canonical, error, byPoll>>

ClaimJob ==
    /\ at = "claim"
    /\ byPoll' = FALSE
    /\ IF Claimable(job)
       THEN job' = Leased(job) /\ at' = "bind" /\ beat' = "on"
       ELSE at' = "nothing" /\ UNCHANGED <<job, beat>>
    /\ UNCHANGED <<mark, covered, hostVars, wake, provider, binding, canonical, error, orphans>>

(* Mutant: the wake event is cleared only now, not before the claim. *)
FoundNothingThenClear ==
    /\ at = "nothing"
    /\ at' = "wait"
    /\ wake' = FALSE
    /\ UNCHANGED <<job, mark, covered, hostVars, beat,
                   provider, binding, canonical, error, orphans, byPoll>>

(* run_iteration has returned False.                                       *)
FoundNothing ==
    /\ at = "nothing"
    /\ at' = "wait"
    /\ UNCHANGED <<job, mark, covered, hostVars, beat, runtimeVars>>

Woken ==
    /\ at = "wait"
    /\ wake
    /\ at' = "loop"
    /\ UNCHANGED <<job, mark, covered, hostVars, beat, runtimeVars>>

PollTimeout ==
    /\ at = "wait"
    /\ at' = "loop"
    /\ UNCHANGED <<job, mark, covered, hostVars, beat, runtimeVars>>
----------------------------------------------------------------------------
(* run_iteration after the claim.                                          *)

FreezeBinding ==
    /\ at = "bind"
    /\ at' = "backfill"
    /\ binding' = provider
    /\ UNCHANGED <<job, mark, covered, hostVars, beat,
                   wake, provider, canonical, error, orphans, byPoll>>

(* The oldest artifacts without a metric, up to the limit, are counted and *)
(* written in one batch.                                                   *)
Batch ==
    {e \in unmeasured : Cardinality({d \in unmeasured : d < e}) < BackfillLimit}

BackfillMetrics ==
    /\ at = "backfill"
    /\ IF canonical
       THEN /\ at' = "transition"
            /\ unmeasured' = unmeasured \ Batch
            /\ UNCHANGED error
       ELSE Defer("TOKEN_METRIC_UNAVAILABLE", "COMPILING") /\ UNCHANGED unmeasured
    /\ UNCHANGED <<job, mark, covered, lane, strict, turn, units, faults, beat,
                   wake, provider, binding, canonical, orphans, byPoll>>

BackfillCountFails ==
    /\ at = "backfill"
    /\ Batch # {}
    /\ Fault
    /\ Defer("TOKEN_METRIC_UNAVAILABLE", "COMPILING")
    /\ UNCHANGED <<job, mark, covered, lane, strict, turn, unmeasured, units, beat,
                   wake, provider, binding, canonical, orphans, byPoll>>

EnterCompiling ==
    /\ at = "transition"
    /\ Fenced(job' = [job EXCEPT !.state = "COMPILING"] /\ at' = "view" /\ UNCHANGED covered)
    /\ UNCHANGED <<mark, hostVars, wake, provider, canonical, orphans, byPoll>>

(* read_compaction_view and read_event_token_counts: the delta has to be   *)
(* measured as a whole.                                                    *)
ReadCompactionView ==
    /\ at = "view"
    /\ IF ~Fence THEN EndIteration
       ELSE IF unmeasured \cap (covered + 1 .. job.target) = {}
            THEN at' = "compile" /\ UNCHANGED <<beat, error, binding>>
            ELSE Defer("TOKEN_METRIC_MISSING", "COMPILING") /\ UNCHANGED <<beat, binding>>
    /\ UNCHANGED <<job, mark, covered, hostVars, wake, provider, canonical, orphans, byPoll>>

(* Each unit of the delta has to fit the provider's context by itself.     *)
Fits(limit, target) ==
    limit # NoProvider /\ \A e \in covered + 1 .. target : units[e] <= limit

(* compile_candidate without a bound provider defers.                      *)
CompileUnbound ==
    /\ at = "compile"
    /\ binding = NoProvider
    /\ Defer("EXTRACTIVE_PROVIDER_UNAVAILABLE", "COMPILING")
    /\ UNCHANGED <<job, mark, covered, hostVars, beat,
                   wake, provider, binding, canonical, orphans, byPoll>>

Compile ==
    /\ at = "compile"
    /\ Fits(binding, job.target)
    /\ \/ at' = (IF strict THEN "auditing" ELSE "verify") /\ UNCHANGED error
       \/ Fail("COMPILING")
    /\ UNCHANGED <<job, mark, covered, hostVars, beat,
                   wake, provider, binding, canonical, orphans, byPoll>>

(* The preflight over the frozen input: COMPACTION_INPUT_TOO_LARGE for a   *)
(* unit above the limit, however often it is tried. TOOL_LOOP_INVALID and  *)
(* COMPACTION_TOKENIZER_UNAVAILABLE take the same path: the one is a unit  *)
(* that fits no provider, the other a provider that fits no unit.          *)
CompileDefers ==
    /\ at = "compile"
    /\ binding # NoProvider
    /\ ~Fits(binding, job.target)
    /\ Defer("COMPACTION_INPUT_TOO_LARGE", "COMPILING")
    /\ UNCHANGED <<job, mark, covered, hostVars, beat,
                   wake, provider, binding, canonical, orphans, byPoll>>

EnterAuditing ==
    /\ at = "auditing"
    /\ Fenced(job' = [job EXCEPT !.state = "AUDITING"] /\ at' = "audit" /\ UNCHANGED covered)
    /\ UNCHANGED <<mark, hostVars, wake, provider, canonical, orphans, byPoll>>

AuditSemantic ==
    /\ at = "audit"
    /\ (at' = "verify" /\ UNCHANGED error) \/ Fail("AUDITING")
    /\ UNCHANGED <<job, mark, covered, hostVars, beat,
                   wake, provider, binding, canonical, orphans, byPoll>>

(* verify_candidate and _candidate_canonical_metrics.                      *)
VerifyCandidate ==
    /\ at = "verify"
    /\ (at' = "ready" /\ UNCHANGED error) \/ Fail("VERIFYING")
    /\ UNCHANGED <<job, mark, covered, hostVars, beat,
                   wake, provider, binding, canonical, orphans, byPoll>>

CandidateCountFails ==
    /\ at = "verify"
    /\ Fault
    /\ Defer("TOKEN_METRIC_UNAVAILABLE", "VERIFYING")
    /\ UNCHANGED <<job, mark, covered, lane, strict, turn, unmeasured, units, beat,
                   wake, provider, binding, canonical, orphans, byPoll>>

EnterReady ==
    /\ at = "ready"
    /\ Fenced(job' = [job EXCEPT !.state = "READY_TO_COMMIT"] /\ at' = "publish"
              /\ UNCHANGED covered)
    /\ UNCHANGED <<mark, hostVars, wake, provider, canonical, orphans, byPoll>>

PublishSnapshot ==
    /\ at = "publish"
    /\ IF Fence
       THEN job' = Published(job) /\ covered' = job.target
       ELSE UNCHANGED <<job, covered>>
    /\ EndIteration
    /\ UNCHANGED <<mark, hostVars, wake, provider, canonical, orphans, byPoll>>

PublicationRejected ==
    /\ at = "publish"
    /\ Fence
    /\ Fail("PUBLISHING")
    /\ UNCHANGED <<job, mark, covered, hostVars, beat,
                   wake, provider, binding, canonical, orphans, byPoll>>
----------------------------------------------------------------------------
(* fail_job accepts a preserved attempt from the COMPILING stage only; it  *)
(* raises a ValueError for any other before it looks at the fence.         *)


Transient == error.code \in PreservedCodes

(* Mutant: a deferral for a missing metric does not give the attempt back. *)
PersistDeferredSpending ==
    LET preserve == error.code = "EXTRACTIVE_PROVIDER_UNAVAILABLE"
        deferred == Failed(job, TRUE, preserve)
    IN  /\ at = "defer"
        /\ job' = IF ~Fence THEN job ELSE IF Transient THEN deferred ELSE Spent(deferred)
        /\ EndIteration
        /\ UNCHANGED <<mark, covered, hostVars, wake, provider, canonical, orphans, byPoll>>

PersistDeferred ==
    LET deferred == Failed(job, TRUE, Transient)
    IN  /\ at = "defer"
        /\ IF Transient /\ error.stage # "COMPILING"
           THEN Escape /\ UNCHANGED job
           ELSE /\ job' = IF ~Fence THEN job ELSE IF Transient THEN deferred ELSE Spent(deferred)
                /\ EndIteration
                /\ UNCHANGED byPoll
        /\ UNCHANGED <<mark, covered, hostVars, wake, provider, canonical, orphans>>

PersistFailure ==
    /\ at = "fail"
    /\ job' = IF Fence THEN Spent(Failed(job, job.attempts < MaxAttempts, FALSE)) ELSE job
    /\ EndIteration
    /\ UNCHANGED <<mark, covered, hostVars, wake, provider, canonical, orphans, byPoll>>
----------------------------------------------------------------------------
(* Failing database calls. Before the claim, or while an error is being    *)
(* persisted, the exception leaves the iteration; in between it is         *)
(* persisted as a failure.                                                 *)

InIteration == {"backfill", "transition", "view", "auditing", "ready", "publish"}
OutsideIteration == {"recover", "claim", "defer", "fail"}

CallFails ==
    /\ at \in InIteration
    /\ Fault
    /\ Fail(at)
    /\ UNCHANGED <<job, mark, covered, lane, strict, turn, unmeasured, units, beat,
                   wake, provider, binding, canonical, orphans, byPoll>>

CallFailsOutside ==
    /\ at \in OutsideIteration
    /\ Fault
    /\ Escape
    /\ UNCHANGED <<job, mark, covered, lane, strict, turn, unmeasured, units,
                   wake, provider, canonical, orphans>>

(* A StorageSecurityError stops the worker and locks the plugin.           *)
StorageFails ==
    /\ at \in InIteration \cup OutsideIteration
    /\ Fault
    /\ at' = "locked"
    /\ beat' = "off"
    /\ error' = NoError
    /\ binding' = NoProvider
    /\ UNCHANGED <<job, mark, covered, lane, strict, turn, unmeasured, units,
                   wake, provider, canonical, orphans, byPoll>>

(* A renewal that raises ends the heartbeat task and nothing else: the     *)
(* iteration goes on under a lease that is no longer renewed.              *)
RenewalFails ==
    /\ beat = "on"
    /\ Fault
    /\ beat' \in {"dead", "security"}
    /\ UNCHANGED <<job, mark, covered, lane, strict, turn, unmeasured, units, at, runtimeVars>>
----------------------------------------------------------------------------

RuntimeStep ==
    \/ ClearWake \/ RecoverExpiredLeases \/ ClaimJob \/ FoundNothing \/ Woken \/ FreezeBinding
    \/ BackfillMetrics \/ EnterCompiling \/ ReadCompactionView
    \/ CompileUnbound \/ Compile \/ CompileDefers \/ EnterAuditing \/ AuditSemantic
    \/ VerifyCandidate \/ EnterReady \/ PublishSnapshot \/ PublicationRejected
    \/ PersistDeferred \/ PersistFailure

RuntimeFault ==
    \/ CloseWorker \/ Crash \/ BackfillCountFails \/ CandidateCountFails
    \/ CallFails \/ CallFailsOutside \/ StorageFails \/ RenewalFails

RuntimeNext ==
    \/ RuntimeStep \/ RuntimeFault \/ PollTimeout
    \/ StartWorker \/ Wake \/ OrphanPublishes \/ OrphanClaims \/ ProviderChanges
=============================================================================
