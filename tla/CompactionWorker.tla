-------------------------- MODULE CompactionWorker --------------------------
(***************************************************************************)
(* CompactionWorker: one of the two lanes, chosen when it is constructed,  *)
(* with the turns of the session that feed it and the time that passes.    *)
(***************************************************************************)
EXTENDS RuntimeWorker, FencedWorker

vars == <<job, mark, covered, hostVars, at, beat, runtimeVars, fencedVars>>

Init ==
    /\ HostInit
    /\ RuntimeInit
    /\ FencedInit
    /\ lane \in {"runtime", "fenced"}
    /\ lane = "fenced" => provider = NoProvider /\ ~canonical

Environment ==
    /\ CaptureAssistant \/ RaiseCompactionIntent
       \/ LeaseLapses \/ ProcessStalls \/ RetryTimeComes
    /\ UNCHANGED <<runtimeVars, fencedVars>>

Next ==
    \/ Environment
    \/ lane = "runtime" /\ RuntimeNext /\ UNCHANGED fencedVars
    \/ lane = "fenced" /\ FencedNext /\ UNCHANGED runtimeVars

Spec == Init /\ [][Next]_vars

(* The event loop runs what is ready, threads return, time passes, the     *)
(* poll interval ends, a turn that raised its intent goes on, and the host *)
(* loads a plugin that is down. Nothing is assumed of a turn that has not  *)
(* come, of a provider, or of faults.                                      *)
Fairness ==
    /\ WF_vars(lane = "runtime" /\ RuntimeStep /\ UNCHANGED fencedVars)
    /\ WF_vars(lane = "runtime" /\ PollTimeout /\ UNCHANGED fencedVars)
    /\ WF_vars(lane = "runtime" /\ StartWorker /\ UNCHANGED fencedVars)
    /\ WF_vars(lane = "runtime" /\ Wake /\ UNCHANGED fencedVars)
    /\ WF_vars(lane = "fenced" /\ FencedStep /\ UNCHANGED runtimeVars)
    /\ WF_vars(lane = "fenced" /\ StartScheduler /\ UNCHANGED runtimeVars)
    /\ WF_vars(lane = "fenced" /\ Notify /\ UNCHANGED runtimeVars)
    /\ WF_vars(RaiseCompactionIntent /\ UNCHANGED <<runtimeVars, fencedVars>>)
    /\ WF_vars(LeaseLapses /\ UNCHANGED <<runtimeVars, fencedVars>>)
    /\ WF_vars(RetryTimeComes /\ UNCHANGED <<runtimeVars, fencedVars>>)

FairSpec == Spec /\ Fairness
----------------------------------------------------------------------------
(* attempt_count is kept by three different updates (claim_job adds one,   *)
(* fail_job may give one back, recover_expired_leases leaves it), and the  *)
(* worker decides on the copy it read at the claim. Together they count,   *)
(* up to max_attempts, exactly the attempts that failed, lost their lease  *)
(* or were deferred for their input, and the runtime worker gives a job up *)
(* only after max_attempts of those: however often it was deferred for a   *)
(* missing provider or metric. The fenced worker also gives up for a       *)
(* failure that it does not retry.                                         *)
GivesUpOnlyAfterSpentAttempts ==
    /\ job.attempts = job.spent + (IF Working(job) \/ job.state = "COMMITTED" THEN 1 ELSE 0)
    /\ job.state = "FAILED" =>
          \/ job.spent >= MaxAttempts
          \/ lane = "fenced" /\ fatal

(* _run clears the wake event before it looks for work, and a turn sets it *)
(* only after its intent is durable. So when the worker sleeps with no     *)
(* wake set, no job is pending that a turn has announced: the wake of a    *)
(* pending job is still to come, unless the sleep followed an error or the *)
(* job was left by a worker closed in the middle of a call, which is what  *)
(* the poll interval is for.                                               *)
NoLostWakeup ==
    lane = "runtime" /\ at = "wait" /\ ~wake /\ job.state = "PENDING" =>
        turn.stage = "raised" \/ byPoll

(* Every intent that became durable is served by the runtime worker: the   *)
(* snapshot covers its target, or the job fails for good, through          *)
(* crashes, closed workers, dead heartbeats, lost leases and deferrals,    *)
(* provided that from some time on the worker has a canonical counter and  *)
(* the session a provider whose context holds every unit up to the intent. *)
(* Another job may be deferred for ever: _persist_deferred does not look   *)
(* at max_attempts. And an intent absorbs the turns before it, so one unit *)
(* that is too large keeps the smaller turns of its job waiting as well.   *)
IntentServed ==
    <>[](canonical /\ Fits(provider, job.intent)) =>
        \A n \in 1..MaxEvents :
            (lane = "runtime" /\ job.state \in NonterminalStates /\ job.intent = n)
                ~> (covered >= n \/ job.state = "FAILED")

(* A notification that the scheduler accepted leads to an attempt: once    *)
(* the scheduler is not closed any more and its calls do not fail, a job   *)
(* pending while its session is queued is claimed.                         *)
NotifiedJobIsTried ==
    (lane = "fenced" /\ queued /\ job.state = "PENDING" /\ faults = MaxFaults)
        ~> job.state # "PENDING"

(* docs/COMPACTION_PROTOCOL.md: missing or unavailable canonical metrics   *)
(* defer the job without consuming an ordinary failure attempt. A deferral *)
(* for a metric leaves the job waiting for its retry with the attempt      *)
(* given back, or finds its lease lost.                                    *)
MetricDeferralKeepsAttempt ==
    [][at = "defer" /\ error.code = "TOKEN_METRIC_UNAVAILABLE" /\ at' # at
         /\ Fence /\ faults' = faults
       => job'.state = "RETRY_WAIT" /\ job'.attempts = job.attempts - 1]_vars
=============================================================================
