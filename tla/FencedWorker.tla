---------------------------- MODULE FencedWorker ----------------------------
(***************************************************************************)
(* _FencedCompactionWorker and the CoalescingCompactionScheduler that      *)
(* calls it.  The worker calls the repository synchronously, so the code   *)
(* between two awaits is one step; it awaits only the compiler and the     *)
(* auditor, each beside a heartbeat task.  It has no poll: run_once is     *)
(* called only for a notification.                                         *)
(***************************************************************************)
EXTENDS WorkerHost

VARIABLES
    pending,    \* the session is in the scheduler's _pending set
    queued,     \* the session is in the scheduler's queue
    op,         \* the awaited operation: "running" or how it ended
    fatal       \* history: the job failed for a reason that is not retried

fencedVars == <<pending, queued, op, fatal>>

FencedInit ==
    /\ pending = FALSE
    /\ queued = FALSE
    /\ op = "none"
    /\ fatal = FALSE

Outcomes == {"ok", "retryable", "fatal"}
Awaiting == at \in {"compile", "audit"}
----------------------------------------------------------------------------
(* CoalescingCompactionScheduler.                                          *)

StartScheduler ==
    /\ at = "down"
    /\ at' = "idle"
    /\ UNCHANGED <<job, mark, covered, hostVars, beat, fencedVars>>

(* notify: a session that is pending already is not queued again.          *)
Notify ==
    /\ turn.stage = "raised"
    /\ turn' = Idle
    /\ pending' = (pending \/ at # "down")
    /\ queued' = (queued \/ (at # "down" /\ ~pending))
    /\ UNCHANGED <<job, mark, covered, lane, strict, unmeasured, units, faults, at, beat, op, fatal>>

TakeNotification ==
    /\ at = "idle"
    /\ queued
    /\ queued' = FALSE
    /\ at' = "called"
    /\ UNCHANGED <<job, mark, covered, hostVars, beat, pending, op, fatal>>

(* Mutant: the task of the scheduler ends with its callback. *)
DiscardAndStop ==
    /\ at = "discard"
    /\ pending' = FALSE
    /\ at' = "stopped"
    /\ UNCHANGED <<job, mark, covered, hostVars, beat, queued, op, fatal>>

(* The callback has returned; the session may be queued again.             *)
Discard ==
    /\ at = "discard"
    /\ pending' = FALSE
    /\ at' = "idle"
    /\ UNCHANGED <<job, mark, covered, hostVars, beat, queued, op, fatal>>

(* close, or the end of the process, cancels the scheduler task and the    *)
(* callback in it; a new one starts with an empty queue.                   *)
CloseScheduler ==
    /\ at # "down"
    /\ Fault
    /\ at' = "down"
    /\ beat' = "off"
    /\ op' = "none"
    /\ pending' = FALSE
    /\ queued' = FALSE
    /\ turn' \in {turn, Idle}
    /\ UNCHANGED <<job, mark, covered, lane, strict, unmeasured, units, fatal>>
----------------------------------------------------------------------------
(* run_once.                                                               *)

Return == at' = "discard" /\ beat' = "off" /\ op' = "none"

Await(where) == at' = where /\ beat' = "on" /\ op' = "running"

(* Recover, claim, enter COMPILING, read the request view and renew.       *)
RunOnce ==
    /\ at = "called"
    /\ IF Claimable(Recovered(job))
       THEN /\ job' = [Leased(Recovered(job)) EXCEPT !.state = "COMPILING"]
            /\ fatal' = FALSE
            /\ Await("compile")
       ELSE job' = Recovered(job) /\ Return /\ UNCHANGED fatal
    /\ UNCHANGED <<mark, covered, hostVars, pending, queued>>

(* recover_expired_leases or claim_job raises: nothing was claimed.        *)
ClaimFails ==
    /\ at = "called"
    /\ Fault
    /\ Return
    /\ UNCHANGED <<job, mark, covered, lane, strict, turn, unmeasured, units, pending, queued, fatal>>

OperationEnds ==
    /\ Awaiting
    /\ op = "running"
    /\ op' \in Outcomes
    /\ UNCHANGED <<job, mark, covered, hostVars, at, beat, pending, queued, fatal>>

(* The heartbeat's renewal finds the lease lost, or fails otherwise.       *)
HeartbeatLosesLease ==
    /\ Awaiting
    /\ beat = "on"
    /\ ~Fence
    /\ beat' = "lost"
    /\ UNCHANGED <<job, mark, covered, hostVars, at, fencedVars>>

HeartbeatFails ==
    /\ Awaiting
    /\ beat = "on"
    /\ Fault
    /\ beat' \in {"retryable", "fatal"}
    /\ UNCHANGED <<job, mark, covered, lane, strict, turn, unmeasured, units, at, fencedVars>>

(* _record_failure; a stale lease leaves the job alone.                    *)
RecordFailure(how) ==
    /\ IF Fence
       THEN /\ job' = Spent(Failed(job, how = "retryable" /\ job.attempts < MaxAttempts, FALSE))
            /\ fatal' = (how = "fatal")
       ELSE UNCHANGED <<job, fatal>>
    /\ Return
    /\ UNCHANGED covered

(* The wait is over when the operation or the heartbeat has ended. A lost  *)
(* lease comes before a heartbeat error, and both before the result, even  *)
(* when the operation has ended too.                                       *)
ResumeUnhealthy ==
    /\ Awaiting
    /\ beat \notin {"on", "off"}
    /\ IF beat = "lost"
       THEN Return /\ UNCHANGED <<job, covered, fatal>>
       ELSE RecordFailure(beat)
    /\ UNCHANGED <<mark, hostVars, pending, queued>>

ResumeFailed ==
    /\ Awaiting
    /\ beat = "on"
    /\ op \in {"retryable", "fatal"}
    /\ RecordFailure(op)
    /\ UNCHANGED <<mark, hostVars, pending, queued>>

(* Enter AUDITING and renew, or enter READY_TO_COMMIT and publish; a stale *)
(* lease ends the run.                                                     *)
ResumeCompiled ==
    /\ at = "compile"
    /\ beat = "on"
    /\ op = "ok"
    /\ strict
    /\ IF Fence
       THEN job' = [job EXCEPT !.state = "AUDITING"] /\ Await("audit")
       ELSE Return /\ UNCHANGED job
    /\ UNCHANGED <<mark, covered, hostVars, pending, queued, fatal>>

ResumePublish ==
    /\ Awaiting
    /\ beat = "on"
    /\ op = "ok"
    /\ at = "compile" => ~strict
    /\ IF Fence
       THEN job' = Published(job) /\ covered' = job.target
       ELSE UNCHANGED <<job, covered>>
    /\ Return
    /\ UNCHANGED <<mark, hostVars, pending, queued, fatal>>

(* A transition or the publication raises; PublicationRejected is fatal.   *)
ResumeFails ==
    /\ Awaiting
    /\ beat = "on"
    /\ op = "ok"
    /\ Fault
    /\ \E how \in {"retryable", "fatal"} : RecordFailure(how)
    /\ UNCHANGED <<mark, lane, strict, turn, unmeasured, units, pending, queued>>

(* The database is busy when a failure is recorded, the one of a finished  *)
(* operation that could not go on because it was busy already included:    *)
(* the run ends and the job stays leased until its lease lapses.           *)
FailureNotRecorded ==
    /\ Awaiting
    /\ (IF beat = "on" THEN op ELSE beat) \in Outcomes
    /\ Fence
    /\ Fault
    /\ Return
    /\ UNCHANGED <<job, mark, covered, lane, strict, turn, unmeasured, units,
                   pending, queued, fatal>>
----------------------------------------------------------------------------

FencedStep ==
    \/ TakeNotification \/ Discard \/ RunOnce \/ OperationEnds \/ HeartbeatLosesLease
    \/ ResumeUnhealthy \/ ResumeFailed \/ ResumeCompiled \/ ResumePublish

FencedNext ==
    \/ FencedStep \/ StartScheduler \/ Notify
    \/ CloseScheduler \/ ClaimFails \/ HeartbeatFails
    \/ ResumeFails \/ FailureNotRecorded
=============================================================================
