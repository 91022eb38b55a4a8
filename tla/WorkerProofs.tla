---------------------------- MODULE WorkerProofs ----------------------------
(***************************************************************************)
(* What both compaction workers guarantee of the job they share with the   *)
(* turns of the session: its attempt count and its spent attempts agree    *)
(* through every claim, deferral, failure, recovery and late call of a     *)
(* closed worker, and the runtime worker never sleeps through a wake.      *)
(***************************************************************************)
EXTENDS CompactionWorker, TLAPS

Turns == [stage : {"idle", "captured", "raised"}, target : Nat]

WorkerTypeOK ==
    /\ job \in Jobs
    /\ mark \in Nat
    /\ covered \in Nat
    /\ turn \in Turns
    /\ lane \in {"runtime", "fenced"}
    /\ wake \in BOOLEAN
    /\ byPoll \in BOOLEAN
    /\ fatal \in BOOLEAN

(* NoLostWakeup holds already when claim_job has found nothing and _run    *)
(* has not yet begun to wait.                                              *)
WakeIsKept ==
    lane = "runtime" /\ at \in {"nothing", "wait"} /\ ~wake /\ job.state = "PENDING" =>
        turn.stage = "raised" \/ byPoll

JobInv == WorkerTypeOK /\ GivesUpOnlyAfterSpentAttempts /\ WakeIsKept

(* The heartbeat of the fenced worker ends with a lost lease or an error   *)
(* that _record_failure tells apart.                                       *)
HeartbeatEnds ==
    lane = "fenced" => beat \in {"off", "on", "lost", "retryable", "fatal"}

WorkerInv == JobInv /\ HeartbeatEnds

----------------------------------------------------------------------------
(* The updates of the job *)

(* A job whose attempts are the spent ones and the one in progress.        *)
Counted(j) ==
    /\ j \in Jobs
    /\ j.attempts = j.spent + (IF Working(j) \/ j.state = "COMMITTED" THEN 1 ELSE 0)

(* A new job has spent nothing.                                            *)
LEMMA NewJobCounted ==
    ASSUME NEW target \in Nat
    PROVE  Counted(NewJob(target)) /\ NewJob(target).state = "PENDING"
BY DEF Counted, NewJob, Jobs, Working, WorkingStates, NonterminalStates

(* Raising an intent keeps the counts of the job that absorbs it, and a    *)
(* job becomes pending only for a target that is not covered.              *)
LEMMA IntendedCounted ==
    ASSUME NEW j, Counted(j), NEW target \in Nat, covered \in Nat
    PROVE  LET r == Intended(j, target) IN
           /\ Counted(r)
           /\ r.state = "FAILED" => r = j
           /\ r.state = "PENDING" => j.state = "PENDING" \/ target > covered
<1>1. CASE target <= covered
  BY <1>1 DEF Intended
<1>2. CASE target > covered /\ j.state \in NonterminalStates
  <2> DEFINE intent == IF target > j.intent THEN target ELSE j.intent
             r == [j EXCEPT !.intent = intent]
  <2>1. Intended(j, target) = r
    BY <1>2 DEF Intended, Counted, Jobs
  <2>2. intent \in Nat
    BY DEF Counted, Jobs
  <2>3. /\ r \in Jobs /\ r.state = j.state
        /\ r.attempts = j.attempts /\ r.spent = j.spent
    BY <2>2 DEF Counted, Jobs
  <2> HIDE DEF r
  <2>4. Counted(r)
    BY <2>3 DEF Counted, Working
  <2>5. r.state # "FAILED"
    BY <1>2, <2>3 DEF NonterminalStates, WorkingStates
  <2> QED
    BY <1>2, <2>1, <2>4, <2>5
<1>3. CASE target > covered /\ j.state \notin NonterminalStates
  <2>1. Intended(j, target) = NewJob(target)
    BY <1>3 DEF Intended
  <2> QED
    BY <1>3, <2>1, NewJobCounted
<1> QED
  BY <1>1, <1>2, <1>3

(* A claim begins one attempt.                                             *)
LEMMA LeasedCounted ==
    ASSUME NEW j, Counted(j), Claimable(j)
    PROVE  Counted(Leased(j)) /\ Leased(j).state = "LEASED"
<1> DEFINE more == j.attempts + 1
           r == [j EXCEPT !.state = "LEASED", !.target = j.intent, !.live = TRUE,
                          !.attempts = more, !.due = FALSE]
<1>1. more \in Nat /\ j.intent \in Nat
  BY DEF Counted, Jobs
<1>2. Leased(j) = r
  BY DEF Leased, Counted, Jobs
<1> HIDE DEF more
<1>3. r \in Jobs /\ r.state = "LEASED" /\ r.attempts = more /\ r.spent = j.spent
  BY <1>1, Zenon DEF Counted, Jobs, WorkingStates, NonterminalStates
<1>4. ~Working(j) /\ j.state # "COMMITTED"
  BY DEF Claimable, Working, WorkingStates
<1> HIDE DEF r
<1>5. Working(r) /\ j.spent \in Nat
  BY <1>3 DEF Working, WorkingStates, Counted, Jobs
<1>6. Counted(r)
  BY <1>3, <1>4, <1>5 DEF Counted, more
<1> QED
  BY <1>3, <1>6, <1>2

(* The attempt in progress becomes a spent one, or is one of those above   *)
(* max_attempts.                                                           *)
LEMMA SpentCounted ==
    ASSUME NEW j \in Jobs, ~Working(j), j.state # "COMMITTED", j.attempts = j.spent + 1
    PROVE  /\ Counted(Spent(j)) /\ Spent(j).state = j.state
           /\ j.attempts >= MaxAttempts => Spent(j).spent >= MaxAttempts
<1>0. j.spent \in Nat /\ MaxAttempts \in Nat
  BY BoundsAssumption DEF Jobs
<1>1. CASE j.spent < MaxAttempts
  <2> DEFINE more == j.spent + 1
             r == [j EXCEPT !.spent = more]
  <2>1. more \in Nat
    BY <1>0
  <2>2. Spent(j) = r
    BY <1>1 DEF Spent
  <2> HIDE DEF more
  <2>3. r \in Jobs /\ r.state = j.state /\ r.attempts = j.attempts /\ r.spent = more
    BY <2>1, Zenon DEF Jobs
  <2> HIDE DEF r
  <2>4. ~Working(r) /\ r.state # "COMMITTED" /\ j.attempts = more
    BY <2>3 DEF Working, more
  <2>5. Counted(r)
    BY <2>1, <2>3, <2>4 DEF Counted
  <2> QED
    BY <2>2, <2>3, <2>4, <2>5
<1>2. CASE ~(j.spent < MaxAttempts)
  <2> DEFINE less == j.attempts - 1
             r == [j EXCEPT !.attempts = less]
  <2>1. less = j.spent
    BY <1>0
  <2>2. Spent(j) = r
    BY <1>2 DEF Spent
  <2> HIDE DEF less
  <2>3. r \in Jobs /\ r.state = j.state /\ r.attempts = j.spent /\ r.spent = j.spent
    BY <1>0, <2>1, Zenon DEF Jobs
  <2> HIDE DEF r
  <2>4. Counted(r) /\ r.spent >= MaxAttempts
    BY <1>0, <1>2, <2>3 DEF Counted, Working
  <2> QED
    BY <2>2, <2>3, <2>4
<1> QED
  BY <1>1, <1>2

(* Recovery turns the attempt in progress into a spent one.                *)
LEMMA RecoveredCounted ==
    ASSUME NEW j, Counted(j)
    PROVE  Counted(Recovered(j)) /\ (Recovered(j).state = "FAILED" => Recovered(j) = j)
<1>1. CASE Working(j) /\ ~j.live
  <2> DEFINE r == [j EXCEPT !.state = "PENDING"]
  <2>1. Recovered(j) = Spent(r)
    BY <1>1 DEF Recovered
  <2>2. r \in Jobs /\ r.state = "PENDING" /\ r.attempts = j.attempts /\ r.spent = j.spent
    BY Zenon DEF Counted, Jobs, NonterminalStates
  <2> HIDE DEF r
  <2>3. ~Working(r) /\ r.attempts = r.spent + 1
    BY <1>1, <2>2 DEF Working, WorkingStates, Counted
  <2>4. Counted(Spent(r)) /\ Spent(r).state = "PENDING"
    BY <2>2, <2>3, SpentCounted
  <2> QED
    BY <2>1, <2>4
<1>2. CASE ~(Working(j) /\ ~j.live)
  BY <1>2 DEF Recovered
<1> QED
  BY <1>1, <1>2

(* Publication ends the attempt without spending it.                       *)
LEMMA PublishedCounted ==
    ASSUME NEW j, Counted(j), Working(j)
    PROVE  Counted(Published(j)) /\ Published(j).state # "FAILED"
<1>1. CASE j.intent > j.target
  <2>1. j.intent \in Nat /\ Published(j) = NewJob(j.intent)
    BY <1>1 DEF Published, Counted, Jobs
  <2> QED
    BY <2>1, NewJobCounted
<1>2. CASE ~(j.intent > j.target)
  <2> DEFINE r == [j EXCEPT !.state = "COMMITTED", !.live = FALSE]
  <2>1. r \in Jobs /\ r.state = "COMMITTED" /\ r.attempts = j.attempts /\ r.spent = j.spent
    BY Zenon DEF Counted, Jobs, TerminalStates
  <2>2. Published(j) = r
    BY <1>2 DEF Published
  <2> HIDE DEF r
  <2>3. Counted(r)
    BY <2>1 DEF Counted
  <2> QED
    BY <2>1, <2>2, <2>3
<1> QED
  BY <1>1, <1>2

(* A worker transition stays within the attempt.                           *)
LEMMA MovedCounted ==
    ASSUME NEW j, Counted(j), Working(j), NEW state \in WorkingStates
    PROVE  /\ Counted([j EXCEPT !.state = state])
           /\ [j EXCEPT !.state = state].state = state
<1> DEFINE r == [j EXCEPT !.state = state]
<1>1. r \in Jobs /\ r.state = state /\ r.attempts = j.attempts /\ r.spent = j.spent
  BY DEF Counted, Jobs, NonterminalStates
<1> HIDE DEF r
<1>2. Working(r)
  BY <1>1 DEF Working
<1>3. Counted(r)
  BY <1>1, <1>2 DEF Counted
<1> QED
  BY <1>1, <1>3 DEF r

(* Time changes neither the state of a job nor its counts.                 *)
LEMMA TimedCounted ==
    ASSUME NEW j, Counted(j), NEW r, r \in {[j EXCEPT !.live = FALSE], [j EXCEPT !.due = TRUE]}
    PROVE  Counted(r) /\ r.state = j.state /\ r.spent = j.spent
<1>1. r \in Jobs /\ r.state = j.state /\ r.attempts = j.attempts /\ r.spent = j.spent
  BY Zenon DEF Counted, Jobs
<1> QED
  BY <1>1 DEF Counted, Working

(* A failure spends the attempt, and one that the claim had counted as the *)
(* last leaves max_attempts of them.                                       *)
LEMMA FailedCounted ==
    ASSUME NEW j, Counted(j), Working(j), NEW retry \in BOOLEAN
    PROVE  LET r == Spent(Failed(j, retry, FALSE)) IN
           /\ Counted(r) /\ (j.attempts >= MaxAttempts => r.spent >= MaxAttempts)
           /\ r.state = IF retry THEN "RETRY_WAIT" ELSE "FAILED"
<1> DEFINE state == IF retry THEN "RETRY_WAIT" ELSE "FAILED"
           f == Failed(j, retry, FALSE)
<1>1. state \in {"RETRY_WAIT", "FAILED"}
  OBVIOUS
<1>2. f \in Jobs /\ f.state = state /\ f.attempts = j.attempts /\ f.spent = j.spent
  BY <1>1, Zenon DEF Failed, Counted, Jobs, NonterminalStates, TerminalStates
<1>3. j.attempts = j.spent + 1
  BY DEF Counted
<1> HIDE DEF f, state
<1>4. ~Working(f) /\ f.state # "COMMITTED"
  BY <1>1, <1>2 DEF Working, WorkingStates
<1>5. /\ Counted(Spent(f)) /\ Spent(f).state = state
      /\ j.attempts >= MaxAttempts => Spent(f).spent >= MaxAttempts
  BY <1>2, <1>3, <1>4, SpentCounted
<1> QED
  BY <1>5, Zenon DEF f, state

(* A transient deferral gives the attempt back.                            *)
LEMMA DeferredCounted ==
    ASSUME NEW j, Counted(j), Working(j)
    PROVE  Counted(Failed(j, TRUE, TRUE)) /\ Failed(j, TRUE, TRUE).state = "RETRY_WAIT"
<1> DEFINE back == IF TRUE /\ j.attempts > 0 THEN j.attempts - 1 ELSE j.attempts
           r == [j EXCEPT !.state = IF TRUE THEN "RETRY_WAIT" ELSE "FAILED",
                          !.live = FALSE, !.due = FALSE, !.attempts = back]
<1>1. j.attempts = j.spent + 1 /\ j.spent \in Nat
  BY DEF Counted, Jobs
<1>2. Failed(j, TRUE, TRUE) = r
  BY DEF Failed
<1>3. back = j.spent
  BY <1>1
<1> HIDE DEF back
<1>4. /\ r \in Jobs /\ r.state = "RETRY_WAIT"
      /\ r.attempts = j.spent /\ r.spent = j.spent
  BY <1>1, <1>3, Zenon DEF Counted, Jobs, NonterminalStates
<1> HIDE DEF r
<1>5. ~Working(r)
  BY <1>4 DEF Working, WorkingStates
<1>6. Counted(r)
  BY <1>1, <1>4, <1>5 DEF Counted
<1> QED
  BY <1>2, <1>4, <1>6, Zenon

----------------------------------------------------------------------------
(* The steps *)

(* Why a job that failed for good may be given up.                         *)
GivenUp ==
    job.state = "FAILED" => job.spent >= MaxAttempts \/ (lane = "fenced" /\ fatal)

(* The invariant in the form in which the steps use it.                    *)
LEMMA InvParts ==
    JobInv <=> WorkerTypeOK /\ Counted(job) /\ GivenUp /\ WakeIsKept
BY DEF JobInv, WorkerTypeOK, GivesUpOnlyAfterSpentAttempts, Counted, GivenUp

(* A step that leaves the job, the store and the turn alone, and puts the  *)
(* worker to sleep only where it slept or after an error.                  *)
LEMMA QuietStep ==
    ASSUME JobInv, UNCHANGED <<job, mark, covered, lane, turn, fatal>>,
           wake' \in BOOLEAN, byPoll' \in BOOLEAN,
           \/ at' \notin {"nothing", "wait"}
           \/ at \in {"nothing", "wait"} /\ wake' = wake /\ byPoll' = byPoll
           \/ byPoll'
    PROVE  JobInv'
<1>1. WorkerTypeOK' /\ GivesUpOnlyAfterSpentAttempts'
  BY DEF JobInv, WorkerTypeOK, GivesUpOnlyAfterSpentAttempts
<1>2. CASE at' \notin {"nothing", "wait"} \/ byPoll'
  <2>1. WakeIsKept'
    BY <1>2 DEF WakeIsKept
  <2> QED
    BY <1>1, <2>1 DEF JobInv
<1>3. CASE at \in {"nothing", "wait"} /\ wake' = wake /\ byPoll' = byPoll
  <2>1. WakeIsKept'
    BY <1>3 DEF JobInv, WakeIsKept
  <2> QED
    BY <1>1, <2>1 DEF JobInv
<1> QED
  BY <1>2, <1>3

(* A step that changes the job while the worker is awake, or in the lane   *)
(* that has no wake.                                                       *)
LEMMA JobStep ==
    ASSUME JobInv, UNCHANGED <<mark, lane, turn>>, covered' \in Nat,
           wake' \in BOOLEAN, byPoll' \in BOOLEAN, fatal' \in BOOLEAN,
           Counted(job'), GivenUp',
           lane = "fenced" \/ at' \notin {"nothing", "wait"}
    PROVE  JobInv'
<1>1. WorkerTypeOK'
  BY DEF JobInv, WorkerTypeOK, Counted
<1>2. WakeIsKept'
  BY DEF WakeIsKept
<1>3. GivesUpOnlyAfterSpentAttempts'
  BY DEF GivesUpOnlyAfterSpentAttempts, GivenUp, Counted
<1> QED
  BY <1>1, <1>2, <1>3 DEF JobInv

(* Turns and time.                                                         *)
LEMMA EnvironmentInv ==
    ASSUME JobInv, Environment
    PROVE  JobInv'
<1>1. UNCHANGED <<at, lane, wake, byPoll, fatal>>
  BY DEF Environment, CaptureAssistant, RaiseCompactionIntent, LeaseLapses, ProcessStalls,
      RetryTimeComes, hostVars, runtimeVars, fencedVars
<1>2. WorkerTypeOK /\ Counted(job) /\ GivenUp /\ WakeIsKept
  BY InvParts
<1>3. CASE CaptureAssistant
  <2>1. UNCHANGED <<job, covered>> /\ mark' = mark + 1
    BY <1>3 DEF CaptureAssistant
  <2>2. /\ turn' \in {Idle, [stage |-> "captured", target |-> mark + 1]}
        /\ turn.stage # "raised"
    BY <1>3 DEF CaptureAssistant, Idle
  <2>3. mark' \in Nat /\ turn' \in Turns
    BY <1>2, <2>1, <2>2 DEF WorkerTypeOK, Turns, Idle
  <2>4. WorkerTypeOK' /\ GivesUpOnlyAfterSpentAttempts'
    BY <1>1, <2>1, <2>3 DEF JobInv, WorkerTypeOK, GivesUpOnlyAfterSpentAttempts
  <2>5. WakeIsKept'
    BY <1>1, <1>2, <2>1, <2>2 DEF WakeIsKept
  <2> QED
    BY <2>4, <2>5 DEF JobInv
<1>4. CASE RaiseCompactionIntent
  <2>1. /\ UNCHANGED <<mark, covered>> /\ turn.stage = "captured"
        /\ job' = Intended(job, turn.target)
        /\ turn' = IF turn.target > covered THEN [turn EXCEPT !.stage = "raised"] ELSE Idle
    BY <1>4 DEF RaiseCompactionIntent
  <2>2. turn.target \in Nat /\ covered \in Nat
    BY <1>2 DEF WorkerTypeOK, Turns
  <2>3. /\ Counted(job') /\ (job'.state = "FAILED" => job' = job)
        /\ job'.state = "PENDING" => job.state = "PENDING" \/ turn.target > covered
    BY <1>2, <2>1, <2>2, IntendedCounted
  <2>4. turn' \in Turns /\ (turn.target > covered => turn'.stage = "raised")
    BY <1>2, <2>1 DEF WorkerTypeOK, Turns, Idle
  <2>5. WorkerTypeOK'
    BY <1>1, <1>2, <2>1, <2>3, <2>4 DEF WorkerTypeOK, Counted
  <2>6. GivenUp'
    BY <1>1, <1>2, <2>3 DEF GivenUp
  <2>7. WakeIsKept'
    BY <1>1, <1>2, <2>1, <2>3, <2>4 DEF WakeIsKept
  <2>8. GivesUpOnlyAfterSpentAttempts'
    BY <2>3, <2>6 DEF GivesUpOnlyAfterSpentAttempts, GivenUp, Counted
  <2> QED
    BY <2>5, <2>7, <2>8 DEF JobInv
<1>5. CASE LeaseLapses \/ ProcessStalls \/ RetryTimeComes
  <2>1. /\ UNCHANGED <<mark, covered, turn>>
        /\ job' \in {[job EXCEPT !.live = FALSE], [job EXCEPT !.due = TRUE]}
    BY <1>5 DEF LeaseLapses, ProcessStalls, RetryTimeComes, hostVars
  <2>2. Counted(job') /\ job'.state = job.state /\ job'.spent = job.spent
    BY <1>2, <2>1, TimedCounted
  <2>3. WorkerTypeOK'
    BY <1>1, <1>2, <2>1, <2>2 DEF WorkerTypeOK, Counted
  <2>4. GivesUpOnlyAfterSpentAttempts'
    BY <1>1, <1>2, <2>2 DEF GivesUpOnlyAfterSpentAttempts, GivenUp, Counted
  <2>5. WakeIsKept'
    BY <1>1, <1>2, <2>1, <2>2 DEF WakeIsKept
  <2> QED
    BY <2>3, <2>4, <2>5 DEF JobInv
<1> QED
  BY <1>3, <1>4, <1>5 DEF Environment

(* The steps of the runtime worker that leave the job alone.               *)
RuntimeQuiet ==
    \/ ClearWake \/ FoundNothing \/ Woken \/ FreezeBinding
    \/ BackfillMetrics \/ ReadCompactionView \/ CompileUnbound \/ Compile \/ AuditSemantic
    \/ VerifyCandidate \/ PublicationRejected
    \/ CloseWorker \/ BackfillCountFails \/ CompileDefers
    \/ CandidateCountFails \/ CallFails \/ CallFailsOutside
    \/ StorageFails \/ RenewalFails
    \/ PollTimeout \/ StartWorker \/ ProviderChanges

(* Those steps preserve the invariant of the job and leave the fenced lane *)
(* where it is.                                                            *)
LEMMA RuntimeQuietInv ==
    ASSUME JobInv, RuntimeQuiet, UNCHANGED fencedVars
    PROVE  JobInv' /\ lane' = lane
<1>1. wake \in BOOLEAN /\ byPoll \in BOOLEAN /\ fatal' = fatal
  BY DEF JobInv, WorkerTypeOK, fencedVars
<1>2. CASE ClearWake \/ StartWorker
  <2>1. /\ UNCHANGED <<job, mark, covered, lane, turn, byPoll>> /\ wake' = FALSE
        /\ at' \notin {"nothing", "wait"}
    BY <1>2 DEF ClearWake, StartWorker, hostVars
  <2> QED
    BY <1>1, <2>1, QuietStep, Zenon
<1>3. CASE FoundNothing
  <2>1. UNCHANGED <<job, mark, covered, lane, turn, byPoll, wake>> /\ at = "nothing"
    BY <1>3 DEF FoundNothing, hostVars, runtimeVars
  <2> QED
    BY <1>1, <2>1, QuietStep
<1>4. CASE ProviderChanges \/ RenewalFails
  <2>1. UNCHANGED <<job, mark, covered, lane, turn, byPoll, wake, at>>
    BY <1>4 DEF ProviderChanges, RenewalFails, hostVars, runtimeVars
  <2> QED
    BY <1>1, <2>1, QuietStep
<1>5. CASE CallFailsOutside
  <2>1. UNCHANGED <<job, mark, covered, lane, turn, wake>> /\ byPoll' = TRUE
    BY <1>5 DEF CallFailsOutside, Escape
  <2> QED
    BY <1>1, <2>1, QuietStep
<1>6. CASE Woken \/ PollTimeout \/ FreezeBinding \/ CloseWorker \/ StorageFails
  <2>1. /\ UNCHANGED <<job, mark, covered, lane, turn, byPoll, wake>>
        /\ at' \notin {"nothing", "wait"}
    BY <1>6 DEF Woken, PollTimeout, FreezeBinding, CloseWorker, StorageFails,
        hostVars, runtimeVars
  <2> QED
    BY <1>1, <2>1, QuietStep
<1>7. CASE BackfillMetrics \/ ReadCompactionView \/ CompileUnbound \/ Compile
           \/ BackfillCountFails \/ CompileDefers
  <2>1. /\ UNCHANGED <<job, mark, covered, lane, turn, byPoll, wake>>
        /\ at' \notin {"nothing", "wait"}
    BY <1>7 DEF BackfillMetrics, ReadCompactionView, CompileUnbound, Compile,
        BackfillCountFails, CompileDefers, Defer, Fail, EndIteration, hostVars
  <2> QED
    BY <1>1, <2>1, QuietStep
<1>8. CASE AuditSemantic \/ VerifyCandidate \/ PublicationRejected
           \/ CandidateCountFails \/ CallFails
  <2>1. /\ UNCHANGED <<job, mark, covered, lane, turn, byPoll, wake>>
        /\ at' \notin {"nothing", "wait"}
    BY <1>8 DEF AuditSemantic, VerifyCandidate, PublicationRejected,
        CandidateCountFails, CallFails, Defer, Fail, hostVars
  <2> QED
    BY <1>1, <2>1, QuietStep
<1> QED
  BY <1>2, <1>3, <1>4, <1>5, <1>6, <1>7, <1>8 DEF RuntimeQuiet

(* The turn that wakes the worker, and the end of the process.             *)
LEMMA RuntimeTurnInv ==
    ASSUME JobInv, Wake \/ Crash, UNCHANGED fencedVars
    PROVE  JobInv' /\ lane' = lane
<1>1. /\ WorkerTypeOK /\ GivesUpOnlyAfterSpentAttempts /\ WakeIsKept
      /\ fatal' = fatal
  BY DEF JobInv, fencedVars
<1>2. UNCHANGED <<job, mark, covered, lane, byPoll>> /\ turn' = Idle
  BY DEF Wake, Crash
<1>3. wake' \in BOOLEAN
  BY <1>1, Zenon DEF Wake, Crash, WorkerTypeOK
<1>4. WorkerTypeOK' /\ GivesUpOnlyAfterSpentAttempts'
  BY <1>1, <1>2, <1>3 DEF WorkerTypeOK, GivesUpOnlyAfterSpentAttempts, Turns, Idle
<1>5. WakeIsKept'
  BY <1>1, Zenon DEF WakeIsKept, Wake, Crash
<1> QED
  BY <1>2, <1>4, <1>5 DEF JobInv

(* The calls of a closed worker that are still running.                    *)
LEMMA OrphanInv ==
    ASSUME JobInv, OrphanPublishes \/ OrphanClaims, UNCHANGED fencedVars
    PROVE  JobInv' /\ lane' = lane
<1>1. /\ WorkerTypeOK /\ Counted(job) /\ GivenUp /\ WakeIsKept /\ fatal' = fatal
      /\ UNCHANGED <<mark, lane, turn, at, wake>>
  BY InvParts DEF fencedVars, OrphanPublishes, OrphanClaims, hostVars
<1>2. CASE OrphanPublishes /\ ~Fence
  <2>1. UNCHANGED <<job, covered, byPoll>>
    BY <1>2 DEF OrphanPublishes
  <2> QED
    BY <1>1, <2>1 DEF JobInv, WorkerTypeOK, WakeIsKept, GivesUpOnlyAfterSpentAttempts
<1>3. CASE OrphanPublishes /\ Fence
  <2>1. job' = Published(job) /\ covered' = job.target /\ byPoll' = TRUE
    BY <1>3 DEF OrphanPublishes
  <2>2. Counted(job') /\ job'.state # "FAILED"
    BY <1>1, <1>3, <2>1, PublishedCounted, Zenon DEF Fence
  <2>3. WorkerTypeOK'
    BY <1>1, <2>1, <2>2 DEF WorkerTypeOK, Counted, Jobs
  <2>4. WakeIsKept'
    BY <2>1 DEF WakeIsKept
  <2>5. GivesUpOnlyAfterSpentAttempts'
    BY <2>2 DEF GivesUpOnlyAfterSpentAttempts, Counted
  <2> QED
    BY <1>1, <2>3, <2>4, <2>5 DEF JobInv
<1>4. CASE OrphanClaims
  <2>1. /\ UNCHANGED <<covered, byPoll>>
        /\ job' = IF Claimable(job) THEN Leased(job) ELSE job
    BY <1>4 DEF OrphanClaims
  <2>2. /\ Counted(job') /\ (job'.state = "FAILED" => job' = job)
        /\ job'.state = "PENDING" => job' = job
    BY <1>1, <2>1, LeasedCounted
  <2>3. WorkerTypeOK'
    BY <1>1, <2>1, <2>2 DEF WorkerTypeOK, Counted
  <2>4. WakeIsKept'
    BY <1>1, <2>1, <2>2 DEF WakeIsKept
  <2>5. GivesUpOnlyAfterSpentAttempts'
    BY <1>1, <2>2 DEF GivesUpOnlyAfterSpentAttempts, Counted, GivenUp
  <2> QED
    BY <1>1, <2>3, <2>4, <2>5 DEF JobInv
<1> QED
  BY <1>2, <1>3, <1>4

(* Recovery, the claim and the fenced calls of the runtime worker.         *)
LEMMA RuntimeJobInv ==
    ASSUME JobInv, lane = "runtime", UNCHANGED fencedVars,
           \/ RecoverExpiredLeases \/ ClaimJob \/ EnterCompiling \/ EnterAuditing
           \/ EnterReady \/ PublishSnapshot \/ PersistDeferred \/ PersistFailure
    PROVE  JobInv' /\ lane' = lane
<1>1. /\ WorkerTypeOK /\ Counted(job) /\ GivenUp /\ WakeIsKept /\ fatal' = fatal
      /\ UNCHANGED <<mark, lane, turn, wake>>
  BY InvParts, Zenon DEF fencedVars, hostVars, RecoverExpiredLeases, ClaimJob, EnterCompiling,
      EnterAuditing, EnterReady, PublishSnapshot, PersistDeferred, PersistFailure
<1>2. wake' \in BOOLEAN /\ fatal' \in BOOLEAN /\ covered \in Nat /\ byPoll \in BOOLEAN
  BY <1>1 DEF WorkerTypeOK
<1>3. job.target \in Nat /\ job.attempts \in Nat /\ MaxAttempts \in Nat
  BY <1>1, BoundsAssumption DEF Counted, Jobs
<1>4. ASSUME Counted(job'), job'.state = "FAILED" => job' = job \/ job'.spent >= MaxAttempts,
             covered' \in Nat, byPoll' \in BOOLEAN, at' \notin {"nothing", "wait"}
      PROVE  JobInv' /\ lane' = lane
  <2>1. GivenUp'
    BY <1>1, <1>4 DEF GivenUp
  <2> QED
    BY <1>1, <1>2, <1>4, <2>1, JobStep
<1>5. CASE RecoverExpiredLeases
  <2>1. UNCHANGED <<covered, byPoll>> /\ at' = "claim" /\ job' = Recovered(job)
    BY <1>5 DEF RecoverExpiredLeases
  <2> QED
    BY <1>1, <1>2, <1>4, <2>1, RecoveredCounted
<1>6. CASE ClaimJob /\ Claimable(job)
  <2>1. covered' = covered /\ byPoll' = FALSE /\ at' = "bind" /\ job' = Leased(job)
    BY <1>6 DEF ClaimJob
  <2> QED
    BY <1>1, <1>2, <1>4, <1>6, <2>1, LeasedCounted, Zenon
<1>7. CASE ClaimJob /\ ~Claimable(job)
  <2>1. UNCHANGED <<job, covered>> /\ byPoll' = FALSE /\ job.state # "PENDING"
    BY <1>7 DEF ClaimJob, Claimable
  <2> QED
    BY <1>1, <2>1, Zenon DEF JobInv, WorkerTypeOK, WakeIsKept, GivesUpOnlyAfterSpentAttempts
<1>8. ASSUME NEW state \in WorkingStates, NEW next, next \notin {"nothing", "wait"},
             Fenced(job' = [job EXCEPT !.state = state] /\ at' = next /\ UNCHANGED covered),
             byPoll' = byPoll
      PROVE  JobInv' /\ lane' = lane
  <2>1. CASE Fence
    <3>1. job' = [job EXCEPT !.state = state] /\ at' = next /\ covered' = covered
      BY <1>8, <2>1 DEF Fenced
    <3>2. Counted(job') /\ job'.state = state
      BY <1>1, <2>1, <3>1, MovedCounted DEF Fence
    <3>3. job'.state # "FAILED"
      BY <3>2 DEF WorkingStates
    <3> QED
      BY <1>2, <1>4, <1>8, <3>1, <3>2, <3>3
  <2>2. CASE ~Fence
    <3>1. UNCHANGED <<job, covered>> /\ at' \notin {"nothing", "wait"}
      BY <1>8, <2>2 DEF Fenced, EndIteration
    <3> QED
      BY <1>1, <1>2, <1>4, <1>8, <3>1
  <2> QED
    BY <2>1, <2>2
<1>9. CASE EnterCompiling
  BY <1>8, <1>9 DEF EnterCompiling, WorkingStates
<1>10. CASE EnterAuditing
  BY <1>8, <1>10 DEF EnterAuditing, WorkingStates
<1>11. CASE EnterReady
  BY <1>8, <1>11 DEF EnterReady, WorkingStates
<1>12. CASE PublishSnapshot
  <2>1. byPoll' = byPoll /\ at' \notin {"nothing", "wait"}
    BY <1>12 DEF PublishSnapshot, EndIteration
  <2>2. CASE Fence
    <3>1. job' = Published(job) /\ covered' = job.target
      BY <1>12, <2>2 DEF PublishSnapshot
    <3>2. Counted(job') /\ job'.state # "FAILED"
      BY <1>1, <2>2, <3>1, PublishedCounted DEF Fence
    <3> QED
      BY <1>2, <1>3, <1>4, <2>1, <3>1, <3>2
  <2>3. CASE ~Fence
    <3>1. UNCHANGED <<job, covered>>
      BY <1>12, <2>3 DEF PublishSnapshot
    <3> QED
      BY <1>1, <1>2, <1>4, <2>1, <3>1
  <2> QED
    BY <2>2, <2>3
<1>13. CASE PersistDeferred
  <2>1. covered' = covered
    BY <1>13 DEF PersistDeferred
  <2>2. CASE Transient /\ error.stage # "COMPILING"
    <3>1. job' = job /\ byPoll' = TRUE
      BY <1>13, <2>2 DEF PersistDeferred, Escape
    <3> QED
      BY <1>1, <1>2, <2>1, <3>1, QuietStep, Zenon
  <2>3. CASE ~(Transient /\ error.stage # "COMPILING")
    <3>1. byPoll' = byPoll /\ at' \notin {"nothing", "wait"}
      BY <1>13, <2>3, Zenon DEF PersistDeferred, EndIteration
    <3>2. CASE ~Fence
      <4>1. job' = job
        BY <1>13, <2>3, <3>2 DEF PersistDeferred
      <4> QED
        BY <1>1, <1>2, <1>4, <2>1, <3>1, <4>1
    <3>3. CASE Fence /\ Transient
      <4>1. job' = Failed(job, TRUE, TRUE)
        <5>1. job' = Failed(job, TRUE, Transient)
          BY <1>13, <2>3, <3>3, Zenon DEF PersistDeferred
        <5>2. Transient = TRUE
          BY <3>3 DEF Transient
        <5> QED
          BY <5>1, <5>2
      <4>2. Counted(job') /\ job'.state = "RETRY_WAIT"
        BY <1>1, <3>3, <4>1, DeferredCounted, Zenon DEF Fence
      <4> QED
        BY <1>2, <1>4, <2>1, <3>1, <4>2
    <3>4. CASE Fence /\ ~Transient
      <4>1. job' = Spent(Failed(job, TRUE, FALSE))
        <5>1. job' = Spent(Failed(job, TRUE, Transient))
          BY <1>13, <2>3, <3>4 DEF PersistDeferred
        <5>2. Transient = FALSE
          BY <3>4 DEF Transient
        <5> QED
          BY <5>1, <5>2
      <4>2. Counted(job') /\ job'.state = "RETRY_WAIT"
        BY <1>1, <3>4, <4>1, FailedCounted, Zenon DEF Fence
      <4> QED
        BY <1>2, <1>4, <2>1, <3>1, <4>2
    <3> QED
      BY <3>2, <3>3, <3>4, Zenon
  <2> QED
    BY <2>2, <2>3
<1>14. CASE PersistFailure
  <2>1. UNCHANGED <<covered, byPoll>> /\ at' \notin {"nothing", "wait"}
    BY <1>14 DEF PersistFailure, EndIteration
  <2>2. CASE Fence
    <3> DEFINE retry == job.attempts < MaxAttempts
    <3>1. job' = Spent(Failed(job, retry, FALSE)) /\ retry \in BOOLEAN
      BY <1>14, <2>2 DEF PersistFailure
    <3>2. /\ Counted(job') /\ (job.attempts >= MaxAttempts => job'.spent >= MaxAttempts)
          /\ job'.state = IF retry THEN "RETRY_WAIT" ELSE "FAILED"
      BY <1>1, <2>2, <3>1, FailedCounted, Zenon DEF Fence
    <3>3. job'.state = "FAILED" => job'.spent >= MaxAttempts
      BY <1>3, <3>2
    <3> QED
      BY <1>2, <1>4, <2>1, <3>2, <3>3
  <2>3. CASE ~Fence
    <3>1. job' = job
      BY <1>14, <2>3 DEF PersistFailure
    <3> QED
      BY <1>1, <1>2, <1>4, <2>1, <3>1
  <2> QED
    BY <2>2, <2>3
<1> QED
  BY <1>5, <1>6, <1>7, <1>9, <1>10, <1>11, <1>12, <1>13, <1>14, Zenon

(* Every step of the runtime worker.                                       *)
LEMMA RuntimeInv ==
    ASSUME JobInv, lane = "runtime", RuntimeNext, UNCHANGED fencedVars
    PROVE  JobInv' /\ lane' = lane
BY RuntimeQuietInv, RuntimeTurnInv, OrphanInv, RuntimeJobInv
   DEF RuntimeNext, RuntimeStep, RuntimeFault, RuntimeQuiet

(* A failure that the fenced worker records spends the attempt; the job    *)
(* is given up after the last one or for a failure that is not retried.    *)
LEMMA RecordFailureInv ==
    ASSUME JobInv, lane = "fenced", NEW how, RecordFailure(how),
           how \in {"retryable", "fatal"},
           UNCHANGED <<mark, lane, turn, wake, byPoll>>
    PROVE  JobInv'
<1>1. /\ WorkerTypeOK /\ Counted(job) /\ GivenUp /\ covered' = covered
      /\ wake \in BOOLEAN /\ byPoll \in BOOLEAN /\ fatal \in BOOLEAN /\ covered \in Nat
  BY InvParts DEF RecordFailure, WorkerTypeOK
<1>2. CASE Fence
  <2> DEFINE retry == how = "retryable" /\ job.attempts < MaxAttempts
  <2>1. /\ job' = Spent(Failed(job, retry, FALSE)) /\ retry \in BOOLEAN
        /\ fatal' = (how = "fatal")
    BY <1>2 DEF RecordFailure
  <2>2. /\ Counted(job') /\ (job.attempts >= MaxAttempts => job'.spent >= MaxAttempts)
        /\ job'.state = IF retry THEN "RETRY_WAIT" ELSE "FAILED"
    BY <1>1, <1>2, <2>1, FailedCounted, Zenon DEF Fence
  <2>3. job.attempts \in Nat /\ MaxAttempts \in Nat
    BY <1>1, BoundsAssumption DEF Counted, Jobs
  <2>4. fatal' \in BOOLEAN /\ (how = "fatal" => fatal' = TRUE)
    BY <2>1, Zenon
  <2>5. how # "fatal" /\ job'.state = "FAILED" => job'.spent >= MaxAttempts
    BY <2>2, <2>3
  <2>6. GivenUp'
    BY <2>4, <2>5 DEF GivenUp
  <2> QED
    BY <1>1, <2>2, <2>4, <2>6, JobStep
<1>3. CASE ~Fence
  <2>1. UNCHANGED <<job, fatal>>
    BY <1>3 DEF RecordFailure
  <2>2. Counted(job') /\ GivenUp'
    BY <1>1, <2>1 DEF GivenUp
  <2> QED
    BY <1>1, <2>1, <2>2, JobStep
<1> QED
  BY <1>2, <1>3

(* Every step of the fenced worker and its scheduler.                      *)
LEMMA FencedInv ==
    ASSUME JobInv, HeartbeatEnds, lane = "fenced", FencedNext, UNCHANGED runtimeVars
    PROVE  JobInv'
<1>1. /\ WorkerTypeOK /\ Counted(job) /\ GivenUp /\ UNCHANGED <<wake, byPoll>>
      /\ wake \in BOOLEAN /\ byPoll \in BOOLEAN /\ fatal \in BOOLEAN /\ covered \in Nat
  BY InvParts DEF WorkerTypeOK, runtimeVars
<1>2. CASE \/ StartScheduler \/ TakeNotification \/ Discard \/ ClaimFails
           \/ OperationEnds \/ HeartbeatLosesLease \/ HeartbeatFails \/ FailureNotRecorded
  <2>1. UNCHANGED <<job, mark, covered, lane, turn, fatal>>
    BY <1>2 DEF StartScheduler, TakeNotification, Discard, ClaimFails,
        OperationEnds, HeartbeatLosesLease, HeartbeatFails, FailureNotRecorded,
        hostVars, fencedVars
  <2>2. Counted(job') /\ GivenUp'
    BY <1>1, <2>1 DEF GivenUp
  <2> QED
    BY <1>1, <2>1, <2>2, JobStep, Zenon
<1>3. CASE Notify \/ CloseScheduler
  <2>1. UNCHANGED <<job, mark, covered, lane, fatal>> /\ turn' \in {turn, Idle}
    BY <1>3, Zenon DEF Notify, CloseScheduler
  <2>2. WorkerTypeOK'
    BY <1>1, <2>1 DEF WorkerTypeOK, Turns, Idle
  <2>3. WakeIsKept'
    BY <2>1 DEF WakeIsKept
  <2>4. GivesUpOnlyAfterSpentAttempts'
    BY <2>1 DEF JobInv, GivesUpOnlyAfterSpentAttempts
  <2> QED
    BY <2>2, <2>3, <2>4, Zenon DEF JobInv
<1>4. CASE RunOnce
  <2>1. UNCHANGED <<mark, covered, lane, turn>>
    BY <1>4 DEF RunOnce, hostVars
  <2> DEFINE r == Recovered(job)
  <2>2. Counted(r) /\ (r.state = "FAILED" => r = job)
    BY <1>1, RecoveredCounted
  <2>3. CASE Claimable(r)
    <3>1. job' = [Leased(r) EXCEPT !.state = "COMPILING"] /\ fatal' = FALSE
      BY <1>4, <2>3 DEF RunOnce
    <3>2. Counted(Leased(r)) /\ Working(Leased(r))
      BY <2>2, <2>3, LeasedCounted DEF Working, WorkingStates
    <3>3. Counted(job') /\ job'.state = "COMPILING"
      BY <3>1, <3>2, MovedCounted, Zenon DEF WorkingStates
    <3>4. GivenUp'
      BY <3>3 DEF GivenUp
    <3> QED
      BY <1>1, <2>1, <3>1, <3>3, <3>4, JobStep, Zenon
  <2>4. CASE ~Claimable(r)
    <3>1. job' = r /\ fatal' = fatal
      BY <1>4, <2>4 DEF RunOnce
    <3>2. Counted(job') /\ GivenUp'
      BY <1>1, <2>1, <2>2, <3>1 DEF GivenUp
    <3> QED
      BY <1>1, <2>1, <3>1, <3>2, JobStep
  <2> QED
    BY <2>3, <2>4
<1>5. CASE ResumeUnhealthy
  <2>1. UNCHANGED <<mark, lane, turn>>
    BY <1>5 DEF ResumeUnhealthy, hostVars
  <2>2. CASE beat = "lost"
    <3>1. UNCHANGED <<job, covered, fatal>>
      BY <1>5, <2>2 DEF ResumeUnhealthy
    <3>2. Counted(job') /\ GivenUp'
      BY <1>1, <2>1, <3>1, Zenon DEF GivenUp
    <3> QED
      BY <1>1, <2>1, <3>1, <3>2, JobStep
  <2>3. CASE beat # "lost"
    <3>1. RecordFailure(beat) /\ beat \in {"retryable", "fatal"}
      BY <1>5, <2>3 DEF ResumeUnhealthy, HeartbeatEnds
    <3> QED
      BY <1>1, <2>1, <3>1, RecordFailureInv
  <2> QED
    BY <2>2, <2>3
<1>6. CASE ResumeFailed
  <2>1. /\ UNCHANGED <<mark, lane, turn>> /\ RecordFailure(op)
        /\ op \in {"retryable", "fatal"}
    BY <1>6 DEF ResumeFailed, hostVars
  <2> QED
    BY <1>1, <2>1, RecordFailureInv
<1>7. CASE ResumeFails
  <2>1. UNCHANGED <<mark, lane, turn>>
    BY <1>7 DEF ResumeFails
  <2>2. PICK how \in {"retryable", "fatal"} : RecordFailure(how)
    BY <1>7 DEF ResumeFails
  <2> QED
    BY <1>1, <2>1, <2>2, RecordFailureInv
<1>8. CASE ResumeCompiled
  <2>1. UNCHANGED <<mark, covered, lane, turn, fatal>>
    BY <1>8 DEF ResumeCompiled, hostVars
  <2>2. CASE Fence
    <3>1. job' = [job EXCEPT !.state = "AUDITING"]
      BY <1>8, <2>2 DEF ResumeCompiled
    <3>2. Counted(job') /\ job'.state = "AUDITING"
      BY <1>1, <2>2, <3>1, MovedCounted, Zenon DEF Fence, WorkingStates
    <3>3. GivenUp'
      BY <3>2 DEF GivenUp
    <3> QED
      BY <1>1, <2>1, <3>2, <3>3, JobStep
  <2>3. CASE ~Fence
    <3>1. job' = job
      BY <1>8, <2>3 DEF ResumeCompiled
    <3>2. Counted(job') /\ GivenUp'
      BY <1>1, <2>1, <3>1 DEF GivenUp
    <3> QED
      BY <1>1, <2>1, <3>2, JobStep
  <2> QED
    BY <2>2, <2>3
<1>9. CASE ResumePublish
  <2>1. UNCHANGED <<mark, lane, turn, fatal>>
    BY <1>9 DEF ResumePublish, hostVars
  <2>2. CASE Fence
    <3>1. job' = Published(job) /\ covered' = job.target
      BY <1>9, <2>2 DEF ResumePublish
    <3>2. Counted(job') /\ job'.state # "FAILED"
      BY <1>1, <2>2, <3>1, PublishedCounted DEF Fence
    <3>3. GivenUp'
      BY <3>2 DEF GivenUp
    <3>4. covered' \in Nat
      BY <1>1, <3>1, Zenon DEF Counted, Jobs
    <3> QED
      BY <1>1, <2>1, <3>2, <3>3, <3>4, JobStep
  <2>3. CASE ~Fence
    <3>1. UNCHANGED <<job, covered>>
      BY <1>9, <2>3 DEF ResumePublish
    <3>2. Counted(job') /\ GivenUp'
      BY <1>1, <2>1, <3>1 DEF GivenUp
    <3> QED
      BY <1>1, <2>1, <3>1, <3>2, JobStep, Zenon
  <2> QED
    BY <2>2, <2>3
<1> QED
  BY <1>2, <1>3, <1>4, <1>5, <1>6, <1>7, <1>8, <1>9 DEF FencedNext, FencedStep

(* The heartbeat of the fenced worker is ended by its own steps only.      *)
LEMMA HeartbeatInv ==
    ASSUME HeartbeatEnds, lane = "fenced", FencedNext
    PROVE  HeartbeatEnds'
<1>1. beat \in {"off", "on", "lost", "retryable", "fatal"}
  BY DEF HeartbeatEnds
<1>2. beat' = beat \/ beat' \in {"off", "on", "lost", "retryable", "fatal"}
  <2>1. CASE TakeNotification \/ Discard \/ RunOnce \/ OperationEnds \/ HeartbeatLosesLease
    BY <2>1 DEF TakeNotification, Discard, RunOnce, OperationEnds, HeartbeatLosesLease,
        Return, Await
  <2>2. CASE ResumeUnhealthy \/ ResumeFailed \/ ResumeCompiled \/ ResumePublish \/ ResumeFails
    BY <2>2, Zenon DEF ResumeUnhealthy, ResumeFailed, ResumeCompiled, ResumePublish, ResumeFails,
        RecordFailure, Return, Await
  <2>3. CASE StartScheduler \/ Notify \/ CloseScheduler \/ ClaimFails \/ HeartbeatFails
             \/ FailureNotRecorded
    BY <2>3 DEF StartScheduler, Notify, CloseScheduler, ClaimFails, HeartbeatFails,
        FailureNotRecorded, Return
  <2> QED
    BY <2>1, <2>2, <2>3 DEF FencedNext, FencedStep
<1> QED
  BY <1>1, <1>2 DEF HeartbeatEnds

----------------------------------------------------------------------------
(* The theorems *)

(* The counts of the job, what a failure for good rests on, and the wake   *)
(* that is still to come, through every step of either worker, of the      *)
(* turns and of time, for any number of turns, attempts and faults.        *)
THEOREM WorkerInvariant == Spec => []WorkerInv
<1>1. Init => WorkerInv
  <2> SUFFICES ASSUME Init PROVE WorkerInv
    OBVIOUS
  <2>1. job = [NewJob(0) EXCEPT !.state = "NONE"]
    BY DEF Init, HostInit, StoreInit
  <2>2. job \in Jobs /\ job.state = "NONE" /\ job.attempts = 0 /\ job.spent = 0
    BY <2>1, Zenon DEF NewJob, Jobs, TerminalStates
  <2>3. WorkerTypeOK
    BY <2>2, Zenon DEF Init, HostInit, StoreInit, RuntimeInit, FencedInit, WorkerTypeOK, Turns, Idle
  <2>4. GivesUpOnlyAfterSpentAttempts
    BY <2>2 DEF GivesUpOnlyAfterSpentAttempts, Working, WorkingStates
  <2>5. WakeIsKept
    BY <2>2 DEF WakeIsKept
  <2>6. HeartbeatEnds
    BY DEF Init, HostInit, HeartbeatEnds
  <2> QED
    BY <2>3, <2>4, <2>5, <2>6 DEF WorkerInv, JobInv
<1>2. WorkerInv /\ [Next]_vars => WorkerInv'
  <2> SUFFICES ASSUME WorkerInv, [Next]_vars PROVE WorkerInv'
    OBVIOUS
  <2>1. JobInv /\ HeartbeatEnds
    BY DEF WorkerInv
  <2>2. CASE Environment
    <3>1. lane' = lane /\ beat' = beat
      BY <2>2 DEF Environment, CaptureAssistant, RaiseCompactionIntent, LeaseLapses,
          ProcessStalls, RetryTimeComes, hostVars
    <3>2. HeartbeatEnds'
      BY <2>1, <3>1 DEF HeartbeatEnds
    <3> QED
      BY <2>1, <2>2, <3>2, EnvironmentInv DEF WorkerInv
  <2>3. CASE lane = "runtime" /\ RuntimeNext /\ UNCHANGED fencedVars
    <3>1. JobInv' /\ lane' = "runtime"
      BY <2>1, <2>3, RuntimeInv
    <3> QED
      BY <3>1 DEF WorkerInv, HeartbeatEnds
  <2>4. CASE lane = "fenced" /\ FencedNext /\ UNCHANGED runtimeVars
    BY <2>1, <2>4, FencedInv, HeartbeatInv DEF WorkerInv
  <2>5. CASE UNCHANGED vars
    <3>1. UNCHANGED <<job, mark, covered, lane, turn, fatal, wake, byPoll, at, beat>>
      BY <2>5, Zenon DEF vars, hostVars, runtimeVars, fencedVars
    <3>2. JobInv'
      BY <2>1, <3>1 DEF JobInv, WorkerTypeOK, WakeIsKept, GivesUpOnlyAfterSpentAttempts
    <3>3. HeartbeatEnds'
      BY <2>1, <3>1 DEF HeartbeatEnds
    <3> QED
      BY <3>2, <3>3 DEF WorkerInv
  <2> QED
    BY <2>2, <2>3, <2>4, <2>5 DEF Next
<1> QED
  BY <1>1, <1>2, PTL DEF Spec

(* attempt_count and the attempts that failed or lost their lease agree,   *)
(* and a job is given up only after max_attempts of those or, by the       *)
(* fenced worker, for a failure that is not retried.                       *)
THEOREM AttemptsNotLost == Spec => []GivesUpOnlyAfterSpentAttempts
<1>1. WorkerInv => GivesUpOnlyAfterSpentAttempts
  BY DEF WorkerInv, JobInv
<1> QED
  BY <1>1, WorkerInvariant, PTL

(* When _run sleeps with no wake set, no pending job was announced: its    *)
(* turn is still to set the event, or only the poll was to find it.        *)
THEOREM WakeupNotLost == Spec => []NoLostWakeup
<1>1. WorkerInv => NoLostWakeup
  BY DEF WorkerInv, JobInv, WakeIsKept, NoLostWakeup
<1> QED
  BY <1>1, WorkerInvariant, PTL
=============================================================================
