---------------------------- MODULE Repository -----------------------------
(***************************************************************************)
(* The durable compaction transactions of storage/repository.py over the   *)
(* journal: compaction_jobs, snapshots, capsules, active_snapshots and the *)
(* token_metrics of capsules and snapshots.                                *)
(*                                                                         *)
(* The callers are the most general ones. A lease token that claim_job     *)
(* ever returned may be used at any later time, any number of times and in *)
(* any order: by the worker that got it, by a thread of it that outlived   *)
(* its cancellation, or not at all because the process crashed. The now    *)
(* argument of an operation is read before the write lock is obtained, so  *)
(* it may lag the clock by up to MaxDelay.                                 *)
(***************************************************************************)
EXTENDS Journal

CONSTANTS
    JobId,          \* job_id; claim_job orders by it, so ids are numbers
    SnapshotId,     \* snapshot_id
    CapsuleId,      \* capsule_id
    Content,        \* the immutable columns of a capsule other than its id
    Worker,         \* lease owners
    Null,           \* SQL NULL, and the absence of a row
    MaxClock,       \* bound: the largest time
    MaxDelay,       \* bound: the longest wait for the write lock
    MaxLease,       \* bound: the longest lease
    MaxRetry,       \* bound: the longest retry delay
    MaxEpoch        \* bound: the number of claims of one job

ASSUME JobIdAssumption == JobId \subseteq Nat

ASSUME BoundAssumption ==
    /\ MaxClock \in Nat
    /\ MaxDelay \in Nat
    /\ MaxLease \in Nat
    /\ MaxRetry \in Nat
    /\ MaxEpoch \in Nat

VARIABLES
    jobs,               \* compaction_jobs
    snapshots,          \* snapshots with their snapshot_capsules
    capsules,           \* capsules
    active_snapshots,   \* the active pointer of each session
    snapshot_metrics,   \* token_metrics of kind SNAPSHOT
    capsule_metrics,    \* token_metrics of kind CAPSULE
    clock,              \* UTC time
    issued,             \* the lease tokens returned by claim_job
    demanded            \* the highest intent acknowledged to a caller

storeVars == <<jobs, snapshots, capsules, active_snapshots, snapshot_metrics,
               capsule_metrics, clock, issued, demanded>>
contentVars == <<snapshots, capsules, active_snapshots, snapshot_metrics,
                 capsule_metrics>>
vars == <<journalVars, storeVars>>

----------------------------------------------------------------------------
(* Rows *)

WorkingStates == {"LEASED", "COMPILING", "AUDITING", "READY_TO_COMMIT"}
NonterminalStates == WorkingStates \cup {"PENDING", "RETRY_WAIT"}
TerminalStates == {"COMMITTED", "SUPERSEDED", "FAILED", "CANCELLED"}
CandidateStates == {"READY_TO_COMMIT", "COMMITTED", "SUPERSEDED"}

JobRow ==
    [session : Session, state : NonterminalStates \cup TerminalStates,
     target : Nat, intent : Nat, base : SnapshotId \cup {Null}, version : Nat,
     candidate : SnapshotId \cup {Null}, owner : Worker \cup {Null},
     epoch : Nat, expires : Nat \cup {Null}, attempts : Nat,
     retry : Nat \cup {Null}, created : Nat]

SnapshotRow ==
    [session : Session, base : SnapshotId \cup {Null}, covered : Nat,
     capsules : SUBSET CapsuleId]

CapsuleRow == [session : Session, content : Content]

Pointer == [id : SnapshotId \cup {Null}, version : Nat]

Token == [job : JobId, owner : Worker, epoch : Nat]

ASSUME NullAssumption ==
    /\ Null \notin Nat
    /\ Null \notin SnapshotId
    /\ Null \notin Worker
    /\ Null \notin JobRow
    /\ Null \notin SnapshotRow
    /\ Null \notin CapsuleRow

(* A worker-local candidate: the snapshot envelope, its member capsules    *)
(* and the canonical count of its artifacts, which both workers supply. It *)
(* passes the checks of validate_permanent that concern its content alone. *)
Members == UNION {[K -> Content] : K \in (SUBSET CapsuleId) \ {{}}}

Candidates(s) ==
    [id : SnapshotId, base : SnapshotId \cup {Null},
     covered : 1 .. HighWaterMark(s), members : Members, count : Count]

SnapshotCoverage(id) == IF id = Null THEN 0 ELSE snapshots[id].covered

Coverage(s) == SnapshotCoverage(active_snapshots[s].id)

Nonterminal(js, s) ==
    {j \in JobId : js[j] # Null /\ js[j].session = s
                                /\ js[j].state \in NonterminalStates}

(* Mutant: two positional parameters of the INSERT are swapped. *)
NewJobSwapped(s, target, base, version, now) ==
    [session |-> s, state |-> "PENDING", target |-> target, intent |-> target,
     base |-> version, version |-> base, candidate |-> Null, owner |-> Null,
     epoch |-> 0, expires |-> Null, attempts |-> 0, retry |-> Null,
     created |-> now]

NewJob(s, target, base, version, now) ==
    [session |-> s, state |-> "PENDING", target |-> target, intent |-> target,
     base |-> base, version |-> version, candidate |-> Null, owner |-> Null,
     epoch |-> 0, expires |-> Null, attempts |-> 0, retry |-> Null,
     created |-> now]

(* The conditional rules of a CompactionJobEnvelope, which are also CHECKs *)
(* of its table: a lease exactly in the working states, a candidate        *)
(* exactly in the candidate states, a retry time exactly in RETRY_WAIT,    *)
(* pointer version 0 exactly for no base.                                  *)
ValidateConditionals(row) ==
    /\ row.state \in WorkingStates =>
          row.owner # Null /\ row.expires # Null /\ row.epoch >= 1
    /\ row.state \notin WorkingStates => row.owner = Null /\ row.expires = Null
    /\ (row.candidate # Null) <=> (row.state \in CandidateStates)
    /\ (row.retry # Null) <=> (row.state = "RETRY_WAIT")
    /\ (row.base = Null) <=> (row.version = 0)

Now == {t \in 0 .. clock : clock - t <= MaxDelay}

----------------------------------------------------------------------------
(* raise_compaction_intent: a target above the journal is rejected, one    *)
(* that is already covered returns None, the nonterminal job of the        *)
(* session absorbs the target, and otherwise a job is created. A job_id    *)
(* that is already taken is a RepositoryConflict.                          *)

(* Mutant: the comparison is the wrong way round. *)
FoldSmaller(row, target) == [row EXCEPT !.intent = IF target < @ THEN target ELSE @]

Fold(row, target) == [row EXCEPT !.intent = IF target > @ THEN target ELSE @]

(* Mutant: a target that is exactly covered is accepted. *)
RaiseAcceptedCovered(s, target) == target >= Coverage(s) /\ target <= HighWaterMark(s)

RaiseAccepted(s, target) == target > Coverage(s) /\ target <= HighWaterMark(s)

Acknowledge(s, target) ==
    demanded' = [demanded EXCEPT ![s] = IF target > @ THEN target ELSE @]

FoldCompactionIntent(s, target) ==
    /\ RaiseAccepted(s, target)
    /\ \E j \in Nonterminal(jobs, s) :
          jobs' = [jobs EXCEPT ![j] = Fold(@, target)]
    /\ Acknowledge(s, target)
    /\ UNCHANGED <<journalVars, contentVars, clock, issued>>

(* Mutant: the lookup of the nonterminal job forgets RETRY_WAIT. *)
CreateBesideRetry(s, target, id, now) ==
    /\ RaiseAccepted(s, target)
    /\ \A j \in Nonterminal(jobs, s) : jobs[j].state = "RETRY_WAIT"
    /\ jobs[id] = Null
    /\ jobs' = [jobs EXCEPT ![id] =
                  NewJob(s, target, active_snapshots[s].id,
                         active_snapshots[s].version, now)]
    /\ Acknowledge(s, target)
    /\ UNCHANGED <<journalVars, contentVars, clock, issued>>

CreateCompactionIntent(s, target, id, now) ==
    /\ RaiseAccepted(s, target)
    /\ Nonterminal(jobs, s) = {}
    /\ jobs[id] = Null
    /\ jobs' = [jobs EXCEPT ![id] =
                  NewJob(s, target, active_snapshots[s].id,
                         active_snapshots[s].version, now)]
    /\ Acknowledge(s, target)
    /\ UNCHANGED <<journalVars, contentVars, clock, issued>>

----------------------------------------------------------------------------
(* claim_job: the oldest eligible job whose intent is not yet covered is   *)
(* leased; the eligible jobs before it are cancelled on the way.           *)

Eligible(now) ==
    {j \in JobId : /\ jobs[j] # Null
                   /\ \/ jobs[j].state = "PENDING"
                      \/ jobs[j].state = "RETRY_WAIT" /\ jobs[j].retry <= now}

Before(j, k) ==
    \/ jobs[j].created < jobs[k].created
    \/ jobs[j].created = jobs[k].created /\ j < k

Covered(j) == jobs[j].intent <= Coverage(jobs[j].session)

Winner(now) ==
    {j \in Eligible(now) :
        ~Covered(j) /\ \A k \in Eligible(now) : Before(k, j) => Covered(k)}

Overtaken(now) ==
    {j \in Eligible(now) : Covered(j) /\ \A k \in Winner(now) : Before(j, k)}

(* Mutant: the intent is reset to the target instead of the reverse. *)
LeasedResetsIntent(row, w, expires) ==
    LET active == active_snapshots[row.session] IN
    [session |-> row.session, state |-> "LEASED", target |-> row.target,
     intent |-> row.target, base |-> active.id, version |-> active.version,
     candidate |-> Null, owner |-> w, epoch |-> row.epoch + 1,
     expires |-> expires, attempts |-> row.attempts + 1, retry |-> Null,
     created |-> row.created]

Leased(row, w, expires) ==
    LET active == active_snapshots[row.session] IN
    [session |-> row.session, state |-> "LEASED", target |-> row.intent,
     intent |-> row.intent, base |-> active.id, version |-> active.version,
     candidate |-> Null, owner |-> w, epoch |-> row.epoch + 1,
     expires |-> expires, attempts |-> row.attempts + 1, retry |-> Null,
     created |-> row.created]

Cancelled(row) == [row EXCEPT !.state = "CANCELLED", !.retry = Null]

ClaimJob(w, now, expires) ==
    /\ Winner(now) \cup Overtaken(now) # {}
    /\ \A j \in Winner(now) : jobs[j].epoch < MaxEpoch
    /\ jobs' = [j \in JobId |->
                  IF j \in Winner(now) THEN Leased(jobs[j], w, expires)
                  ELSE IF j \in Overtaken(now) THEN Cancelled(jobs[j])
                  ELSE jobs[j]]
    /\ issued' = issued \cup
                   {[job |-> j, owner |-> w, epoch |-> jobs[j].epoch + 1] :
                       j \in Winner(now)}
    /\ UNCHANGED <<journalVars, contentVars, clock, demanded>>

----------------------------------------------------------------------------
(* The operations of a worker, each fenced by owner, epoch and an          *)
(* unexpired lease. A call that the fence stops is a StaleLeaseError.      *)

LiveFence(t, now) ==
    /\ jobs[t.job] # Null
    /\ jobs[t.job].state \in WorkingStates
    /\ jobs[t.job].owner = t.owner
    /\ jobs[t.job].epoch = t.epoch
    /\ jobs[t.job].expires > now

AllowedWorkerTransitions ==
    {<<"LEASED", "COMPILING">>, <<"COMPILING", "AUDITING">>,
     <<"COMPILING", "READY_TO_COMMIT">>, <<"AUDITING", "READY_TO_COMMIT">>}

TransitionJob(t, to, candidate, now) ==
    /\ LiveFence(t, now)
    /\ <<jobs[t.job].state, to>> \in AllowedWorkerTransitions
    /\ (candidate # Null) <=> (to = "READY_TO_COMMIT")
    /\ jobs' = [jobs EXCEPT ![t.job].state = to, ![t.job].candidate = candidate]
    /\ UNCHANGED <<journalVars, contentVars, clock, issued, demanded>>

(* A renewal that does not extend the lease is a JobTransitionError.       *)
RenewJobLease(t, now, expires) ==
    /\ LiveFence(t, now)
    /\ expires > jobs[t.job].expires
    /\ jobs' = [jobs EXCEPT ![t.job].expires = expires]
    /\ UNCHANGED <<journalVars, contentVars, clock, issued, demanded>>

(* Mutant: a released job keeps its candidate. *)
ReleasedWithCandidate(row, state, retry) ==
    [row EXCEPT !.state = state, !.owner = Null, !.expires = Null, !.retry = retry]

(* Mutant: a released job starts its epochs anew. *)
ReleasedAtEpochZero(row, state, retry) ==
    [row EXCEPT !.state = state, !.candidate = Null, !.owner = Null,
                !.expires = Null, !.retry = retry, !.epoch = 0]

Released(row, state, retry) ==
    [row EXCEPT !.state = state, !.candidate = Null, !.owner = Null,
                !.expires = Null, !.retry = retry]

(* A failure without retry_at is final. A transient deferral gives the     *)
(* attempt back, and always has a retry_at.                                *)
FailJob(t, now, retry, preserve) ==
    /\ LiveFence(t, now)
    /\ preserve => retry # Null
    /\ LET row == jobs[t.job]
           state == IF retry = Null THEN "FAILED" ELSE "RETRY_WAIT"
           attempts == IF preserve /\ row.attempts > 0
                       THEN row.attempts - 1 ELSE row.attempts
       IN jobs' = [jobs EXCEPT ![t.job] =
                     [Released(row, state, retry) EXCEPT !.attempts = attempts]]
    /\ UNCHANGED <<journalVars, contentVars, clock, issued, demanded>>

(* recover_expired_leases requeues every expired working job at once.      *)
Expired(now) ==
    {j \in JobId : /\ jobs[j] # Null
                   /\ jobs[j].state \in WorkingStates
                   /\ jobs[j].expires <= now}

RecoverExpiredLeases(now) ==
    /\ Expired(now) # {}
    /\ jobs' = [j \in JobId |-> IF j \in Expired(now)
                                THEN Released(jobs[j], "PENDING", Null)
                                ELSE jobs[j]]
    /\ UNCHANGED <<journalVars, contentVars, clock, issued, demanded>>

----------------------------------------------------------------------------
(* publish_snapshot *)

(* Mutant: the base of the candidate is not compared. *)
ValidatePermanentAnyBase(row, c) ==
    /\ c.covered = row.target
    /\ row.target > SnapshotCoverage(row.base)

(* The part of validate_permanent that relates the candidate to the job: a *)
(* candidate with another base, another end or an empty interval is        *)
(* PublicationRejected.                                                    *)
ValidatePermanent(row, c) ==
    /\ c.base = row.base
    /\ c.covered = row.target
    /\ row.target > SnapshotCoverage(row.base)

PublishFence(t, c, now) ==
    /\ LiveFence(t, now)
    /\ jobs[t.job].state = "READY_TO_COMMIT"
    /\ jobs[t.job].candidate = c.id
    /\ ValidatePermanent(jobs[t.job], c)

(* Mutant: a stored capsule is replaced without comparing its content. *)
InsertConflictIgnoringContent(s, c) ==
    \/ snapshots[c.id] # Null
    \/ \E p \in SnapshotId : /\ snapshots[p] # Null
                             /\ snapshots[p].session = s
                             /\ snapshots[p].covered = c.covered

(* An insert meets an immutable capsule with other content, the primary    *)
(* key of snapshots, or UNIQUE (session_key_hash, covered_event_end).      *)
InsertConflict(s, c) ==
    \/ \E k \in DOMAIN c.members :
          capsules[k] \notin {Null, [session |-> s, content |-> c.members[k]]}
    \/ snapshots[c.id] # Null
    \/ \E p \in SnapshotId : /\ snapshots[p] # Null
                             /\ snapshots[p].session = s
                             /\ snapshots[p].covered = c.covered

(* A metric that disagrees is a TokenMetricConflict, which rolls back the  *)
(* whole transaction instead of superseding the job.                       *)
MetricsAgree(c) ==
    /\ MetricAgrees(snapshot_metrics[c.id], c.count)
    /\ \A k \in DOMAIN c.members : MetricAgrees(capsule_metrics[k], c.count)

(* The active pointer is still the one the job was claimed with.           *)
CasActivePointer(row) ==
    IF row.base = Null THEN active_snapshots[row.session].id = Null
    ELSE active_snapshots[row.session] = [id |-> row.base, version |-> row.version]

(* Mutant: the job is left as it is. *)
Unfinished(row, outcome) == row

Finished(row, outcome) ==
    [row EXCEPT !.state = outcome, !.owner = Null, !.expires = Null, !.retry = Null]

(* The job ends, and an intent above the winning coverage goes to the      *)
(* nonterminal job of the session or to a new job id.                      *)
FinishPublishJob(j, outcome, winner, version, coverage, id, now) ==
    LET row == jobs[j]
        others == Nonterminal(jobs, row.session) \ {j}
        left == row.intent > coverage
    IN  /\ left /\ others = {} => jobs[id] = Null
        /\ jobs' = [k \in JobId |->
              IF k = j THEN Finished(row, outcome)
              ELSE IF left /\ k \in others THEN Fold(jobs[k], row.intent)
              ELSE IF left /\ others = {} /\ k = id
              THEN NewJob(row.session, row.intent, winner, version, now)
              ELSE jobs[k]]

InsertCapsules(s, members) ==
    [k \in CapsuleId |-> IF k \in DOMAIN members
                         THEN [session |-> s, content |-> members[k]]
                         ELSE capsules[k]]

InsertCommittedSnapshot(s, c) ==
    [snapshots EXCEPT ![c.id] = [session |-> s, base |-> c.base,
                                 covered |-> c.covered, capsules |-> DOMAIN c.members]]

(* Mutant: only the snapshot is counted. *)
PutSnapshotMetricOnly(c) ==
    /\ snapshot_metrics' = [snapshot_metrics EXCEPT ![c.id] = c.count]
    /\ UNCHANGED capsule_metrics

PutCandidateMetrics(c) ==
    /\ snapshot_metrics' = [snapshot_metrics EXCEPT ![c.id] = c.count]
    /\ capsule_metrics' = [k \in CapsuleId |-> IF k \in DOMAIN c.members
                                               THEN c.count ELSE capsule_metrics[k]]

(* Mutant: the pointer keeps its version. *)
SwungPointerSameVersion(s, id, version) ==
    [active_snapshots EXCEPT ![s] = [id |-> id, version |-> version]]

SwungPointer(s, id, version) ==
    [active_snapshots EXCEPT ![s] = [id |-> id, version |-> version + 1]]

PublishCommitted(t, c, id, now) ==
    LET row == jobs[t.job]
        s == row.session
    IN  /\ PublishFence(t, c, now)
        /\ ~InsertConflict(s, c) /\ MetricsAgree(c) /\ CasActivePointer(row)
        /\ capsules' = InsertCapsules(s, c.members)
        /\ snapshots' = InsertCommittedSnapshot(s, c)
        /\ PutCandidateMetrics(c)
        /\ active_snapshots' = SwungPointer(s, c.id, row.version)
        /\ FinishPublishJob(t.job, "COMMITTED", c.id, row.version + 1,
                            c.covered, id, now)
        /\ UNCHANGED <<journalVars, clock, issued, demanded>>

(* Mutant: the savepoint is not rolled back. *)
PublishSupersededKeepingCapsules(t, c, id, now) ==
    LET row == jobs[t.job]
        s == row.session
    IN  /\ PublishFence(t, c, now)
        /\ InsertConflict(s, c) \/ (MetricsAgree(c) /\ ~CasActivePointer(row))
        /\ active_snapshots[s].id # Null
        /\ FinishPublishJob(t.job, "SUPERSEDED", active_snapshots[s].id,
                            active_snapshots[s].version, Coverage(s), id, now)
        /\ capsules' = [k \in CapsuleId |-> IF k \in DOMAIN c.members /\ capsules[k] = Null
                                            THEN [session |-> s, content |-> c.members[k]]
                                            ELSE capsules[k]]
        /\ UNCHANGED <<journalVars, snapshots, active_snapshots, snapshot_metrics,
                       capsule_metrics, clock, issued, demanded>>

(* The savepoint is rolled back, so no candidate row remains. A conflict   *)
(* without an active winner is a RepositoryInvariantError and rolls back   *)
(* the whole transaction.                                                  *)
PublishSuperseded(t, c, id, now) ==
    LET row == jobs[t.job]
        s == row.session
    IN  /\ PublishFence(t, c, now)
        /\ InsertConflict(s, c) \/ (MetricsAgree(c) /\ ~CasActivePointer(row))
        /\ active_snapshots[s].id # Null
        /\ FinishPublishJob(t.job, "SUPERSEDED", active_snapshots[s].id,
                            active_snapshots[s].version, Coverage(s), id, now)
        /\ UNCHANGED <<journalVars, contentVars, clock, issued, demanded>>

----------------------------------------------------------------------------

(* The two read transactions. Both raise a RepositoryInvariantError when   *)
(* what they read does not fit together.                                   *)

(* Mutant: the last covered event is read again. *)
DeltaFromCovered(s, covered, end) ==
    {r.sequence : r \in {q \in journal_events :
        q.session = s /\ q.sequence >= covered /\ q.sequence <= end}}

Delta(s, covered, end) ==
    {r.sequence : r \in {q \in journal_events :
        q.session = s /\ q.sequence > covered /\ q.sequence <= end}}

ReadableSnapshot(id, s) ==
    id # Null =>
        /\ snapshots[id] # Null
        /\ snapshots[id].session = s
        /\ snapshots[id].capsules # {}
        /\ \A k \in snapshots[id].capsules :
              capsules[k] # Null /\ capsules[k].session = s

ReadRequestView(s) ==
    /\ ReadableSnapshot(active_snapshots[s].id, s)
    /\ Coverage(s) <= HighWaterMark(s)
    /\ Delta(s, Coverage(s), HighWaterMark(s)) = Coverage(s) + 1 .. HighWaterMark(s)

ReadCompactionView(row) ==
    /\ row.base = Null => row.version = 0
    /\ ReadableSnapshot(row.base, row.session)
    /\ SnapshotCoverage(row.base) <= row.target
    /\ Delta(row.session, SnapshotCoverage(row.base), row.target) =
          SnapshotCoverage(row.base) + 1 .. row.target

----------------------------------------------------------------------------

Tick ==
    /\ clock < MaxClock
    /\ clock' = clock + 1
    /\ UNCHANGED <<journalVars, contentVars, jobs, issued, demanded>>

Init ==
    /\ JournalInit
    /\ jobs = [j \in JobId |-> Null]
    /\ snapshots = [id \in SnapshotId |-> Null]
    /\ capsules = [k \in CapsuleId |-> Null]
    /\ active_snapshots = [s \in Session |-> [id |-> Null, version |-> 0]]
    /\ snapshot_metrics = [id \in SnapshotId |-> NoCount]
    /\ capsule_metrics = [k \in CapsuleId |-> NoCount]
    /\ clock = 0
    /\ issued = {}
    /\ demanded = [s \in Session |-> 0]

Raise ==
    \E s \in Session : \E target \in 1 .. HighWaterMark(s) :
        \/ FoldCompactionIntent(s, target)
        \/ \E id \in JobId, now \in Now : CreateCompactionIntent(s, target, id, now)

Claim ==
    \E w \in Worker, now \in Now : \E expires \in now + 1 .. now + MaxLease :
        ClaimJob(w, now, expires)

Work(t, now) ==
    \/ \E to \in WorkingStates, candidate \in SnapshotId \cup {Null} :
          TransitionJob(t, to, candidate, now)
    \/ \E expires \in now + 1 .. now + MaxLease : RenewJobLease(t, now, expires)
    \/ \E retry \in (now + 1 .. now + MaxRetry) \cup {Null}, preserve \in BOOLEAN :
          FailJob(t, now, retry, preserve)
    \/ /\ jobs[t.job].state = "READY_TO_COMMIT"
       /\ \E c \in Candidates(jobs[t.job].session), id \in JobId :
             PublishCommitted(t, c, id, now) \/ PublishSuperseded(t, c, id, now)

Next ==
    \/ JournalNext /\ UNCHANGED storeVars
    \/ Raise
    \/ Claim
    \/ \E t \in issued, now \in Now : Work(t, now)
    \/ \E now \in Now : RecoverExpiredLeases(now)
    \/ Tick

Spec == Init /\ [][Next]_vars

----------------------------------------------------------------------------

(* The shape of the store.                                                 *)
TypeOK ==
    /\ JournalTypeOK
    /\ jobs \in [JobId -> JobRow \cup {Null}]
    /\ snapshots \in [SnapshotId -> SnapshotRow \cup {Null}]
    /\ capsules \in [CapsuleId -> CapsuleRow \cup {Null}]
    /\ active_snapshots \in [Session -> Pointer]
    /\ snapshot_metrics \in [SnapshotId -> Count \cup {NoCount}]
    /\ capsule_metrics \in [CapsuleId -> Count \cup {NoCount}]
    /\ clock \in Nat
    /\ issued \subseteq Token
    /\ demanded \in [Session -> Nat]

(* Every job row is a canonical CompactionJobEnvelope within the bounds of *)
(* its table, so _job_from_row never raises "does not form a canonical     *)
(* envelope" and no UPDATE fails a CHECK: the intent is never below the    *)
(* frozen target, and neither is beyond the journal.                       *)
JobEnvelopeValid ==
    \A j \in JobId : jobs[j] # Null =>
        /\ ValidateConditionals(jobs[j])
        /\ 1 <= jobs[j].target /\ jobs[j].target <= jobs[j].intent
        /\ jobs[j].intent <= HighWaterMark(jobs[j].session)

(* A session never has two nonterminal jobs: no operation can hit the      *)
(* unique index uq_compaction_jobs_nonterminal_session.                    *)
OneNonterminalJob ==
    \A s \in Session : \A j, k \in Nonterminal(jobs, s) : j = k

(* The base a working job was claimed with is still the active pointer,    *)
(* however many workers claimed, expired and published in between. So      *)
(* _cas_active_pointer never fails: SUPERSEDED can only come from an       *)
(* identity collision of an insert.                                        *)
WorkingBaseIsActive ==
    \A j \in JobId :
        jobs[j] # Null /\ jobs[j].state \in WorkingStates =>
            active_snapshots[jobs[j].session] =
                [id |-> jobs[j].base, version |-> jobs[j].version]

(* The intent of a nonterminal job is ahead of the active snapshot, so     *)
(* claim_job never takes its branch that cancels a job.                    *)
IntentAheadOfCoverage ==
    \A j \in JobId :
        jobs[j] # Null /\ jobs[j].state \in NonterminalStates =>
            jobs[j].intent > Coverage(jobs[j].session)

(* The snapshots of a session form one line that ends in the active one:   *)
(* each is based on a snapshot of the same session with less coverage, no  *)
(* two have the same base or the same coverage, and nothing is committed   *)
(* on top of the active one or beyond the journal.                         *)
LinearHistory ==
    \A p \in SnapshotId : snapshots[p] # Null =>
        LET row == snapshots[p] IN
        /\ active_snapshots[row.session].id # Null
        /\ row.base # Null =>
              /\ snapshots[row.base] # Null
              /\ snapshots[row.base].session = row.session
              /\ snapshots[row.base].covered < row.covered
        /\ row.base # active_snapshots[row.session].id
        /\ row.covered <= Coverage(row.session)
        /\ row.covered <= HighWaterMark(row.session)
        /\ \A q \in SnapshotId :
              /\ snapshots[q] # Null
              /\ snapshots[q].session = row.session
              /\ snapshots[q].base = row.base \/ snapshots[q].covered = row.covered
              => q = p

(* A reader always finds one consistent view: _read_request_view never     *)
(* raises, and everything the view names has its canonical metric.         *)
RequestViewSound ==
    \A s \in Session :
        LET id == active_snapshots[s].id IN
        /\ ReadRequestView(s)
        /\ (id = Null) <=> (active_snapshots[s].version = 0)
        /\ id # Null =>
              /\ snapshot_metrics[id] # NoCount
              /\ \A k \in snapshots[id].capsules : capsule_metrics[k] # NoCount

(* The input frozen by a claim stays readable and nonempty for as long as  *)
(* the lease is worked on: read_compaction_view never raises, also when    *)
(* events, intents, expiries and publications came in between.             *)
CompactionViewSound ==
    \A j \in JobId :
        jobs[j] # Null /\ jobs[j].state \in WorkingStates =>
            /\ ReadCompactionView(jobs[j])
            /\ SnapshotCoverage(jobs[j].base) < jobs[j].target

(* A publication that is superseded or aborted leaves nothing behind: each *)
(* stored capsule belongs to a committed snapshot.                         *)
NoOrphanCapsule ==
    \A k \in CapsuleId : capsules[k] # Null =>
        \E p \in SnapshotId : snapshots[p] # Null /\ k \in snapshots[p].capsules

(* A claim is granted once: two tokens of the same job and epoch are the   *)
(* same token, no token is ahead of its job, and the owner of a working    *)
(* job holds the newest one.                                               *)
FencingTokensUnique ==
    /\ \A t, u \in issued : t.job = u.job /\ t.epoch = u.epoch => t = u
    /\ \A t \in issued : jobs[t.job] # Null /\ t.epoch <= jobs[t.job].epoch
    /\ \A j \in JobId : jobs[j] # Null /\ jobs[j].state \in WorkingStates =>
          [job |-> j, owner |-> jobs[j].owner, epoch |-> jobs[j].epoch] \in issued

(* An intent that raise_compaction_intent acknowledged is covered, or some *)
(* nonterminal job still carries it, or a job that carried it FAILED.      *)
DemandCarried ==
    \A s \in Session :
        \/ demanded[s] <= Coverage(s)
        \/ \E j \in JobId : /\ jobs[j] # Null
                            /\ jobs[j].session = s
                            /\ jobs[j].state \in NonterminalStates \cup {"FAILED"}
                            /\ jobs[j].intent >= demanded[s]

(* docs/CONCURRENCY_STATE_MACHINE.md: "a later trigger cannot be lost".    *)
(* An intent folded into a job above the target it is working on outlives  *)
(* the end of that attempt.                                                *)
LaterTriggerNotLost ==
    \A s \in Session :
        \/ demanded[s] <= Coverage(s)
        \/ \E j \in JobId : /\ jobs[j] # Null
                            /\ jobs[j].session = s
                            /\ \/ /\ jobs[j].state \in NonterminalStates
                                  /\ jobs[j].intent >= demanded[s]
                               \/ /\ jobs[j].state = "FAILED"
                                  /\ jobs[j].target >= demanded[s]

(* The active pointer only moves forward, one version and at least one     *)
(* event at a time, and only to a snapshot based on the one it leaves.     *)
PointerAdvances ==
    [][\A s \in Session : active_snapshots'[s] # active_snapshots[s] =>
          /\ active_snapshots'[s].version = active_snapshots[s].version + 1
          /\ snapshots'[active_snapshots'[s].id].base = active_snapshots[s].id
          /\ snapshots'[active_snapshots'[s].id].covered > Coverage(s)]_vars

(* Committed rows are immutable: no snapshot and no capsule ever changes,  *)
(* also when a candidate brings a capsule id that is already stored.       *)
CommittedRowsImmutable ==
    [][/\ \A p \in SnapshotId : snapshots[p] # Null => snapshots'[p] = snapshots[p]
       /\ \A k \in CapsuleId : capsules[k] # Null => capsules'[k] = capsules[k]]_vars

(* A job leaves a terminal state never, its epoch never decreases, and a   *)
(* new epoch is the only way into LEASED.                                  *)
JobsMoveForward ==
    [][\A j \in JobId : jobs[j] # Null =>
          /\ jobs[j].state \in TerminalStates => jobs'[j] = jobs[j]
          /\ jobs'[j].epoch >= jobs[j].epoch
          /\ jobs'[j].intent >= jobs[j].intent
          /\ jobs'[j].state = "LEASED" /\ jobs[j].state # "LEASED" =>
                jobs'[j].epoch = jobs[j].epoch + 1
          /\ jobs[j].state \in WorkingStates /\ jobs'[j].state \in WorkingStates =>
                jobs'[j].target = jobs[j].target /\ jobs'[j].base = jobs[j].base
      ]_vars

----------------------------------------------------------------------------
(* The refinement mapping to the promise made to readers. *)

History == INSTANCE SnapshotHistory WITH
    journalled <- [s \in Session |-> HighWaterMark(s)],
    covered <- [s \in Session |-> Coverage(s)],
    version <- [s \in Session |-> active_snapshots[s].version]

(* Jobs, leases, retries and conflicts are invisible to readers: a session *)
(* only ever appends one event at a time or replaces its snapshot by one   *)
(* that covers strictly more of its journal.                               *)
ImplementsHistory == History!HistorySpec
============================================================================
