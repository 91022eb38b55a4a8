---------------------------- MODULE LeaseProofs ----------------------------
(***************************************************************************)
(* What the life of a job row guarantees to workers and callers: a row     *)
(* moves in a few ways only, a lease token is granted once, an intent that *)
(* was acknowledged is not forgotten, and a publication leaves no capsule  *)
(* without a snapshot.                                                     *)
(***************************************************************************)
EXTENDS HistoryProofs

(* The ways in which one operation may change a stored row o into n.       *)
Folded(o, n) ==
    /\ o.state \in NonterminalStates /\ n.state = o.state
    /\ n.intent >= o.intent
    /\ n.epoch = o.epoch /\ n.owner = o.owner /\ n.target = o.target /\ n.base = o.base

Claimed(o, n) ==
    /\ o.state \in {"PENDING", "RETRY_WAIT"} /\ n.state = "LEASED"
    /\ n.intent = o.intent
    /\ n.epoch = o.epoch + 1

Worked(o, n) ==
    /\ o.state \in WorkingStates /\ n.state \in WorkingStates
    /\ n.state = "LEASED" => o.state = "LEASED"
    /\ n.intent = o.intent
    /\ n.epoch = o.epoch /\ n.owner = o.owner /\ n.target = o.target /\ n.base = o.base

LetGo(o, n) ==
    /\ o.state \in WorkingStates /\ n.state \in {"PENDING", "RETRY_WAIT", "FAILED"}
    /\ n.intent = o.intent
    /\ n.epoch = o.epoch

Ended(o, n) ==
    /\ o.state \in WorkingStates /\ n.state \in {"COMMITTED", "SUPERSEDED"}
    /\ n.intent = o.intent
    /\ n.epoch = o.epoch

RowHeld(o, n) ==
    n = o \/ (/\ n \in JobRow /\ n.session = o.session
              /\ Folded(o, n) \/ Worked(o, n) \/ LetGo(o, n))

RowKept(o, n) ==
    RowHeld(o, n) \/ (n \in JobRow /\ n.session = o.session /\ Ended(o, n))

RowMoves(o, n) ==
    RowKept(o, n) \/ (n \in JobRow /\ n.session = o.session /\ Claimed(o, n))

(* Raising an intent folds it into a row or adds a row.                    *)
LEMMA RaiseMoves ==
    ASSUME TypeOK, Raise, NEW j \in JobId, jobs[j] # Null
    PROVE  RowHeld(jobs[j], jobs'[j])
<1>1. ASSUME NEW s \in Session, NEW target \in 1 .. HighWaterMark(s),
             FoldCompactionIntent(s, target)
      PROVE  RowHeld(jobs[j], jobs'[j])
  <2>1. PICK k \in Nonterminal(jobs, s) :
          jobs' = [jobs EXCEPT ![k] = Fold(@, target)]
    BY <1>1, ZenonT(30) DEF FoldCompactionIntent
  <2>2. k \in JobId /\ jobs[k] \in JobRow /\ jobs[k].state \in NonterminalStates
    BY <2>1 DEF Nonterminal, TypeOK
  <2>3. jobs'[j] = IF j = k THEN Fold(jobs[k], target) ELSE jobs[j]
    BY <2>1, <2>2 DEF TypeOK
  <2> DEFINE r == Fold(jobs[k], target)
  <2>4. /\ r.session = jobs[k].session /\ r.state = jobs[k].state
        /\ r.intent = IF target > jobs[k].intent THEN target ELSE jobs[k].intent
        /\ r.epoch = jobs[k].epoch /\ r.owner = jobs[k].owner
        /\ r.target = jobs[k].target /\ r.base = jobs[k].base
    BY <2>2, Zenon DEF Fold, JobRow
  <2>5. target \in Int /\ jobs[k].intent \in Int
    BY <2>2 DEF JobRow
  <2>6. r \in JobRow
    BY <2>2, <2>5 DEF Fold, JobRow
  <2> HIDE DEF r
  <2>7. r.intent >= jobs[k].intent
    BY <2>4, <2>5
  <2>8. RowHeld(jobs[k], r)
    BY <2>2, <2>4, <2>7, <2>6, Zenon DEF RowHeld, Folded
  <2> QED
    BY <2>3, <2>8 DEF RowHeld, r
<1>2. ASSUME NEW s \in Session, NEW target \in 1 .. HighWaterMark(s),
             NEW id \in JobId, NEW now \in Now,
             CreateCompactionIntent(s, target, id, now)
      PROVE  jobs'[j] = jobs[j]
  BY <1>2 DEF CreateCompactionIntent, TypeOK
<1> QED
  BY <1>1, <1>2 DEF Raise, RowHeld

(* What a claim does: no job is overtaken, each winner is leased.          *)
LEMMA ClaimEffect ==
    ASSUME TypeOK, Core, NEW w \in Worker, NEW now \in Now, NEW expires,
           ClaimJob(w, now, expires)
    PROVE  /\ \A j \in JobId : jobs'[j] = IF j \in Winner(now)
                                          THEN Leased(jobs[j], w, expires) ELSE jobs[j]
           /\ \A j \in Winner(now) :
                 /\ j \in JobId /\ jobs[j] \in JobRow
                 /\ jobs[j].state \in {"PENDING", "RETRY_WAIT"}
<1>1. ASSUME NEW j \in Eligible(now)
      PROVE  /\ j \in JobId /\ jobs[j] \in JobRow /\ ~Covered(j)
             /\ jobs[j].state \in {"PENDING", "RETRY_WAIT"}
  <2>1. j \in JobId /\ jobs[j] \in JobRow /\ jobs[j] # Null
    BY <1>1, Zenon DEF Eligible, TypeOK
  <2>2. jobs[j].session \in Session /\ jobs[j].intent \in Nat
    BY <2>1 DEF JobRow
  <2>3. RowSound(jobs[j]) /\ PointerSound(jobs[j].session)
    BY <2>1, <2>2 DEF Core
  <2>4. jobs[j].state \in {"PENDING", "RETRY_WAIT"}
    BY DEF Eligible
  <2>5. Coverage(jobs[j].session) \in Nat
    BY <2>2, <2>3, CoverageType, Zenon
  <2>6. ~Covered(j)
    BY <2>2, <2>3, <2>4, <2>5 DEF Covered, RowSound, NonterminalStates
  <2> QED
    BY <2>1, <2>4, <2>6, Zenon
<1>2. Overtaken(now) = {} /\ Winner(now) \subseteq Eligible(now)
  BY <1>1 DEF Overtaken, Winner
<1> QED
  BY <1>1, <1>2 DEF ClaimJob

(* A leased row, field by field.                                           *)
LEMMA LeasedFields ==
    ASSUME NEW row, NEW w, NEW expires
    PROVE  LET r == Leased(row, w, expires) IN
           /\ r.session = row.session /\ r.state = "LEASED" /\ r.intent = row.intent
           /\ r.owner = w /\ r.epoch = row.epoch + 1
BY DEF Leased

(* A claim leases a row that waits.                                        *)
LEMMA ClaimMoves ==
    ASSUME TypeOK, Core, Claim, NEW j \in JobId, jobs[j] # Null
    PROVE  \/ RowHeld(jobs[j], jobs'[j])
           \/ /\ jobs'[j] \in JobRow /\ jobs'[j].session = jobs[j].session
              /\ Claimed(jobs[j], jobs'[j])
<1>1. PICK w \in Worker, now \in Now : \E expires \in now + 1 .. now + MaxLease :
        ClaimJob(w, now, expires)
  BY DEF Claim
<1>2. PICK expires \in now + 1 .. now + MaxLease : ClaimJob(w, now, expires)
  BY <1>1
<1>3. jobs'[j] = IF j \in Winner(now) THEN Leased(jobs[j], w, expires) ELSE jobs[j]
  BY <1>2, ClaimEffect
<1>4. j \in Winner(now) => jobs[j].state \in {"PENDING", "RETRY_WAIT"}
  BY <1>2, ClaimEffect
<1>5. expires \in Nat
  BY NowType DEF TypeOK
<1>6. Leased(jobs[j], w, expires) \in JobRow
  BY <1>5, LeasedType, Zenon DEF TypeOK
<1> QED
  BY <1>3, <1>4, <1>6, LeasedFields DEF RowHeld, Claimed

(* A released row, field by field.                                         *)
LEMMA ReleasedFields ==
    ASSUME NEW row \in JobRow, NEW state, NEW retry, NEW attempts
    PROVE  LET q == Released(row, state, retry)
               r == [Released(row, state, retry) EXCEPT !.attempts = attempts]
           IN  /\ q.session = row.session /\ q.state = state
               /\ q.intent = row.intent /\ q.epoch = row.epoch
               /\ r.session = row.session /\ r.state = state
               /\ r.intent = row.intent /\ r.epoch = row.epoch
BY DEF Released, JobRow

(* Recovery ends the work on a row.                                        *)
LEMMA RecoverMoves ==
    ASSUME TypeOK, NEW now \in Now, RecoverExpiredLeases(now),
           NEW j \in JobId, jobs[j] # Null
    PROVE  RowHeld(jobs[j], jobs'[j])
<1>1. jobs'[j] = IF j \in Expired(now) THEN Released(jobs[j], "PENDING", Null) ELSE jobs[j]
  BY DEF RecoverExpiredLeases
<1>2. jobs[j] \in JobRow /\ (j \in Expired(now) => jobs[j].state \in WorkingStates)
  BY DEF TypeOK, Expired
<1>3. Released(jobs[j], "PENDING", Null) \in JobRow
  BY <1>2, ReleasedType, Zenon
<1> QED
  BY <1>1, <1>2, <1>3, ReleasedFields DEF RowHeld, LetGo

(* A fenced operation other than publication advances or ends the work on  *)
(* the row of its token.                                                   *)
LEMMA FencedMoves ==
    ASSUME TypeOK, NEW t \in issued, NEW now \in Now, NEW j \in JobId, jobs[j] # Null,
           \/ \E to \in WorkingStates, candidate \in SnapshotId \cup {Null} :
                 TransitionJob(t, to, candidate, now)
           \/ \E expires \in now + 1 .. now + MaxLease : RenewJobLease(t, now, expires)
           \/ \E retry \in (now + 1 .. now + MaxRetry) \cup {Null}, preserve \in BOOLEAN :
                 FailJob(t, now, retry, preserve)
    PROVE  RowHeld(jobs[j], jobs'[j])
<1> DEFINE row == jobs[t.job]
<1>1. ASSUME NEW to \in WorkingStates, NEW candidate \in SnapshotId \cup {Null},
             TransitionJob(t, to, candidate, now)
      PROVE  RowHeld(jobs[j], jobs'[j])
  <2> DEFINE r == [row EXCEPT !.state = to, !.candidate = candidate]
  <2>1. t.job \in JobId /\ row \in JobRow /\ row.state \in WorkingStates
    BY <1>1, FencedRow DEF TransitionJob
  <2>2. /\ r.session = row.session /\ r.state = to /\ r.intent = row.intent
        /\ r.epoch = row.epoch /\ r.owner = row.owner
        /\ r.target = row.target /\ r.base = row.base
    BY <2>1 DEF JobRow
  <2>3. jobs' = [jobs EXCEPT ![t.job] = r]
    BY <1>1, <2>1, ZenonT(30) DEF TransitionJob, TypeOK
  <2>4. to # "LEASED"
    BY <1>1 DEF TransitionJob, AllowedWorkerTransitions
  <2>5. r \in JobRow
    BY <2>1, Zenon DEF JobRow, NonterminalStates
  <2> HIDE DEF r
  <2>6. RowHeld(row, r)
    BY <2>1, <2>2, <2>4, <2>5 DEF RowHeld, Worked
  <2> QED
    BY <2>1, <2>3, <2>6 DEF TypeOK, RowHeld
<1>2. ASSUME NEW expires \in Nat, RenewJobLease(t, now, expires)
      PROVE  RowHeld(jobs[j], jobs'[j])
  <2> DEFINE r == [row EXCEPT !.expires = expires]
  <2>1. t.job \in JobId /\ row \in JobRow /\ row.state \in WorkingStates
    BY <1>2, FencedRow DEF RenewJobLease
  <2>2. /\ r.session = row.session /\ r.state = row.state /\ r.intent = row.intent
        /\ r.epoch = row.epoch /\ r.owner = row.owner
        /\ r.target = row.target /\ r.base = row.base
    BY <2>1 DEF JobRow
  <2>3. jobs' = [jobs EXCEPT ![t.job] = r]
    BY <1>2, <2>1 DEF RenewJobLease, TypeOK
  <2>4. r \in JobRow
    BY <2>1 DEF JobRow
  <2> HIDE DEF r
  <2>5. RowHeld(row, r)
    BY <2>1, <2>2, <2>4, Zenon DEF RowHeld, Worked
  <2> QED
    BY <2>1, <2>3, <2>5 DEF TypeOK, RowHeld
<1>3. ASSUME NEW retry \in Nat \cup {Null}, NEW preserve \in BOOLEAN,
             FailJob(t, now, retry, preserve)
      PROVE  RowHeld(jobs[j], jobs'[j])
  <2> DEFINE state == IF retry = Null THEN "FAILED" ELSE "RETRY_WAIT"
             attempts == IF preserve /\ row.attempts > 0
                         THEN row.attempts - 1 ELSE row.attempts
             r == [Released(row, state, retry) EXCEPT !.attempts = attempts]
  <2>1. t.job \in JobId /\ row \in JobRow /\ row.state \in WorkingStates
    BY <1>3, FencedRow, Zenon DEF FailJob
  <2>2. jobs' = [jobs EXCEPT ![t.job] = r]
    BY <1>3, Zenon DEF FailJob
  <2>3. state \in {"FAILED", "RETRY_WAIT"} /\ attempts \in Nat
    BY <2>1 DEF JobRow
  <2> HIDE DEF state, attempts
  <2>4. /\ r.session = row.session /\ r.state = state
        /\ r.intent = row.intent /\ r.epoch = row.epoch
    BY <2>1, ReleasedFields
  <2>5. Released(row, state, retry) \in JobRow
    BY <2>1, <2>3, ReleasedType, Zenon
  <2>6. r \in JobRow
    BY <2>3, <2>5 DEF JobRow
  <2> HIDE DEF r
  <2>7. RowHeld(row, r)
    BY <2>1, <2>3, <2>4, <2>6 DEF RowHeld, LetGo
  <2> QED
    BY <2>1, <2>2, <2>7, Zenon DEF TypeOK, RowHeld
<1>4. now \in Nat
  BY NowType DEF TypeOK
<1>5. \A expires \in now + 1 .. now + MaxLease : expires \in Nat
  BY <1>4
<1>6. \A retry \in (now + 1 .. now + MaxRetry) \cup {Null} : retry \in Nat \cup {Null}
  BY <1>4
<1> QED
  BY <1>1, <1>2, <1>3, <1>5, <1>6

(* The job that a publication ends, and where an intent that is left goes. *)
FinishedBy(j, id, outcome, coverage) ==
    /\ j \in JobId /\ jobs[j] \in JobRow /\ jobs[j].state \in WorkingStates
    /\ jobs'[j] \in JobRow
    /\ jobs'[j].session = jobs[j].session /\ jobs'[j].state = outcome
    /\ jobs'[j].intent = jobs[j].intent /\ jobs'[j].epoch = jobs[j].epoch
    /\ jobs[j].intent > coverage =>
          /\ jobs[id] = Null /\ jobs'[id] \in JobRow
          /\ jobs'[id].session = jobs[j].session /\ jobs'[id].intent = jobs[j].intent
          /\ jobs'[id].state = "PENDING"
    /\ \A k \in JobId \ {j} : jobs[k] # Null => jobs'[k] = jobs[k]
    /\ \A k \in JobId : jobs[k] = Null =>
          jobs'[k] = Null \/ jobs'[k].state = "PENDING"

(* Both outcomes of a publication finish its job in this way.              *)
LEMMA FinishEffect ==
    ASSUME TypeOK, Core, NEW j \in JobId, jobs[j] \in JobRow,
           jobs[j].state \in WorkingStates,
           NEW outcome \in {"COMMITTED", "SUPERSEDED"},
           NEW winner \in SnapshotId \cup {Null}, NEW version \in Nat, NEW coverage,
           NEW id \in JobId, NEW now \in Nat,
           FinishPublishJob(j, outcome, winner, version, coverage, id, now)
    PROVE  FinishedBy(j, id, outcome, coverage)
<1> DEFINE done == Finished(jobs[j], outcome)
           new == NewJob(jobs[j].session, jobs[j].intent, winner, version, now)
<1>1. /\ jobs[j].intent > coverage => jobs[id] = Null
      /\ \A k \in JobId : jobs'[k] =
            IF k = j THEN done
            ELSE IF jobs[j].intent > coverage /\ k = id THEN new ELSE jobs[k]
  BY FinishShape
<1>2. /\ done.session = jobs[j].session /\ done.state = outcome
      /\ done.intent = jobs[j].intent /\ done.epoch = jobs[j].epoch
  BY Zenon DEF Finished, JobRow
<1>3. /\ new.session = jobs[j].session /\ new.intent = jobs[j].intent
      /\ new.state = "PENDING"
  BY DEF NewJob
<1>4. jobs[j] # Null
  BY NullAssumption
<1>5. done \in JobRow
  BY ZenonT(30) DEF Finished, JobRow, TerminalStates
<1>6. jobs[j].session \in Session /\ jobs[j].intent \in Nat
  BY DEF JobRow
<1>7. new \in JobRow
  BY <1>6, NewJobType, Zenon
<1> HIDE DEF done, new
<1> QED
  BY <1>1, <1>2, <1>3, <1>4, <1>5, <1>7 DEF FinishedBy

(* A publication that commits finishes its job.                            *)
LEMMA CommittedFinish ==
    ASSUME TypeOK, Core, NEW t \in issued, NEW now \in Now, NEW id \in JobId,
           NEW c \in Candidates(jobs[t.job].session), PublishCommitted(t, c, id, now)
    PROVE  FinishedBy(t.job, id, "COMMITTED", c.covered)
<1>1. t.job \in JobId /\ jobs[t.job] \in JobRow /\ jobs[t.job].state \in WorkingStates
  BY FencedRow, Zenon DEF PublishCommitted, PublishFence
<1>2. FinishPublishJob(t.job, "COMMITTED", c.id, jobs[t.job].version + 1, c.covered, id, now)
  BY Zenon DEF PublishCommitted
<1>3. c.id \in SnapshotId /\ jobs[t.job].version + 1 \in Nat /\ now \in Nat
  BY <1>1, CandidateType, NowType DEF TypeOK, JobRow
<1> QED
  BY <1>1, <1>2, <1>3, FinishEffect, Zenon

(* A publication that is superseded finishes its job.                      *)
LEMMA SupersededFinish ==
    ASSUME TypeOK, Core, NEW t \in issued, NEW now \in Now, NEW id \in JobId,
           NEW c, PublishSuperseded(t, c, id, now)
    PROVE  FinishedBy(t.job, id, "SUPERSEDED", Coverage(jobs[t.job].session))
<1>1. t.job \in JobId /\ jobs[t.job] \in JobRow /\ jobs[t.job].state \in WorkingStates
  BY FencedRow, Zenon DEF PublishSuperseded, PublishFence
<1>2. FinishPublishJob(t.job, "SUPERSEDED", active_snapshots[jobs[t.job].session].id,
                       active_snapshots[jobs[t.job].session].version,
                       Coverage(jobs[t.job].session), id, now)
  BY Zenon DEF PublishSuperseded
<1>3. jobs[t.job].session \in Session /\ now \in Nat
  BY <1>1, NowType, Zenon DEF TypeOK, JobRow
<1>4. /\ active_snapshots[jobs[t.job].session].id \in SnapshotId \cup {Null}
      /\ active_snapshots[jobs[t.job].session].version \in Nat
  BY <1>3, Zenon DEF TypeOK, Pointer
<1> QED
  BY <1>1, <1>2, <1>3, <1>4, FinishEffect, Zenon

(* Every step but a claim keeps the claims of every stored row, and a row  *)
(* that is added waits.                                                    *)
LEMMA EveryRowKept ==
    ASSUME TypeOK, Core, [Next]_vars, ~Claim, NEW j \in JobId
    PROVE  /\ jobs[j] # Null => RowKept(jobs[j], jobs'[j])
           /\ jobs[j] = Null => jobs'[j] = Null \/ jobs'[j].state = "PENDING"
           /\ issued' = issued
<1> DEFINE goal == /\ jobs[j] # Null => RowKept(jobs[j], jobs'[j])
                   /\ jobs[j] = Null => jobs'[j] = Null \/ jobs'[j].state = "PENDING"
                   /\ issued' = issued
<1> SUFFICES goal
  OBVIOUS
<1>1. ASSUME jobs' = jobs, issued' = issued
      PROVE  goal
  BY <1>1, Zenon DEF RowKept, RowHeld
<1>2. ASSUME NEW t \in issued, NEW now \in Now, Work(t, now)
      PROVE  goal
  <2>1. ASSUME NEW k, NEW id, NEW outcome \in {"COMMITTED", "SUPERSEDED"}, NEW coverage,
               FinishedBy(k, id, outcome, coverage), issued' = issued
        PROVE  goal
    BY <2>1 DEF FinishedBy, RowKept, RowHeld, Ended
  <2>2. ASSUME NEW c \in Candidates(jobs[t.job].session), NEW id \in JobId,
               PublishCommitted(t, c, id, now) \/ PublishSuperseded(t, c, id, now)
        PROVE  goal
    <3>1. issued' = issued
      BY <2>2 DEF PublishCommitted, PublishSuperseded
    <3> QED
      BY <2>1, <2>2, <3>1, CommittedFinish, SupersededFinish
  <2>3. CASE \/ \E to \in WorkingStates, candidate \in SnapshotId \cup {Null} :
                   TransitionJob(t, to, candidate, now)
             \/ \E expires \in now + 1 .. now + MaxLease : RenewJobLease(t, now, expires)
             \/ \E retry \in (now + 1 .. now + MaxRetry) \cup {Null}, preserve \in BOOLEAN :
                   FailJob(t, now, retry, preserve)
    <3>1. issued' = issued /\ LiveFence(t, now)
      BY <2>3, Zenon DEF TransitionJob, RenewJobLease, FailJob
    <3>2. jobs[j] = Null => jobs'[j] = Null
      <4>1. t.job \in JobId /\ jobs[t.job] # Null
        BY <3>1, FencedRow, NullAssumption
      <4>2. \A k \in JobId \ {t.job} : jobs'[k] = jobs[k]
        BY <2>3, <4>1, Zenon DEF TransitionJob, RenewJobLease, FailJob, TypeOK
      <4> QED
        BY <4>1, <4>2
    <3> QED
      BY <2>3, <3>1, <3>2, FencedMoves, Zenon DEF RowKept
  <2> HIDE DEF goal
  <2> QED
    BY <1>2, <2>2, <2>3, Zenon DEF Work
<1>3. CASE Raise
  <2>1. issued' = issued
    BY <1>3, Zenon DEF Raise, FoldCompactionIntent, CreateCompactionIntent
  <2>2. ASSUME NEW s \in Session, NEW target, FoldCompactionIntent(s, target)
        PROVE  jobs[j] = Null => jobs'[j] = Null
    <3>1. PICK k \in Nonterminal(jobs, s) :
            jobs' = [jobs EXCEPT ![k] = Fold(@, target)]
      BY <2>2, ZenonT(30) DEF FoldCompactionIntent
    <3>2. k \in JobId /\ jobs[k] # Null
      BY Zenon DEF Nonterminal
    <3> QED
      BY <3>1, <3>2, Zenon DEF TypeOK
  <2>3. ASSUME NEW s \in Session, NEW target, NEW id \in JobId, NEW now,
               CreateCompactionIntent(s, target, id, now)
        PROVE  jobs[j] = Null => jobs'[j] = Null \/ jobs'[j].state = "PENDING"
    BY <2>3, Zenon DEF CreateCompactionIntent, NewJob, TypeOK
  <2> QED
    BY <1>3, <2>1, <2>2, <2>3, RaiseMoves DEF Raise, RowKept
<1>4. ASSUME NEW now \in Now, RecoverExpiredLeases(now)
      PROVE  goal
  <2>1. issued' = issued /\ (jobs[j] = Null => jobs'[j] = Null)
    BY <1>4, Zenon DEF RecoverExpiredLeases, Expired
  <2> QED
    BY <1>4, <2>1, RecoverMoves, Zenon DEF RowKept
<1>5. CASE JournalNext /\ UNCHANGED storeVars
  BY <1>1, <1>5, Zenon DEF storeVars
<1>6. CASE Tick
  BY <1>1, <1>6, Zenon DEF Tick
<1>7. CASE UNCHANGED vars
  BY <1>1, <1>7, Zenon DEF vars, storeVars
<1> HIDE DEF goal
<1> QED
  BY <1>2, <1>3, <1>4, <1>5, <1>6, <1>7, Zenon DEF Next

(* Every step moves every stored row in one of the ways of RowMoves.       *)
LEMMA EveryRowMoves ==
    ASSUME TypeOK, Core, [Next]_vars, NEW j \in JobId, jobs[j] # Null
    PROVE  RowMoves(jobs[j], jobs'[j])
BY ClaimMoves, EveryRowKept DEF RowMoves, RowKept

(* A job never leaves a terminal state, its epoch and intent never         *)
(* decrease, only a claim leases it, and what a worker froze stays frozen  *)
(* while it works, for any number of workers, jobs and late calls.         *)
THEOREM JobsOnlyMoveForward == Spec => JobsMoveForward
<1>1. ASSUME TypeOK, Core, [Next]_vars, NEW j \in JobId, jobs[j] # Null
      PROVE  /\ jobs[j].state \in TerminalStates => jobs'[j] = jobs[j]
             /\ jobs'[j].epoch >= jobs[j].epoch
             /\ jobs'[j].intent >= jobs[j].intent
             /\ jobs'[j].state = "LEASED" /\ jobs[j].state # "LEASED" =>
                   jobs'[j].epoch = jobs[j].epoch + 1
             /\ jobs[j].state \in WorkingStates /\ jobs'[j].state \in WorkingStates =>
                   jobs'[j].target = jobs[j].target /\ jobs'[j].base = jobs[j].base
  <2>1. RowMoves(jobs[j], jobs'[j])
    BY <1>1, EveryRowMoves, Zenon
  <2>2. jobs[j].epoch \in Nat /\ jobs[j].intent \in Nat
    BY <1>1, Zenon DEF TypeOK, JobRow
  <2> QED
    BY <2>1, <2>2 DEF RowMoves, RowKept, RowHeld, Folded, Claimed, Worked, LetGo, Ended,
        WorkingStates, NonterminalStates, TerminalStates
<1>2. TypeOK /\ Core /\ [Next]_vars =>
        [\A j \in JobId : jobs[j] # Null =>
            /\ jobs[j].state \in TerminalStates => jobs'[j] = jobs[j]
            /\ jobs'[j].epoch >= jobs[j].epoch
            /\ jobs'[j].intent >= jobs[j].intent
            /\ jobs'[j].state = "LEASED" /\ jobs[j].state # "LEASED" =>
                  jobs'[j].epoch = jobs[j].epoch + 1
            /\ jobs[j].state \in WorkingStates /\ jobs'[j].state \in WorkingStates =>
                  jobs'[j].target = jobs[j].target /\ jobs'[j].base = jobs[j].base]_vars
  BY <1>1
<1> QED
  BY <1>2, CoreInvariant, PTL DEF Spec, JobsMoveForward
----------------------------------------------------------------------------
(* Fencing tokens *)

(* The fencing invariant is inductive relative to the types and the core.  *)
LEMMA FencingStep ==
    ASSUME TypeOK, TypeOK', Core, FencingTokensUnique, [Next]_vars
    PROVE  FencingTokensUnique'
<1>1. CASE Claim
  <2>1. PICK w \in Worker, now \in Now : \E expires \in now + 1 .. now + MaxLease :
          ClaimJob(w, now, expires)
    BY <1>1 DEF Claim
  <2>2. PICK expires \in now + 1 .. now + MaxLease : ClaimJob(w, now, expires)
    BY <2>1, Zenon
  <2> DEFINE new(j) == [job |-> j, owner |-> w, epoch |-> jobs[j].epoch + 1]
  <2>3. /\ \A j \in JobId : jobs'[j] = IF j \in Winner(now)
                                       THEN Leased(jobs[j], w, expires) ELSE jobs[j]
        /\ \A j \in Winner(now) : j \in JobId /\ jobs[j] \in JobRow
    BY <2>2, ClaimEffect, Zenon
  <2>4. issued' = issued \cup {new(j) : j \in Winner(now)}
    BY <2>2, Zenon DEF ClaimJob
  <2>5. \A j \in Winner(now) : jobs'[j].epoch = jobs[j].epoch + 1 /\ jobs'[j].owner = w
    BY <2>3, LeasedFields
  <2>6. ASSUME NEW j \in JobId, jobs[j] # Null
        PROVE  jobs[j].epoch \in Nat /\ jobs'[j] # Null
    <3>1. jobs[j] \in JobRow
      BY <2>6, Zenon DEF TypeOK
    <3> QED
      BY <2>6, <3>1, EveryRowMoves, NullAssumption, Zenon DEF RowMoves, RowKept, RowHeld, JobRow
  <2>7. \A t \in issued : t.job \in JobId /\ t.epoch \in Nat
    BY Zenon DEF TypeOK, Token
  <2>8. ASSUME NEW t \in issued', NEW u \in issued', t.job = u.job, t.epoch = u.epoch
        PROVE  t = u
    <3>1. ASSUME NEW j \in Winner(now), NEW v \in issued, v.job = j
          PROVE  v.epoch # new(j).epoch
      BY <2>3, <2>6, <2>7, <3>1, NullAssumption DEF FencingTokensUnique
    <3> QED
      BY <2>4, <2>8, <3>1 DEF FencingTokensUnique
  <2>9. ASSUME NEW t \in issued'
        PROVE  jobs'[t.job] # Null /\ t.epoch <= jobs'[t.job].epoch
    BY <2>3, <2>4, <2>5, <2>6, <2>7, <2>9, NullAssumption DEF FencingTokensUnique
  <2>10. ASSUME NEW j \in JobId, jobs'[j] # Null, jobs'[j].state \in WorkingStates
         PROVE  [job |-> j, owner |-> jobs'[j].owner, epoch |-> jobs'[j].epoch] \in issued'
    BY <2>3, <2>4, <2>5, <2>10, Zenon DEF FencingTokensUnique
  <2> QED
    BY <2>8, <2>9, <2>10, Zenon DEF FencingTokensUnique
<1>2. CASE ~Claim
  <2>1. \A j \in JobId :
          /\ jobs[j] # Null => RowKept(jobs[j], jobs'[j])
          /\ jobs[j] = Null => jobs'[j] = Null \/ jobs'[j].state = "PENDING"
    BY <1>2, EveryRowKept, Zenon
  <2>2. issued' = issued
    <3>1. CASE \E j : j \in JobId
      BY <1>2, <3>1, EveryRowKept, Zenon
    <3>2. CASE JobId = {}
      BY <1>2, <3>2, ZenonT(30) DEF Next, Raise, FoldCompactionIntent, CreateCompactionIntent,
          RecoverExpiredLeases, Tick, vars, storeVars, Nonterminal, TypeOK, Token
    <3> QED
      BY <3>1, <3>2, Zenon
  <2>3. \A t \in issued : t.job \in JobId /\ t.epoch \in Nat
    BY Zenon DEF TypeOK, Token
  <2>4. ASSUME NEW t \in issued
        PROVE  jobs'[t.job] # Null /\ t.epoch <= jobs'[t.job].epoch
    <3>1. jobs[t.job] # Null /\ t.epoch <= jobs[t.job].epoch /\ t.job \in JobId
      BY <2>3, Zenon DEF FencingTokensUnique
    <3> QED
      BY <2>1, <3>1, NullAssumption, Zenon DEF RowKept, RowHeld, Folded, Worked, LetGo, Ended
  <2>5. ASSUME NEW j \in JobId, jobs'[j] # Null, jobs'[j].state \in WorkingStates
        PROVE  [job |-> j, owner |-> jobs'[j].owner, epoch |-> jobs'[j].epoch] \in issued
    <3>1. jobs[j] # Null
      BY <2>1, <2>5, Zenon DEF WorkingStates
    <3>2. /\ jobs[j].state \in WorkingStates
          /\ jobs'[j].owner = jobs[j].owner /\ jobs'[j].epoch = jobs[j].epoch
      BY <2>1, <2>5, <3>1, Zenon DEF RowKept, RowHeld, Folded, Worked, LetGo, Ended, WorkingStates
    <3> QED
      BY <3>1, <3>2, Zenon DEF FencingTokensUnique
  <2> QED
    BY <2>2, <2>4, <2>5, Zenon DEF FencingTokensUnique
<1> QED
  BY <1>1, <1>2, Zenon

(* A claim is granted once, no token is ahead of its job, and the owner of *)
(* a working job holds its newest token, for any number of workers.        *)
THEOREM TokensUnique == Spec => []FencingTokensUnique
<1>1. Init => FencingTokensUnique
  BY DEF Init, FencingTokensUnique
<1>2. TypeOK /\ TypeOK' /\ Core /\ FencingTokensUnique /\ [Next]_vars => FencingTokensUnique'
  BY FencingStep, Zenon
<1> QED
  BY <1>1, <1>2, CoreInvariant, PTL DEF Spec

----------------------------------------------------------------------------
(* Acknowledged intents *)

(* The row that keeps an acknowledged intent d of session s alive.         *)
Carries(row, s, d) ==
    /\ row # Null /\ row.session = s
    /\ row.state \in NonterminalStates \cup {"FAILED"}
    /\ row.intent >= d

(* A row that carries an intent carries it until it is published.          *)
LEMMA CarrierStays ==
    ASSUME NEW s, NEW d \in Nat, NEW o \in JobRow, NEW n, Carries(o, s, d),
           RowHeld(o, n) \/ (n \in JobRow /\ n.session = o.session /\ Claimed(o, n))
    PROVE  Carries(n, s, d)
<1>1. CASE n = o
  BY <1>1, Zenon
<1>2. CASE /\ n \in JobRow /\ n.session = o.session
           /\ Folded(o, n) \/ Claimed(o, n) \/ Worked(o, n) \/ LetGo(o, n)
  <2>1. n # Null /\ n.intent \in Nat /\ o.intent \in Nat
    BY <1>2, NullAssumption, Zenon DEF JobRow
  <2>2. n.intent >= d
    BY <1>2, <2>1 DEF Carries, Folded, Claimed, Worked, LetGo
  <2>3. n.state \in NonterminalStates \cup {"FAILED"}
    BY <1>2, Zenon DEF Folded, Claimed, Worked, LetGo, NonterminalStates, WorkingStates
  <2> QED
    BY <1>2, <2>1, <2>2, <2>3, Zenon DEF Carries
<1> QED
  BY <1>1, <1>2, Zenon DEF RowHeld

(* A publication hands the intents that it leaves open to another row, and *)
(* covers the intents of the row that it ends.                             *)
LEMMA CarrierFinishes ==
    ASSUME TypeOK, NEW s, NEW d \in Nat, NEW j \in JobId, Carries(jobs[j], s, d),
           NEW k, NEW id \in JobId, NEW outcome, NEW coverage \in Nat,
           FinishedBy(k, id, outcome, coverage),
           s = jobs[k].session => coverage <= Coverage(s)', Coverage(s)' \in Nat
    PROVE  d <= Coverage(s)' \/ \E i \in JobId : Carries(jobs'[i], s, d)
<1>1. CASE j # k
  BY <1>1, Zenon DEF FinishedBy, Carries
<1>2. CASE j = k /\ jobs[k].intent > coverage
  <2>1. /\ jobs'[id] \in JobRow /\ jobs'[id].session = s
        /\ jobs'[id].intent = jobs[k].intent /\ jobs'[id].state = "PENDING"
    BY <1>2, Zenon DEF FinishedBy, Carries
  <2>2. Carries(jobs'[id], s, d)
    BY <1>2, <2>1, NullAssumption, Zenon DEF Carries, NonterminalStates
  <2> QED
    BY <2>2, Zenon
<1>3. CASE j = k /\ ~(jobs[k].intent > coverage)
  <2>1. jobs[k].intent \in Nat
    BY DEF FinishedBy, JobRow
  <2> QED
    BY <1>3, <2>1 DEF Carries
<1> QED
  BY <1>1, <1>2, <1>3, Zenon

(* Demand survives every step of the repository.                           *)
LEMMA DemandStep ==
    ASSUME TypeOK, TypeOK', Core, Core', DemandCarried, [Next]_vars, NEW s \in Session
    PROVE  \/ demanded'[s] <= Coverage(s)'
           \/ \E j \in JobId : Carries(jobs'[j], s, demanded'[s])
<1> DEFINE goal == \/ demanded'[s] <= Coverage(s)'
                   \/ \E j \in JobId : Carries(jobs'[j], s, demanded'[s])
<1> SUFFICES goal
  BY Zenon
<1>1. demanded[s] \in Nat /\ demanded'[s] \in Nat
  BY Zenon DEF TypeOK
<1>2. Coverage(s) \in Nat /\ Coverage(s)' \in Nat
  <2>1. PointerSound(s) /\ PointerSound(s)'
    BY DEF Core
  <2>2. (TypeOK /\ PointerSound(s) => Coverage(s) \in Nat)'
    BY CoverageType, PTL
  <2> QED
    BY <2>1, <2>2, CoverageType, Zenon
<1>3. \/ demanded[s] <= Coverage(s)
      \/ \E j \in JobId : Carries(jobs[j], s, demanded[s])
  BY Zenon DEF DemandCarried, Carries
<1>4. ASSUME UNCHANGED contentVars
      PROVE  Coverage(s)' = Coverage(s)
  BY <1>4, Zenon DEF contentVars, Coverage, SnapshotCoverage
<1>5. ASSUME demanded'[s] = demanded[s], UNCHANGED contentVars,
             \A j \in JobId : jobs[j] # Null =>
                \/ RowHeld(jobs[j], jobs'[j])
                \/ /\ jobs'[j] \in JobRow /\ jobs'[j].session = jobs[j].session
                   /\ Claimed(jobs[j], jobs'[j])
      PROVE  goal
  <2>1. CASE demanded[s] <= Coverage(s)
    BY <1>4, <1>5, <2>1, Zenon
  <2>2. CASE \E j \in JobId : Carries(jobs[j], s, demanded[s])
    <3>1. PICK j \in JobId : Carries(jobs[j], s, demanded[s])
      BY <2>2, Zenon
    <3>2. jobs[j] \in JobRow /\ jobs[j] # Null
      BY <3>1, Zenon DEF Carries, TypeOK
    <3>3. Carries(jobs'[j], s, demanded[s])
      BY <1>1, <1>5, <3>1, <3>2, CarrierStays, Zenon
    <3> QED
      BY <1>5, <3>3, Zenon
  <2> QED
    BY <1>3, <2>1, <2>2, Zenon
<1>6. CASE Raise
  <2>1. PICK r \in Session : \E target \in 1 .. HighWaterMark(r) :
          \/ FoldCompactionIntent(r, target)
          \/ \E id \in JobId, now \in Now : CreateCompactionIntent(r, target, id, now)
    BY <1>6, Zenon DEF Raise
  <2>2. PICK target \in 1 .. HighWaterMark(r) :
          \/ FoldCompactionIntent(r, target)
          \/ \E id \in JobId, now \in Now : CreateCompactionIntent(r, target, id, now)
    BY <2>1, Zenon
  <2>3. /\ RaiseAccepted(r, target) /\ Acknowledge(r, target)
        /\ UNCHANGED contentVars
    BY <2>2, Zenon DEF FoldCompactionIntent, CreateCompactionIntent
  <2>4. \A j \in JobId : jobs[j] # Null => RowHeld(jobs[j], jobs'[j])
    BY <1>6, RaiseMoves, Zenon
  <2>5. CASE demanded'[s] = demanded[s]
    BY <1>5, <2>3, <2>4, <2>5, Zenon
  <2>6. CASE demanded'[s] # demanded[s]
    <3>1. r = s /\ demanded'[s] = target
      BY <2>3, <2>6, Zenon DEF Acknowledge, TypeOK
    <3>2. CASE FoldCompactionIntent(r, target)
      <4>1. PICK j \in Nonterminal(jobs, s) :
              jobs' = [jobs EXCEPT ![j] = Fold(@, target)]
        BY <3>1, <3>2, ZenonT(30) DEF FoldCompactionIntent
      <4>2. /\ j \in JobId /\ jobs[j] \in JobRow /\ jobs[j].session = s
            /\ jobs[j].state \in NonterminalStates
        BY Zenon DEF Nonterminal, TypeOK
      <4>3. jobs'[j] = Fold(jobs[j], target)
        BY <4>1, <4>2, Zenon DEF TypeOK
      <4>4. /\ jobs'[j].session = s /\ jobs'[j].state = jobs[j].state
            /\ jobs'[j].intent >= target /\ jobs'[j] \in JobRow
        BY <4>2, <4>3 DEF Fold, JobRow
      <4>5. Carries(jobs'[j], s, target)
        BY <4>2, <4>4, NullAssumption, Zenon DEF Carries
      <4> QED
        BY <3>1, <4>2, <4>5, Zenon
    <3>3. CASE \E id \in JobId, now \in Now : CreateCompactionIntent(r, target, id, now)
      <4>1. PICK id \in JobId, now \in Now : CreateCompactionIntent(r, target, id, now)
        BY <3>3, Zenon
      <4>2. jobs'[id] = NewJob(s, target, active_snapshots[s].id,
                               active_snapshots[s].version, now)
        BY <3>1, <4>1, Zenon DEF CreateCompactionIntent, TypeOK
      <4>3. jobs'[id].session = s /\ jobs'[id].state = "PENDING" /\ jobs'[id].intent = target
        BY <4>2 DEF NewJob
      <4>4. jobs'[id] # Null
        <5>1. now \in Nat /\ target \in Nat
          BY NowType DEF TypeOK
        <5>2. active_snapshots[s].id \in SnapshotId \cup {Null}
              /\ active_snapshots[s].version \in Nat
          BY Zenon DEF TypeOK, Pointer
        <5> QED
          BY <4>2, <5>1, <5>2, NewJobType, NullAssumption
      <4>5. Carries(jobs'[id], s, target)
        BY <4>3, <4>4 DEF Carries, NonterminalStates
      <4> QED
        BY <3>1, <4>5, Zenon
    <3> QED
      BY <2>2, <3>2, <3>3, Zenon
  <2> QED
    BY <2>5, <2>6, Zenon
<1>7. CASE Claim
  <2>1. demanded' = demanded /\ UNCHANGED contentVars
    BY <1>7, Zenon DEF Claim, ClaimJob
  <2>2. \A j \in JobId : jobs[j] # Null =>
          \/ RowHeld(jobs[j], jobs'[j])
          \/ /\ jobs'[j] \in JobRow /\ jobs'[j].session = jobs[j].session
             /\ Claimed(jobs[j], jobs'[j])
    BY <1>7, ClaimMoves, Zenon
  <2> QED
    BY <1>5, <2>1, <2>2, Zenon
<1>8. ASSUME NEW t \in issued, NEW now \in Now, Work(t, now)
      PROVE  goal
  <2>1. ASSUME NEW c \in Candidates(jobs[t.job].session), NEW id \in JobId,
               PublishCommitted(t, c, id, now)
        PROVE  goal
    <3>1. demanded' = demanded /\ FinishedBy(t.job, id, "COMMITTED", c.covered)
      BY <2>1, CommittedFinish, Zenon DEF PublishCommitted
    <3>2. c.covered \in Nat
      BY CandidateType, Zenon
    <3>3. jobs[t.job].session \in Session
      BY <3>1, Zenon DEF FinishedBy, JobRow
    <3>4. /\ s = jobs[t.job].session => Coverage(s)' = c.covered /\ c.covered > Coverage(s)
          /\ s # jobs[t.job].session => Coverage(s)' = Coverage(s)
      <4>1. PICK r : r = jobs[t.job].session
        BY Zenon
      <4>2. c \in Candidates(r)
        BY <4>1, Zenon
      <4>3. /\ Coverage(r)' = c.covered
            /\ \A q \in Session \ {r} : /\ active_snapshots'[q] = active_snapshots[q]
                                        /\ Coverage(q)' = Coverage(q)
                                        /\ active_snapshots[q].id # c.id
        BY <2>1, <4>1, <4>2, CommitCoverage
      <4>4. c.covered > Coverage(r)
        BY <2>1, <4>1, <4>2, CommitFacts, Zenon
      <4>5. CASE s = r
        <5>1. Coverage(s)' = c.covered /\ c.covered > Coverage(s)
          BY <4>3, <4>4, <4>5, Zenon
        <5> QED
          BY <4>1, <4>5, <5>1, Zenon
      <4>6. CASE s # r
        BY <4>1, <4>3, <4>6, Zenon
      <4> QED
        BY <4>5, <4>6, Zenon
    <3>5. CASE demanded[s] <= Coverage(s)
      BY <1>1, <1>2, <3>1, <3>2, <3>4, <3>5
    <3>6. CASE \E j \in JobId : Carries(jobs[j], s, demanded[s])
      <4>1. PICK j \in JobId : Carries(jobs[j], s, demanded[s])
        BY <3>6, Zenon
      <4>2. s = jobs[t.job].session => c.covered <= Coverage(s)'
        BY <3>2, <3>4
      <4>3. demanded[s] <= Coverage(s)' \/ \E i \in JobId : Carries(jobs'[i], s, demanded[s])
        BY <1>1, <1>2, <3>1, <3>2, <4>1, <4>2, CarrierFinishes, Zenon
      <4> QED
        BY <3>1, <4>3, Zenon
    <3> QED
      BY <1>3, <3>5, <3>6, Zenon
  <2>2. ASSUME NEW c \in Candidates(jobs[t.job].session), NEW id \in JobId,
               PublishSuperseded(t, c, id, now)
        PROVE  goal
    <3> DEFINE r == jobs[t.job].session
    <3>1. /\ demanded' = demanded /\ UNCHANGED contentVars
          /\ FinishedBy(t.job, id, "SUPERSEDED", Coverage(r))
      BY <2>2, SupersededFinish, Zenon DEF PublishSuperseded
    <3>2. r \in Session
      BY <3>1, Zenon DEF FinishedBy, JobRow
    <3>3. Coverage(r) \in Nat
      BY <3>2, CoverageType, Zenon DEF Core
    <3>4. Coverage(s)' = Coverage(s)
      BY <1>4, <3>1, Zenon
    <3>5. CASE demanded[s] <= Coverage(s)
      BY <3>1, <3>4, <3>5, Zenon
    <3>6. CASE \E j \in JobId : Carries(jobs[j], s, demanded[s])
      <4>1. PICK j \in JobId : Carries(jobs[j], s, demanded[s])
        BY <3>6
      <4>2. s = r => Coverage(r) <= Coverage(s)'
        BY <3>3, <3>4
      <4>3. demanded[s] <= Coverage(s)' \/ \E i \in JobId : Carries(jobs'[i], s, demanded[s])
        BY <1>1, <1>2, <3>1, <3>3, <4>1, <4>2, CarrierFinishes, Zenon
      <4> QED
        BY <3>1, <4>3, Zenon
    <3> QED
      BY <1>3, <3>5, <3>6
  <2>3. CASE \/ \E to \in WorkingStates, candidate \in SnapshotId \cup {Null} :
                   TransitionJob(t, to, candidate, now)
             \/ \E expires \in now + 1 .. now + MaxLease : RenewJobLease(t, now, expires)
             \/ \E retry \in (now + 1 .. now + MaxRetry) \cup {Null}, preserve \in BOOLEAN :
                   FailJob(t, now, retry, preserve)
    <3>1. demanded' = demanded /\ UNCHANGED contentVars
      BY <2>3, Zenon DEF TransitionJob, RenewJobLease, FailJob
    <3>2. \A j \in JobId : jobs[j] # Null => RowHeld(jobs[j], jobs'[j])
      BY <2>3, FencedMoves
    <3> QED
      BY <1>5, <3>1, <3>2
  <2> HIDE DEF goal
  <2> QED
    BY <1>8, <2>1, <2>2, <2>3, Zenon DEF Work
<1>9. ASSUME NEW now \in Now, RecoverExpiredLeases(now)
      PROVE  goal
  <2>1. demanded' = demanded /\ UNCHANGED contentVars
    BY <1>9, Zenon DEF RecoverExpiredLeases
  <2>2. \A j \in JobId : jobs[j] # Null => RowHeld(jobs[j], jobs'[j])
    BY <1>9, RecoverMoves, Zenon
  <2> QED
    BY <1>5, <2>1, <2>2
<1>10. CASE \/ JournalNext /\ UNCHANGED storeVars
            \/ Tick
            \/ UNCHANGED vars
  <2>1. UNCHANGED <<jobs, demanded, contentVars>>
    BY <1>10 DEF Tick, vars, storeVars, contentVars
  <2> QED
    BY <1>5, <2>1, Zenon DEF RowHeld
<1> HIDE DEF goal
<1> QED
  BY <1>6, <1>7, <1>8, <1>9, <1>10, Zenon DEF Next

(* An intent that raise_compaction_intent acknowledged is covered, or a    *)
(* nonterminal or FAILED job of its session carries it: no fold, release,  *)
(* recovery or publication drops it.                                       *)
THEOREM DemandNeverLost == Spec => []DemandCarried
<1>1. Init => DemandCarried
  BY DEF Init, DemandCarried, Coverage, SnapshotCoverage
<1>2. TypeOK /\ Core /\ TypeOK' /\ Core' /\ DemandCarried /\ [Next]_vars => DemandCarried'
  BY DemandStep, Zenon DEF DemandCarried, Carries
<1> QED
  BY <1>1, <1>2, CoreInvariant, PTL DEF Spec

----------------------------------------------------------------------------
(* Capsules *)

(* A capsule is stored only together with a snapshot that refers to it.    *)
LEMMA OrphanStep ==
    ASSUME TypeOK, Core, NoOrphanCapsule, [Next]_vars
    PROVE  NoOrphanCapsule'
<1>1. CASE UNCHANGED contentVars
  BY <1>1, Zenon DEF NoOrphanCapsule, contentVars
<1>2. CASE \E s \in Session : Publishes(s)
  <2>1. PICK s \in Session : Publishes(s)
    BY <1>2, Zenon
  <2>2. PICK t \in issued, now \in Now, job \in JobId, c \in Candidates(s) :
          s = jobs[t.job].session /\ PublishCommitted(t, c, job, now)
    BY <2>1, Zenon DEF Publishes
  <2>3. c.id \in SnapshotId /\ snapshots[c.id] = Null
    BY <2>2, CandidateType, CommitFacts, ZenonT(30)
  <2>4. \A k \in CapsuleId : k \notin DOMAIN c.members => capsules'[k] = capsules[k]
    BY <2>2, Zenon DEF PublishCommitted, InsertCapsules
  <2>5. snapshots' = InsertCommittedSnapshot(s, c)
    BY <2>2, Zenon DEF PublishCommitted
  <2>6. snapshots'[c.id].capsules = DOMAIN c.members
    BY <2>3, <2>5, Zenon DEF InsertCommittedSnapshot, TypeOK
  <2>7. \A p \in SnapshotId : snapshots[p] # Null => snapshots'[p] = snapshots[p]
    BY <2>3, <2>5, Zenon DEF InsertCommittedSnapshot, TypeOK
  <2>8. snapshots'[c.id] # Null
    <3>1. PICK id \in SnapshotId : PublishedAs(s, id)
      BY <2>1, PublishEffect, Zenon
    <3> QED
      BY <2>3, <2>5, <3>1, Zenon DEF PublishedAs, InsertCommittedSnapshot, TypeOK
  <2>9. ASSUME NEW k \in CapsuleId, capsules'[k] # Null
        PROVE  \E p \in SnapshotId : snapshots'[p] # Null /\ k \in snapshots'[p].capsules
    <3>1. CASE k \in DOMAIN c.members
      BY <2>3, <2>6, <2>8, <3>1, Zenon
    <3>2. CASE k \notin DOMAIN c.members
      <4>1. PICK p \in SnapshotId : snapshots[p] # Null /\ k \in snapshots[p].capsules
        BY <2>4, <2>9, <3>2, Zenon DEF NoOrphanCapsule
      <4>2. snapshots'[p] = snapshots[p]
        BY <2>7, <4>1, Zenon
      <4> QED
        BY <4>1, <4>2, Zenon
    <3> QED
      BY <3>1, <3>2, Zenon
  <2> QED
    BY <2>9, Zenon DEF NoOrphanCapsule
<1> QED
  BY <1>1, <1>2, StepKinds, Zenon DEF storeVars, contentVars

(* A publication that fails or is superseded leaves no capsule behind: the *)
(* capsules in the store are those that some snapshot refers to.           *)
THEOREM CapsulesBelong == Spec => []NoOrphanCapsule
<1>1. Init => NoOrphanCapsule
  BY Zenon DEF Init, NoOrphanCapsule
<1>2. TypeOK /\ Core /\ NoOrphanCapsule /\ [Next]_vars => NoOrphanCapsule'
  BY OrphanStep
<1> QED
  BY <1>1, <1>2, CoreInvariant, PTL DEF Spec
============================================================================
