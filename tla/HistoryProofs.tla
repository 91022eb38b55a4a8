---------------------------- MODULE HistoryProofs ---------------------------
(***************************************************************************)
(* Publication preserves the inductive invariant, and what follows from it *)
(* about jobs: valid envelopes, one nonterminal job per session, a pointer *)
(* CAS that never loses, and no job that is overtaken. Then what readers   *)
(* may rely on: the active pointer only advances, committed rows never     *)
(* change, the snapshots of a session form one line, both read             *)
(* transactions always succeed, and the repository implements the abstract *)
(* SnapshotHistory.                                                        *)
(***************************************************************************)
EXTENDS JobProofs

(* The job that finishes is the only nonterminal job of its session, so    *)
(* an intent that is left over always becomes a new job.                   *)
LEMMA FinishShape ==
    ASSUME TypeOK, Core, NEW j \in JobId, jobs[j] \in JobRow,
           jobs[j].state \in WorkingStates,
           NEW outcome \in {"COMMITTED", "SUPERSEDED"},
           NEW winner, NEW version, NEW coverage, NEW id \in JobId, NEW now,
           FinishPublishJob(j, outcome, winner, version, coverage, id, now)
    PROVE  /\ jobs[j].intent > coverage => jobs[id] = Null
           /\ \A k \in JobId : jobs'[k] =
                 IF k = j
                 THEN Finished(jobs[j], outcome)
                 ELSE IF jobs[j].intent > coverage /\ k = id
                 THEN NewJob(jobs[j].session, jobs[j].intent, winner, version, now)
                 ELSE jobs[k]
<1>1. j \in Nonterminal(jobs, jobs[j].session) /\ jobs[j].session \in Session
  BY NullAssumption DEF Nonterminal, NonterminalStates, JobRow
<1>2. Nonterminal(jobs, jobs[j].session) \ {j} = {}
  BY <1>1 DEF Core, OneNonterminalJob
<1> QED
  BY <1>2 DEF FinishPublishJob

(* The finished job is terminal, keeps its candidate and needs no lease.   *)
LEMMA FinishedSound ==
    ASSUME NEW row \in JobRow, RowSound(row), row.state = "READY_TO_COMMIT",
           NEW outcome \in {"COMMITTED", "SUPERSEDED"}
    PROVE  LET r == Finished(row, outcome)
           IN  /\ ValidateConditionals(r)
               /\ r.target = row.target /\ r.intent = row.intent
               /\ r.session = row.session /\ r.state = outcome
               /\ r.state \notin NonterminalStates /\ r.state \notin WorkingStates
<1> DEFINE r == Finished(row, outcome)
<1>1. /\ r.session = row.session /\ r.state = outcome /\ r.target = row.target
      /\ r.intent = row.intent /\ r.base = row.base /\ r.version = row.version
      /\ r.candidate = row.candidate /\ r.owner = Null /\ r.epoch = row.epoch
      /\ r.expires = Null /\ r.retry = Null
  BY DEF Finished, JobRow
<1> HIDE DEF r
<1>2. ValidateConditionals(r)
  BY <1>1 DEF RowSound, ValidateConditionals, WorkingStates, NonterminalStates,
      CandidateStates
<1>3. r.state \notin NonterminalStates /\ r.state \notin WorkingStates
  BY <1>1 DEF NonterminalStates, WorkingStates
<1> QED
  BY <1>1, <1>2, <1>3 DEF r

(* The nonterminal jobs after a publication: the finished job is gone, a   *)
(* follow-up may have taken its place.                                     *)
LEMMA FinishNonterminal ==
    ASSUME TypeOK, Core, NEW j \in JobId, jobs[j] \in JobRow,
           jobs[j].state = "READY_TO_COMMIT",
           NEW outcome \in {"COMMITTED", "SUPERSEDED"},
           NEW winner, NEW version, NEW coverage, NEW id \in JobId, NEW now,
           FinishPublishJob(j, outcome, winner, version, coverage, id, now)
    PROVE  OneNonterminalJob'
<1> DEFINE s == jobs[j].session
<1>1. jobs[j].state \in WorkingStates /\ RowSound(jobs[j]) /\ s \in Session
  BY NullAssumption DEF WorkingStates, Core, JobRow
<1>2. \A k \in JobId : jobs'[k] =
         IF k = j THEN Finished(jobs[j], outcome)
         ELSE IF jobs[j].intent > coverage /\ k = id
         THEN NewJob(s, jobs[j].intent, winner, version, now)
         ELSE jobs[k]
  BY <1>1, FinishShape
<1>3. Finished(jobs[j], outcome).state \notin NonterminalStates
  BY <1>1, FinishedSound
<1>4. NewJob(s, jobs[j].intent, winner, version, now).session = s
  BY DEF NewJob
<1>5. j \in Nonterminal(jobs, s)
  BY <1>1, NullAssumption DEF Nonterminal, NonterminalStates
<1>6. Nonterminal(jobs', s) \subseteq {id}
  BY <1>1, <1>2, <1>3, <1>5 DEF Nonterminal, Core, OneNonterminalJob
<1>7. \A r \in Session \ {s} : Nonterminal(jobs', r) \subseteq Nonterminal(jobs, r)
  BY <1>2, <1>3, <1>4 DEF Nonterminal
<1>8. \A r \in Session : Nonterminal(jobs, r)' = Nonterminal(jobs', r)
  BY Zenon DEF Nonterminal
<1> QED
  BY <1>6, <1>7, <1>8 DEF Core, OneNonterminalJob

(* A superseded publication preserves the core invariant.                  *)
LEMMA SupersededCore ==
    ASSUME TypeOK, Core, NEW t \in issued, NEW now \in Now, NEW id \in JobId,
           NEW c \in Candidates(jobs[t.job].session),
           PublishSuperseded(t, c, id, now)
    PROVE  Core'
<1> DEFINE row == jobs[t.job]
           s == row.session
           done == Finished(row, "SUPERSEDED")
           new == NewJob(s, row.intent, active_snapshots[s].id,
                         active_snapshots[s].version, now)
<1>1. /\ t.job \in JobId /\ row \in JobRow /\ row.state = "READY_TO_COMMIT"
      /\ RowSound(row) /\ row.state \in WorkingStates
  BY FencedRow, NullAssumption DEF PublishSuperseded, PublishFence, Core
<1>2. s \in Session /\ row.intent \in Nat /\ row.target \in Nat /\ PointerSound(s)
  BY <1>1 DEF JobRow, Core
<1>3. now \in Nat
  BY NowType, Zenon DEF TypeOK
<1>4. FinishPublishJob(t.job, "SUPERSEDED", active_snapshots[s].id,
                       active_snapshots[s].version, Coverage(s), id, now)
  BY Zenon DEF PublishSuperseded
<1>5. \A k \in JobId : jobs'[k] = IF k = t.job THEN done
                                  ELSE IF row.intent > Coverage(s) /\ k = id
                                  THEN new ELSE jobs[k]
  BY <1>1, <1>4, FinishShape
<1>6. RowSound(done)
  <2>1. /\ ValidateConditionals(done)
        /\ done.target = row.target /\ done.intent = row.intent
        /\ done.session = row.session
        /\ done.state \notin NonterminalStates /\ done.state \notin WorkingStates
    BY <1>1, FinishedSound
  <2> HIDE DEF done
  <2> QED
    BY <1>1, <2>1 DEF RowSound
<1>7. row.intent > Coverage(s) => RowSound(new)
  BY <1>1, <1>2, <1>3, NewJobSound, ZenonT(30) DEF RowSound
<1>8. OneNonterminalJob'
  BY <1>1, <1>4, FinishNonterminal, Zenon
<1> HIDE DEF done, new
<1> QED
  BY <1>5, <1>6, <1>7, <1>8, JobsStep, Zenon DEF PublishSuperseded, journalVars, contentVars

(* What a committing publication knows: the candidate is based on the      *)
(* active snapshot, is new, and covers more of the journal.                *)
LEMMA CommitFacts ==
    ASSUME TypeOK, Core, NEW t \in issued, NEW now \in Now, NEW id \in JobId,
           NEW s, s = jobs[t.job].session, NEW c \in Candidates(s),
           PublishCommitted(t, c, id, now)
    PROVE  LET row == jobs[t.job] IN
           /\ t.job \in JobId /\ row \in JobRow /\ RowSound(row)
           /\ row.state = "READY_TO_COMMIT" /\ row.state \in WorkingStates
           /\ s \in Session /\ PointerSound(s)
           /\ active_snapshots[s] = [id |-> c.base, version |-> row.version]
           /\ c.id \in SnapshotId /\ snapshots[c.id] = Null
           /\ c.covered \in Nat /\ c.covered = row.target
           /\ c.covered > Coverage(s) /\ c.covered <= HighWaterMark(s)
           /\ row.version \in Nat /\ row.intent \in Nat
<1> DEFINE row == jobs[t.job]
<1>1. /\ t.job \in JobId /\ row \in JobRow /\ row.state = "READY_TO_COMMIT"
      /\ RowSound(row) /\ row.state \in WorkingStates
  BY FencedRow, NullAssumption, Zenon DEF PublishCommitted, PublishFence, Core
<1>2. /\ s \in Session /\ row.intent \in Nat /\ row.target \in Nat
      /\ row.version \in Nat /\ PointerSound(s)
  BY <1>1 DEF JobRow, Core
<1>3. c.id \in SnapshotId /\ c.covered \in Nat
  BY CandidateType, Zenon
<1>4. c.base = row.base /\ c.covered = row.target
  BY Zenon DEF PublishCommitted, PublishFence, ValidatePermanent
<1>5. snapshots[c.id] = Null
  BY Zenon DEF PublishCommitted, InsertConflict
<1>6. /\ active_snapshots[s] = [id |-> row.base, version |-> row.version]
      /\ row.target > Coverage(s)
  BY <1>1, Zenon DEF RowSound
<1>7. row.target <= HighWaterMark(s)
  BY <1>1, <1>2 DEF RowSound, TypeOK, JournalTypeOK, HighWaterMark
<1> QED
  BY <1>1, <1>2, <1>3, <1>4, <1>5, <1>6, <1>7, Zenon

(* Only the coverage of the publishing session changes.                    *)
LEMMA CommitCoverage ==
    ASSUME TypeOK, Core, NEW t \in issued, NEW now \in Now, NEW id \in JobId,
           NEW s, s = jobs[t.job].session, NEW c \in Candidates(s),
           PublishCommitted(t, c, id, now)
    PROVE  /\ Coverage(s)' = c.covered
           /\ active_snapshots'[s].id = c.id
           /\ active_snapshots'[s].version = active_snapshots[s].version + 1
           /\ \A r \in Session \ {s} :
                 /\ active_snapshots'[r] = active_snapshots[r]
                 /\ Coverage(r)' = Coverage(r)
                 /\ active_snapshots[r].id # c.id
<1> DEFINE row == jobs[t.job]
<1>1. /\ s \in Session /\ c.id \in SnapshotId /\ snapshots[c.id] = Null
      /\ active_snapshots[s] = [id |-> c.base, version |-> row.version]
      /\ snapshots' = [snapshots EXCEPT ![c.id] =
            [session |-> s, base |-> c.base, covered |-> c.covered,
             capsules |-> DOMAIN c.members]]
      /\ active_snapshots' = [active_snapshots EXCEPT ![s] =
            [id |-> c.id, version |-> row.version + 1]]
  <2>1. /\ s \in Session /\ c.id \in SnapshotId /\ snapshots[c.id] = Null
        /\ active_snapshots[s] = [id |-> c.base, version |-> row.version]
    BY CommitFacts
  <2> QED
    BY <2>1, Zenon DEF PublishCommitted, InsertCommittedSnapshot, SwungPointer
<1>2. c.id # Null
  BY <1>1, NullAssumption, Zenon
<1>3. /\ active_snapshots'[s] = [id |-> c.id, version |-> row.version + 1]
      /\ \A r \in Session \ {s} : active_snapshots'[r] = active_snapshots[r]
  BY <1>1, Zenon DEF TypeOK
<1>4. snapshots'[c.id].covered = c.covered
  BY <1>1, Zenon DEF TypeOK
<1>5. ASSUME NEW r \in Session \ {s}
      PROVE  active_snapshots[r].id # c.id /\ Coverage(r)' = Coverage(r)
  <2>1. PointerSound(r) /\ active_snapshots[r].id \in SnapshotId \cup {Null}
    BY Zenon DEF Core, TypeOK, Pointer
  <2>2. active_snapshots[r].id # c.id
    BY <1>1, <1>2, <2>1, Zenon DEF PointerSound
  <2> QED
    BY <1>1, <1>3, <2>1, <2>2, Zenon DEF Coverage, SnapshotCoverage, TypeOK
<1>6. Coverage(s)' = c.covered
  BY <1>2, <1>3, <1>4 DEF Coverage, SnapshotCoverage
<1> QED
  BY <1>1, <1>3, <1>5, <1>6

(* A publication that commits preserves the core invariant.                *)
LEMMA CommittedCore ==
    ASSUME TypeOK, Core, NEW t \in issued, NEW now \in Now, NEW id \in JobId,
           NEW s, s = jobs[t.job].session, NEW c \in Candidates(s),
           PublishCommitted(t, c, id, now)
    PROVE  Core'
<1> DEFINE row == jobs[t.job]
           done == Finished(row, "COMMITTED")
           new == NewJob(s, row.intent, c.id, row.version + 1, now)
<1>1. /\ t.job \in JobId /\ row \in JobRow /\ RowSound(row)
      /\ row.state = "READY_TO_COMMIT" /\ row.state \in WorkingStates
      /\ s \in Session /\ c.id \in SnapshotId /\ c.covered \in Nat
      /\ c.covered <= HighWaterMark(s)
      /\ row.version \in Nat /\ row.intent \in Nat
  BY CommitFacts, Zenon
<1>rows. /\ snapshots' = [snapshots EXCEPT ![c.id] =
            [session |-> s, base |-> c.base, covered |-> c.covered,
             capsules |-> DOMAIN c.members]]
      /\ active_snapshots' = [active_snapshots EXCEPT ![s] =
            [id |-> c.id, version |-> row.version + 1]]
  BY DEF PublishCommitted, InsertCommittedSnapshot, SwungPointer
<1>2. /\ Coverage(s)' = c.covered
      /\ \A r \in Session \ {s} :
            /\ active_snapshots'[r] = active_snapshots[r]
            /\ Coverage(r)' = Coverage(r)
            /\ active_snapshots[r].id # c.id
  BY CommitCoverage
<1>3. next_event_sequence' = next_event_sequence
  BY Zenon DEF PublishCommitted, journalVars
<1>4. FinishPublishJob(t.job, "COMMITTED", c.id, row.version + 1, c.covered, id, now)
  BY Zenon DEF PublishCommitted
<1>5. \A k \in JobId : jobs'[k] = IF k = t.job THEN done
                                  ELSE IF row.intent > c.covered /\ k = id
                                  THEN new ELSE jobs[k]
  BY <1>1, <1>4, FinishShape
<1>6. OneNonterminalJob'
  BY <1>1, <1>4, FinishNonterminal, Zenon
<1>7. ASSUME NEW r \in Session
      PROVE  PointerSound(r)'
  <2>1. CASE r = s
    <3>1. active_snapshots'[s] = [id |-> c.id, version |-> row.version + 1]
      BY <1>1, <1>rows, Zenon DEF TypeOK
    <3>2. snapshots'[c.id] = [session |-> s, base |-> c.base, covered |-> c.covered,
                              capsules |-> DOMAIN c.members]
      BY <1>1, <1>rows, Zenon DEF TypeOK
    <3>3. snapshots'[c.id] # Null
      BY <1>1, <3>2, CommittedType, NullAssumption, CandidateType DEF SnapshotRow
    <3>4. c.id # Null /\ row.version + 1 # 0
      BY <1>1, NullAssumption
    <3>5. c.covered <= HighWaterMark(s)'
      BY <1>1, <1>3, Zenon DEF HighWaterMark
    <3>6. /\ active_snapshots'[s].id = c.id
          /\ active_snapshots'[s].version = row.version + 1
          /\ snapshots'[c.id].session = s
          /\ snapshots'[c.id].covered = c.covered
      BY <3>1, <3>2
    <3> QED
      BY <2>1, <3>3, <3>4, <3>5, <3>6, Zenon DEF PointerSound
  <2>2. CASE r # s
    <3>1. active_snapshots'[r] = active_snapshots[r] /\ active_snapshots[r].id # c.id
      BY <1>2, <2>2, Zenon
    <3>2. active_snapshots[r].id # Null =>
            snapshots'[active_snapshots[r].id] = snapshots[active_snapshots[r].id]
      BY <1>1, <1>rows, <3>1, Zenon DEF TypeOK, Pointer
    <3> QED
      BY <1>3, <3>1, <3>2, Zenon DEF PointerSound, HighWaterMark, Core
  <2> QED
    BY <2>1, <2>2, Zenon
<1>8. ASSUME NEW k \in JobId, jobs'[k] # Null
      PROVE  RowSound(jobs[k])'
  <2>1. CASE k = t.job
    <3>1. /\ ValidateConditionals(done)
          /\ done.target = row.target /\ done.intent = row.intent
          /\ done.session = s
          /\ done.state \notin NonterminalStates /\ done.state \notin WorkingStates
      BY <1>1, FinishedSound, Zenon
    <3>2. /\ 1 <= row.target /\ row.target <= row.intent
          /\ row.intent <= HighWaterMark(s)
      BY <1>1, Zenon DEF RowSound
    <3>3. jobs'[k] = done
      BY <1>5, <2>1, Zenon
    <3> HIDE DEF done
    <3> QED
      BY <1>3, <3>1, <3>2, <3>3, Zenon DEF RowSound, ValidateConditionals, HighWaterMark
  <2>2. CASE k # t.job /\ row.intent > c.covered /\ k = id
    <3>1. jobs'[k] = new
      BY <1>5, <2>2, Zenon
    <3>2. row.intent >= 1 /\ row.intent <= HighWaterMark(s)
      BY <1>1, <2>2 DEF RowSound
    <3>3. c.id # Null /\ row.version + 1 # 0
      BY <1>1, NullAssumption
    <3>4. ValidateConditionals(new)
      BY <3>3, Zenon DEF NewJob, ValidateConditionals, WorkingStates, CandidateStates
    <3>5. /\ new.session = s /\ new.intent = row.intent /\ new.target = row.intent
          /\ new.state \notin WorkingStates
      BY Zenon DEF NewJob, WorkingStates
    <3> HIDE DEF new
    <3>6. ValidateConditionals(jobs[k])'
      BY <3>1, <3>4 DEF ValidateConditionals
    <3> QED
      BY <1>1, <1>2, <1>3, <2>2, <3>1, <3>2, <3>5, <3>6 DEF RowSound, HighWaterMark
  <2>3. CASE k # t.job /\ ~(row.intent > c.covered /\ k = id)
    <3>1. jobs'[k] = jobs[k]
      BY <1>5, <2>3
    <3>2. RowSound(jobs[k]) /\ jobs[k].session \in Session
      BY <1>8, <3>1, ZenonT(40) DEF Core, TypeOK, JobRow
    <3>3. jobs[k].state \in NonterminalStates => jobs[k].session # s
      BY <1>1, <1>8, <2>3, <3>1, NullAssumption, Zenon
      DEF Core, OneNonterminalJob, Nonterminal, NonterminalStates
    <3>4. jobs[k].state \in WorkingStates => jobs[k].state \in NonterminalStates
      BY DEF NonterminalStates
    <3> QED
      BY <1>2, <1>3, <3>1, <3>2, <3>3, <3>4, ZenonT(40)
      DEF RowSound, ValidateConditionals, HighWaterMark
  <2> QED
    BY <2>1, <2>2, <2>3, Zenon
<1> QED
  BY <1>6, <1>7, <1>8 DEF Core

(* Journal steps preserve the core invariant: targets stay in the journal. *)
LEMMA JournalCore ==
    ASSUME TypeOK, Core, JournalNext, UNCHANGED storeVars
    PROVE  Core'
<1>1. jobs' = jobs /\ snapshots' = snapshots /\ active_snapshots' = active_snapshots
  BY DEF storeVars
<1>2. JournalTypeOK
  BY Zenon DEF TypeOK
<1>3. ASSUME NEW s \in Session
      PROVE  PointerSound(s)'
  <2>1. PointerSound(s) /\ HighWaterMark(s)' >= HighWaterMark(s)
        /\ HighWaterMark(s) \in Nat /\ HighWaterMark(s)' \in Nat
    BY <1>2, JournalGrows, Zenon DEF Core
  <2>2. active_snapshots[s].id # Null /\ snapshots[active_snapshots[s].id] # Null
          => snapshots[active_snapshots[s].id].covered \in Nat
    BY Zenon DEF TypeOK, Pointer, SnapshotRow
  <2> QED
    BY <1>1, <2>1, <2>2 DEF PointerSound
<1>4. ASSUME NEW j \in JobId, jobs'[j] # Null
      PROVE  RowSound(jobs[j])'
  <2>1. jobs[j] \in JobRow /\ RowSound(jobs[j])
    BY <1>1, <1>4, Zenon DEF TypeOK, Core
  <2>2. jobs[j].session \in Session /\ jobs[j].intent \in Nat
    BY <2>1, Zenon DEF JobRow
  <2>3. \A s \in Session : Coverage(s)' = Coverage(s)
    BY <1>1, Zenon DEF Coverage, SnapshotCoverage
  <2>4. /\ HighWaterMark(jobs[j].session) \in Nat
        /\ jobs[j].intent <= HighWaterMark(jobs[j].session)
    BY <1>2, <2>1, <2>2, JournalGrows, Zenon DEF RowSound
  <2>5. ASSUME NEW s \in Session, s = jobs[j].session
        PROVE  jobs[j].intent <= HighWaterMark(s)'
    BY <1>2, <2>2, <2>4, <2>5, JournalGrows
  <2>6. jobs'[j].intent <= HighWaterMark(jobs[j].session)'
    BY <1>1, <2>2, <2>5, Zenon DEF HighWaterMark
  <2> QED
    BY <1>1, <2>1, <2>2, <2>3, <2>6, Zenon DEF RowSound, ValidateConditionals, Coverage
<1>5. OneNonterminalJob'
  BY <1>1, Zenon DEF Core, OneNonterminalJob, Nonterminal
<1> QED
  BY <1>3, <1>4, <1>5 DEF Core

(* Every operation of a worker preserves the core invariant.               *)
LEMMA WorkCore ==
    ASSUME TypeOK, Core, NEW t \in issued, NEW now \in Now, Work(t, now)
    PROVE  Core'
<1>1. now \in Nat
  BY NowType DEF TypeOK
<1>2. ASSUME NEW expires \in now + 1 .. now + MaxLease, RenewJobLease(t, now, expires)
      PROVE  Core'
  <2>1. expires \in Nat
    BY <1>1, BoundAssumption
  <2> QED
    BY <1>2, <2>1, RenewCore, Zenon
<1>3. ASSUME NEW retry \in (now + 1 .. now + MaxRetry) \cup {Null},
             NEW preserve \in BOOLEAN, FailJob(t, now, retry, preserve)
      PROVE  Core'
  <2>1. retry \in Nat \cup {Null}
    BY <1>1, BoundAssumption
  <2> QED
    BY <1>3, <2>1, FailCore
<1> QED
  BY <1>2, <1>3, TransitionCore, CommittedCore, SupersededCore, Zenon DEF Work

(* The core invariant is inductive relative to the types.                  *)
LEMMA NextCore == TypeOK /\ Core /\ [Next]_vars => Core'
<1> SUFFICES ASSUME TypeOK, Core, [Next]_vars
             PROVE  Core'
  BY Zenon
<1>1. CASE Tick
  BY <1>1, JobsStep, FewerNonterminal, Zenon
  DEF Tick, journalVars, contentVars, Core
<1>2. CASE UNCHANGED vars
  BY <1>2, JobsStep, FewerNonterminal, Zenon DEF vars, journalVars, storeVars, Core
<1> QED
  BY <1>1, <1>2, JournalCore, RaiseCore, ClaimCore, WorkCore, RecoverCore, Zenon DEF Next

(* The empty store satisfies the core invariant.                           *)
LEMMA InitCore == Init => Core
BY DEF Init, JournalInit, Core, PointerSound, OneNonterminalJob, Nonterminal

(* The inductive invariant: every job row is sound with respect to the     *)
(* active pointer of its session, every pointer names a committed snapshot *)
(* within the journal, and each session has at most one nonterminal job.   *)
THEOREM CoreInvariant == Spec => [](TypeOK /\ Core)
BY InitType, NextType, InitCore, NextCore, PTL DEF Spec

(* No job row ever breaks the rules of its envelope.                       *)
THEOREM EnvelopesStayValid == Spec => []JobEnvelopeValid
<1>1. Core => JobEnvelopeValid
  BY ZenonT(30) DEF Core, RowSound, JobEnvelopeValid
<1> QED
  BY <1>1, CoreInvariant, PTL

(* A session has at most one nonterminal job.                              *)
THEOREM NonterminalUnique == Spec => []OneNonterminalJob
<1>1. Core => OneNonterminalJob
  BY Zenon DEF Core
<1> QED
  BY <1>1, CoreInvariant, PTL

(* The compare-and-swap of a publication cannot lose.                      *)
THEOREM CasNeverLoses == Spec => []WorkingBaseIsActive
<1>1. Core => WorkingBaseIsActive
  BY DEF Core, RowSound, WorkingBaseIsActive
<1> QED
  BY <1>1, CoreInvariant, PTL

(* The intent of a job that has not ended is never already covered, so     *)
(* claim_job never cancels a job.                                          *)
THEOREM NoJobOvertaken == Spec => []IntentAheadOfCoverage
<1>1. Core => IntentAheadOfCoverage
  BY ZenonT(30) DEF Core, RowSound, IntentAheadOfCoverage
<1> QED
  BY <1>1, CoreInvariant, PTL
----------------------------------------------------------------------------

Publishes(s) ==
    \E t \in issued, now \in Now, id \in JobId, c \in Candidates(s) :
        s = jobs[t.job].session /\ PublishCommitted(t, c, id, now)

(* A publication that commits is the only step that touches content, and   *)
(* no step changes both the journal and the store.                         *)
LEMMA StepKinds ==
    ASSUME TypeOK, [Next]_vars
    PROVE  \/ JournalNext /\ UNCHANGED storeVars
           \/ UNCHANGED <<journalVars, contentVars>>
           \/ \E s \in Session : Publishes(s)
<1>1. ASSUME NEW t \in issued, NEW now \in Now, Work(t, now)
      PROVE  UNCHANGED <<journalVars, contentVars>> \/ \E s \in Session : Publishes(s)
  <2>1. ASSUME NEW c \in Candidates(jobs[t.job].session), NEW id \in JobId,
               PublishCommitted(t, c, id, now)
        PROVE  \E s \in Session : Publishes(s)
    <3>1. jobs[t.job].session \in Session
      BY <2>1, FencedRow, ZenonT(40) DEF PublishCommitted, PublishFence, JobRow
    <3> QED
      BY <2>1, <3>1 DEF Publishes
  <2> QED
    BY <1>1, <2>1, ZenonT(30) DEF Work, TransitionJob, RenewJobLease, FailJob, PublishSuperseded
<1> QED
  BY <1>1 DEF Next, Raise, FoldCompactionIntent, CreateCompactionIntent, Claim,
      ClaimJob, RecoverExpiredLeases, Tick, vars, storeVars, contentVars

(* The effect on readers of a publication that commits snapshot id.        *)
PublishedAs(s, id) ==
    /\ snapshots[id] = Null
    /\ active_snapshots'[s] = [id |-> id, version |-> active_snapshots[s].version + 1]
    /\ \A p \in SnapshotId \ {id} : snapshots'[p] = snapshots[p]
    /\ snapshots'[id] # Null
    /\ snapshots'[id].session = s
    /\ snapshots'[id].base = active_snapshots[s].id
    /\ snapshots'[id].covered \in Nat
    /\ snapshots'[id].covered > Coverage(s)
    /\ snapshots'[id].covered <= HighWaterMark(s)
    /\ Coverage(s)' = snapshots'[id].covered
    /\ \A r \in Session \ {s} : /\ active_snapshots'[r] = active_snapshots[r]
                                /\ active_snapshots[r].id # id
                                /\ Coverage(r)' = Coverage(r)
    /\ UNCHANGED journalVars

(* A committing publication stores its candidate, as PublishedAs says.      *)
LEMMA CommitEffect ==
    ASSUME TypeOK, Core, NEW t \in issued, NEW now \in Now, NEW job \in JobId,
           NEW s, s = jobs[t.job].session, NEW c \in Candidates(s),
           PublishCommitted(t, c, job, now)
    PROVE  c.id \in SnapshotId /\ PublishedAs(s, c.id)
<1>1. s \in Session
  BY CommitFacts, ZenonT(40)
<1>2. /\ active_snapshots[s] = [id |-> c.base, version |-> jobs[t.job].version]
      /\ c.id \in SnapshotId /\ snapshots[c.id] = Null
      /\ c.covered \in Nat /\ c.covered > Coverage(s) /\ c.covered <= HighWaterMark(s)
  BY CommitFacts
<1>3. /\ snapshots' = [snapshots EXCEPT ![c.id] =
            [session |-> s, base |-> c.base, covered |-> c.covered,
             capsules |-> DOMAIN c.members]]
      /\ active_snapshots' = [active_snapshots EXCEPT ![s] =
            [id |-> c.id, version |-> jobs[t.job].version + 1]]
      /\ UNCHANGED journalVars
  BY Zenon DEF PublishCommitted, InsertCommittedSnapshot, SwungPointer
<1>4. /\ Coverage(s)' = c.covered
      /\ \A r \in Session \ {s} : /\ active_snapshots'[r] = active_snapshots[r]
                                  /\ Coverage(r)' = Coverage(r)
                                  /\ active_snapshots[r].id # c.id
  BY CommitCoverage
<1>5. snapshots'[c.id] = [session |-> s, base |-> c.base, covered |-> c.covered,
                          capsules |-> DOMAIN c.members]
  BY <1>2, <1>3, Zenon DEF TypeOK
<1>6. snapshots'[c.id] # Null
  <2>1. /\ c.base \in SnapshotId \cup {Null} /\ DOMAIN c.members \subseteq CapsuleId
    BY CandidateType, Zenon
  <2> QED
    BY <1>1, <1>2, <1>5, <2>1, NullAssumption DEF SnapshotRow
<1>7. active_snapshots'[s] =
        [id |-> c.id, version |-> active_snapshots[s].version + 1]
  BY <1>1, <1>2, <1>3 DEF TypeOK
<1>8. \A p \in SnapshotId \ {c.id} : snapshots'[p] = snapshots[p]
  BY <1>2, <1>3, Zenon DEF TypeOK
<1> QED
  <2>1. /\ snapshots'[c.id].session = s
        /\ snapshots'[c.id].base = active_snapshots[s].id
        /\ snapshots'[c.id].covered = c.covered
    <3>1. active_snapshots[s].id = c.base
      BY <1>2
    <3> QED
      BY <1>5, <3>1
  <2>2. PublishedAs(s, c.id)
    BY <1>2, <1>3, <1>4, <1>6, <1>7, <1>8, <2>1, ZenonT(40) DEF PublishedAs
  <2> QED
    BY <1>2, <2>2, Zenon

(* A step that changes content publishes one candidate, as PublishedAs     *)
(* says.                                                                   *)
LEMMA PublishEffect ==
    ASSUME TypeOK, Core, NEW s \in Session, Publishes(s)
    PROVE  \E id \in SnapshotId : PublishedAs(s, id)
<1>1. PICK t \in issued, now \in Now, job \in JobId, c \in Candidates(s) :
        s = jobs[t.job].session /\ PublishCommitted(t, c, job, now)
  BY Zenon DEF Publishes
<1>2. c.id \in SnapshotId /\ PublishedAs(s, c.id)
  BY <1>1, CommitEffect
<1> QED
  BY <1>2, Zenon

(* The active pointer moves by one version, to a snapshot that is based on *)
(* the one it leaves and covers more.                                      *)
THEOREM PointerOnlyAdvances == Spec => PointerAdvances
<1>1. ASSUME TypeOK, Core, [Next]_vars, NEW s \in Session,
             active_snapshots'[s] # active_snapshots[s]
      PROVE  /\ active_snapshots'[s].version = active_snapshots[s].version + 1
             /\ snapshots'[active_snapshots'[s].id].base = active_snapshots[s].id
             /\ snapshots'[active_snapshots'[s].id].covered > Coverage(s)
  <2>1. PICK r \in Session : Publishes(r)
    BY <1>1, StepKinds, Zenon DEF storeVars, contentVars
  <2>2. PICK id \in SnapshotId : PublishedAs(r, id)
    BY <1>1, <2>1, PublishEffect, Zenon
  <2>3. r = s
    BY <1>1, <2>2, Zenon DEF PublishedAs
  <2> QED
    BY <2>2, <2>3 DEF PublishedAs
<1>2. TypeOK /\ Core /\ [Next]_vars =>
        [\A s \in Session : active_snapshots'[s] # active_snapshots[s] =>
           /\ active_snapshots'[s].version = active_snapshots[s].version + 1
           /\ snapshots'[active_snapshots'[s].id].base = active_snapshots[s].id
           /\ snapshots'[active_snapshots'[s].id].covered > Coverage(s)]_vars
  BY <1>1
<1> QED
  BY <1>2, CoreInvariant, PTL DEF Spec, PointerAdvances

(* A stored capsule or snapshot never changes.                             *)
THEOREM RowsNeverChange == Spec => CommittedRowsImmutable
<1>1. ASSUME TypeOK, Core, [Next]_vars
      PROVE  /\ \A p \in SnapshotId : snapshots[p] # Null => snapshots'[p] = snapshots[p]
             /\ \A k \in CapsuleId : capsules[k] # Null => capsules'[k] = capsules[k]
  <2>1. CASE UNCHANGED <<snapshots, capsules>>
    BY <2>1
  <2>2. CASE \E s \in Session : Publishes(s)
    <3>1. PICK s \in Session : Publishes(s)
      BY <2>2
    <3>2. PICK id \in SnapshotId : PublishedAs(s, id)
      BY <1>1, <3>1, PublishEffect, Zenon
    <3>3. PICK t \in issued, now \in Now, job \in JobId, c \in Candidates(s) :
            s = jobs[t.job].session /\ PublishCommitted(t, c, job, now)
      BY <3>1 DEF Publishes
    <3>4. ASSUME NEW k \in CapsuleId, capsules[k] # Null
          PROVE  capsules'[k] = capsules[k]
      BY <3>3, <3>4, ZenonT(40) DEF PublishCommitted, InsertCapsules, InsertConflict
    <3> QED
      BY <3>2, <3>4, Zenon DEF PublishedAs
  <2> QED
    BY <1>1, <2>1, <2>2, StepKinds, Zenon DEF storeVars, contentVars
<1>2. TypeOK /\ Core /\ [Next]_vars =>
        [/\ \A p \in SnapshotId : snapshots[p] # Null => snapshots'[p] = snapshots[p]
         /\ \A k \in CapsuleId : capsules[k] # Null => capsules'[k] = capsules[k]]_vars
  BY <1>1
<1> QED
  BY <1>2, CoreInvariant, PTL DEF Spec, CommittedRowsImmutable

----------------------------------------------------------------------------
(* One line of snapshots per session *)

(* Every step of the repository extends the line of snapshots or leaves    *)
(* it.                                                                     *)
LEMMA LinearStep ==
    ASSUME TypeOK, TypeOK', Core, LinearHistory, [Next]_vars
    PROVE  LinearHistory'
<1>1. CASE UNCHANGED <<journalVars, contentVars>>
  <2>1. /\ snapshots' = snapshots /\ active_snapshots' = active_snapshots
        /\ next_event_sequence' = next_event_sequence
    BY <1>1 DEF journalVars, contentVars
  <2> QED
    BY <2>1, Zenon DEF LinearHistory, Coverage, SnapshotCoverage, HighWaterMark
<1>2. CASE JournalNext /\ UNCHANGED storeVars
  <2>1. snapshots' = snapshots /\ active_snapshots' = active_snapshots
    BY <1>2, Zenon DEF storeVars
  <2>2. \A s \in Session : /\ HighWaterMark(s)' >= HighWaterMark(s)
                           /\ HighWaterMark(s) \in Nat /\ HighWaterMark(s)' \in Nat
    BY <1>2, JournalGrows, Zenon DEF TypeOK
  <2>3. \A p \in SnapshotId : snapshots[p] # Null =>
          snapshots[p].session \in Session /\ snapshots[p].covered \in Nat
    BY Zenon DEF TypeOK, SnapshotRow
  <2>4. \A s \in Session : Coverage(s)' = Coverage(s)
    BY <2>1, Zenon DEF Coverage, SnapshotCoverage
  <2>5. \A p \in SnapshotId : snapshots[p] # Null =>
          snapshots[p].covered <= HighWaterMark(snapshots[p].session)'
    BY <2>1, <2>2, <2>3 DEF LinearHistory
  <2> QED
    BY <2>1, <2>3, <2>4, <2>5, Zenon DEF LinearHistory, HighWaterMark
<1>3. CASE \E s \in Session : Publishes(s)
  <2>1. PICK s \in Session : Publishes(s)
    BY <1>3, Zenon
  <2>2. PICK id \in SnapshotId : PublishedAs(s, id)
    BY <2>1, PublishEffect, Zenon
  <2>3. \A r \in Session : /\ PointerSound(r) /\ Coverage(r) \in Nat
                           /\ HighWaterMark(r)' = HighWaterMark(r)
                           /\ HighWaterMark(r) \in Nat
                           /\ active_snapshots[r].id \in SnapshotId \cup {Null}
    BY <2>2, CoverageType
    DEF Core, PublishedAs, journalVars, HighWaterMark, TypeOK, JournalTypeOK, Pointer
  <2>4. \A p \in SnapshotId : snapshots[p] # Null =>
          /\ snapshots[p].session \in Session /\ snapshots[p].covered \in Nat
          /\ snapshots[p].base \in SnapshotId \cup {Null}
    BY DEF TypeOK, SnapshotRow
  <2>5. id # Null
    BY NullAssumption, Zenon
  <2>6. ASSUME NEW p \in SnapshotId, snapshots'[p] # Null
        PROVE  /\ active_snapshots'[snapshots'[p].session].id # Null
               /\ snapshots'[p].base # Null =>
                     /\ snapshots'[snapshots'[p].base] # Null
                     /\ snapshots'[snapshots'[p].base].session = snapshots'[p].session
                     /\ snapshots'[snapshots'[p].base].covered < snapshots'[p].covered
               /\ snapshots'[p].base # active_snapshots'[snapshots'[p].session].id
               /\ snapshots'[p].covered <= HighWaterMark(snapshots[p].session)'
    <3>1. CASE p = id
      <4>1. /\ active_snapshots'[s].id = id /\ snapshots'[p].session = s
            /\ snapshots'[p].base = active_snapshots[s].id
            /\ snapshots'[p].covered > Coverage(s)
            /\ snapshots'[p].covered <= HighWaterMark(s)
        BY <2>2, <3>1 DEF PublishedAs
      <4>2. active_snapshots[s].id # Null =>
              /\ active_snapshots[s].id # id
              /\ snapshots[active_snapshots[s].id] # Null
              /\ snapshots'[active_snapshots[s].id] = snapshots[active_snapshots[s].id]
              /\ snapshots[active_snapshots[s].id].session = s
              /\ snapshots[active_snapshots[s].id].covered = Coverage(s)
        BY <2>2, <2>3, Zenon DEF PublishedAs, PointerSound, Coverage, SnapshotCoverage
      <4>3. snapshots'[p].covered <= HighWaterMark(snapshots[p].session)'
        BY <2>2, <2>3, <4>1, Zenon DEF PublishedAs, journalVars, HighWaterMark
      <4> QED
        BY <2>2, <2>3, <2>5, <4>1, <4>2, <4>3, Zenon DEF PublishedAs
    <3>2. CASE p # id
      <4>1. snapshots'[p] = snapshots[p] /\ snapshots[p].session \in Session
        BY <2>2, <2>4, <2>6, <3>2, Zenon DEF PublishedAs
      <4>2. \A b \in SnapshotId : snapshots[b] # Null =>
              b # id /\ snapshots'[b] = snapshots[b]
        BY <2>2, Zenon DEF PublishedAs
      <4>3. /\ active_snapshots[snapshots[p].session].id # Null
            /\ snapshots[p].base # Null =>
                  /\ snapshots[snapshots[p].base] # Null
                  /\ snapshots[snapshots[p].base].session = snapshots[p].session
                  /\ snapshots[snapshots[p].base].covered < snapshots[p].covered
            /\ snapshots[p].base # active_snapshots[snapshots[p].session].id
            /\ snapshots[p].covered <= HighWaterMark(snapshots[p].session)
        BY <2>6, <4>1, Zenon DEF LinearHistory
      <4>4. snapshots[p].base # id
        BY <2>2, <2>4, <2>5, <2>6, <4>1, <4>2, <4>3, Zenon
      <4>5. active_snapshots'[snapshots[p].session].id =
              IF snapshots[p].session = s THEN id
              ELSE active_snapshots[snapshots[p].session].id
        BY <2>2, <4>1 DEF PublishedAs
      <4>6. snapshots'[p].covered <= HighWaterMark(snapshots[p].session)'
        BY <2>2, <4>1, <4>3, Zenon DEF PublishedAs, journalVars, HighWaterMark
      <4> QED
        BY <2>4, <2>5, <2>6, <4>1, <4>2, <4>3, <4>4, <4>5, <4>6, Zenon
    <3> QED
      BY <3>1, <3>2, Zenon
  <2>7. ASSUME NEW p \in SnapshotId, snapshots'[p] # Null
        PROVE  snapshots'[p].covered <= Coverage(snapshots[p].session)'
    <3>1. ASSUME NEW r \in Session, r = snapshots'[p].session
          PROVE  snapshots'[p].covered <= Coverage(r)'
      <4>1. CASE p = id
        BY <2>2, <3>1, <4>1 DEF PublishedAs
      <4>2. CASE p # id
        <5>1. snapshots'[p] = snapshots[p] /\ snapshots[p].covered <= Coverage(r)
              /\ snapshots[p].covered \in Nat
          BY <2>2, <2>4, <2>7, <3>1, <4>2, Zenon DEF PublishedAs, LinearHistory
        <5>2. Coverage(r)' = Coverage(r) \/ (Coverage(r)' \in Nat /\ Coverage(r)' > Coverage(r))
          BY <2>2, ZenonT(40) DEF PublishedAs
        <5> QED
          BY <2>3, <5>1, <5>2
      <4> QED
        BY <4>1, <4>2, Zenon
    <3>2. snapshots'[p].session \in Session
      <4>1. snapshots' \in [SnapshotId -> SnapshotRow \cup {Null}]
        BY DEF TypeOK
      <4>2. snapshots'[p] \in SnapshotRow
        BY <2>7, <4>1, Zenon
      <4> QED
        BY <4>2 DEF SnapshotRow
    <3> QED
      BY <3>1, <3>2, Zenon DEF Coverage
  <2>8. ASSUME NEW p \in SnapshotId, snapshots'[p] # Null,
               NEW q \in SnapshotId, snapshots'[q] # Null,
               snapshots'[q].session = snapshots'[p].session,
               snapshots'[q].base = snapshots'[p].base
                 \/ snapshots'[q].covered = snapshots'[p].covered
        PROVE  q = p
    <3>1. CASE p # id /\ q # id
      <4>1. snapshots'[p] = snapshots[p] /\ snapshots'[q] = snapshots[q]
        BY <2>2, <3>1, Zenon DEF PublishedAs
      <4>2. /\ snapshots[p] # Null /\ snapshots[q] # Null
            /\ snapshots[q].session = snapshots[p].session
            /\ snapshots[q].base = snapshots[p].base
                 \/ snapshots[q].covered = snapshots[p].covered
        BY <2>8, <4>1, Zenon
      <4> QED
        BY <2>2, <4>2, Zenon DEF LinearHistory
    <3>2. ASSUME NEW o \in SnapshotId, o # id, snapshots'[o] # Null,
                 snapshots'[o].session = s
          PROVE  /\ snapshots'[o].base # snapshots'[id].base
                 /\ snapshots'[o].covered # snapshots'[id].covered
      <4>1. snapshots'[o] = snapshots[o]
        BY <2>2, <3>2, Zenon DEF PublishedAs
      <4>2. snapshots[o].base # active_snapshots[s].id /\ snapshots[o].covered <= Coverage(s)
            /\ snapshots[o].covered \in Nat
        BY <2>4, <3>2, <4>1, Zenon DEF LinearHistory
      <4>3. /\ snapshots'[id].base = active_snapshots[s].id
            /\ snapshots'[id].covered \in Nat /\ snapshots'[id].covered > Coverage(s)
        BY <2>2, Zenon DEF PublishedAs
      <4>4. Coverage(s) \in Nat
        BY <2>3, Zenon
      <4> QED
        BY <4>1, <4>2, <4>3, <4>4
    <3>3. snapshots'[id].session = s
      BY <2>2 DEF PublishedAs
    <3> QED
      BY <2>8, <3>1, <3>2, <3>3, Zenon
  <2> QED
    BY <2>6, <2>7, <2>8, Zenon DEF LinearHistory
<1> QED
  BY <1>1, <1>2, <1>3, StepKinds, Zenon

(* Snapshots of a session never fork, for any number of workers.           *)
THEOREM HistoryLinear == Spec => []LinearHistory
<1>1. Init => LinearHistory
  BY DEF Init, LinearHistory
<1>2. TypeOK /\ TypeOK' /\ Core /\ LinearHistory /\ [Next]_vars => LinearHistory'
  BY LinearStep, Zenon
<1> QED
  BY <1>1, <1>2, CoreInvariant, PTL DEF Spec

----------------------------------------------------------------------------
(* The repository implements SnapshotHistory *)

(* An empty store is an empty history.                                     *)
LEMMA HistoryInitial == Init => History!HistoryInit
<1>1. Init => \A s \in Session : /\ Coverage(s) = 0 /\ HighWaterMark(s) = 0
                                 /\ active_snapshots[s].version = 0
  BY DEF Init, JournalInit, HighWaterMark, Coverage, SnapshotCoverage
<1> QED
  BY <1>1, Zenon DEF Init, JournalInit, History!HistoryInit

(* A capture appends one event, and nothing else touches the journal.      *)
LEMMA AppendStep ==
    ASSUME TypeOK, JournalNext, UNCHANGED storeVars
    PROVE  [History!HistoryNext]_History!historyVars
<1> DEFINE hwm == [s \in Session |-> HighWaterMark(s)]
<1>1. /\ [s \in Session |-> Coverage(s)]' = [s \in Session |-> Coverage(s)]
      /\ [s \in Session |-> active_snapshots[s].version]' =
            [s \in Session |-> active_snapshots[s].version]
  BY Zenon DEF storeVars, Coverage, SnapshotCoverage
<1>2. ASSUME NEW d \in Delivery, NEW count \in Observed, CaptureEvent(d, count)
      PROVE  d.session \in Session /\ hwm' = [hwm EXCEPT ![d.session] = @ + 1]
  BY <1>2, DeliveryAssumption DEF CaptureEvent, HighWaterMark, TypeOK, JournalTypeOK
<1>3. ASSUME UNCHANGED next_event_sequence
      PROVE  hwm' = hwm
  BY <1>3 DEF HighWaterMark
<1>4. hwm' = hwm \/ \E s \in Session : hwm' = [hwm EXCEPT ![s] = @ + 1]
  BY <1>2, <1>3, ZenonT(30) DEF JournalNext, ReplayEvent, WriteMetricBackfillBatch
<1> QED
  BY <1>1, <1>4, ZenonT(30) DEF History!HistoryNext, History!Append, History!historyVars

(* A publication replaces the snapshot of one session.                     *)
LEMMA ReplaceStep ==
    ASSUME TypeOK, Core, NEW s \in Session, Publishes(s)
    PROVE  History!HistoryNext
<1> DEFINE hwm == [r \in Session |-> HighWaterMark(r)]
           cov == [r \in Session |-> Coverage(r)]
           ver == [r \in Session |-> active_snapshots[r].version]
<1>1. PICK id \in SnapshotId : PublishedAs(s, id)
  BY PublishEffect, Zenon
<1>2. Coverage(s) \in Nat /\ HighWaterMark(s) \in Nat
  BY CoverageType DEF Core, TypeOK, JournalTypeOK, HighWaterMark
<1>3. snapshots'[id].covered \in Coverage(s) + 1 .. HighWaterMark(s)
  BY <1>1, <1>2 DEF PublishedAs
<1>4. hwm' = hwm
  BY <1>1 DEF PublishedAs, journalVars, HighWaterMark
<1>5. cov' = [cov EXCEPT ![s] = snapshots'[id].covered]
  BY <1>1, ZenonT(30) DEF PublishedAs
<1>6. ver' = [ver EXCEPT ![s] = @ + 1]
  <2>1. /\ active_snapshots'[s].version = active_snapshots[s].version + 1
        /\ \A r \in Session \ {s} :
              active_snapshots'[r].version = active_snapshots[r].version
    BY <1>1 DEF PublishedAs
  <2> QED
    BY <2>1, ZenonT(30)
<1>7. History!Replace(s)
  <2>1. snapshots'[id].covered \in cov[s] + 1 .. hwm[s]
    BY <1>3
  <2> HIDE DEF cov, hwm, ver
  <2> QED
    BY <1>4, <1>5, <1>6, <2>1, ZenonT(30) DEF History!Replace, cov, hwm, ver
<1> QED
  BY <1>7 DEF History!HistoryNext

(* Every behaviour of the repository is one of the abstract history.       *)
THEOREM RepositoryImplementsHistory == Spec => ImplementsHistory
<1>1. ASSUME TypeOK, Core, [Next]_vars
      PROVE  [History!HistoryNext]_History!historyVars
  <2>1. CASE UNCHANGED <<journalVars, contentVars>>
    BY <2>1 DEF History!historyVars, journalVars, contentVars, HighWaterMark,
        Coverage, SnapshotCoverage
  <2> QED
    BY <1>1, <2>1, AppendStep, ReplaceStep, StepKinds, Zenon
<1>2. TypeOK /\ Core /\ [Next]_vars => [History!HistoryNext]_History!historyVars
  BY <1>1, Zenon
<1> QED
  BY <1>2, HistoryInitial, CoreInvariant, PTL
  DEF Spec, ImplementsHistory, History!HistorySpec

----------------------------------------------------------------------------
(* The read transactions *)

(* Every committed snapshot, active or not, has its capsules and metrics.  *)
SnapshotsStored ==
    \A p \in SnapshotId : snapshots[p] # Null =>
        /\ snapshots[p].capsules # {}
        /\ snapshot_metrics[p] # NoCount
        /\ \A k \in snapshots[p].capsules :
              /\ capsules[k] # Null
              /\ capsules[k].session = snapshots[p].session
              /\ capsule_metrics[k] # NoCount

(* What a publication stores stays stored, counted and in its session.     *)
LEMMA StoredStep ==
    ASSUME TypeOK, Core, SnapshotsStored, [Next]_vars
    PROVE  SnapshotsStored'
<1>1. CASE UNCHANGED contentVars
  BY <1>1, Zenon DEF SnapshotsStored, contentVars
<1>2. CASE \E s \in Session : Publishes(s)
  <2>1. PICK s \in Session : Publishes(s)
    BY <1>2, Zenon
  <2>2. PICK t \in issued, now \in Now, job \in JobId, c \in Candidates(s) :
          s = jobs[t.job].session /\ PublishCommitted(t, c, job, now)
    BY <2>1, Zenon DEF Publishes
  <2>3. /\ c.id \in SnapshotId /\ c.count \in Count /\ c.count # NoCount
        /\ DOMAIN c.members \subseteq CapsuleId /\ DOMAIN c.members # {}
        /\ \A k \in DOMAIN c.members : c.members[k] \in Content
    BY CandidateType, NoCountAssumption, Zenon
  <2>4. \A k \in DOMAIN c.members : [session |-> s, content |-> c.members[k]] # Null
    BY <2>3, NullAssumption DEF CapsuleRow
  <2>5. \A k \in CapsuleId : IF k \in DOMAIN c.members
          THEN /\ capsules'[k] = [session |-> s, content |-> c.members[k]]
               /\ capsule_metrics'[k] = c.count
          ELSE capsules'[k] = capsules[k] /\ capsule_metrics'[k] = capsule_metrics[k]
    BY <2>2, ZenonT(40) DEF PublishCommitted, InsertCapsules, PutCandidateMetrics
  <2>6. \A k \in DOMAIN c.members :
          capsules[k] # Null => capsules[k] = [session |-> s, content |-> c.members[k]]
    BY <2>2, ZenonT(40) DEF PublishCommitted, InsertConflict
  <2>7. \A p \in SnapshotId : IF p = c.id
          THEN /\ snapshots'[p] = [session |-> s, base |-> c.base, covered |-> c.covered,
                                   capsules |-> DOMAIN c.members]
               /\ snapshot_metrics'[p] = c.count
          ELSE snapshots'[p] = snapshots[p] /\ snapshot_metrics'[p] = snapshot_metrics[p]
    BY <2>2, <2>3, Zenon DEF PublishCommitted, InsertCommittedSnapshot, PutCandidateMetrics, TypeOK
  <2>8. ASSUME NEW p \in SnapshotId, snapshots'[p] # Null
        PROVE  /\ snapshots'[p].capsules # {}
               /\ snapshot_metrics'[p] # NoCount
               /\ \A k \in snapshots'[p].capsules :
                     /\ capsules'[k] # Null
                     /\ capsules'[k].session = snapshots'[p].session
                     /\ capsule_metrics'[k] # NoCount
    <3>1. CASE p = c.id
      <4>1. /\ snapshots'[p].capsules = DOMAIN c.members /\ snapshots'[p].session = s
            /\ snapshot_metrics'[p] = c.count
        BY <2>7, <3>1
      <4>2. ASSUME NEW k \in DOMAIN c.members
            PROVE  /\ capsules'[k] # Null /\ capsules'[k].session = s
                   /\ capsule_metrics'[k] = c.count
        <5>1. capsules'[k] = [session |-> s, content |-> c.members[k]]
              /\ capsule_metrics'[k] = c.count
          BY <2>3, <2>5
        <5> QED
          BY <2>4, <5>1
      <4> QED
        BY <2>3, <4>1, <4>2, Zenon
    <3>2. CASE p # c.id
      <4>1. snapshots'[p] = snapshots[p] /\ snapshots[p].capsules \subseteq CapsuleId
        BY <2>7, <2>8, <3>2, ZenonT(40) DEF TypeOK, SnapshotRow
      <4>2. ASSUME NEW k \in snapshots[p].capsules
            PROVE  /\ capsules'[k] # Null /\ capsule_metrics'[k] # NoCount
                   /\ capsules'[k].session = capsules[k].session
        <5>1. k \in CapsuleId /\ capsules[k] # Null /\ capsule_metrics[k] # NoCount
          BY <2>8, <4>1, <4>2, Zenon DEF SnapshotsStored
        <5>2. CASE k \in DOMAIN c.members
          <6>1. capsules'[k] = capsules[k] /\ capsule_metrics'[k] = c.count
            BY <2>5, <2>6, <5>1, <5>2, ZenonT(30)
          <6> QED
            BY <2>3, <5>1, <6>1
        <5>3. CASE k \notin DOMAIN c.members
          BY <2>5, <5>1, <5>3, ZenonT(30)
        <5> QED
          BY <5>2, <5>3, Zenon
      <4> QED
        BY <2>7, <2>8, <3>2, <4>1, <4>2 DEF SnapshotsStored
    <3> QED
      BY <3>1, <3>2, ZenonT(40)
  <2> QED
    BY <2>8 DEF SnapshotsStored
<1> QED
  BY <1>1, <1>2, StepKinds, Zenon DEF storeVars, contentVars

ReadInv == TypeOK /\ Core /\ SnapshotsStored /\ JournalContiguous

(* The facts that the two read transactions rest on.                       *)
LEMMA ReadInvariant == Spec => []ReadInv
<1>1. Init => SnapshotsStored
  BY ZenonT(40) DEF Init, SnapshotsStored
<1>2. TypeOK /\ Core /\ SnapshotsStored /\ [Next]_vars => SnapshotsStored'
  BY StoredStep
<1>3. Init => JournalContiguous
  BY ContiguousInit DEF Init
<1>4. TypeOK /\ JournalContiguous /\ [Next]_vars => JournalContiguous'
  <2> SUFFICES ASSUME TypeOK, JournalContiguous, [Next]_vars
               PROVE  JournalContiguous'
    OBVIOUS
  <2>1. CASE JournalNext
    BY <2>1, ContiguousStep DEF TypeOK
  <2>2. CASE UNCHANGED journalVars
    BY <2>2, ContiguousStutter
  <2> QED
    BY <2>1, <2>2, StepKinds, ZenonT(40) DEF Publishes, PublishCommitted
<1> QED
  BY <1>1, <1>2, <1>3, <1>4, CoreInvariant, PTL DEF Spec, ReadInv

(* The events between two points of a contiguous journal.                  *)
LEMMA DeltaComplete ==
    ASSUME TypeOK, JournalContiguous, NEW s \in Session, NEW covered \in Nat,
           NEW end \in Nat, end <= HighWaterMark(s)
    PROVE  Delta(s, covered, end) = covered + 1 .. end
<1>1. \A r \in journal_events : r.sequence \in Nat
  BY Zenon DEF TypeOK, JournalTypeOK, EventRow
<1>2. HighWaterMark(s) \in Nat
  BY DEF TypeOK, JournalTypeOK, HighWaterMark
<1>3. ASSUME NEW n \in covered + 1 .. end
      PROVE  n \in Delta(s, covered, end)
  <2>1. PICK r \in journal_events : r.session = s /\ r.sequence = n
    BY <1>2 DEF JournalContiguous
  <2> QED
    BY <2>1 DEF Delta
<1>4. ASSUME NEW n \in Delta(s, covered, end)
      PROVE  n \in covered + 1 .. end
  BY <1>1 DEF Delta
<1> QED
  BY <1>3, <1>4, ZenonT(30)

(* The snapshot that the active pointer names can be read.                 *)
LEMMA ActiveReadable ==
    ASSUME ReadInv, NEW s \in Session
    PROVE  ReadableSnapshot(active_snapshots[s].id, s)
<1> DEFINE id == active_snapshots[s].id
<1>1. id \in SnapshotId \cup {Null} /\ PointerSound(s) /\ SnapshotsStored
  BY Zenon DEF ReadInv, Core, TypeOK, Pointer
<1>2. id # Null => id \in SnapshotId /\ snapshots[id] # Null /\ snapshots[id].session = s
  BY <1>1, Zenon DEF PointerSound
<1> HIDE DEF id
<1>3. ReadableSnapshot(id, s)
  BY <1>1, <1>2 DEF SnapshotsStored, ReadableSnapshot
<1> QED
  BY <1>3, Zenon DEF id

(* A request view can always be read, and everything in it is counted.     *)
THEOREM RequestViewsReadable == Spec => []RequestViewSound
<1>1. ASSUME ReadInv, NEW s \in Session
      PROVE  LET id == active_snapshots[s].id IN
             /\ ReadRequestView(s)
             /\ (id = Null) <=> (active_snapshots[s].version = 0)
             /\ id # Null =>
                   /\ snapshot_metrics[id] # NoCount
                   /\ \A k \in snapshots[id].capsules : capsule_metrics[k] # NoCount
  <2>1. /\ TypeOK /\ JournalContiguous /\ PointerSound(s)
        /\ active_snapshots[s].id \in SnapshotId \cup {Null}
    BY <1>1, Zenon DEF ReadInv, Core, TypeOK, Pointer
  <2>2. /\ Coverage(s) \in Nat /\ Coverage(s) <= HighWaterMark(s)
        /\ HighWaterMark(s) \in Nat
    BY <2>1, CoverageType DEF TypeOK, JournalTypeOK, HighWaterMark
  <2>3. ReadRequestView(s)
    BY <1>1, <2>1, <2>2, DeltaComplete, ActiveReadable DEF ReadRequestView
  <2> QED
    BY <1>1, <2>1, <2>3, Zenon DEF ReadInv, SnapshotsStored, PointerSound
<1>2. ReadInv => RequestViewSound
  BY <1>1, Zenon DEF RequestViewSound
<1> QED
  BY <1>2, ReadInvariant, PTL

(* The frozen input of a working job can always be read and is not empty.  *)
THEOREM CompactionViewsReadable == Spec => []CompactionViewSound
<1>1. ASSUME ReadInv, NEW j \in JobId, jobs[j] # Null, jobs[j].state \in WorkingStates
      PROVE  /\ ReadCompactionView(jobs[j])
             /\ SnapshotCoverage(jobs[j].base) < jobs[j].target
  <2> DEFINE s == jobs[j].session
  <2>1. TypeOK /\ JournalContiguous /\ jobs[j] \in JobRow /\ RowSound(jobs[j])
    BY <1>1, Zenon DEF ReadInv, Core, TypeOK
  <2>2. /\ s \in Session /\ jobs[j].target \in Nat /\ jobs[j].intent \in Nat
        /\ PointerSound(s)
    BY <1>1, <2>1 DEF JobRow, ReadInv, Core
  <2>3. /\ active_snapshots[s].id = jobs[j].base
        /\ Coverage(s) = SnapshotCoverage(jobs[j].base)
        /\ jobs[j].target > Coverage(s)
        /\ jobs[j].base = Null => jobs[j].version = 0
    <3>1. /\ active_snapshots[s] = [id |-> jobs[j].base, version |-> jobs[j].version]
          /\ jobs[j].target > Coverage(s)
          /\ ValidateConditionals(jobs[j])
      BY <1>1, <2>1, ZenonT(40) DEF RowSound
    <3>2. jobs[j].base = Null => jobs[j].version = 0
      BY <3>1, Zenon DEF ValidateConditionals
    <3>3. active_snapshots[s].id = jobs[j].base
      BY <3>1
    <3> QED
      BY <3>1, <3>2, <3>3, ZenonT(40) DEF Coverage
  <2>4. /\ Coverage(s) \in Nat /\ HighWaterMark(s) \in Nat
        /\ jobs[j].target <= HighWaterMark(s)
    BY <2>1, <2>2, CoverageType DEF TypeOK, JournalTypeOK, HighWaterMark, RowSound
  <2>5. Delta(s, Coverage(s), jobs[j].target) = Coverage(s) + 1 .. jobs[j].target
    BY <2>1, <2>2, <2>4, DeltaComplete, ZenonT(40)
  <2>6. ReadableSnapshot(jobs[j].base, s)
    <3>1. ReadableSnapshot(active_snapshots[s].id, s)
      BY <1>1, <2>2, ActiveReadable, Zenon
    <3> QED
      BY <2>3, <3>1, Zenon
  <2> QED
    <3>1. SnapshotCoverage(jobs[j].base) < jobs[j].target
      BY <2>2, <2>3, <2>4, Zenon
    <3>2. SnapshotCoverage(jobs[j].base) <= jobs[j].target
      BY <2>2, <2>3, <2>4
    <3>3. Delta(s, SnapshotCoverage(jobs[j].base), jobs[j].target) =
            SnapshotCoverage(jobs[j].base) + 1 .. jobs[j].target
      BY <2>3, <2>5, Zenon
    <3> QED
      BY <2>3, <2>6, <3>1, <3>2, <3>3, ZenonT(40) DEF ReadCompactionView
<1>2. ReadInv => CompactionViewSound
  BY <1>1 DEF CompactionViewSound
<1> QED
  BY <1>2, ReadInvariant, PTL
=============================================================================
