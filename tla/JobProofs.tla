----------------------------- MODULE JobProofs -----------------------------
(***************************************************************************)
(* The journal's theorems, for every set of sessions, deliveries, counts   *)
(* and event ids; type correctness of the repository, for every number of  *)
(* sessions, events, jobs, workers, snapshots and capsules and every bound *)
(* on time; then the inductive invariant of the repository, and why        *)
(* raising an intent, claiming, recovering and the fenced operations of a  *)
(* worker other than publication preserve it.                              *)
(***************************************************************************)
EXTENDS Repository, TLAPS

(* Captures, replays and backfills keep the shape of the journal tables.   *)
LEMMA JournalTypeStep ==
    ASSUME JournalTypeOK, JournalNext
    PROVE  JournalTypeOK'
<1> USE DEF JournalTypeOK
<1>1. ASSUME NEW d \in Delivery, NEW count \in Observed,
             CaptureEvent(d, count)
      PROVE  JournalTypeOK'
  <2>1. /\ d.session \in Session /\ d.id \in EventId
        /\ d.key \in IdemKey /\ d.payload \in Payload
        /\ count \in Count \cup {NoCount}
    BY DeliveryAssumption, NoCountAssumption
  <2>2. event_metrics' \in [EventId -> Count \cup {NoCount}]
    BY <1>1, <2>1 DEF CaptureEvent, RecordCanonicalObservation
  <2>3. backfill_intents' \subseteq EventId
    BY <1>1, <2>1 DEF CaptureEvent, RecordCanonicalObservation
  <2>4. /\ next_event_sequence' \in [Session -> Nat \ {0}]
        /\ journal_events' \subseteq EventRow
    BY <1>1, <2>1 DEF CaptureEvent, EventRow
  <2> QED
    BY <2>2, <2>3, <2>4
<1>2. ASSUME NEW d \in Delivery, NEW count \in Observed, ReplayEvent(d, count)
      PROVE  JournalTypeOK'
  BY <1>2, DeliveryAssumption, NoCountAssumption
  DEF ReplayEvent, RecordCanonicalObservation
<1>3. ASSUME NEW s \in Session, NEW batch \in SUBSET EventId,
             NEW count \in [batch -> Count], WriteMetricBackfillBatch(s, batch, count)
      PROVE  JournalTypeOK'
  BY <1>3 DEF WriteMetricBackfillBatch
<1> QED
  BY <1>1, <1>2, <1>3, Zenon DEF JournalNext

(* The journal only grows.                                                 *)
LEMMA JournalGrows ==
    ASSUME JournalTypeOK, JournalNext, NEW s \in Session
    PROVE  HighWaterMark(s)' \in Nat /\ HighWaterMark(s) \in Nat
           /\ HighWaterMark(s)' >= HighWaterMark(s)
BY DeliveryAssumption DEF JournalTypeOK, JournalNext, CaptureEvent, ReplayEvent,
    WriteMetricBackfillBatch, HighWaterMark

(* An empty journal has the shape of its tables.                           *)
LEMMA JournalInitType == JournalInit => JournalTypeOK
BY DEF JournalInit, JournalTypeOK

(* Every state the journal reaches has the shape of its tables.            *)
THEOREM JournalTypeCorrect == JournalSpec => []JournalTypeOK
<1>1. JournalTypeOK /\ UNCHANGED journalVars => JournalTypeOK'
  BY DEF JournalTypeOK, journalVars
<1> QED
  BY <1>1, JournalInitType, JournalTypeStep, PTL DEF JournalSpec

----------------------------------------------------------------------------
(* Sequence numbers *)

(* A capture appends the next sequence; replays and backfills add none.    *)
LEMMA ContiguousStep ==
    ASSUME JournalTypeOK, JournalContiguous, JournalNext
    PROVE  JournalContiguous'
<1>1. ASSUME NEW d \in Delivery, NEW count \in Observed, CaptureEvent(d, count)
      PROVE  JournalContiguous'
  <2> DEFINE n == next_event_sequence[d.session]
             new == [session |-> d.session, id |-> d.id, key |-> d.key,
                     payload |-> d.payload, sequence |-> n]
  <2>1. d.session \in Session /\ n \in Nat \ {0}
    BY DeliveryAssumption DEF JournalTypeOK
  <2>2. /\ journal_events' = journal_events \cup {new}
        /\ next_event_sequence' = [next_event_sequence EXCEPT ![d.session] = @ + 1]
    BY <1>1 DEF CaptureEvent
  <2>3. /\ HighWaterMark(d.session) = n - 1 /\ HighWaterMark(d.session)' = n
        /\ \A s \in Session \ {d.session} : HighWaterMark(s)' = HighWaterMark(s)
        /\ \A s \in Session : HighWaterMark(s) \in Nat
    BY <2>1, <2>2 DEF HighWaterMark, JournalTypeOK
  <2>4. new.session = d.session /\ new.sequence = n
    OBVIOUS
  <2>5. \A r \in journal_events : r.session \in Session /\ r.sequence \in Nat \ {0}
    BY DEF JournalTypeOK, EventRow
  <2>6. \A r \in journal_events : r.session = d.session => r.sequence <= n - 1
    BY <2>3 DEF JournalContiguous
  <2> HIDE DEF n, new
  <2>7. \A r \in journal_events' : r.sequence <= HighWaterMark(r.session)'
    <3>1. ASSUME NEW r \in journal_events
          PROVE  r.sequence <= HighWaterMark(r.session)'
      BY <2>1, <2>3, <2>5, <2>6 DEF JournalContiguous
    <3> QED
      BY <2>1, <2>2, <2>3, <2>4, <3>1
  <2>8. ASSUME NEW s \in Session, NEW m \in 1 .. HighWaterMark(s)'
        PROVE  \E r \in journal_events' : r.session = s /\ r.sequence = m
    <3>1. CASE s = d.session /\ m = n
      BY <2>2, <2>4, <3>1
    <3>2. CASE ~(s = d.session /\ m = n)
      <4>1. m \in 1 .. HighWaterMark(s)
        BY <2>1, <2>3, <3>2
      <4> QED
        BY <2>2, <4>1 DEF JournalContiguous
    <3> QED
      BY <3>1, <3>2
  <2>9. \A q, r \in journal_events' :
          q.session = r.session /\ q.sequence = r.sequence => q = r
    BY <2>1, <2>2, <2>4, <2>5, <2>6 DEF JournalContiguous
  <2> QED
    BY <2>7, <2>8, <2>9 DEF JournalContiguous
<1>2. ASSUME UNCHANGED <<next_event_sequence, journal_events>>
      PROVE  JournalContiguous'
  BY <1>2 DEF JournalContiguous, HighWaterMark
<1> QED
  BY <1>1, <1>2 DEF JournalNext, ReplayEvent, WriteMetricBackfillBatch

(* Contiguity is a property of the journal tables alone.                   *)
LEMMA ContiguousStutter == JournalContiguous /\ UNCHANGED journalVars => JournalContiguous'
BY DEF JournalContiguous, HighWaterMark, journalVars

(* An empty journal is contiguous.                                         *)
LEMMA ContiguousInit == JournalInit => JournalContiguous
BY DEF JournalInit, JournalContiguous, HighWaterMark

(* Sequence numbers have neither gaps nor duplicates, for any deliveries.  *)
THEOREM SequencesContiguous == JournalSpec => []JournalContiguous
BY ContiguousInit, ContiguousStep, ContiguousStutter, JournalInitType,
   JournalTypeCorrect, PTL DEF JournalSpec

----------------------------------------------------------------------------
(* Idempotency *)

(* A capture is refused when its key or its event id is taken.             *)
LEMMA DeliveredStep ==
    ASSUME JournalTypeOK, DeliveredOnce, JournalNext
    PROVE  DeliveredOnce'
<1>1. ASSUME NEW d \in Delivery, NEW count \in Observed, CaptureEvent(d, count)
      PROVE  DeliveredOnce'
  <2> DEFINE new == [session |-> d.session, id |-> d.id, key |-> d.key,
                     payload |-> d.payload,
                     sequence |-> next_event_sequence[d.session]]
  <2>1. journal_events' = journal_events \cup {new}
    BY <1>1 DEF CaptureEvent
  <2>2. new.session = d.session /\ new.key = d.key /\ new.id = d.id
    OBVIOUS
  <2>3. \A r \in journal_events : ~(r.session = d.session /\ r.key = d.key) /\ r.id # d.id
    BY <1>1 DEF CaptureEvent, FindIdempotentEvent
  <2> HIDE DEF new
  <2> QED
    BY <2>1, <2>2, <2>3 DEF DeliveredOnce
<1>2. ASSUME UNCHANGED journal_events
      PROVE  DeliveredOnce'
  BY <1>2 DEF DeliveredOnce
<1> QED
  BY <1>1, <1>2 DEF JournalNext, ReplayEvent, WriteMetricBackfillBatch

(* A repeated delivery is journalled once, for any deliveries in any order. *)
THEOREM DeliveriesOnce == JournalSpec => []DeliveredOnce
<1>1. JournalInit => DeliveredOnce
  BY DEF JournalInit, DeliveredOnce
<1>2. DeliveredOnce /\ UNCHANGED journalVars => DeliveredOnce'
  BY DEF DeliveredOnce, journalVars
<1> QED
  BY <1>1, <1>2, DeliveredStep, JournalTypeCorrect, PTL DEF JournalSpec

----------------------------------------------------------------------------
(* Metrics *)

(* Recording an observation of an event supplies its metric or an intent.  *)
LEMMA ObservationRecorded ==
    ASSUME JournalTypeOK, NEW id \in EventId, NEW count \in Observed,
           RecordCanonicalObservation(id, count),
           (event_metrics[id] # NoCount) => (id \notin backfill_intents)
    PROVE  /\ (event_metrics'[id] = NoCount) <=> (id \in backfill_intents')
           /\ \A k \in EventId \ {id} :
                 /\ event_metrics'[k] = event_metrics[k]
                 /\ (k \in backfill_intents') <=> (k \in backfill_intents)
           /\ event_metrics[id] # NoCount => event_metrics'[id] = event_metrics[id]
BY NoCountAssumption DEF RecordCanonicalObservation, JournalTypeOK, MetricAgrees

(* Captures, replays and backfills each leave a metric or an intent.       *)
LEMMA CountedStep ==
    ASSUME JournalTypeOK, CountedOrIntended, JournalNext
    PROVE  CountedOrIntended'
<1>1. ASSUME NEW d \in Delivery, NEW count \in Observed, CaptureEvent(d, count)
      PROVE  CountedOrIntended'
  <2> DEFINE new == [session |-> d.session, id |-> d.id, key |-> d.key,
                     payload |-> d.payload,
                     sequence |-> next_event_sequence[d.session]]
  <2>1. d.id \in EventId /\ event_metrics[d.id] = NoCount
    BY <1>1, DeliveryAssumption DEF CaptureEvent, CountedOrIntended
  <2>2. /\ (event_metrics'[d.id] = NoCount) <=> (d.id \in backfill_intents')
        /\ \A k \in EventId \ {d.id} :
              /\ event_metrics'[k] = event_metrics[k]
              /\ (k \in backfill_intents') <=> (k \in backfill_intents)
    BY <1>1, <2>1, ObservationRecorded DEF CaptureEvent
  <2>3. journal_events' = journal_events \cup {new} /\ new.id = d.id
    BY <1>1 DEF CaptureEvent
  <2> HIDE DEF new
  <2> QED
    BY <2>1, <2>2, <2>3 DEF CountedOrIntended
<1>2. ASSUME NEW d \in Delivery, NEW count \in Observed, ReplayEvent(d, count)
      PROVE  CountedOrIntended'
  <2>1. PICK r \in journal_events : r.id = d.id
    BY <1>2 DEF ReplayEvent, FindIdempotentEvent
  <2>2. d.id \in EventId
    BY DeliveryAssumption
  <2>3. /\ (event_metrics'[d.id] = NoCount) <=> (d.id \in backfill_intents')
        /\ \A k \in EventId \ {d.id} :
              /\ event_metrics'[k] = event_metrics[k]
              /\ (k \in backfill_intents') <=> (k \in backfill_intents)
    BY <1>2, <2>1, <2>2, ObservationRecorded DEF ReplayEvent, CountedOrIntended
  <2>4. journal_events' = journal_events
    BY <1>2 DEF ReplayEvent
  <2> QED
    BY <2>1, <2>2, <2>3, <2>4 DEF CountedOrIntended
<1>3. ASSUME NEW s \in Session, NEW batch \in SUBSET EventId,
             NEW count \in [batch -> Count], WriteMetricBackfillBatch(s, batch, count)
      PROVE  CountedOrIntended'
  <2>1. \A id \in batch : /\ \E r \in journal_events : r.id = id
                          /\ event_metrics'[id] = count[id]
                          /\ count[id] # NoCount
                          /\ id \notin backfill_intents'
    BY <1>3, NoCountAssumption DEF WriteMetricBackfillBatch
  <2>2. \A id \in EventId \ batch : /\ event_metrics'[id] = event_metrics[id]
                                    /\ (id \in backfill_intents') <=> (id \in backfill_intents)
    BY <1>3 DEF WriteMetricBackfillBatch
  <2>3. journal_events' = journal_events
    BY <1>3 DEF WriteMetricBackfillBatch
  <2> QED
    BY <2>1, <2>2, <2>3 DEF CountedOrIntended
<1> QED
  BY <1>1, <1>2, <1>3 DEF JournalNext

(* An empty journal has nothing to count.                                  *)
LEMMA CountedInit == JournalInit => CountedOrIntended
BY DEF JournalInit, CountedOrIntended

(* Being counted is a property of the journal tables alone.                *)
LEMMA CountedStutter == CountedOrIntended /\ UNCHANGED journalVars => CountedOrIntended'
BY DEF CountedOrIntended, journalVars

(* No event loses its metric or its intent, and none has both.             *)
THEOREM CountsNeverForgotten == JournalSpec => []CountedOrIntended
BY CountedInit, CountedStep, CountedStutter, JournalTypeCorrect, PTL DEF JournalSpec

(* A metric, once written, is never overwritten.                           *)
THEOREM MetricsNeverChange == JournalSpec => MetricsWriteOnce
<1>1. ASSUME JournalTypeOK, [JournalNext]_journalVars, NEW id \in EventId,
             event_metrics[id] # NoCount
      PROVE  event_metrics'[id] = event_metrics[id]
  <2>1. CASE UNCHANGED journalVars
    BY <2>1 DEF journalVars
  <2>2. ASSUME NEW d \in Delivery, NEW count \in Observed,
               RecordCanonicalObservation(d.id, count)
        PROVE  event_metrics'[id] = event_metrics[id]
    BY <1>1, <2>2, DeliveryAssumption
    DEF RecordCanonicalObservation, MetricAgrees, JournalTypeOK
  <2>3. ASSUME NEW s \in Session, NEW batch \in SUBSET EventId,
               NEW count \in [batch -> Count], WriteMetricBackfillBatch(s, batch, count)
        PROVE  event_metrics'[id] = event_metrics[id]
    BY <1>1, <2>3 DEF WriteMetricBackfillBatch, MetricAgrees
  <2> QED
    BY <1>1, <2>1, <2>2, <2>3 DEF JournalNext, CaptureEvent, ReplayEvent
<1>2. JournalTypeOK /\ [JournalNext]_journalVars =>
        [\A id \in EventId :
           event_metrics[id] # NoCount => event_metrics'[id] = event_metrics[id]
        ]_journalVars
  BY <1>1
<1> QED
  BY <1>2, JournalTypeCorrect, PTL DEF JournalSpec, MetricsWriteOnce

-----------------------------------------------------------------------------

(* The member map of a candidate has a nonempty set of capsules as domain  *)
(* and assigns a content to each.                                          *)
LEMMA MembersType ==
    ASSUME NEW m \in Members
    PROVE  /\ DOMAIN m \subseteq CapsuleId
           /\ DOMAIN m # {}
           /\ \A k \in DOMAIN m : m[k] \in Content
<1>1. PICK K \in (SUBSET CapsuleId) \ {{}} : m \in [K -> Content]
  BY DEF Members
<1> QED
  BY <1>1

(* The time passed to an operation is a natural number.                    *)
LEMMA NowType == clock \in Nat => Now \subseteq Nat
BY DEF Now

(* A new job is a well-formed row.                                         *)
LEMMA NewJobType ==
    ASSUME NEW s \in Session, NEW target \in Nat, NEW v \in Nat, NEW now \in Nat,
           NEW base \in SnapshotId \cup {Null}
    PROVE  NewJob(s, target, base, v, now) \in JobRow
BY DEF NewJob, JobRow, NonterminalStates

(* Raising an intent keeps the shape of the store.                         *)
LEMMA RaiseType ==
    ASSUME TypeOK, Raise
    PROVE  TypeOK'
<1>1. ASSUME NEW s \in Session, NEW target \in 1 .. HighWaterMark(s),
             FoldCompactionIntent(s, target)
      PROVE  TypeOK'
  <2>1. target \in Nat
    OBVIOUS
  <2>2. PICK j \in Nonterminal(jobs, s) :
          jobs' = [jobs EXCEPT ![j] = Fold(@, target)]
    BY <1>1, ZenonT(30) DEF FoldCompactionIntent
  <2>3. j \in JobId /\ jobs[j] \in JobRow
    BY <2>2 DEF Nonterminal, TypeOK
  <2>4. Fold(jobs[j], target) \in JobRow
    BY <2>1, <2>3 DEF Fold, JobRow
  <2>5. jobs' \in [JobId -> JobRow \cup {Null}]
    BY <2>2, <2>3, <2>4, Zenon DEF TypeOK
  <2> QED
    BY <1>1, <2>1, <2>5 DEF FoldCompactionIntent, TypeOK, JournalTypeOK,
        journalVars, contentVars, Acknowledge
<1>2. ASSUME NEW s \in Session, NEW target \in 1 .. HighWaterMark(s),
             NEW id \in JobId, NEW now \in Now,
             CreateCompactionIntent(s, target, id, now)
      PROVE  TypeOK'
  <2>1. target \in Nat /\ now \in Nat
    BY NowType DEF TypeOK
  <2>2. /\ active_snapshots[s].id \in SnapshotId \cup {Null}
        /\ active_snapshots[s].version \in Nat
    BY DEF TypeOK, Pointer
  <2>3. NewJob(s, target, active_snapshots[s].id, active_snapshots[s].version, now)
          \in JobRow
    BY <2>1, <2>2, NewJobType
  <2>4. jobs' \in [JobId -> JobRow \cup {Null}]
    BY <1>2, <2>3, Zenon DEF CreateCompactionIntent, TypeOK
  <2> QED
    BY <1>2, <2>1, <2>4 DEF CreateCompactionIntent, TypeOK, JournalTypeOK,
        journalVars, contentVars, Acknowledge
<1> QED
  BY <1>1, <1>2 DEF Raise

(* Row updates keep rows well formed.                                      *)
LEMMA LeasedType ==
    ASSUME TypeOK, NEW row \in JobRow, NEW w \in Worker, NEW expires \in Nat
    PROVE  Leased(row, w, expires) \in JobRow
<1>1. row.session \in Session
  BY DEF JobRow
<1>2. /\ active_snapshots[row.session].id \in SnapshotId \cup {Null}
      /\ active_snapshots[row.session].version \in Nat
  BY <1>1 DEF TypeOK, Pointer
<1> QED
  BY <1>2 DEF Leased, JobRow, NonterminalStates, WorkingStates

(* A cancelled job is a well-formed row.                                   *)
LEMMA CancelledType == \A row \in JobRow : Cancelled(row) \in JobRow
BY ZenonT(30) DEF Cancelled, JobRow, TerminalStates

(* A released job is a well-formed row.                                    *)
LEMMA ReleasedType ==
    ASSUME NEW row \in JobRow, NEW retry \in Nat \cup {Null},
           NEW state \in {"FAILED", "RETRY_WAIT", "PENDING"}
    PROVE  Released(row, state, retry) \in JobRow
BY ZenonT(30) DEF Released, JobRow, NonterminalStates, TerminalStates

(* A claim keeps the shape of the store.                                   *)
LEMMA ClaimType ==
    ASSUME TypeOK, Claim
    PROVE  TypeOK'
<1>1. PICK w \in Worker, now \in Now : \E expires \in now + 1 .. now + MaxLease :
        ClaimJob(w, now, expires)
  BY DEF Claim
<1>2. now \in Nat
  BY NowType DEF TypeOK
<1>3. PICK expires \in now + 1 .. now + MaxLease : ClaimJob(w, now, expires)
  BY <1>1
<1>4. expires \in Nat
  BY <1>2, BoundAssumption
<1>5. ASSUME NEW j \in Eligible(now)
      PROVE  j \in JobId /\ jobs[j] \in JobRow
  BY <1>5 DEF Eligible, TypeOK
<1>6. Winner(now) \subseteq Eligible(now) /\ Overtaken(now) \subseteq Eligible(now)
  BY DEF Winner, Overtaken
<1>7. \A j \in Winner(now) : Leased(jobs[j], w, expires) \in JobRow
  BY <1>4, <1>5, <1>6, LeasedType
<1>8. \A j \in Overtaken(now) : Cancelled(jobs[j]) \in JobRow
  BY <1>5, <1>6, CancelledType, Zenon
<1>9. jobs' \in [JobId -> JobRow \cup {Null}]
  BY <1>3, <1>7, <1>8, Zenon DEF ClaimJob, TypeOK
<1>10. issued' \subseteq Token
  <2>1. \A j \in Winner(now) :
          [job |-> j, owner |-> w, epoch |-> jobs[j].epoch + 1] \in Token
    BY <1>5, <1>6 DEF Token, JobRow
  <2> QED
    BY <1>3, <2>1, Zenon DEF ClaimJob, TypeOK
<1> QED
  BY <1>3, <1>9, <1>10 DEF ClaimJob, TypeOK, JournalTypeOK, journalVars, contentVars

(* Recovery keeps the shape of the store.                                  *)
LEMMA RecoverType ==
    ASSUME TypeOK, NEW now \in Now, RecoverExpiredLeases(now)
    PROVE  TypeOK'
<1>1. \A j \in Expired(now) : Released(jobs[j], "PENDING", Null) \in JobRow
  BY ReleasedType, ZenonT(30) DEF Expired, TypeOK
<1>2. jobs' \in [JobId -> JobRow \cup {Null}]
  BY <1>1 DEF RecoverExpiredLeases, TypeOK
<1> QED
  BY <1>2 DEF RecoverExpiredLeases, TypeOK, JournalTypeOK, journalVars, contentVars

(* The job of a token that passes the fence.                               *)
LEMMA FencedRow ==
    ASSUME TypeOK, NEW t \in issued, NEW now, LiveFence(t, now)
    PROVE  /\ t.job \in JobId
           /\ jobs[t.job] \in JobRow
           /\ jobs[t.job].state \in WorkingStates
BY DEF TypeOK, LiveFence, Token

(* A stage transition keeps the shape of the store.                        *)
LEMMA TransitionType ==
    ASSUME TypeOK, NEW t \in issued, NEW now \in Now,
           NEW to \in WorkingStates, NEW candidate \in SnapshotId \cup {Null},
           TransitionJob(t, to, candidate, now)
    PROVE  TypeOK'
<1>1. t.job \in JobId /\ jobs[t.job] \in JobRow
  BY FencedRow DEF TransitionJob
<1>2. jobs' \in [JobId -> JobRow \cup {Null}]
  <2>1. [jobs[t.job] EXCEPT !.state = to, !.candidate = candidate] \in JobRow
    BY <1>1, ZenonT(30) DEF JobRow, NonterminalStates
  <2>2. jobs' = [jobs EXCEPT ![t.job] =
                   [jobs[t.job] EXCEPT !.state = to, !.candidate = candidate]]
    BY <1>1, ZenonT(30) DEF TransitionJob, TypeOK
  <2> QED
    BY <1>1, <2>1, <2>2 DEF TypeOK
<1> QED
  BY <1>2 DEF TransitionJob, TypeOK, JournalTypeOK, journalVars, contentVars

(* A lease renewal keeps the shape of the store.                           *)
LEMMA RenewType ==
    ASSUME TypeOK, NEW t \in issued, NEW now \in Now, NEW expires \in Nat,
           RenewJobLease(t, now, expires)
    PROVE  TypeOK'
<1>1. t.job \in JobId /\ jobs[t.job] \in JobRow
  BY FencedRow DEF RenewJobLease
<1>2. [jobs[t.job] EXCEPT !.expires = expires] \in JobRow
  BY <1>1 DEF JobRow
<1>3. jobs' \in [JobId -> JobRow \cup {Null}]
  BY <1>1, <1>2, Zenon DEF TypeOK, RenewJobLease
<1> QED
  BY <1>3 DEF RenewJobLease, TypeOK, JournalTypeOK, journalVars, contentVars

(* A failure or deferral keeps the shape of the store.                     *)
LEMMA FailType ==
    ASSUME TypeOK, NEW t \in issued, NEW now \in Now,
           NEW retry \in Nat \cup {Null}, NEW preserve \in BOOLEAN,
           FailJob(t, now, retry, preserve)
    PROVE  TypeOK'
<1> DEFINE row == jobs[t.job]
           state == IF retry = Null THEN "FAILED" ELSE "RETRY_WAIT"
           attempts == IF preserve /\ row.attempts > 0
                       THEN row.attempts - 1 ELSE row.attempts
<1>1. t.job \in JobId /\ row \in JobRow
  BY FencedRow DEF FailJob
<1>2. attempts \in Nat
  BY <1>1 DEF JobRow
<1>3. Released(row, state, retry) \in JobRow
  BY <1>1, ReleasedType, Zenon
<1>4. [Released(row, state, retry) EXCEPT !.attempts = attempts] \in JobRow
  BY <1>2, <1>3 DEF JobRow
<1>5. jobs' = [jobs EXCEPT ![t.job] =
                 [Released(row, state, retry) EXCEPT !.attempts = attempts]]
  BY DEF FailJob
<1>6. jobs' \in [JobId -> JobRow \cup {Null}]
  BY <1>1, <1>4, <1>5, Zenon DEF TypeOK
<1> QED
  BY <1>6 DEF FailJob, TypeOK, JournalTypeOK, journalVars, contentVars

(* Ending a job, with or without a follow-up, leaves well-formed rows.     *)
LEMMA FinishType ==
    ASSUME TypeOK, NEW j \in JobId, jobs[j] \in JobRow,
           NEW outcome \in {"COMMITTED", "SUPERSEDED"},
           NEW winner \in SnapshotId, NEW version \in Nat, NEW coverage,
           NEW id \in JobId, NEW now \in Nat,
           FinishPublishJob(j, outcome, winner, version, coverage, id, now)
    PROVE  jobs' \in [JobId -> JobRow \cup {Null}]
<1> DEFINE row == jobs[j]
           others == Nonterminal(jobs, row.session) \ {j}
           left == row.intent > coverage
<1>1. row.session \in Session /\ row.intent \in Nat
  BY DEF JobRow
<1>2. Finished(row, outcome) \in JobRow
  BY ZenonT(30) DEF Finished, JobRow, TerminalStates
<1>3. NewJob(row.session, row.intent, winner, version, now) \in JobRow
  BY <1>1, NewJobType
<1>4. ASSUME NEW k \in others
      PROVE  Fold(jobs[k], row.intent) \in JobRow
  <2>1. jobs[k] \in JobRow
    BY <1>4, Zenon DEF Nonterminal, TypeOK
  <2> QED
    BY <1>1, <2>1 DEF Fold, JobRow
<1>5. jobs' = [k \in JobId |->
              IF k = j
              THEN Finished(row, outcome)
              ELSE IF left /\ k \in others THEN Fold(jobs[k], row.intent)
              ELSE IF left /\ others = {} /\ k = id
              THEN NewJob(row.session, row.intent, winner, version, now)
              ELSE jobs[k]]
  BY DEF FinishPublishJob
<1> QED
  BY <1>2, <1>3, <1>4, <1>5, Zenon DEF TypeOK

(* A candidate has a snapshot id, an end, capsules with contents, a count. *)
LEMMA CandidateType ==
    ASSUME NEW s, NEW c \in Candidates(s)
    PROVE  /\ c.id \in SnapshotId /\ c.base \in SnapshotId \cup {Null}
           /\ c.covered \in 1 .. HighWaterMark(s) /\ c.covered \in Nat
           /\ c.count \in Count
           /\ DOMAIN c.members \subseteq CapsuleId
           /\ DOMAIN c.members # {}
           /\ \A k \in DOMAIN c.members : c.members[k] \in Content
BY MembersType DEF Candidates

(* A publication that commits keeps the shape of the store.                *)
LEMMA CommittedType ==
    ASSUME TypeOK, NEW t \in issued, NEW now \in Now, NEW id \in JobId,
           NEW c \in Candidates(jobs[t.job].session),
           PublishCommitted(t, c, id, now)
    PROVE  TypeOK'
<1> DEFINE row == jobs[t.job]
           s == row.session
<1>1. t.job \in JobId /\ row \in JobRow
  BY FencedRow, Zenon DEF PublishCommitted, PublishFence
<1>2. s \in Session /\ row.version + 1 \in Nat
  BY <1>1 DEF JobRow
<1>3. now \in Nat
  BY NowType, Zenon DEF TypeOK
<1>4. /\ c.id \in SnapshotId /\ c.base \in SnapshotId \cup {Null}
      /\ c.covered \in Nat /\ c.count \in Count
      /\ DOMAIN c.members \subseteq CapsuleId
      /\ \A k \in DOMAIN c.members : c.members[k] \in Content
  BY CandidateType, Zenon
<1>5. jobs' \in [JobId -> JobRow \cup {Null}]
  BY <1>1, <1>2, <1>3, <1>4, FinishType, Zenon DEF PublishCommitted
<1>6. capsules' \in [CapsuleId -> CapsuleRow \cup {Null}]
  <2>1. \A k \in DOMAIN c.members : [session |-> s, content |-> c.members[k]] \in CapsuleRow
    BY <1>2, <1>4, Zenon DEF CapsuleRow
  <2> QED
    BY <2>1, Zenon DEF PublishCommitted, InsertCapsules, TypeOK
<1>7. snapshots' \in [SnapshotId -> SnapshotRow \cup {Null}]
  <2>1. [session |-> s, base |-> c.base, covered |-> c.covered,
         capsules |-> DOMAIN c.members] \in SnapshotRow
    BY <1>2, <1>4, Zenon DEF SnapshotRow
  <2> QED
    BY <1>4, <2>1, Zenon DEF PublishCommitted, InsertCommittedSnapshot, TypeOK
<1>8. /\ snapshot_metrics' \in [SnapshotId -> Count \cup {NoCount}]
      /\ capsule_metrics' \in [CapsuleId -> Count \cup {NoCount}]
  BY <1>4, Zenon DEF PublishCommitted, PutCandidateMetrics, TypeOK
<1>9. active_snapshots' \in [Session -> Pointer]
  BY <1>2, <1>4, Zenon DEF PublishCommitted, SwungPointer, TypeOK, Pointer
<1> QED
  BY <1>5, <1>6, <1>7, <1>8, <1>9, Zenon
  DEF PublishCommitted, TypeOK, JournalTypeOK, journalVars

(* A publication that is superseded keeps the shape of the store.          *)
LEMMA SupersededType ==
    ASSUME TypeOK, NEW t \in issued, NEW now \in Now, NEW id \in JobId,
           NEW c \in Candidates(jobs[t.job].session),
           PublishSuperseded(t, c, id, now)
    PROVE  TypeOK'
<1> DEFINE row == jobs[t.job]
           s == row.session
<1>1. t.job \in JobId /\ row \in JobRow
  BY FencedRow, Zenon DEF PublishSuperseded, PublishFence
<1>2. s \in Session
  BY <1>1, Zenon DEF JobRow
<1>3. now \in Nat
  BY NowType DEF TypeOK
<1>4. active_snapshots[s].id \in SnapshotId /\ active_snapshots[s].version \in Nat
  BY <1>2, Zenon DEF PublishSuperseded, TypeOK, Pointer
<1>5. jobs' \in [JobId -> JobRow \cup {Null}]
  BY <1>1, <1>2, <1>3, <1>4, FinishType, Zenon DEF PublishSuperseded
<1> QED
  BY <1>5, Zenon DEF PublishSuperseded, TypeOK, JournalTypeOK, journalVars, contentVars

(* Every operation of a worker keeps the shape of the store.               *)
LEMMA WorkType ==
    ASSUME TypeOK, NEW t \in issued, NEW now \in Now, Work(t, now)
    PROVE  TypeOK'
<1>1. now \in Nat
  BY NowType DEF TypeOK
<1>2. ASSUME NEW expires \in now + 1 .. now + MaxLease, RenewJobLease(t, now, expires)
      PROVE  TypeOK'
  <2>1. expires \in Nat
    BY <1>1, BoundAssumption
  <2> QED
    BY <1>2, <2>1, RenewType
<1>3. ASSUME NEW retry \in (now + 1 .. now + MaxRetry) \cup {Null},
             NEW preserve \in BOOLEAN, FailJob(t, now, retry, preserve)
      PROVE  TypeOK'
  <2>1. retry \in Nat \cup {Null}
    BY <1>1, BoundAssumption
  <2> QED
    BY <1>3, <2>1, FailType
<1> QED
  BY <1>2, <1>3, TransitionType, CommittedType, SupersededType DEF Work

(* Every step keeps the shape of the store.                                *)
LEMMA NextType == TypeOK /\ [Next]_vars => TypeOK'
<1> SUFFICES ASSUME TypeOK, [Next]_vars
             PROVE  TypeOK'
  BY Zenon
<1>1. CASE JournalNext /\ UNCHANGED storeVars
  BY <1>1, JournalTypeStep, Zenon DEF TypeOK, storeVars
<1>2. CASE Tick
  BY <1>2 DEF Tick, TypeOK, JournalTypeOK, journalVars, contentVars
<1>3. CASE UNCHANGED vars
  BY <1>3, Zenon DEF vars, TypeOK, JournalTypeOK, journalVars, storeVars
<1> QED
  BY <1>1, <1>2, <1>3, RaiseType, ClaimType, WorkType, RecoverType DEF Next

(* The empty store has its shape.                                          *)
LEMMA InitType == Init => TypeOK
BY NoCountAssumption
DEF Init, JournalInit, TypeOK, JournalTypeOK, Pointer

(* Every state the repository reaches has the shape of the store.          *)
THEOREM TypeCorrect == Spec => []TypeOK
BY InitType, NextType, PTL DEF Spec
----------------------------------------------------------------------------

(* The inductive invariant. A job row is sound when it is a valid envelope *)
(* within the journal, what a worker froze is still what is active, and    *)
(* what remains to be covered is ahead of what is covered.                 *)

RowSound(row) ==
    /\ ValidateConditionals(row)
    /\ 1 <= row.target /\ row.target <= row.intent
    /\ row.intent <= HighWaterMark(row.session)
    /\ row.state \in NonterminalStates => row.intent > Coverage(row.session)
    /\ row.state \in WorkingStates =>
          /\ active_snapshots[row.session] = [id |-> row.base, version |-> row.version]
          /\ row.target > Coverage(row.session)

(* The active pointer names a committed snapshot of its session.           *)
PointerSound(s) ==
    LET active == active_snapshots[s] IN
    /\ (active.id = Null) <=> (active.version = 0)
    /\ active.id # Null =>
          /\ snapshots[active.id] # Null
          /\ snapshots[active.id].session = s
          /\ snapshots[active.id].covered <= HighWaterMark(s)

Core ==
    /\ \A j \in JobId : jobs[j] # Null => RowSound(jobs[j])
    /\ \A s \in Session : PointerSound(s)
    /\ OneNonterminalJob

(* A sound pointer has a coverage within the journal.                      *)
LEMMA CoverageType ==
    ASSUME TypeOK, NEW s \in Session, PointerSound(s)
    PROVE  Coverage(s) \in Nat /\ Coverage(s) <= HighWaterMark(s)
BY DEF TypeOK, JournalTypeOK, PointerSound, Coverage, SnapshotCoverage,
    Pointer, SnapshotRow, HighWaterMark

(* A step that changes only jobs, and only to sound rows without adding a  *)
(* second nonterminal job to a session, preserves the core.                *)
LEMMA JobsStep ==
    ASSUME TypeOK, Core,
           UNCHANGED <<next_event_sequence, snapshots, active_snapshots>>,
           \A j \in JobId : \/ jobs'[j] = jobs[j]
                            \/ RowSound(jobs'[j]),
           OneNonterminalJob'
    PROVE  Core'
<1>1. \A s \in Session : PointerSound(s)'
  BY DEF Core, PointerSound, HighWaterMark
<1>2. ASSUME NEW j \in JobId, jobs'[j] # Null
      PROVE  RowSound(jobs[j])'
  <2>1. RowSound(jobs'[j])
    BY <1>2, Zenon DEF Core
  <2>2. RowSound(jobs[j])' <=> RowSound(jobs'[j])
    BY Zenon DEF RowSound, ValidateConditionals, HighWaterMark, Coverage, SnapshotCoverage
  <2> QED
    BY <2>1, <2>2
<1> QED
  BY <1>1, <1>2, Zenon DEF Core

(* Dropping nonterminal jobs keeps at most one per session.                *)
LEMMA FewerNonterminal ==
    ASSUME OneNonterminalJob,
           \A s \in Session : Nonterminal(jobs', s) \subseteq Nonterminal(jobs, s)
    PROVE  OneNonterminalJob'
BY DEF OneNonterminalJob, Nonterminal

(* Folding a target of the journal into a job keeps its row sound.         *)
LEMMA FoldSound ==
    ASSUME TypeOK, NEW row \in JobRow, RowSound(row), NEW target \in Nat,
           target <= HighWaterMark(row.session), PointerSound(row.session)
    PROVE  /\ RowSound(Fold(row, target))
           /\ Fold(row, target).session = row.session
           /\ Fold(row, target).state = row.state
<1> DEFINE r == Fold(row, target)
<1>1. /\ r.session = row.session
      /\ r.state = row.state /\ r.target = row.target /\ r.base = row.base
      /\ r.version = row.version /\ r.candidate = row.candidate
      /\ r.owner = row.owner /\ r.epoch = row.epoch /\ r.expires = row.expires
      /\ r.retry = row.retry
      /\ r.intent = IF target > row.intent THEN target ELSE row.intent
  BY DEF Fold, JobRow
<1>2. row.session \in Session /\ row.target \in Nat /\ row.intent \in Nat
  BY Zenon DEF JobRow
<1>3. Coverage(row.session) \in Nat /\ HighWaterMark(row.session) \in Nat
  BY <1>2, CoverageType DEF TypeOK, JournalTypeOK, HighWaterMark
<1> HIDE DEF r
<1>4. RowSound(r)
  BY <1>1, <1>2, <1>3 DEF RowSound, ValidateConditionals
<1> QED
  BY <1>1, <1>4 DEF r

(* A job created for an uncovered target is sound.                         *)
LEMMA NewJobSound ==
    ASSUME TypeOK, NEW s \in Session, PointerSound(s), NEW target \in Nat,
           target > Coverage(s), target <= HighWaterMark(s), NEW now \in Nat
    PROVE  RowSound(NewJob(s, target, active_snapshots[s].id,
                           active_snapshots[s].version, now))
<1> DEFINE r == NewJob(s, target, active_snapshots[s].id,
                       active_snapshots[s].version, now)
<1>1. Coverage(s) \in Nat
  BY CoverageType
<1>2. target >= 1 /\ target <= target
  BY <1>1
<1>3. (active_snapshots[s].id = Null) <=> (active_snapshots[s].version = 0)
  BY Zenon DEF PointerSound
<1>4. /\ r.session = s /\ r.state = "PENDING" /\ r.target = target
      /\ r.intent = target /\ r.base = active_snapshots[s].id
      /\ r.version = active_snapshots[s].version /\ r.candidate = Null
      /\ r.owner = Null /\ r.expires = Null /\ r.retry = Null
  BY DEF NewJob
<1>5. "PENDING" \notin WorkingStates /\ "PENDING" \notin CandidateStates
  BY Zenon DEF WorkingStates, CandidateStates
<1> HIDE DEF r
<1>6. ValidateConditionals(r)
  BY <1>3, <1>4, <1>5, Zenon DEF ValidateConditionals
<1>7. RowSound(r)
  BY <1>2, <1>4, <1>5, <1>6, Zenon DEF RowSound
<1> QED
  BY <1>7 DEF r

(* Raising an intent preserves the core invariant.                         *)
LEMMA RaiseCore ==
    ASSUME TypeOK, Core, Raise
    PROVE  Core'
<1>1. ASSUME NEW s \in Session, NEW target \in 1 .. HighWaterMark(s),
             FoldCompactionIntent(s, target)
      PROVE  Core'
  <2>1. PICK j \in Nonterminal(jobs, s) :
          jobs' = [jobs EXCEPT ![j] = Fold(@, target)]
    BY <1>1, ZenonT(30) DEF FoldCompactionIntent
  <2>2. j \in JobId /\ jobs[j] \in JobRow /\ jobs[j].session = s /\ jobs[j] # Null
    BY Zenon DEF Nonterminal, TypeOK
  <2>3. target \in Nat /\ target <= HighWaterMark(s)
    BY DEF TypeOK, JournalTypeOK, HighWaterMark
  <2>4. RowSound(jobs[j]) /\ PointerSound(s)
    BY <2>2, Zenon DEF Core
  <2>5. /\ RowSound(Fold(jobs[j], target))
        /\ Fold(jobs[j], target).session = jobs[j].session
        /\ Fold(jobs[j], target).state = jobs[j].state
    BY <2>2, <2>3, <2>4, FoldSound, Zenon
  <2>6. jobs'[j] = Fold(jobs[j], target) /\ \A k \in JobId \ {j} : jobs'[k] = jobs[k]
    BY <2>1, <2>2, Zenon DEF TypeOK
  <2>7. \A r \in Session : Nonterminal(jobs', r) \subseteq Nonterminal(jobs, r)
    BY <2>2, <2>5, <2>6, Zenon DEF Nonterminal
  <2> QED
    BY <1>1, <2>2, <2>5, <2>6, <2>7, JobsStep, FewerNonterminal, ZenonT(30)
    DEF FoldCompactionIntent, journalVars, contentVars, Core
<1>2. ASSUME NEW s \in Session, NEW target \in 1 .. HighWaterMark(s),
             NEW id \in JobId, NEW now \in Now,
             CreateCompactionIntent(s, target, id, now)
      PROVE  Core'
  <2> DEFINE new == NewJob(s, target, active_snapshots[s].id,
                           active_snapshots[s].version, now)
  <2>1. target \in Nat /\ now \in Nat
    BY NowType DEF TypeOK
  <2>2. target <= HighWaterMark(s) /\ target > Coverage(s)
    BY <1>2, Zenon DEF CreateCompactionIntent, RaiseAccepted
  <2>3. RowSound(new)
    BY <2>1, <2>2, NewJobSound, Zenon DEF Core
  <2>4. jobs'[id] = new /\ \A k \in JobId \ {id} : jobs'[k] = jobs[k]
    BY <1>2, Zenon DEF CreateCompactionIntent, TypeOK
  <2>5. new.session = s
    BY Zenon DEF NewJob
  <2>6. OneNonterminalJob'
    <3>1. Nonterminal(jobs', s) \subseteq {id}
      BY <1>2, <2>4, Zenon DEF CreateCompactionIntent, Nonterminal
    <3>2. \A r \in Session \ {s} : Nonterminal(jobs', r) \subseteq Nonterminal(jobs, r)
      BY <2>4, <2>5, Zenon DEF Nonterminal
    <3>3. \A r \in Session : Nonterminal(jobs, r)' = Nonterminal(jobs', r)
      BY Zenon DEF Nonterminal
    <3> QED
      BY <3>1, <3>2, <3>3 DEF Core, OneNonterminalJob
  <2> HIDE DEF new
  <2> QED
    BY <1>2, <2>3, <2>4, <2>6, JobsStep, Zenon
    DEF CreateCompactionIntent, journalVars, contentVars
<1> QED
  BY <1>1, <1>2 DEF Raise

(* A claim preserves the core invariant: it rebases the job it leases.     *)
LEMMA ClaimCore ==
    ASSUME TypeOK, Core, Claim
    PROVE  Core'
<1>1. PICK w \in Worker, now \in Now : \E expires \in now + 1 .. now + MaxLease :
        ClaimJob(w, now, expires)
  BY Zenon DEF Claim
<1>2. now \in Nat
  BY NowType DEF TypeOK
<1>3. PICK expires \in now + 1 .. now + MaxLease : ClaimJob(w, now, expires)
  BY <1>1
<1>4. expires \in Nat
  BY <1>2, BoundAssumption
<1>5. ASSUME NEW j \in Eligible(now)
      PROVE  /\ j \in JobId /\ jobs[j] \in JobRow /\ RowSound(jobs[j])
             /\ jobs[j].session \in Session /\ PointerSound(jobs[j].session)
             /\ jobs[j].state \in NonterminalStates
             /\ ~Covered(j)
  <2>1. j \in JobId /\ jobs[j] \in JobRow /\ jobs[j] # Null
    BY <1>5, Zenon DEF Eligible, TypeOK
  <2>2. jobs[j].session \in Session /\ jobs[j].intent \in Nat
    BY <2>1, Zenon DEF JobRow
  <2>3. RowSound(jobs[j]) /\ PointerSound(jobs[j].session)
    BY <2>1, <2>2, Zenon DEF Core
  <2>4. jobs[j].state \in NonterminalStates
    BY Zenon DEF Eligible, NonterminalStates
  <2>5. Coverage(jobs[j].session) \in Nat
    BY <2>2, <2>3, CoverageType, Zenon
  <2>6. ~Covered(j)
    BY <2>2, <2>3, <2>4, <2>5 DEF Covered, RowSound
  <2> QED
    BY <2>1, <2>2, <2>3, <2>4, <2>6, Zenon
<1>6. Overtaken(now) = {}
  BY <1>5, Zenon DEF Overtaken
<1>7. ASSUME NEW j \in Winner(now)
      PROVE  /\ RowSound(Leased(jobs[j], w, expires))
             /\ Leased(jobs[j], w, expires).session = jobs[j].session
             /\ j \in Nonterminal(jobs, jobs[j].session)
  <2>1. j \in Eligible(now)
    BY Zenon DEF Winner
  <2>2. /\ j \in JobId /\ jobs[j] \in JobRow /\ RowSound(jobs[j])
        /\ jobs[j].session \in Session /\ PointerSound(jobs[j].session)
        /\ jobs[j].state \in NonterminalStates
    BY <1>5, <2>1, Zenon
  <2>3. /\ jobs[j].epoch + 1 >= 1 /\ jobs[j].intent \in Nat /\ 1 <= jobs[j].intent
    BY <2>2 DEF JobRow, RowSound
  <2>4. active_snapshots[jobs[j].session] =
          [id |-> active_snapshots[jobs[j].session].id,
           version |-> active_snapshots[jobs[j].session].version]
    BY <2>2 DEF TypeOK, Pointer
  <2>5. w # Null /\ expires # Null
    BY <1>4, NullAssumption, Zenon
  <2> DEFINE s == jobs[j].session
             r == Leased(jobs[j], w, expires)
  <2>6. /\ r.session = s /\ r.state = "LEASED" /\ r.target = jobs[j].intent
        /\ r.intent = jobs[j].intent /\ r.owner = w /\ r.expires = expires
        /\ r.epoch = jobs[j].epoch + 1 /\ r.candidate = Null /\ r.retry = Null
        /\ r.base = active_snapshots[s].id /\ r.version = active_snapshots[s].version
    BY Zenon DEF Leased
  <2> HIDE DEF r
  <2>7. (active_snapshots[s].id = Null) <=> (active_snapshots[s].version = 0)
    BY <2>2, Zenon DEF PointerSound
  <2>8. ValidateConditionals(r)
    BY <2>3, <2>5, <2>6, <2>7, Zenon DEF ValidateConditionals, WorkingStates, CandidateStates
  <2>9. jobs[j].intent <= HighWaterMark(s) /\ jobs[j].intent > Coverage(s)
    BY <2>2, Zenon DEF RowSound
  <2>10. RowSound(r)
    <3>1. active_snapshots[s] = [id |-> r.base, version |-> r.version]
      BY <2>4, <2>6, Zenon
    <3>2. 1 <= r.target /\ r.target <= r.intent
      BY <2>3, <2>6
    <3> HIDE DEF s
    <3> QED
      BY <2>6, <2>8, <2>9, <3>1, <3>2, Zenon DEF RowSound
  <2>11. j \in Nonterminal(jobs, s)
    BY <2>2, NullAssumption, Zenon DEF Nonterminal
  <2> QED
    BY <2>6, <2>10, <2>11 DEF r
<1>8. \A j \in JobId : jobs'[j] = IF j \in Winner(now)
                                  THEN Leased(jobs[j], w, expires) ELSE jobs[j]
  BY <1>3, <1>6, Zenon DEF ClaimJob
<1>9. \A s \in Session : Nonterminal(jobs', s) \subseteq Nonterminal(jobs, s)
  BY <1>7, <1>8 DEF Nonterminal
<1> QED
  BY <1>3, <1>7, <1>8, <1>9, JobsStep, FewerNonterminal, Zenon
  DEF ClaimJob, journalVars, contentVars, Core

(* Giving a working job back keeps its row sound.                          *)
LEMMA ReleasedSound ==
    ASSUME NEW row \in JobRow, RowSound(row), row.state \in WorkingStates,
           NEW retry \in Nat \cup {Null}, NEW attempts \in Nat,
           NEW state \in {"FAILED", "RETRY_WAIT", "PENDING"},
           (retry # Null) <=> (state = "RETRY_WAIT")
    PROVE  LET r == [Released(row, state, retry) EXCEPT !.attempts = attempts]
           IN  /\ RowSound(r) /\ RowSound(Released(row, state, retry))
               /\ r.session = row.session
               /\ Released(row, state, retry).session = row.session
<1> DEFINE q == Released(row, state, retry)
           r == [q EXCEPT !.attempts = attempts]
<1>1. /\ q.session = row.session /\ q.state = state /\ q.target = row.target
      /\ q.intent = row.intent /\ q.base = row.base /\ q.version = row.version
      /\ q.candidate = Null /\ q.owner = Null /\ q.epoch = row.epoch
      /\ q.expires = Null /\ q.retry = retry
  BY DEF Released, JobRow
<1>2. q \in JobRow
  BY ReleasedType, Zenon
<1>3. RowSound(q)
  <2> HIDE DEF q
  <2> QED
    BY <1>1 DEF RowSound, ValidateConditionals, WorkingStates, NonterminalStates,
        CandidateStates
<1>4. /\ r.session = q.session /\ r.state = q.state /\ r.target = q.target
      /\ r.intent = q.intent /\ r.base = q.base /\ r.version = q.version
      /\ r.candidate = q.candidate /\ r.owner = q.owner /\ r.epoch = q.epoch
      /\ r.expires = q.expires /\ r.retry = q.retry
  <2> HIDE DEF q
  <2> QED
    BY <1>2, Zenon DEF JobRow
<1>5. RowSound(r)
  <2> HIDE DEF q, r
  <2> QED
    BY <1>3, <1>4, Zenon DEF RowSound, ValidateConditionals
<1> QED
  BY <1>1, <1>3, <1>4, <1>5

(* Recovery preserves the core invariant.                                  *)
LEMMA RecoverCore ==
    ASSUME TypeOK, Core, NEW now \in Now, RecoverExpiredLeases(now)
    PROVE  Core'
<1>1. ASSUME NEW j \in Expired(now)
      PROVE  /\ RowSound(Released(jobs[j], "PENDING", Null))
             /\ Released(jobs[j], "PENDING", Null).session = jobs[j].session
             /\ j \in Nonterminal(jobs, jobs[j].session)
  <2>1. j \in JobId /\ jobs[j] \in JobRow /\ jobs[j] # Null
    BY Zenon DEF Expired, TypeOK
  <2>2. RowSound(jobs[j]) /\ jobs[j].state \in WorkingStates
    BY <2>1, Zenon DEF Core, Expired
  <2> QED
    BY <2>1, <2>2, ReleasedSound, 0 \in Nat, ZenonT(30) DEF Nonterminal, NonterminalStates
<1>2. \A j \in JobId : jobs'[j] = IF j \in Expired(now)
                                  THEN Released(jobs[j], "PENDING", Null)
                                  ELSE jobs[j]
  BY Zenon DEF RecoverExpiredLeases
<1>3. \A s \in Session : Nonterminal(jobs', s) \subseteq Nonterminal(jobs, s)
  BY <1>1, <1>2 DEF Nonterminal
<1> QED
  BY <1>1, <1>2, <1>3, JobsStep, FewerNonterminal, Zenon
  DEF RecoverExpiredLeases, journalVars, contentVars, Core

(* A fenced operation that leaves a sound row of the same session.         *)
LEMMA FencedStep ==
    ASSUME TypeOK, Core, NEW t \in issued, NEW now, LiveFence(t, now), NEW r,
           jobs' = [jobs EXCEPT ![t.job] = r],
           r.session = jobs[t.job].session, RowSound(r),
           UNCHANGED <<next_event_sequence, snapshots, active_snapshots>>
    PROVE  Core'
<1>1. t.job \in JobId /\ jobs[t.job] \in JobRow /\ jobs[t.job].state \in WorkingStates
  BY FencedRow, Zenon
<1>2. \A j \in JobId : jobs'[j] = IF j = t.job THEN r ELSE jobs[j]
  BY <1>1, Zenon DEF TypeOK
<1>3. \A s \in Session : Nonterminal(jobs', s) \subseteq Nonterminal(jobs, s)
  BY <1>1, <1>2, NullAssumption DEF Nonterminal, NonterminalStates
<1> QED
  BY <1>2, <1>3, JobsStep, FewerNonterminal, ZenonT(30) DEF Core

(* A stage transition preserves the core invariant.                        *)
LEMMA TransitionCore ==
    ASSUME TypeOK, Core, NEW t \in issued, NEW now \in Now,
           NEW to \in WorkingStates, NEW candidate \in SnapshotId \cup {Null},
           TransitionJob(t, to, candidate, now)
    PROVE  Core'
<1> DEFINE row == jobs[t.job]
           r == [row EXCEPT !.state = to, !.candidate = candidate]
<1>1. /\ t.job \in JobId /\ row \in JobRow /\ row.state \in WorkingStates
      /\ RowSound(row)
  BY FencedRow, NullAssumption DEF TransitionJob, Core
<1>2. /\ r.session = row.session /\ r.state = to /\ r.target = row.target
      /\ r.intent = row.intent /\ r.base = row.base /\ r.version = row.version
      /\ r.candidate = candidate /\ r.owner = row.owner /\ r.epoch = row.epoch
      /\ r.expires = row.expires /\ r.retry = row.retry
  BY <1>1 DEF JobRow
<1>3. jobs' = [jobs EXCEPT ![t.job] = r]
  BY <1>1, ZenonT(30) DEF TransitionJob, TypeOK
<1>4. (candidate # Null) <=> (to = "READY_TO_COMMIT")
  BY Zenon DEF TransitionJob
<1> HIDE DEF r
<1>5. RowSound(r)
  BY <1>1, <1>2, <1>4, Zenon DEF RowSound, ValidateConditionals, WorkingStates,
      NonterminalStates, CandidateStates
<1> QED
  BY <1>2, <1>3, <1>5, FencedStep, ZenonT(30) DEF TransitionJob, journalVars, contentVars

(* A lease renewal preserves the core invariant.                           *)
LEMMA RenewCore ==
    ASSUME TypeOK, Core, NEW t \in issued, NEW now \in Now, NEW expires \in Nat,
           RenewJobLease(t, now, expires)
    PROVE  Core'
<1> DEFINE row == jobs[t.job]
           r == [row EXCEPT !.expires = expires]
<1>1. t.job \in JobId /\ row \in JobRow /\ row.state \in WorkingStates /\ RowSound(row)
  BY FencedRow, NullAssumption DEF RenewJobLease, Core
<1>2. /\ r.session = row.session /\ r.state = row.state /\ r.target = row.target
      /\ r.intent = row.intent /\ r.base = row.base /\ r.version = row.version
      /\ r.candidate = row.candidate /\ r.owner = row.owner /\ r.epoch = row.epoch
      /\ r.expires = expires /\ r.retry = row.retry
  BY <1>1 DEF JobRow
<1>3. jobs' = [jobs EXCEPT ![t.job] = r]
  BY <1>1 DEF RenewJobLease, TypeOK
<1>4. expires # Null
  BY NullAssumption, Zenon
<1> HIDE DEF r
<1>5. RowSound(r)
  BY <1>1, <1>2, <1>4, Zenon DEF RowSound, ValidateConditionals
<1> QED
  BY <1>2, <1>3, <1>5, FencedStep, ZenonT(30) DEF RenewJobLease, journalVars, contentVars

(* A failure or deferral preserves the core invariant.                     *)
LEMMA FailCore ==
    ASSUME TypeOK, Core, NEW t \in issued, NEW now \in Now,
           NEW retry \in Nat \cup {Null}, NEW preserve \in BOOLEAN,
           FailJob(t, now, retry, preserve)
    PROVE  Core'
<1> DEFINE row == jobs[t.job]
           state == IF retry = Null THEN "FAILED" ELSE "RETRY_WAIT"
           attempts == IF preserve /\ row.attempts > 0
                       THEN row.attempts - 1 ELSE row.attempts
           r == [Released(row, state, retry) EXCEPT !.attempts = attempts]
<1>1. t.job \in JobId /\ row \in JobRow /\ row.state \in WorkingStates /\ RowSound(row)
  BY FencedRow, NullAssumption, Zenon DEF FailJob, Core
<1>2. attempts \in Nat
  BY <1>1 DEF JobRow
<1>3. RowSound(r) /\ r.session = row.session
  <2>1. state \in {"FAILED", "RETRY_WAIT", "PENDING"}
    OBVIOUS
  <2>2. (retry # Null) <=> (state = "RETRY_WAIT")
    OBVIOUS
  <2> HIDE DEF state, attempts, row
  <2>3. RowSound([Released(row, state, retry) EXCEPT !.attempts = attempts])
    BY <1>1, <1>2, <2>1, <2>2, ReleasedSound, Zenon
  <2>4. [Released(row, state, retry) EXCEPT !.attempts = attempts].session = row.session
    BY <1>1 DEF Released, JobRow
  <2> QED
    BY <2>3, <2>4
<1>4. jobs' = [jobs EXCEPT ![t.job] = r]
  BY DEF FailJob
<1> HIDE DEF r
<1> QED
  BY <1>3, <1>4, FencedStep, ZenonT(30) DEF FailJob, journalVars, contentVars
=============================================================================
