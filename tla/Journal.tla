------------------------------ MODULE Journal ------------------------------
(***************************************************************************)
(* The append-only event journal of storage/repository.py: the sessions    *)
(* and journal_events tables, and the rows of token_metrics and            *)
(* token_metric_backfill_intents that belong to events.                    *)
(*                                                                         *)
(* Every repository write runs in one BEGIN IMMEDIATE transaction that is  *)
(* rolled back on any exception, so an operation is one atomic step and an *)
(* operation that raises changes nothing: its action is then disabled.     *)
(* A hook may be delivered again, before or after its first capture        *)
(* committed, so a delivery stays possible forever.                        *)
(***************************************************************************)
EXTENDS Integers, FiniteSets

CONSTANTS
    Session,    \* canonical SessionKeys
    EventId,    \* event_id, the primary key of journal_events
    IdemKey,    \* a source_hook together with its idempotency_key
    Payload,    \* the other immutable columns that a replay must repeat
    Delivery,   \* the hook deliveries the host makes
    Count,      \* canonical token counts
    NoCount,    \* a metric the counter could not supply
    Observed    \* what the counter of a hook can supply

ASSUME DeliveryAssumption ==
    Delivery \subseteq
        [session : Session, id : EventId, key : IdemKey, payload : Payload]

ASSUME NoCountAssumption ==
    NoCount \notin Count /\ Observed \subseteq Count \cup {NoCount}

VARIABLES
    next_event_sequence,    \* sessions.next_event_sequence, 1 for no row
    journal_events,         \* the rows of the journal
    event_metrics,          \* token_metrics of kind EVENT
    backfill_intents        \* token_metric_backfill_intents of kind EVENT

journalVars ==
    <<next_event_sequence, journal_events, event_metrics, backfill_intents>>

EventRow ==
    [session : Session, id : EventId, key : IdemKey, payload : Payload,
     sequence : Nat \ {0}]

HighWaterMark(s) == next_event_sequence[s] - 1

----------------------------------------------------------------------------
(* TokenMetricStore: insert a metric, or accept an exact replay of it. *)

(* Mutant: the insert overwrites. *)
MetricOverwritten(stored, count) == TRUE

MetricAgrees(stored, count) == stored \in {NoCount, count}

(* Mutant: the intent of an event that is counted after all stays behind. *)
ObservationLeavesIntent(id, count) ==
    IF count # NoCount
    THEN /\ MetricAgrees(event_metrics[id], count)
         /\ event_metrics' = [event_metrics EXCEPT ![id] = count]
         /\ UNCHANGED backfill_intents
    ELSE /\ backfill_intents' = IF event_metrics[id] = NoCount
                                THEN backfill_intents \cup {id}
                                ELSE backfill_intents
         /\ UNCHANGED event_metrics

(* The canonical count observed by a hook, or a durable intent to count    *)
(* the event later. A disagreeing count is a TokenMetricConflict, which    *)
(* rolls back the capture.                                                 *)
RecordCanonicalObservation(id, count) ==
    IF count # NoCount
    THEN /\ MetricAgrees(event_metrics[id], count)
         /\ event_metrics' = [event_metrics EXCEPT ![id] = count]
         /\ backfill_intents' = backfill_intents \ {id}
    ELSE /\ backfill_intents' = IF event_metrics[id] = NoCount
                                THEN backfill_intents \cup {id}
                                ELSE backfill_intents
         /\ UNCHANGED event_metrics

(* Mutant: the lookup also compares the event id. *)
FindEventByIdentity(d) ==
    {r \in journal_events : r.session = d.session /\ r.key = d.key /\ r.id = d.id}

FindIdempotentEvent(d) ==
    {r \in journal_events : r.session = d.session /\ r.key = d.key}

(* A delivery seen for the first time gets the next sequence number. An    *)
(* event_id that is already taken is an EventIdentityConflict.             *)
CaptureEvent(d, count) ==
    /\ FindIdempotentEvent(d) = {}
    /\ \A r \in journal_events : r.id # d.id
    /\ journal_events' = journal_events \cup
         {[session |-> d.session, id |-> d.id, key |-> d.key,
           payload |-> d.payload, sequence |-> next_event_sequence[d.session]]}
    /\ next_event_sequence' = [next_event_sequence EXCEPT ![d.session] = @ + 1]
    /\ RecordCanonicalObservation(d.id, count)

(* Mutant: a replay draws a sequence number. *)
ReplayDrawsSequence(d, count) ==
    /\ \E r \in FindIdempotentEvent(d) : r.id = d.id /\ r.payload = d.payload
    /\ RecordCanonicalObservation(d.id, count)
    /\ next_event_sequence' = [next_event_sequence EXCEPT ![d.session] = @ + 1]
    /\ UNCHANGED journal_events

(* A delivery seen before returns the stored event if it repeats it        *)
(* exactly, and is an IdempotencyConflict otherwise. The replay may bring  *)
(* the count its first capture could not supply.                           *)
ReplayEvent(d, count) ==
    /\ \E r \in FindIdempotentEvent(d) : r.id = d.id /\ r.payload = d.payload
    /\ RecordCanonicalObservation(d.id, count)
    /\ UNCHANGED <<next_event_sequence, journal_events>>

(* A batch of counts for events of one session. The batch was read in an   *)
(* earlier transaction, so any of its events may have been counted since;  *)
(* one disagreement rolls back the whole batch.                            *)
WriteMetricBackfillBatch(s, batch, count) ==
    /\ \A id \in batch :
          /\ \E r \in journal_events : r.id = id /\ r.session = s
          /\ MetricAgrees(event_metrics[id], count[id])
    /\ event_metrics' =
         [id \in EventId |-> IF id \in batch THEN count[id] ELSE event_metrics[id]]
    /\ backfill_intents' = backfill_intents \ batch
    /\ UNCHANGED <<next_event_sequence, journal_events>>

----------------------------------------------------------------------------

(* Mutant: a session starts at sequence 0. *)
JournalInitAtZero ==
    /\ next_event_sequence = [s \in Session |-> 0]
    /\ journal_events = {}
    /\ event_metrics = [id \in EventId |-> NoCount]
    /\ backfill_intents = {}

JournalInit ==
    /\ next_event_sequence = [s \in Session |-> 1]
    /\ journal_events = {}
    /\ event_metrics = [id \in EventId |-> NoCount]
    /\ backfill_intents = {}

JournalNext ==
    \/ \E d \in Delivery, count \in Observed :
          CaptureEvent(d, count) \/ ReplayEvent(d, count)
    \/ \E s \in Session, batch \in SUBSET EventId :
          \E count \in [batch -> Count] : WriteMetricBackfillBatch(s, batch, count)

JournalSpec == JournalInit /\ [][JournalNext]_journalVars

----------------------------------------------------------------------------

(* The shape of the journal tables.                                        *)
JournalTypeOK ==
    /\ next_event_sequence \in [Session -> Nat \ {0}]
    /\ journal_events \subseteq EventRow
    /\ event_metrics \in [EventId -> Count \cup {NoCount}]
    /\ backfill_intents \subseteq EventId

(* The sequences of a session are exactly 1 .. high-water mark, each used  *)
(* once: neither a replay nor a conflicting capture leaves a gap or a      *)
(* duplicate. _read_request_view raises "request Delta is not contiguous"  *)
(* otherwise.                                                              *)
JournalContiguous ==
    /\ \A r \in journal_events : r.sequence <= HighWaterMark(r.session)
    /\ \A s \in Session : \A n \in 1 .. HighWaterMark(s) :
          \E r \in journal_events : r.session = s /\ r.sequence = n
    /\ \A q, r \in journal_events :
          q.session = r.session /\ q.sequence = r.sequence => q = r

(* A delivery that is repeated, by the host or by a concurrent runner, is  *)
(* journalled once; event ids identify events across sessions.             *)
DeliveredOnce ==
    \A q, r \in journal_events :
        (q.session = r.session /\ q.key = r.key) \/ q.id = r.id => q = r

(* Every journalled event either has its canonical metric or a durable     *)
(* backfill intent, and never both: a deferred count is neither forgotten  *)
(* nor left behind once a replay or a backfill batch has supplied it.      *)
CountedOrIntended ==
    \A id \in EventId :
        IF \E r \in journal_events : r.id = id
        THEN (event_metrics[id] = NoCount) <=> (id \in backfill_intents)
        ELSE event_metrics[id] = NoCount /\ id \notin backfill_intents

(* A canonical metric never changes once written, whichever of capture,    *)
(* replay and backfill writes next.                                        *)
MetricsWriteOnce ==
    [][\A id \in EventId :
          event_metrics[id] # NoCount => event_metrics'[id] = event_metrics[id]
      ]_journalVars
============================================================================
