# A formal model of AstrContinuum

AstrContinuum is a plugin of AstrBot that keeps the context of long
conversations: it journals every event of a session in SQLite, compacts the
journal in the background into immutable snapshots, and replaces the history of
a provider request temporarily by a snapshot plus the events after it. This
directory holds TLA+ modules translated from its source, the TLC
configurations that model-check them, and proofs checked by TLAPS.

    tlc -config MCPublication.cfg MCRepository     # one run
    tlapm HistoryProofs.tla                        # one proof module

## The system and its parts

| Part | Source | Module |
| --- | --- | --- |
| event journal, canonical token metrics | `storage/repository.py`, `storage/token_metrics.py` | `Journal` |
| compaction jobs, snapshots, publication | `storage/repository.py`, `storage/migrations.py`, `domain/jobs.py` | `Repository` |
| permanent publication validator | `domain/validation.py` | part of `Repository` |
| runtime worker | `compaction/worker.py` | `RuntimeWorker` over `JobView`, `WorkerHost` |
| fenced worker, coalescing scheduler | `compaction/worker.py`, `scheduler.py` | `FencedWorker` over the same |
| both lanes with the turns that feed them | | `CompactionWorker` |
| tool-loop state machine | `runtime/tool_loop.py` | `ToolLoop` |
| segmenter, fitting of segments | `compaction/segmenter.py`, `compaction/astrbot_backend.py` | `Segments` |
| hooks of a turn that write the journal | `main.py`, `adapters/astrbot.py` | `TurnHooks` |
| retrieval of candidates, groups | `runtime/retrieval.py`, `context_graph/closure.py` | `Candidates` |
| request budget, pressure, engine selection, byte replay | `runtime/budget.py`, `runtime/pressure.py`, `context_graph/live.py`, `tokenization/request.py` | `Budget` |
| temporary projection | `runtime/projection.py` | `Projection` |
| hooks that change a request | `main.py`, `adapters/astrbot.py` | `RequestHooks` |
| storage security activation | `storage/security.py`, `storage/migrations.py` | `StorageSecurity` |
| plugin lifecycle | `main.py` | in part, in the modules above |
| codec, thinking wrappers, reorganizer, prototype lane, commands, scripts | | not modelled, see the end |

The parts meet in the database. A hook of a turn captures events; when the
request is under pressure the last hook of the turn raises a compaction intent,
which creates a job or is folded into the one nonterminal job of the session. A
worker claims the job under a lease with a growing epoch, which freezes the
base snapshot and the target; it reads that input, compiles and audits a
candidate, and publishes it. Publication inserts capsules and snapshot, moves
the active pointer by compare-and-swap, ends the job and, if more was demanded
in the meantime, leaves a follow-up job, all in one transaction. Readers take
the active snapshot and the events after it in one read transaction. Nothing but
the database, one wake event and the provider registry is shared between the
hooks and the workers, so the repository is the core of the system.

## Modules

**Journal** is the journal on its own: `sessions`, `journal_events`, and the
metrics and backfill intents of events. Each repository write is one
`BEGIN IMMEDIATE` transaction that is rolled back on any exception; therefore an
operation is one action, and an operation that raises is a disabled action.

| Action | Code |
| --- | --- |
| `CaptureEvent`, `ReplayEvent` | `_capture_event`, first delivery and exact replay |
| `RecordCanonicalObservation` | `_record_canonical_observation`: count now or intend to |
| `WriteMetricBackfillBatch` | `write_metric_backfill_batch` |

A hook delivery can be repeated forever. The deliveries are a constant set, so an
instance chooses which of them conflict in key, id or payload.

**Repository** extends it with jobs, snapshots, capsules, the active pointers and
their metrics.

| Action | Code |
| --- | --- |
| `FoldCompactionIntent`, `CreateCompactionIntent` | `raise_compaction_intent` |
| `ClaimJob` | `claim_job`, with the cancellation of covered jobs on the way |
| `TransitionJob`, `RenewJobLease`, `FailJob` | the fenced operations of a worker |
| `RecoverExpiredLeases` | `recover_expired_leases` |
| `PublishCommitted`, `PublishSuperseded` | the two outcomes of `publish_snapshot`, follow-up included |
| `Tick` | UTC time |

Its callers are the most general ones. Every token that a claim ever returned
may be used at any later time, in any order, any number of times or never; this
covers a crash of the process between any two transactions, a thread that
outlives the cancellation of its task, and two processes on one database. The
`now` of a call is read before the write lock is obtained, so it may lag the
clock (`MaxDelay`), and calls may reach the database out of order.

What the data is reduced to: event content, capsule content and errors are
opaque; one count stands for all artifacts of a candidate; there is one
tokenizer profile; a candidate has passed the content checks of
`validate_permanent`, and its base, end and interval are checked as in the code.
The id of a follow-up is any free id (the code derives it from the ended job).
`demanded` is the one variable the code does not have: the highest intent
acknowledged to a caller. The reorganization ledger is empty because the workers
supply no records, and capsule or snapshot backfill intents, which only exist in
migrated databases, are left out.

**SnapshotHistory** is what the repository promises its readers, without jobs,
leases, workers or time: a journal that grows by one event, and a snapshot that is
now and then replaced by one that covers strictly more. `Repository` implements
it under the mapping at its end.

**JobView**, **WorkerHost**, **RuntimeWorker**, **FencedWorker** and
**CompactionWorker** are the two workers as clients of that job, for one session.
`JobView` has the transactions of `Repository` as one worker meets them: the
latest job is a record, and time is two facts about it (the lease is live, the
retry time has come). `WorkerHost` has the turn that captures a reply, raises the
intent and then announces it, in three steps because each call is awaited, and
the passing of time. Every awaited call of the runtime worker is a step of its
own: recover, claim, backfill, read, compile, count, audit, publish, defer or
fail, with the heartbeat task beside it; a close in the middle of a call leaves
a thread that may still claim or publish (`OrphanClaims`, `OrphanPublishes`).
The fenced worker calls the repository synchronously, so what lies between two
awaits is one step; the scheduler's queue and pending set feed it.
What the compiler and the auditor write is left open: they answer or fail. Whether
the compiler defers is not open, because its preflight is a function of the frozen
input: a turn is a unit of some size (`Sizes`), a provider a context limit
(`Limits`), and a unit above the limit is deferred each time it is tried. Attempts
above `max_attempts`, which deferrals and lost leases can reach, are counted as
one (`Spent`). The fenced lane can also fail to record a failure because the
database is busy (`FailureNotRecorded`); the job is then leased until it lapses.

**ToolLoop**, **Segments** and **TurnHooks** are the journal as the hooks write
it. `ToolLoop` is the parser of durable tool exchanges as a recursion over the events;
a tool stands for the canonical fingerprint of a call, `NoTool` for truncated
metadata. `Segments` cuts a delta under the limits of the segmenter, then
normalises and splits the cuts for the provider's input. `TurnHooks` interleaves
the turns of one session through `on_llm_request`, the tool hooks and
`on_agent_done_finalize`, with failed captures, repeated deliveries, reloads and
crashes; the tool hooks of one turn come one after the other.

**Candidates**, **Budget**, **Projection** and **RequestHooks** are one request.
`Candidates` is retrieval and the grouping of blocks; `Budget` is the normal, the
emergency and the raw selection, the exact recount, the pressure thresholds, the
choice between the engine's selection and the deterministic one, and the
replay in bytes when the tokenizer fails. Of `solve` in `context_graph/engine.py`
only the end is modelled, a result that passed its certificate or none: which
optional blocks it selects is left open (`EngineResults`), which allows more than
the numeric code can produce, except that a partial selection has at most
`MaxProposed` of them. `Projection` has guard, project, restore and verify over
object identities. `RequestHooks` runs one request through the five hooks while
other plugins edit the message list; `host` is the list that the same edits give
without the plugin, with one exception: an edit in front of the current input
while the list is projected changes the temporary list only, `restore` discards
it, and `host` does not have it either (`tests/runtime/test_projection.py` expects
this). The budget charges the current input by `request.prompt` as
`on_llm_request` read it (`Prompts`), not by the message object that is sent.

| Action of `RequestHooks` | Code |
| --- | --- |
| `OnAgentBeginGuard` | `on_agent_begin_guard` |
| `BeginProject`, `Project` | `on_llm_request` and `on_agent_begin_project`, before and after the evaluation thread |
| `OnLlmResponse` | `on_llm_response` |
| `OnAgentDoneRestore`, `OnAgentDoneFinalize` | the two hooks of the end |
| `EnterStorageLocked` | `_enter_storage_locked`, called by any other task |
| `Foreign...`, `AgentAnswers` | other plugins and the agent (external) |

**StorageSecurity** is the store from one start of the plugin to the next: key
resolution, creation of the local key file, structural migrations, encryption of
a legacy database, upgrade of format 1, rotation, scrub, construction of the
repository and the writes of a ready plugin. A table is the set of forms of its
rows, plain or the key they are encrypted under. `work` is the content of the open
transaction, so a crash loses exactly what is not committed. The key source of an
operator may also hold the local key, once the file has it (`Supplied`): that is the
rotation out of local mode. A crash is one of the process. The key file is
fsynced and its directory is not, so whether the file survives a loss of power is
left to the file system and not claimed.

**MCJournal**, **MCRepository**, **MCCompactionWorker**, **MCTurnHooks**,
**MCRequestHooks** and **MCStorageSecurity** give the constants their values.
**JobProofs**, **HistoryProofs** and **LeaseProofs** hold the theorems about the
journal and the repository, **WorkerProofs** those about the workers,
**TurnProofs** about the turn hooks and the parser of tool loops,
**ProjectionProofs** about the list operations of guard, project and restore,
**RequestProofs** about the hooks of a request and **StorageProofs** about the
activation of the store. **Lists** has the list operations that the modules of
turns and requests share (filter, sum, flattening, insertion), as recursive
functions that a proof can unfold. Definitions introduced by a comment
"Mutant" change one definition the way a plausible bug would; no specification
uses them. They document which property notices which mistake.

## Runs

| Run | Instance | What it shows |
| --- | --- | --- |
| `journal` | 2 sessions, 3 event ids, 6 deliveries, 2 counts | conflicting and repeated deliveries and racing backfills: contiguous sequences, unique deliveries, every event counted or due, counts written once |
| `publication` | 1 session, 3 events, 3 jobs, 3 snapshots, 2 capsules with 2 contents | chains of publications and follow-ups with colliding capsule and snapshot identities: no fork, no orphan, readable views, no demand lost, nothing committed changes |
| `fencing` | 1 session, 1 job, 2 workers, 3 epochs, clock 0..3, calls up to 1 late | expiry, recovery, renewal and late callers: valid envelopes, unique tokens, jobs only move forward |
| `sessions` | 2 sessions, 2 jobs, 3 snapshots, 2 epochs | a shared job table: one nonterminal job per session, a frozen base stays active, refinement of `SnapshotHistory` |
| `storage` | 2 operator keys, the local key, 12 key slots of four key sources, 2 crashes or failures | every start from a legacy, a format 1 or a format 2 database, interrupted anywhere: one key protects everything, ACTIVE means scrubbed, a ready store is readable, a local key is never used before its file is written, and the store recovers |
| `worker` | both lanes, 2 turns of size 2, providers with limit 1 and 2, 2 attempts, backfill of 1 artifact, 1 fault | attempts are counted exactly, no wake is lost, every intent whose units fit is served, an accepted notification leads to an attempt |
| `turns` | 2 turns with 1 tool call each, 2 faults, segments of 6 events | compaction targets are stable prefixes, a snapshot hides no open exchange, segments split no exchange |
| `request` | 2 message lists, 5 views, 3 profiles, 4 tokenizers, a counted or an empty prompt, 1 edit by another plugin | what is projected fits up to what was not counted, keeps what is required and whole groups, an accepted engine selection is complete, the native history comes back, usage is masked only while projected |
| `later_trigger`, `old_key`, `verifying_deferral`, `trailing_object` | as above | expected violations, see Findings |

Three events suffice for a base, a frozen target and an intent folded above it;
three snapshots for a line with an inner element; two capsules of two contents
for a candidate whose first insert succeeds and whose second collides; three
epochs for a token that is two claims old; a clock of 3 with leases of 2 and a
delay of 1 for a renewal, an expiry and a call that passes the fence with a
time from before the expiry. In `storage` two faults allow a failed conversion
and a crash in its repetition, two operator keys a rotation and a rotation back.
In `worker` two turns give an intent folded into a working job, and with a
backfill of 1 a job is deferred before it compiles; turns of size 2 with limits
1 and 2 let a session change between a provider that cannot hold them and one
that can. The run also passes with two
faults and with three turns. In `turns` two turns and one tool give every
interleaving of an exchange with another turn. In `request` the views have an
exchange, dependency groups and a field beyond its limit, and the profiles leave
ample, scarce and no room; the current input is a message of 2 tokens, charged
by a prompt of 2 or of none, and neither excess of `ProjectedInputFits` can be
left out. The run also passes with two edits.

Deadlock is not checked where an instance runs out of steps although the system
does not: deliveries, clock, epochs and ids are bounded in `MCRepository`, turns
in `worker` and `turns`, and a single request ends in `request`. Symmetry is used
for identities the actions only compare for equality, in runs that check safety
only.

### Fairness

Safety properties assume none. `IntentServed` and `NotifiedJobIsTried` assume
weak fairness of the steps the event loop and the threads take by themselves: the
next call of the worker returns, the poll interval and the retry time end, a lease
that nobody renews lapses, a turn that captured its reply goes on to its intent
and its wake, and the host loads a plugin that is down. Nothing is assumed of
further turns, and faults are bounded. `IntentServed` also has the premise that
from some time on the worker has a canonical counter and the session a provider
whose context holds every unit up to the intent. Otherwise the code defers the
job for ever: `_persist_deferred` does not look at `max_attempts`, and
COMPACTION_INPUT_TOO_LARGE, TOOL_LOOP_INVALID and COMPACTION_TOKENIZER_UNAVAILABLE
recur on the same frozen input. A later intent is folded into the same job, so one
oversized unit also holds up the turns beside it. In the fenced lane, which does not poll, only
the weaker `NotifiedJobIsTried` holds.

`RecoversAfterFaults` assumes weak fairness of the steps of a start, of the host
starting a plugin that is down, and of reloading one that is locked. The premise
is that the configuration eventually keeps holding the key of the database.

### Findings

* `later_trigger`. `docs/CONCURRENCY_STATE_MACHINE.md` says that of the triggers
  raised while an attempt is working "a later trigger cannot be lost". Both
  outcomes of `publish_snapshot` keep the promise through `_preserve_follow_up`.
  `fail_job` without `retry_at` does not: the job becomes FAILED with the folded
  intent in it. `DemandCarried` is what does hold: an acknowledged intent is
  covered, or carried by a nonterminal job, or by a job that FAILED.
* `old_key`. The storage design (section 8) tells the operator to restore the old
  key as active when any step of a rotation fails, the scrub included. The scrub
  runs after the commit, so the store is then wholly under the new key and the
  old key as active ends in STORAGE_PREVIOUS_KEY_REQUIRED. Keeping the new key
  active works: `RecoversAfterFaults`.
* `verifying_deferral`. `docs/COMPACTION_PROTOCOL.md` says that an unavailable
  canonical metric defers a job without consuming an attempt. In stage VERIFYING
  `fail_job` rejects the request with ValueError; the job keeps its lease until it
  lapses, and the attempt is spent.
* `trailing_object`. The design requires `R_A(P_A(X)+Delta)=X+Delta`. An object
  that another plugin put behind the current input before the projection is part
  of the recorded list and of the Delta, so the restore puts it in twice.
  `NativeHistoryComesBack` is what holds for the other lists.

### Observations

What the models show beside the properties, and no document contradicts:

* a notification for a session whose callback runs is dropped, and a retry is not
  announced, so in the fenced lane such a job waits until the session's next turn
  (`NotifiedJobIsTried` speaks only of sessions that are queued);
* lost leases are not bounded by `max_attempts`;
* a crash of the process while the local key file is written leaves a file that is never
  replaced: local mode stays locked until an operator removes it;
* an exchange whose result was never captured keeps the tool loop open, and no
  later turn of the session is prepared;
* a unit too large for the provider's context, or an invalid tool loop, is
  deferred without end, and with it what is folded into its job;
* the cost of host objects is measured before the evaluation thread, and the
  current input is charged by the prompt of `on_llm_request`; what is added
  to either is not charged. `ProjectedInputFits` shows that the excess over the
  budget is at most these two amounts;
* `_validate_preserved` compares total occurrences, so a doubled system object can
  make up for a missing one; its cost is then not the one that was charged
  (`ProjectedInputFits` asks that no system object is missing).

## Proofs

TLAPS proves the following for every value of the constants: any set of sessions,
events, jobs, workers, turns and keys, message lists of any length, any number of
edits, faults and attempts. The assumptions are the named ones of the modules
and are evaluated by TLC in the runs: deliveries, observations and configurations
are of their types (`DeliveryAssumption`, `NoCountAssumption`,
`ConfigAssumption`), `Null` and `NoKey` are no ordinary values
(`NullAssumption`, `KeyAssumption`), job ids and bounds are natural numbers
(`JobIdAssumption`, `BoundAssumption`, `BoundsAssumption`, `FaultAssumption`,
`BackfillAssumption`, `SizeAssumption`, `LimitAssumption`), and the temporary projection object is one that neither
the host nor another plugin has (`ObjectAssumption`). Each inductive invariant
was checked by TLC before it was proved: `StorageInv` on 435,540 states,
`WorkerInv` on 277,592, `TurnInv` on 388,177, `RequestInv` on 276,878 with two
edits.

**Journal** (`JobProofs`). Each invariant is inductive together with the type
invariant: `JournalTypeCorrect`, `SequencesContiguous`, `DeliveriesOnce`,
`CountsNeverForgotten`, and the action property `MetricsNeverChange`.

**Repository** (`JobProofs`, `HistoryProofs`, `LeaseProofs`). `TypeCorrect`, then
the inductive invariant `Core`. None of the job properties is inductive alone.
That a working job's base is active needs that no other job of the session can
publish, hence one nonterminal job per session; that a follow-up or a folded
intent keeps this needs that the intent of a nonterminal job is ahead of the
coverage, since otherwise a claim would cancel it or freeze an empty interval;
and that a publication moves the coverage to exactly the target needs the frozen
target to lie between coverage and journal. `Core` is the conjunction: `RowSound`
for each job, `PointerSound` for each session, `OneNonterminalJob`
(`CoreInvariant`). There is one lemma per action.

* From `Core`: `EnvelopesStayValid`, `NonterminalUnique`, `CasNeverLoses` and
  `NoJobOvertaken`. The last two say something about code that no test reaches:
  `_cas_active_pointer` never returns false, and the branch of `claim_job` that
  cancels a job is never taken.
* On top of it, the active pointer only advances (`PointerOnlyAdvances`),
  committed rows never change (`RowsNeverChange`), the snapshots of a session
  form a line (`HistoryLinear`), both views can always be read
  (`RequestViewsReadable`, `CompactionViewsReadable`), and the repository
  implements `SnapshotHistory` (`RepositoryImplementsHistory`): a committed
  publication maps to `Replace`, a first capture to `Append`, all else to a
  stutter.
* `LeaseProofs` classifies what one step does to one row (`RowMoves`: held, folded,
  worked, let go, ended or claimed). `JobsOnlyMoveForward` reads off the
  classes. `TokensUnique` follows because only a claim issues a token, with an
  epoch above all earlier ones of the job. For `DemandNeverLost`, a row that
  carries an acknowledged intent (`Carries`) carries it until it is published,
  and then coverage or the follow-up takes over. `CapsulesBelong` is inductive
  because the savepoint undoes capsules and snapshot together.

**Workers** (`WorkerProofs`). `NoLostWakeup` speaks of a worker that sleeps. It is
not inductive: the race is between the claim that finds nothing and the wait, so
`WakeIsKept` states it from the failed claim on. `GivesUpOnlyAfterSpentAttempts`
needs the shape of job and workers, and that the fenced heartbeat ends only in
the ways `_record_failure` tells apart (`HeartbeatEnds`). `WorkerInv` is the
conjunction (`WorkerInvariant`); `AttemptsNotLost` and `WakeupNotLost` follow.

**Turns** (`TurnProofs`). What the parser does with a journal of any length is
proved by induction, from the least counterexample of a set of naturals
(`WFMin`). The parser function exists and is unrolled one event at a time
(`LoopExists`, `LoopSteps`); from a stable state it goes on as from the start
(`RestAfterStable`). `TurnInv` adds to the property that a turn between its check
and its intent holds a journalled answer that closed the loop when it was
checked (`AnswerHeld`): later captures of other turns only extend the journal.
`TargetsCloseTheLoop` and `DeltaVerdictIsJournals` follow.

**Request** (`ProjectionProofs`, `RequestProofs`). `RestoreUndoesProject` is the
contract of the two operations, R(P(X) + Delta) = X + Delta, for all lists in
which the current input stands last and once. `RequestInv` carries it
through the hooks. While no edit damaged what restore needs and nothing stood
behind the current input at the projection (`Owed`), the current input occurs once
and the recorded list with what now follows the input is the host's list
(`Recoverable`); once restored the two lists are equal (`CameBack`); a list that
was not projected is the host's (`Untouched`); without edits the guard's list is
the projected one (`Quiet`, for the closing verification). Each kind of edit has
a lemma that moves both lists alike. `NativeListComesBack` and `UsageComesBack`
follow. What `Owed` excludes is what the run `trailing_object` violates.

**Storage** (`StorageProofs`). The four invariants concern committed data, but a
conversion is one transaction of many steps, so `StorageInv` says what the open
transaction of each phase has converted so far (`WorkFits`), what a database of each
format holds (`FormatShape`), how far a scrub has got (`ScrubShape`), that the keys of
a start are resolved and a local key is on disk before use (`KeysResolved`), and
what the metadata are behind an activated codec (`ActivatedShape`). A crash loses
the transaction and keeps the rest. `StoreHasOneKey`, `StoreActiveIsScrubbed`,
`StoreReadyReads`, `StoreLocalKeyIsKept` and `StorageTypeCorrect` are its conjuncts.

Only model-checked:

* liveness (`IntentServed`, `NotifiedJobIsTried`, `RecoversAfterFaults`): fairness
  and `ENABLED` are outside the prover;
* `ProjectedInputFits`, `SelectionKeepsRequired` and `EngineSelectionIsComplete`:
  they rest on sums over lists before and after a filter, on what sorting keeps
  (`Ordered`) and on the folds of the selection, each an induction over data of
  its own; only the filter (`Without`) has its lemmas, in `ProjectionProofs`;
* `SegmentsKeepExchanges`: nested folds over units whose accumulators are
  sequences of sequences.

## Not modelled

* Encryption codec, key text and `keyctl`: bytes and file modes.
* The numeric part of the context graph (matrix, reduction, solver): floating
  point; its answer is left open. The decision what to do with its result is in `Budget`.
* Prompts, parsing of model output, rendering and the text audit of a candidate;
  extraction of texts and fingerprints from host objects; status texts; tables of
  the tokenizers.
* `provider_thinking.py`: rewriting of message dictionaries behind wrapped provider
  methods, with no state in common with the other parts.
* The reorganization ledger: a pure function that no worker calls.
* The in-memory prototype lane: the plugin does not construct it.
* Two generations of plugin components alive at once, when a hook in flight
  outlives `terminate`. `TurnHooks` and `RequestHooks` have hooks that lose their
  bridge, `RuntimeWorker` has threads that outlive their worker, and the database
  is safe against both; the initialize lock itself is not modelled.
