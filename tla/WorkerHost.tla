----------------------------- MODULE WorkerHost -----------------------------
(***************************************************************************)
(* What both compaction workers share: the turn of the session that        *)
(* captures the assistant reply, raises the durable intent and then        *)
(* announces it, in three separate steps because each database call is     *)
(* awaited; the passing of time; and the fault budget.                     *)
(***************************************************************************)
EXTENDS JobView, FiniteSets

CONSTANT Sizes      \* prompt tokens a turn's largest unit may need

ASSUME SizeAssumption == Sizes \subseteq Nat /\ Sizes # {}

VARIABLES
    lane,         \* which worker class CompactionWorker constructed
    strict,       \* strict_audit of the configuration
    at,           \* where the worker is: the call it is about to make or awaits
    beat,         \* the heartbeat task of the leased job
    turn,         \* the turn in on_agent_done_finalize: [stage, target]
    unmeasured,   \* journal sequences without a canonical token metric
    units,        \* per journal sequence, the tokens its largest unit needs
    faults        \* faults used so far

hostVars == <<lane, strict, turn, unmeasured, units, faults>>

Idle == [stage |-> "idle", target |-> 0]

HostInit ==
    /\ StoreInit
    /\ strict \in BOOLEAN
    /\ at = "down"
    /\ beat = "off"
    /\ turn = Idle
    /\ unmeasured = {}
    /\ units = [e \in 1..MaxEvents |-> 0]
    /\ faults = 0

Fault == faults < MaxFaults /\ faults' = faults + 1

(* capture_assistant appends the reply; its canonical metric is written    *)
(* with it when the tokenizer was there, else left to the backfill. A tool *)
(* loop is one unit with its results, and what the extraction prompt of a  *)
(* unit costs is fixed with its text. The turn goes on only when the       *)
(* pressure asked for compaction. A turn needs the bridge of a plugin that *)
(* is up when it starts, and keeps it.                                     *)
CaptureAssistant ==
    /\ turn = Idle
    /\ at \notin {"down", "locked"}
    /\ mark < MaxEvents
    /\ mark' = mark + 1
    /\ \E observed \in BOOLEAN :
          unmeasured' = IF observed THEN unmeasured ELSE unmeasured \cup {mark + 1}
    /\ \E size \in Sizes : units' = [units EXCEPT ![mark + 1] = size]
    /\ turn' \in {Idle, [stage |-> "captured", target |-> mark + 1]}
    /\ UNCHANGED <<job, covered, lane, strict, at, beat, faults>>

RaiseCompactionIntent ==
    /\ turn.stage = "captured"
    /\ job' = Intended(job, turn.target)
    /\ turn' = IF turn.target > covered THEN [turn EXCEPT !.stage = "raised"] ELSE Idle
    /\ UNCHANGED <<mark, covered, lane, strict, at, beat, unmeasured, units, faults>>

(* A lease that nothing renews ends; one that is renewed ends only when    *)
(* the process stalls or the clock jumps past the expiry.                  *)
LeaseLapses ==
    /\ Fence
    /\ beat # "on"
    /\ job' = [job EXCEPT !.live = FALSE]
    /\ UNCHANGED <<mark, covered, hostVars, at, beat>>

ProcessStalls ==
    /\ Fence
    /\ beat = "on"
    /\ Fault
    /\ job' = [job EXCEPT !.live = FALSE]
    /\ UNCHANGED <<mark, covered, lane, strict, turn, unmeasured, units, at, beat>>

RetryTimeComes ==
    /\ job.state = "RETRY_WAIT"
    /\ ~job.due
    /\ job' = [job EXCEPT !.due = TRUE]
    /\ UNCHANGED <<mark, covered, hostVars, at, beat>>
=============================================================================
