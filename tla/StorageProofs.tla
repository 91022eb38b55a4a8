--------------------------- MODULE StorageProofs ---------------------------
(***************************************************************************)
(* What the encrypted store keeps through every start, stop, crash and     *)
(* failed step, for every set of operator keys, every set of               *)
(* configurations and every number of faults.                              *)
(***************************************************************************)
EXTENDS StorageSecurity, TLAPS

(* The phases of a start, by the transaction they belong to.               *)
LegacyPhases ==
    {"transform_sessions", "transform_events", "transform_capsules",
     "transform_snapshots", "transform_commit"}

UpgradePhases ==
    {"upgrade_sessions", "upgrade_events", "upgrade_capsules", "upgrade_snapshots",
     "upgrade_commit"}

RekeyPhases ==
    {"rekey_sessions", "rekey_events", "rekey_capsules", "rekey_snapshots",
     "rekey_metrics", "rekey_commit"}

ScrubPhases == {"checkpoint", "vacuum", "second_checkpoint", "mark"}

\* Phases of a start that has its keys.
KeyedPhases ==
    LegacyPhases \cup UpgradePhases \cup RekeyPhases \cup ScrubPhases \cup
    {"migrating", "validating", "existing", "recheck", "upgrade_begin", "rekey_begin",
     "final", "activated", "ready"}

Phases == KeyedPhases \cup {"down", "resolving", "writing_key", "locked"}

\* Phases in which the open transaction has converted table t.
ConvertedIn(t) ==
    CASE t = "sessions" ->
           (LegacyPhases \cup UpgradePhases \cup RekeyPhases)
             \ {"transform_sessions", "upgrade_sessions", "rekey_sessions"}
      [] t = "journal_events" ->
           {"transform_capsules", "transform_snapshots", "transform_commit",
            "upgrade_capsules", "upgrade_snapshots", "upgrade_commit",
            "rekey_capsules", "rekey_snapshots", "rekey_metrics", "rekey_commit"}
      [] t = "capsules" ->
           {"transform_snapshots", "transform_commit", "upgrade_snapshots",
            "upgrade_commit", "rekey_snapshots", "rekey_metrics", "rekey_commit"}
      [] t = "snapshots" ->
           {"transform_commit", "upgrade_commit", "rekey_metrics", "rekey_commit"}
      [] t = "token_metrics" -> {"rekey_commit"}

----------------------------------------------------------------------------
(* The inductive invariant                                                 *)

\* A start that goes on past the key resolution has an active key, and the
\* local key is used only once its file holds it.
KeysResolved ==
    /\ phase \in Phases
    /\ phase \in KeyedPhases => keys.active \in Keys
    /\ keys.active = LocalKey => keyFile = LocalKey

\* What a database of each format holds: clear counts before format 2, no
\* metrics before the migration that adds them, the ledger rows of its age.
FormatShape ==
    /\ db.security.format # 2 =>
         /\ db.ledger \in {0, 1}
         /\ db.content["token_metrics"] = {}
         /\ \A t \in CountedTables : db.counts[t] \subseteq {"plain"}
    /\ db.security.format = 2 => db.ledger \in {2, 3}

\* The transaction w of phase p: what it has converted is under the active
\* key and what it never converts is as the new format wants it.
WorkFits(p, w) ==
    /\ p \in LegacyPhases \cup {"validating"} => db.security = NoSecurity
    /\ p \in LegacyPhases => \A t \in CountedTables : w.counts[t] \subseteq {"plain"}
    /\ p \in LegacyPhases \cup UpgradePhases => w.content["token_metrics"] = {}
    /\ p \in RekeyPhases \cup {"rekey_begin"} => db.security.format = 2
    /\ \A t \in Tables : p \in ConvertedIn(t) => w.content[t] \subseteq {keys.active}
    /\ \A t \in CountedTables :
         p \in ConvertedIn(t) \ LegacyPhases => w.counts[t] \subseteq {keys.active}

\* How far the running scrub has got, and where the start goes on after it.
ScrubShape ==
    /\ phase \in ScrubPhases => after \in {"existing", "recheck", "final"}
    /\ phase = "second_checkpoint" => db.vacuumed
    /\ phase = "mark" => ~db.wal /\ ~db.pages

\* The metadata behind an activated codec.
ActivatedShape ==
    phase = "activated" =>
        db.security = [format |-> 2, key |-> keys.active, state |-> "ACTIVE",
                       verifier |-> keys.active]

StorageInv ==
    /\ TypeOK /\ KeysResolved /\ FormatShape /\ WorkFits(phase, work)
    /\ ScrubShape /\ ActivatedShape
    /\ OneKeyProtects /\ ActiveIsScrubbed /\ ReadyReads /\ LocalKeyIsKept
----------------------------------------------------------------------------
(* Steps that convert a table                                              *)

(* Encrypting a table changes the forms of that table only, and leaves one *)
(* form in it.                                                             *)
LEMMA EncryptedFields ==
    ASSUME NEW w \in Databases, NEW t \in Tables, NEW k \in Keys
    PROVE  LET e == Encrypted(w, t, k) IN
           /\ e \in Databases
           /\ e.counts = w.counts
           /\ e.content[t] \subseteq {k}
           /\ \A u \in Tables \ {t} : e.content[u] = w.content[u]
<1> DEFINE e == Encrypted(w, t, k)
           c == [w.content EXCEPT ![t] = Rewritten(@, k)]
<1>1. e = [w EXCEPT !.content = c]
  BY DEF Encrypted
<1>2. Rewritten(w.content[t], k) \subseteq {k} /\ {k} \subseteq Forms
  BY DEF Rewritten, Forms
<1>3. w.content \in [Tables -> SUBSET Forms]
  BY DEF Databases
<1>4. /\ c \in [Tables -> SUBSET Forms]
      /\ c[t] \subseteq {k}
      /\ \A u \in Tables \ {t} : c[u] = w.content[u]
  BY <1>2, <1>3
<1> HIDE DEF c
<1>5. e \in Databases /\ e.counts = w.counts /\ e.content = c
  BY <1>1, <1>4 DEF Databases
<1> QED
  BY <1>4, <1>5

(* Copying a counted table changes its content and its counts, and leaves  *)
(* both under the active key.                                              *)
LEMMA CopiedFields ==
    ASSUME NEW w \in Databases, NEW t \in CountedTables, keys.active \in Keys
    PROVE  LET e == CopiedUnderActiveKey(w, t) IN
           /\ e \in Databases
           /\ e.content[t] \subseteq {keys.active}
           /\ e.counts[t] \subseteq {keys.active}
           /\ \A u \in Tables \ {t} : e.content[u] = w.content[u]
           /\ \A u \in CountedTables \ {t} : e.counts[u] = w.counts[u]
<1> DEFINE e == CopiedUnderActiveKey(w, t)
           c == [w.content EXCEPT ![t] = Rewritten(@, keys.active)]
           n == [w.counts EXCEPT ![t] = Rewritten(@, keys.active)]
<1>1. e = [w EXCEPT !.content = c, !.counts = n]
  BY DEF CopiedUnderActiveKey
<1>2. /\ Rewritten(w.content[t], keys.active) \subseteq {keys.active}
      /\ Rewritten(w.counts[t], keys.active) \subseteq {keys.active}
      /\ {keys.active} \subseteq Forms
  BY DEF Rewritten, Forms
<1>3. w.content \in [Tables -> SUBSET Forms] /\ w.counts \in [CountedTables -> SUBSET Forms]
  BY DEF Databases
<1>4. /\ c \in [Tables -> SUBSET Forms]
      /\ c[t] \subseteq {keys.active}
      /\ \A u \in Tables \ {t} : c[u] = w.content[u]
  BY <1>2, <1>3 DEF Tables, CountedTables
<1>5. /\ n \in [CountedTables -> SUBSET Forms]
      /\ n[t] \subseteq {keys.active}
      /\ \A u \in CountedTables \ {t} : n[u] = w.counts[u]
  BY <1>2, <1>3
<1> HIDE DEF c, n
<1>6. e \in Databases /\ e.counts = n /\ e.content = c
  BY <1>1, <1>4, <1>5, Zenon DEF Databases
<1> QED
  BY <1>4, <1>5, <1>6

(* The empty database is a database.                                       *)
LEMMA EmptyType == EmptyDatabase \in Databases
BY DEF EmptyDatabase, Databases

(* A start that is locked keeps every durable fact: the lock changes no    *)
(* file.                                                                   *)
LEMMA LockKeeps ==
    ASSUME StorageInv, NEW reason, Lock(reason), UNCHANGED <<db, resolved>>,
           read' \in Security \cup {NoSecurity}, faults' \in 0 .. MaxFaults
    PROVE  StorageInv'
<1>1. TypeOK'
  BY EmptyType DEF StorageInv, TypeOK, Lock, resolved
<1>2. KeysResolved'
  BY DEF StorageInv, KeysResolved, Lock, resolved, Phases, KeyedPhases, LegacyPhases,
      UpgradePhases, RekeyPhases, ScrubPhases
<1>3. \A t \in Tables : "locked" \notin ConvertedIn(t)
  BY DEF ConvertedIn, LegacyPhases, UpgradePhases, RekeyPhases, Tables
<1>4. WorkFits(phase, work)'
  BY <1>3 DEF Lock, WorkFits, LegacyPhases, UpgradePhases, RekeyPhases, Tables,
      CountedTables
<1>5. ScrubShape' /\ ActivatedShape' /\ ReadyReads'
  BY DEF Lock, ScrubShape, ActivatedShape, ReadyReads, ScrubPhases
<1>6. FormatShape' /\ OneKeyProtects' /\ ActiveIsScrubbed' /\ LocalKeyIsKept'
  BY DEF StorageInv, FormatShape, OneKeyProtects, ActiveIsScrubbed, LocalKeyIsKept,
      resolved
<1> QED
  BY <1>1, <1>2, <1>4, <1>5, <1>6 DEF StorageInv

(* A conversion inside the open transaction touches no file; it is right   *)
(* when the transaction it leaves fits the next phase.                     *)
LEMMA ConvertKeeps ==
    ASSUME StorageInv, NEW here \in KeyedPhases,
           NEW next \in LegacyPhases \cup UpgradePhases \cup RekeyPhases,
           NEW ok, NEW converted, NEW reason,
           Convert(here, next, ok, converted, reason),
           ok => converted \in Databases /\ WorkFits(next, converted)
    PROVE  StorageInv'
<1>1. CASE ~ok
  <2>1. Lock(reason) /\ UNCHANGED <<db, resolved, read, faults>>
    BY <1>1 DEF Convert
  <2> QED
    BY <2>1, LockKeeps DEF StorageInv, TypeOK
<1>2. CASE ok
  <2>1. /\ phase = here /\ phase' = next /\ work' = converted
        /\ UNCHANGED <<db, keyFile, config, keys, read, after, codec, code, faults>>
    BY <1>2 DEF Convert, resolved
  <2>2. TypeOK'
    BY <1>2, <2>1 DEF StorageInv, TypeOK
  <2>3. KeysResolved'
    BY <2>1 DEF StorageInv, KeysResolved, Phases, KeyedPhases
  <2>4. WorkFits(phase, work)'
    BY <1>2, <2>1 DEF WorkFits
  <2>5. phase' \notin ScrubPhases \cup {"activated", "ready"}
    BY <2>1 DEF LegacyPhases, UpgradePhases, RekeyPhases, ScrubPhases
  <2>6. ScrubShape' /\ ActivatedShape' /\ ReadyReads'
    BY <2>5 DEF ScrubShape, ActivatedShape, ReadyReads, ScrubPhases
  <2>7. FormatShape' /\ OneKeyProtects' /\ ActiveIsScrubbed' /\ LocalKeyIsKept'
    BY <2>1 DEF StorageInv, FormatShape, OneKeyProtects, ActiveIsScrubbed,
        LocalKeyIsKept
  <2> QED
    BY <2>2, <2>3, <2>4, <2>6, <2>7 DEF StorageInv
<1> QED
  BY <1>1, <1>2

(* The commit of a conversion: the new metadata names the active key, and  *)
(* every table of the transaction is under it.                             *)
LEMMA CommitKeeps ==
    ASSUME StorageInv, NEW here \in KeyedPhases, NEW next \in {"existing", "final"},
           NEW m \in Security, NEW ledger \in 0 .. 3,
           CommitConversion(here, next, m, ledger),
           m.key = keys.active, m.state = "NEEDS_SCRUB", m.verifier = keys.active,
           \A t \in Tables : work.content[t] \subseteq {keys.active},
           \A t \in CountedTables : work.counts[t] \subseteq
                {IF m.format = 1 THEN "plain" ELSE keys.active},
           m.format = 1 => work.content["token_metrics"] = {} /\ ledger \in {0, 1},
           m.format = 2 => ledger \in {2, 3}
    PROVE  StorageInv'
<1>1. /\ db' = [work EXCEPT !.security = m, !.ledger = ledger, !.wal = TRUE,
                            !.pages = TRUE, !.vacuumed = FALSE]
      /\ phase = here /\ phase' = "checkpoint" /\ after' = next /\ work' = EmptyDatabase
      /\ UNCHANGED <<keyFile, config, keys, read, codec, code, faults>>
  BY DEF CommitConversion, resolved
<1>2. keys.active \in Keys
  BY <1>1 DEF StorageInv, KeysResolved
<1>3. m.format \in {1, 2}
  BY DEF Security
<1>4. /\ db' \in Databases
      /\ db'.security = m /\ db'.ledger = ledger
      /\ db'.content = work.content /\ db'.counts = work.counts
  BY <1>1, Zenon DEF StorageInv, TypeOK, Databases
<1>5. TypeOK'
  BY <1>1, <1>4, EmptyType DEF StorageInv, TypeOK
<1>6. KeysResolved'
  BY <1>1, <1>2 DEF StorageInv, KeysResolved, Phases, KeyedPhases, ScrubPhases
<1>7. FormatShape'
  BY <1>3, <1>4 DEF FormatShape
<1>8. WorkFits(phase, work)'
  <2>1. phase' \notin LegacyPhases \cup UpgradePhases \cup RekeyPhases
                        \cup {"validating", "rekey_begin"}
    BY <1>1 DEF LegacyPhases, UpgradePhases, RekeyPhases
  <2>2. \A t \in Tables : phase' \notin ConvertedIn(t)
    BY <1>1 DEF ConvertedIn, LegacyPhases, UpgradePhases, RekeyPhases, Tables
  <2> QED
    BY <2>1, <2>2 DEF WorkFits, Tables, CountedTables
<1>9. ScrubShape' /\ ActivatedShape' /\ ReadyReads'
  BY <1>1 DEF ScrubShape, ActivatedShape, ReadyReads
<1>10. OneKeyProtects' /\ ActiveIsScrubbed'
  BY <1>4 DEF OneKeyProtects, ActiveIsScrubbed
<1>11. LocalKeyIsKept'
  BY <1>1, <1>4 DEF StorageInv, KeysResolved, LocalKeyIsKept
<1> QED
  BY <1>5, <1>6, <1>7, <1>8, <1>9, <1>10, <1>11 DEF StorageInv
----------------------------------------------------------------------------
(* The encryption of a legacy database                                     *)

(* Encrypting one more table of a legacy database.                         *)
LEMMA LegacyTableKeeps ==
    ASSUME StorageInv, NEW here \in LegacyPhases, NEW next \in LegacyPhases,
           NEW done \in Tables \ {"token_metrics"}, phase = here,
           \A t \in Tables : next \in ConvertedIn(t) => t = done \/ here \in ConvertedIn(t)
    PROVE  LET e == Encrypted(work, done, keys.active)
           IN  e \in Databases /\ WorkFits(next, e)
<1> DEFINE e == Encrypted(work, done, keys.active)
<1>1. work \in Databases /\ keys.active \in Keys
  BY DEF StorageInv, TypeOK, KeysResolved, KeyedPhases
<1>2. /\ e \in Databases
      /\ e.counts = work.counts
      /\ e.content[done] \subseteq {keys.active}
      /\ \A u \in Tables \ {done} : e.content[u] = work.content[u]
  BY <1>1, EncryptedFields
<1>3. WorkFits(here, work)
  BY DEF StorageInv
<1>4. next \notin RekeyPhases \cup {"rekey_begin"} /\ next \notin UpgradePhases
  BY DEF LegacyPhases, UpgradePhases, RekeyPhases
<1> HIDE DEF e
<1>5. "token_metrics" \in Tables \ {done}
  BY DEF Tables
<1>6. WorkFits(next, e)
  BY <1>2, <1>3, <1>4, <1>5 DEF WorkFits
<1> QED
  BY <1>2, <1>6 DEF e

(* The whole encryption of a legacy database keeps the invariant.          *)
LEMMA LegacyKeeps == StorageInv /\ LegacyStep => StorageInv'
<1> SUFFICES ASSUME StorageInv, LegacyStep
             PROVE  StorageInv'
  OBVIOUS
<1>1. CASE ValidateLegacyRows
  <2>1. phase = "validating" /\ db.security = NoSecurity /\ db \in Databases
    BY <1>1 DEF ValidateLegacyRows, Convert, StorageInv, WorkFits, TypeOK
  <2>2. \A t \in Tables : "transform_sessions" \notin ConvertedIn(t)
    BY DEF ConvertedIn, Tables, LegacyPhases, UpgradePhases, RekeyPhases
  <2>3. WorkFits("transform_sessions", db)
    BY <2>1, <2>2 DEF WorkFits, StorageInv, FormatShape, NoSecurity, Tables, CountedTables,
        LegacyPhases, UpgradePhases, RekeyPhases
  <2> QED
    BY <1>1, <2>1, <2>3, ConvertKeeps, Zenon DEF ValidateLegacyRows, KeyedPhases, LegacyPhases
<1>2. CASE TransformSessions
  <2>1. \A t \in Tables : "transform_events" \in ConvertedIn(t) =>
           t = "sessions" \/ "transform_sessions" \in ConvertedIn(t)
    BY DEF ConvertedIn, Tables
  <2>2. phase = "transform_sessions"
    BY <1>2 DEF TransformSessions, Convert
  <2>3. LET e == Encrypted(work, "sessions", keys.active)
        IN  e \in Databases /\ WorkFits("transform_events", e)
    BY <2>1, <2>2, LegacyTableKeeps DEF LegacyPhases, Tables
  <2> QED
    BY <1>2, <2>3, ConvertKeeps, Zenon DEF TransformSessions, KeyedPhases, LegacyPhases
<1>3. CASE TransformEvents
  <2>1. \A t \in Tables : "transform_capsules" \in ConvertedIn(t) =>
           t = "journal_events" \/ "transform_events" \in ConvertedIn(t)
    BY DEF ConvertedIn, Tables, LegacyPhases
  <2>2. phase = "transform_events"
    BY <1>3 DEF TransformEvents, Convert
  <2>3. LET e == Encrypted(work, "journal_events", keys.active)
        IN  e \in Databases /\ WorkFits("transform_capsules", e)
    BY <2>1, <2>2, LegacyTableKeeps DEF LegacyPhases, Tables
  <2> QED
    BY <1>3, <2>3, ConvertKeeps, Zenon DEF TransformEvents, KeyedPhases, LegacyPhases
<1>4. CASE TransformCapsules
  <2>1. \A t \in Tables : "transform_snapshots" \in ConvertedIn(t) =>
           t = "capsules" \/ "transform_capsules" \in ConvertedIn(t)
    BY DEF ConvertedIn, Tables, LegacyPhases
  <2>2. phase = "transform_capsules"
    BY <1>4 DEF TransformCapsules, Convert
  <2>3. LET e == Encrypted(work, "capsules", keys.active)
        IN  e \in Databases /\ WorkFits("transform_snapshots", e)
    BY <2>1, <2>2, LegacyTableKeeps DEF LegacyPhases, Tables
  <2> QED
    BY <1>4, <2>3, ConvertKeeps, Zenon DEF TransformCapsules, KeyedPhases, LegacyPhases
<1>5. CASE TransformSnapshots
  <2>1. \A t \in Tables : "transform_commit" \in ConvertedIn(t) =>
           t = "snapshots" \/ "transform_snapshots" \in ConvertedIn(t)
    BY DEF ConvertedIn, Tables, LegacyPhases
  <2>2. phase = "transform_snapshots"
    BY <1>5 DEF TransformSnapshots, Convert
  <2>3. LET e == Encrypted(work, "snapshots", keys.active)
        IN  e \in Databases /\ WorkFits("transform_commit", e)
    BY <2>1, <2>2, LegacyTableKeeps DEF LegacyPhases, Tables
  <2> QED
    BY <1>5, <2>3, ConvertKeeps, Zenon DEF TransformSnapshots, KeyedPhases, LegacyPhases
<1>6. CASE TransformCommit
  <2>1. phase = "transform_commit"
    BY <1>6 DEF TransformCommit, CommitConversion
  <2>2. /\ db.security = NoSecurity
        /\ \A t \in CountedTables : work.counts[t] \subseteq {"plain"}
        /\ work.content["token_metrics"] = {}
    BY <2>1 DEF StorageInv, WorkFits, LegacyPhases
  <2>3. \A t \in Tables : t = "token_metrics" \/ phase \in ConvertedIn(t)
    BY <2>1 DEF ConvertedIn, Tables, LegacyPhases
  <2>4. \A t \in Tables : work.content[t] \subseteq {keys.active}
    BY <2>2, <2>3 DEF StorageInv, WorkFits
  <2>5. db.ledger \in {0, 1} /\ db.ledger \in 0 .. 3
    BY <2>2 DEF StorageInv, FormatShape, NoSecurity
  <2>6. keys.active \in Keys
    BY <2>1 DEF StorageInv, KeysResolved, KeyedPhases, LegacyPhases
  <2> QED
    BY <1>6, <2>2, <2>4, <2>5, <2>6, CommitKeeps
    DEF TransformCommit, KeyedPhases, LegacyPhases, Security, States
<1> QED
  BY <1>1, <1>2, <1>3, <1>4, <1>5, <1>6 DEF LegacyStep
----------------------------------------------------------------------------
(* The upgrade to format 2 and the rotation                                *)

(* Encrypting one more table without counts.                               *)
LEMMA EncryptMoreKeeps ==
    ASSUME StorageInv, NEW done \in Tables \ CountedTables, NEW here, NEW next, phase = here,
           \/ here \in UpgradePhases /\ next \in UpgradePhases /\ done # "token_metrics"
           \/ here \in RekeyPhases /\ next \in RekeyPhases,
           \A t \in Tables : next \in ConvertedIn(t) => t = done \/ here \in ConvertedIn(t)
    PROVE  LET e == Encrypted(work, done, keys.active)
           IN  e \in Databases /\ WorkFits(next, e)
<1> DEFINE e == Encrypted(work, done, keys.active)
<1>1. work \in Databases /\ keys.active \in Keys
  BY Zenon DEF StorageInv, TypeOK, KeysResolved, KeyedPhases
<1>2. /\ e \in Databases
      /\ e.counts = work.counts
      /\ e.content[done] \subseteq {keys.active}
      /\ \A u \in Tables \ {done} : e.content[u] = work.content[u]
  BY <1>1, EncryptedFields
<1>3. WorkFits(here, work)
  BY DEF StorageInv
<1>4. /\ here \notin LegacyPhases /\ next \notin LegacyPhases \cup {"validating"}
      /\ next \in UpgradePhases => here \in UpgradePhases /\ done # "token_metrics"
      /\ next \in RekeyPhases \cup {"rekey_begin"} => here \in RekeyPhases
  BY DEF LegacyPhases, UpgradePhases, RekeyPhases
<1>5. "token_metrics" \in Tables /\ CountedTables \subseteq Tables
  BY DEF Tables, CountedTables
<1> HIDE DEF e
<1>6. \A t \in Tables : next \in ConvertedIn(t) => e.content[t] \subseteq {keys.active}
  BY <1>2, <1>3 DEF WorkFits
<1>7. \A t \in CountedTables :
        next \in ConvertedIn(t) \ LegacyPhases => e.counts[t] \subseteq {keys.active}
  BY <1>2, <1>3, <1>4, <1>5, Zenon DEF WorkFits
<1>8. WorkFits(next, e)
  BY <1>2, <1>3, <1>4, <1>5, <1>6, <1>7, Zenon DEF WorkFits
<1> QED
  BY <1>2, <1>8 DEF e

(* Copying one more table with its counts.                                 *)
LEMMA CopyMoreKeeps ==
    ASSUME StorageInv, NEW done \in CountedTables, NEW here, NEW next, phase = here,
           \/ here \in UpgradePhases /\ next \in UpgradePhases
           \/ here \in RekeyPhases /\ next \in RekeyPhases,
           \A t \in Tables : next \in ConvertedIn(t) => t = done \/ here \in ConvertedIn(t)
    PROVE  LET e == CopiedUnderActiveKey(work, done)
           IN  e \in Databases /\ WorkFits(next, e)
<1> DEFINE e == CopiedUnderActiveKey(work, done)
<1>1. work \in Databases /\ keys.active \in Keys
  BY Zenon DEF StorageInv, TypeOK, KeysResolved, KeyedPhases
<1>2. /\ e \in Databases
      /\ e.content[done] \subseteq {keys.active}
      /\ e.counts[done] \subseteq {keys.active}
      /\ \A u \in Tables \ {done} : e.content[u] = work.content[u]
      /\ \A u \in CountedTables \ {done} : e.counts[u] = work.counts[u]
  BY <1>1, CopiedFields
<1>3. WorkFits(here, work)
  BY DEF StorageInv
<1>4. /\ here \notin LegacyPhases /\ next \notin LegacyPhases \cup {"validating"}
      /\ next \in UpgradePhases => here \in UpgradePhases
      /\ next \in RekeyPhases \cup {"rekey_begin"} => here \in RekeyPhases
  BY DEF LegacyPhases, UpgradePhases, RekeyPhases
<1>5. "token_metrics" \in Tables \ {done} /\ CountedTables \subseteq Tables
  BY DEF Tables, CountedTables
<1> HIDE DEF e
<1>6. \A t \in Tables : next \in ConvertedIn(t) => e.content[t] \subseteq {keys.active}
  BY <1>2, <1>3, Zenon DEF WorkFits
<1>7. \A t \in CountedTables :
        next \in ConvertedIn(t) \ LegacyPhases => e.counts[t] \subseteq {keys.active}
  BY <1>2, <1>3, <1>4, <1>5, Zenon DEF WorkFits
<1>8. WorkFits(next, e)
  BY <1>2, <1>3, <1>4, <1>5, <1>6, <1>7, Zenon DEF WorkFits
<1> QED
  BY <1>2, <1>8 DEF e

(* The whole upgrade to format 2 keeps the invariant.                      *)
LEMMA UpgradeKeeps == StorageInv /\ UpgradeStep => StorageInv'
<1> SUFFICES ASSUME StorageInv, UpgradeStep
             PROVE  StorageInv'
  OBVIOUS
<1>1. CASE UpgradeBegin
  <2> DEFINE ok == db.security = [format |-> 1, key |-> SourceFor(read),
                                  state |-> "ACTIVE", verifier |-> SourceFor(read)]
  <2>1. \A t \in Tables : "upgrade_sessions" \notin ConvertedIn(t)
    BY DEF ConvertedIn, Tables, LegacyPhases, UpgradePhases, RekeyPhases
  <2>2. ok => db.content["token_metrics"] = {}
    BY DEF StorageInv, FormatShape
  <2>3. "upgrade_sessions" \notin LegacyPhases \cup RekeyPhases \cup {"validating"}
    BY DEF LegacyPhases, RekeyPhases
  <2>4. ok => db \in Databases /\ WorkFits("upgrade_sessions", db)
    BY <2>1, <2>2, <2>3 DEF WorkFits, StorageInv, TypeOK, Tables, CountedTables
  <2> QED
    BY <1>1, <2>4, ConvertKeeps, Zenon DEF UpgradeBegin, KeyedPhases, UpgradePhases
<1>2. CASE RewriteFormatTwoSessions
  <2>1. \A t \in Tables : "upgrade_events" \in ConvertedIn(t) =>
           t = "sessions" \/ "upgrade_sessions" \in ConvertedIn(t)
    BY DEF ConvertedIn, Tables, UpgradePhases
  <2>2. phase = "upgrade_sessions"
    BY <1>2 DEF RewriteFormatTwoSessions, Convert
  <2>3. LET e == Encrypted(work, "sessions", keys.active)
        IN  e \in Databases /\ WorkFits("upgrade_events", e)
    BY <2>1, <2>2, EncryptMoreKeeps DEF UpgradePhases, RekeyPhases, Tables, CountedTables
  <2> QED
    BY <1>2, <2>3, ConvertKeeps, Zenon DEF RewriteFormatTwoSessions, KeyedPhases, UpgradePhases
<1>3. CASE CopyFormatTwoJournalEvents
  <2>1. \A t \in Tables : "upgrade_capsules" \in ConvertedIn(t) =>
           t = "journal_events" \/ "upgrade_events" \in ConvertedIn(t)
    BY DEF ConvertedIn, Tables, UpgradePhases
  <2>2. phase = "upgrade_events"
    BY <1>3 DEF CopyFormatTwoJournalEvents, Convert
  <2>3. LET e == CopiedUnderActiveKey(work, "journal_events")
        IN  e \in Databases /\ WorkFits("upgrade_capsules", e)
    BY <2>1, <2>2, CopyMoreKeeps DEF UpgradePhases, RekeyPhases, Tables, CountedTables
  <2> QED
    BY <1>3, <2>3, ConvertKeeps, Zenon DEF CopyFormatTwoJournalEvents, KeyedPhases, UpgradePhases
<1>4. CASE CopyFormatTwoCapsules
  <2>1. \A t \in Tables : "upgrade_snapshots" \in ConvertedIn(t) =>
           t = "capsules" \/ "upgrade_capsules" \in ConvertedIn(t)
    BY DEF ConvertedIn, Tables, UpgradePhases
  <2>2. phase = "upgrade_capsules"
    BY <1>4 DEF CopyFormatTwoCapsules, Convert
  <2>3. LET e == CopiedUnderActiveKey(work, "capsules")
        IN  e \in Databases /\ WorkFits("upgrade_snapshots", e)
    BY <2>1, <2>2, CopyMoreKeeps DEF UpgradePhases, RekeyPhases, Tables, CountedTables
  <2> QED
    BY <1>4, <2>3, ConvertKeeps, Zenon DEF CopyFormatTwoCapsules, KeyedPhases, UpgradePhases
<1>5. CASE CopyFormatTwoSnapshots
  <2>1. \A t \in Tables : "upgrade_commit" \in ConvertedIn(t) =>
           t = "snapshots" \/ "upgrade_snapshots" \in ConvertedIn(t)
    BY DEF ConvertedIn, Tables, UpgradePhases
  <2>2. phase = "upgrade_snapshots"
    BY <1>5 DEF CopyFormatTwoSnapshots, Convert
  <2>3. LET e == CopiedUnderActiveKey(work, "snapshots")
        IN  e \in Databases /\ WorkFits("upgrade_commit", e)
    BY <2>1, <2>2, CopyMoreKeeps DEF UpgradePhases, RekeyPhases, Tables, CountedTables
  <2> QED
    BY <1>5, <2>3, ConvertKeeps, Zenon DEF CopyFormatTwoSnapshots, KeyedPhases, UpgradePhases
<1>6. CASE UpgradeCommit
  <2>1. phase = "upgrade_commit"
    BY <1>6 DEF UpgradeCommit, CommitConversion
  <2>2. work.content["token_metrics"] = {}
    BY <2>1 DEF StorageInv, WorkFits, UpgradePhases
  <2>3. \A t \in Tables : t = "token_metrics" \/ phase \in ConvertedIn(t) \ LegacyPhases
    BY <2>1 DEF ConvertedIn, Tables, LegacyPhases, UpgradePhases
  <2>4. /\ \A t \in Tables : work.content[t] \subseteq {keys.active}
        /\ \A t \in CountedTables : work.counts[t] \subseteq {keys.active}
    BY <2>2, <2>3 DEF StorageInv, WorkFits, Tables, CountedTables
  <2>5. keys.active \in Keys
    BY <2>1 DEF StorageInv, KeysResolved, KeyedPhases, UpgradePhases
  <2> QED
    BY <1>6, <2>4, <2>5, CommitKeeps
    DEF UpgradeCommit, KeyedPhases, UpgradePhases, Security, States
<1> QED
  BY <1>1, <1>2, <1>3, <1>4, <1>5, <1>6 DEF UpgradeStep

(* The whole rotation keeps the invariant.                                 *)
LEMMA RekeyKeeps == StorageInv /\ RekeyStep => StorageInv'
<1> SUFFICES ASSUME StorageInv, RekeyStep
             PROVE  StorageInv'
  OBVIOUS
<1>1. CASE RotateBegin
  <2>1. \A t \in Tables : "rekey_sessions" \notin ConvertedIn(t)
    BY DEF ConvertedIn, Tables, LegacyPhases, UpgradePhases, RekeyPhases
  <2>2. phase = "rekey_begin"
    BY <1>1 DEF RotateBegin, Convert
  <2>3. db.security.format = 2
    BY <2>2 DEF StorageInv, WorkFits
  <2>4. "rekey_sessions" \notin LegacyPhases \cup UpgradePhases \cup {"validating"}
    BY DEF LegacyPhases, UpgradePhases
  <2>5. db \in Databases /\ WorkFits("rekey_sessions", db)
    BY <2>1, <2>3, <2>4 DEF WorkFits, StorageInv, TypeOK, Tables, CountedTables
  <2> QED
    BY <1>1, <2>5, ConvertKeeps, Zenon DEF RotateBegin, KeyedPhases, RekeyPhases
<1>2. CASE RekeySessions
  <2>1. \A t \in Tables : "rekey_events" \in ConvertedIn(t) =>
           t = "sessions" \/ "rekey_sessions" \in ConvertedIn(t)
    BY DEF ConvertedIn, Tables, RekeyPhases
  <2>2. phase = "rekey_sessions"
    BY <1>2 DEF RekeySessions, Convert
  <2>3. LET e == Encrypted(work, "sessions", keys.active)
        IN  e \in Databases /\ WorkFits("rekey_events", e)
    BY <2>1, <2>2, EncryptMoreKeeps DEF UpgradePhases, RekeyPhases, Tables, CountedTables
  <2> QED
    BY <1>2, <2>3, ConvertKeeps, Zenon DEF RekeySessions, KeyedPhases, RekeyPhases
<1>3. CASE RekeyEvents
  <2>1. \A t \in Tables : "rekey_capsules" \in ConvertedIn(t) =>
           t = "journal_events" \/ "rekey_events" \in ConvertedIn(t)
    BY DEF ConvertedIn, Tables, RekeyPhases
  <2>2. phase = "rekey_events"
    BY <1>3 DEF RekeyEvents, Convert
  <2>3. LET e == CopiedUnderActiveKey(work, "journal_events")
        IN  e \in Databases /\ WorkFits("rekey_capsules", e)
    BY <2>1, <2>2, CopyMoreKeeps DEF UpgradePhases, RekeyPhases, Tables, CountedTables
  <2> QED
    BY <1>3, <2>3, ConvertKeeps, Zenon DEF RekeyEvents, KeyedPhases, RekeyPhases
<1>4. CASE RekeyCapsules
  <2>1. \A t \in Tables : "rekey_snapshots" \in ConvertedIn(t) =>
           t = "capsules" \/ "rekey_capsules" \in ConvertedIn(t)
    BY DEF ConvertedIn, Tables, RekeyPhases
  <2>2. phase = "rekey_capsules"
    BY <1>4 DEF RekeyCapsules, Convert
  <2>3. LET e == CopiedUnderActiveKey(work, "capsules")
        IN  e \in Databases /\ WorkFits("rekey_snapshots", e)
    BY <2>1, <2>2, CopyMoreKeeps DEF UpgradePhases, RekeyPhases, Tables, CountedTables
  <2> QED
    BY <1>4, <2>3, ConvertKeeps, Zenon DEF RekeyCapsules, KeyedPhases, RekeyPhases
<1>5. CASE RekeySnapshots
  <2>1. \A t \in Tables : "rekey_metrics" \in ConvertedIn(t) =>
           t = "snapshots" \/ "rekey_snapshots" \in ConvertedIn(t)
    BY DEF ConvertedIn, Tables, RekeyPhases
  <2>2. phase = "rekey_snapshots"
    BY <1>5 DEF RekeySnapshots, Convert
  <2>3. LET e == CopiedUnderActiveKey(work, "snapshots")
        IN  e \in Databases /\ WorkFits("rekey_metrics", e)
    BY <2>1, <2>2, CopyMoreKeeps DEF UpgradePhases, RekeyPhases, Tables, CountedTables
  <2> QED
    BY <1>5, <2>3, ConvertKeeps, Zenon DEF RekeySnapshots, KeyedPhases, RekeyPhases
<1>6. CASE RekeyTokenMetrics
  <2>1. \A t \in Tables : "rekey_commit" \in ConvertedIn(t) =>
           t = "token_metrics" \/ "rekey_metrics" \in ConvertedIn(t)
    BY DEF ConvertedIn, Tables, RekeyPhases
  <2>2. phase = "rekey_metrics"
    BY <1>6 DEF RekeyTokenMetrics, Convert
  <2>3. LET e == Encrypted(work, "token_metrics", keys.active)
        IN  e \in Databases /\ WorkFits("rekey_commit", e)
    BY <2>1, <2>2, EncryptMoreKeeps DEF UpgradePhases, RekeyPhases, Tables, CountedTables
  <2> QED
    BY <1>6, <2>3, ConvertKeeps, Zenon DEF RekeyTokenMetrics, KeyedPhases, RekeyPhases
<1>7. CASE RekeyCommit
  <2>1. phase = "rekey_commit"
    BY <1>7 DEF RekeyCommit, CommitConversion
  <2>2. db.security.format = 2 /\ db.ledger \in {2, 3}
    BY <2>1 DEF StorageInv, WorkFits, RekeyPhases, FormatShape
  <2>3. \A t \in Tables : phase \in ConvertedIn(t) \ LegacyPhases
    BY <2>1 DEF ConvertedIn, Tables, LegacyPhases, RekeyPhases
  <2>4. /\ \A t \in Tables : work.content[t] \subseteq {keys.active}
        /\ \A t \in CountedTables : work.counts[t] \subseteq {keys.active}
    BY <2>3, Zenon DEF StorageInv, WorkFits, Tables, CountedTables
  <2>5. db.security \in Security
    BY <2>2 DEF StorageInv, TypeOK, Databases, NoSecurity
  <2>6. keys.active \in Keys
    BY <2>1 DEF StorageInv, KeysResolved, KeyedPhases, RekeyPhases
  <2> DEFINE m == [db.security EXCEPT !.key = keys.active, !.state = "NEEDS_SCRUB",
                                      !.verifier = keys.active]
  <2>7. /\ m \in Security /\ m.format = 2 /\ m.key = keys.active
        /\ m.state = "NEEDS_SCRUB" /\ m.verifier = keys.active
    BY <2>2, <2>5, <2>6, Zenon DEF Security, States
  <2>8. CommitConversion("rekey_commit", "final", m, db.ledger)
    BY <1>7 DEF RekeyCommit
  <2> HIDE DEF m
  <2> QED
    BY <2>2, <2>4, <2>7, <2>8, CommitKeeps DEF KeyedPhases, RekeyPhases
<1> QED
  BY <1>1, <1>2, <1>3, <1>4, <1>5, <1>6, <1>7, Zenon DEF RekeyStep
----------------------------------------------------------------------------
(* Steps that open no transaction                                          *)

(* In these phases nothing is assumed of the transaction, the scrub or the *)
(* metadata.                                                               *)
OpenPhases ==
    {"down", "resolving", "writing_key", "migrating", "existing", "recheck",
     "upgrade_begin", "final", "locked"}

(* A step into such a phase keeps what is said of transaction, scrub and   *)
(* codec.                                                                  *)
LEMMA OpenPhaseFits ==
    ASSUME phase' \in OpenPhases
    PROVE  WorkFits(phase, work)' /\ ScrubShape' /\ ActivatedShape' /\ ReadyReads'
<1>1. phase' \notin LegacyPhases \cup UpgradePhases \cup RekeyPhases \cup ScrubPhases
                      \cup {"validating", "rekey_begin", "activated", "ready"}
  BY DEF OpenPhases, LegacyPhases, UpgradePhases, RekeyPhases, ScrubPhases
<1>2. \A t \in Tables : phase' \notin ConvertedIn(t)
  BY DEF OpenPhases, ConvertedIn, LegacyPhases, UpgradePhases, RekeyPhases, Tables
<1>3. WorkFits(phase, work)'
  BY <1>1, <1>2 DEF WorkFits, Tables, CountedTables
<1>4. ScrubShape' /\ ActivatedShape' /\ ReadyReads'
  BY <1>1 DEF ScrubShape, ActivatedShape, ReadyReads, ScrubPhases
<1> QED
  BY <1>3, <1>4

(* A step that leaves the database alone keeps what is said of it.         *)
LEMMA SameDatabase ==
    ASSUME StorageInv, db' = db
    PROVE  FormatShape' /\ OneKeyProtects' /\ ActiveIsScrubbed'
BY DEF StorageInv, FormatShape, OneKeyProtects, ActiveIsScrubbed

(* The resolution of the keys keeps the invariant: the local key is used   *)
(* only once it is in its file.                                            *)
LEMMA ResolveKeeps == StorageInv /\ ResolveStep => StorageInv'
<1> SUFFICES ASSUME StorageInv, ResolveStep
             PROVE  StorageInv'
  OBVIOUS
<1>1. CASE ResolveExternalKeys
  <2>1. CASE SlotError(config.slot) # "NONE"
    <3>1. Lock(SlotError(config.slot)) /\ UNCHANGED <<db, resolved, read, faults>>
      BY <1>1, <2>1 DEF ResolveExternalKeys, resolved
    <3> QED
      BY <3>1, LockKeeps DEF StorageInv, TypeOK
  <2>2. CASE SlotError(config.slot) = "NONE"
    <3>1. /\ keys' = config.slot /\ phase' = "migrating"
          /\ UNCHANGED <<db, keyFile, config, read, after, work, codec, code, faults>>
      BY <1>1, <2>2, Zenon DEF ResolveExternalKeys
    <3>2. /\ config.slot \in Slots
          /\ config.slot.active = LocalKey => keyFile = LocalKey
      BY ConfigAssumption DEF StorageInv, TypeOK, Supplied
    <3>3. config.slot.active # NoKey
      BY <2>2 DEF SlotError
    <3>4. TypeOK'
      BY <3>1, <3>2, Zenon DEF StorageInv, TypeOK
    <3>7. config.slot.active \in Keys
      BY <3>2, <3>3, Zenon DEF Slots
    <3>5. KeysResolved'
      BY <3>1, <3>2, <3>7 DEF KeysResolved, Phases, KeyedPhases
    <3>6. LocalKeyIsKept'
      BY <3>1 DEF StorageInv, LocalKeyIsKept
    <3> QED
      BY <3>1, <3>4, <3>5, <3>6, OpenPhaseFits, SameDatabase DEF StorageInv, OpenPhases
  <2> QED
    BY <2>1, <2>2
<1>2. CASE ReadLocalKey
  <2>1. CASE keyFile = "partial"
    <3>1. Lock("STORAGE_KEY_INVALID") /\ UNCHANGED <<db, resolved, read, faults>>
      BY <1>2, <2>1 DEF ReadLocalKey, resolved
    <3> QED
      BY <3>1, LockKeeps DEF StorageInv, TypeOK
  <2>2. CASE keyFile # "partial"
    <3>1. /\ keyFile # "missing"
          /\ keys' = [active |-> keyFile, previous |-> NoKey] /\ phase' = "migrating"
          /\ UNCHANGED <<db, keyFile, config, read, after, work, codec, code, faults>>
      BY <1>2, <2>2, Zenon DEF ReadLocalKey
    <3>2. keyFile = LocalKey
      BY <2>2, <3>1, Zenon DEF StorageInv, TypeOK
    <3>3. TypeOK'
      BY <3>1, <3>2, Zenon DEF StorageInv, TypeOK, Slots, Keys
    <3>4. KeysResolved'
      BY <3>1, <3>2, Zenon DEF KeysResolved, Phases, KeyedPhases, Keys
    <3>5. LocalKeyIsKept'
      BY <3>1, Zenon DEF StorageInv, LocalKeyIsKept
    <3> QED
      BY <3>1, <3>3, <3>4, <3>5, OpenPhaseFits, SameDatabase, Zenon DEF StorageInv, OpenPhases
  <2> QED
    BY <2>1, <2>2, Zenon
<1>3. CASE CreateLocalKeyFile
  <2>1. /\ keyFile = "missing" /\ keyFile' = "partial" /\ phase' = "writing_key"
        /\ UNCHANGED <<db, config, keys, read, after, work, codec, code, faults>>
    BY <1>3 DEF CreateLocalKeyFile
  <2>2. keyFile # LocalKey
    BY <2>1, KeyAssumption DEF Keys
  <2>6. config \in Supplied("partial")
    BY <2>2, Zenon DEF StorageInv, TypeOK, Supplied
  <2>3. TypeOK'
    BY <2>1, <2>6, Zenon DEF StorageInv, TypeOK
  <2>4. KeysResolved'
    BY <2>1, <2>2 DEF StorageInv, KeysResolved, Phases, KeyedPhases, LegacyPhases,
        UpgradePhases, RekeyPhases, ScrubPhases
  <2>5. LocalKeyIsKept'
    BY <2>1, <2>2, Zenon DEF StorageInv, LocalKeyIsKept
  <2> QED
    BY <2>1, <2>3, <2>4, <2>5, OpenPhaseFits, SameDatabase DEF StorageInv, OpenPhases
<1>4. CASE WriteLocalKey
  <2>1. /\ keyFile' = LocalKey /\ phase' = "migrating"
        /\ keys' = [active |-> LocalKey, previous |-> NoKey]
        /\ UNCHANGED <<db, config, read, after, work, codec, code, faults>>
    BY <1>4 DEF WriteLocalKey
  <2>5. config \in Supplied(LocalKey)
    BY Zenon DEF StorageInv, TypeOK, Supplied
  <2>2. TypeOK'
    BY <2>1, <2>5, Zenon DEF StorageInv, TypeOK, Slots, Keys
  <2>3. KeysResolved'
    BY <2>1 DEF KeysResolved, Phases, KeyedPhases, Keys
  <2>4. LocalKeyIsKept'
    BY <2>1 DEF LocalKeyIsKept
  <2> QED
    BY <2>1, <2>2, <2>3, <2>4, OpenPhaseFits, SameDatabase, Zenon DEF StorageInv, OpenPhases
<1> QED
  BY <1>1, <1>2, <1>3, <1>4 DEF ResolveStep

(* The ledger after the structural migrations.                             *)
LEMMA MigratedType ==
    ASSUME NEW l \in 0 .. 3
    PROVE  /\ Migrated(l) \in 0 .. 3
           /\ l \in {0, 1} => Migrated(l) \in {0, 1}
           /\ l \in {2, 3} => Migrated(l) = 3
BY DEF Migrated

(* A migrated database differs in its ledger only.                         *)
LEMMA MigratedFields ==
    ASSUME NEW d \in Databases
    PROVE  LET e == [d EXCEPT !.ledger = Migrated(@)] IN
           /\ e \in Databases /\ e.ledger = Migrated(d.ledger)
           /\ e.security = d.security /\ e.content = d.content /\ e.counts = d.counts
           /\ e.wal = d.wal /\ e.pages = d.pages /\ e.vacuumed = d.vacuumed
BY MigratedType DEF Databases

(* The structural migrations keep the invariant.                           *)
LEMMA MigrateKeeps ==
    ASSUME StorageInv, db' = [db EXCEPT !.ledger = Migrated(@)]
    PROVE  /\ db' \in Databases /\ db'.security = db.security
           /\ db'.content = db.content /\ db'.counts = db.counts
           /\ FormatShape' /\ OneKeyProtects' /\ ActiveIsScrubbed'
           /\ db.security.format = 2 => db'.ledger = 3
<1>1. db \in Databases /\ db.ledger \in 0 .. 3
  BY DEF StorageInv, TypeOK, Databases
<1>2. /\ db' \in Databases /\ db'.ledger = Migrated(db.ledger)
      /\ db'.security = db.security /\ db'.content = db.content
      /\ db'.counts = db.counts /\ db'.wal = db.wal /\ db'.pages = db.pages
  BY <1>1, MigratedFields
<1>3. /\ db.ledger \in {0, 1} => db'.ledger \in {0, 1}
      /\ db.ledger \in {2, 3} => db'.ledger = 3
  BY <1>1, <1>2, MigratedType
<1>4. FormatShape'
  BY <1>2, <1>3 DEF StorageInv, FormatShape
<1>5. OneKeyProtects' /\ ActiveIsScrubbed'
  BY <1>2 DEF StorageInv, OneKeyProtects, ActiveIsScrubbed
<1>6. db.security.format = 2 => db'.ledger = 3
  BY <1>3, Zenon DEF StorageInv, FormatShape
<1> QED
  BY <1>2, <1>4, <1>5, <1>6
----------------------------------------------------------------------------
(* Activation and scrub                                                    *)

(* The migrations of a start keep the invariant.                           *)
LEMMA StartMigrationKeeps == StorageInv /\ Migrate => StorageInv'
<1> SUFFICES ASSUME StorageInv, Migrate
             PROVE  StorageInv'
  OBVIOUS
<1>1. /\ phase = "migrating" /\ db' = [db EXCEPT !.ledger = Migrated(@)]
      /\ phase' = IF db.security = NoSecurity THEN "validating" ELSE "existing"
      /\ UNCHANGED <<keyFile, config, keys, read, after, work, codec, code, faults>>
  BY DEF Migrate, resolved
<1>2. /\ db' \in Databases /\ db'.security = db.security
      /\ FormatShape' /\ OneKeyProtects' /\ ActiveIsScrubbed'
  BY <1>1, MigrateKeeps
<1>3. TypeOK'
  BY <1>1, <1>2 DEF StorageInv, TypeOK
<1>4. KeysResolved'
  BY <1>1 DEF StorageInv, KeysResolved, Phases, KeyedPhases
<1>5. LocalKeyIsKept'
  BY <1>1, <1>2 DEF StorageInv, LocalKeyIsKept
<1>6. WorkFits(phase, work)' /\ ScrubShape' /\ ActivatedShape' /\ ReadyReads'
  <2>1. CASE phase' = "existing"
    BY <2>1, OpenPhaseFits DEF OpenPhases
  <2>2. CASE phase' = "validating" /\ db.security = NoSecurity
    <3>1. \A t \in Tables : phase' \notin ConvertedIn(t)
      BY <2>2 DEF ConvertedIn, LegacyPhases, UpgradePhases, RekeyPhases, Tables
    <3>2. phase' \notin LegacyPhases \cup UpgradePhases \cup RekeyPhases \cup {"rekey_begin"}
      BY <2>2 DEF LegacyPhases, UpgradePhases, RekeyPhases
    <3>3. WorkFits(phase, work)'
      BY <1>2, <2>2, <3>1, <3>2, Zenon DEF WorkFits, Tables, CountedTables
    <3>4. ScrubShape' /\ ActivatedShape' /\ ReadyReads'
      BY <2>2 DEF ScrubShape, ActivatedShape, ReadyReads, ScrubPhases
    <3> QED
      BY <3>3, <3>4
  <2> QED
    BY <1>1, <2>1, <2>2
<1> QED
  BY <1>2, <1>3, <1>4, <1>5, <1>6 DEF StorageInv

(* A step into a scrub phase: what is left to show is how far it has got.  *)
LEMMA ScrubPhaseFits ==
    ASSUME phase' \in ScrubPhases
    PROVE  WorkFits(phase, work)' /\ ActivatedShape' /\ ReadyReads'
<1>1. phase' \notin LegacyPhases \cup UpgradePhases \cup RekeyPhases
                      \cup {"validating", "rekey_begin", "activated", "ready"}
  BY DEF LegacyPhases, UpgradePhases, RekeyPhases, ScrubPhases
<1>2. \A t \in Tables : phase' \notin ConvertedIn(t)
  BY Zenon DEF ConvertedIn, LegacyPhases, UpgradePhases, RekeyPhases, ScrubPhases, Tables
<1>3. WorkFits(phase, work)'
  BY <1>1, <1>2, Zenon DEF WorkFits, Tables, CountedTables
<1>4. ActivatedShape' /\ ReadyReads'
  BY <1>1 DEF ActivatedShape, ReadyReads
<1> QED
  BY <1>3, <1>4

(* Reading the metadata keeps the invariant; an unfinished scrub starts    *)
(* again from its first checkpoint.                                        *)
LEMMA ReadKeeps == StorageInv /\ ReadSecurityMetadata => StorageInv'
<1> SUFFICES ASSUME StorageInv, ReadSecurityMetadata
             PROVE  StorageInv'
  OBVIOUS
<1>1. /\ phase = "existing" /\ read' = db.security
      /\ UNCHANGED <<db, keyFile, config, keys, faults>>
  BY DEF ReadSecurityMetadata, resolved
<1>2. read' \in Security \cup {NoSecurity}
  BY <1>1 DEF StorageInv, TypeOK, Databases
<1>3. CASE MetadataError(db.security) # "NONE"
  <2>1. Lock(MetadataError(db.security)) /\ UNCHANGED <<db, resolved>>
    BY <1>1, <1>3 DEF ReadSecurityMetadata, resolved
  <2>2. faults' \in 0 .. MaxFaults
    BY <1>1 DEF StorageInv, TypeOK
  <2> QED
    BY <1>2, <2>1, <2>2, LockKeeps, Zenon
<1>4. CASE MetadataError(db.security) = "NONE"
  <2>1. /\ phase' \in {"checkpoint", "recheck"} /\ after' = "recheck"
        /\ UNCHANGED <<work, codec, code>>
    BY <1>4, Zenon DEF ReadSecurityMetadata
  <2>2. TypeOK'
    BY <1>1, <1>2, <2>1, Zenon DEF StorageInv, TypeOK
  <2>3. KeysResolved'
    BY <1>1, <2>1 DEF StorageInv, KeysResolved, Phases, KeyedPhases, ScrubPhases
  <2>4. LocalKeyIsKept'
    BY <1>1 DEF StorageInv, LocalKeyIsKept
  <2>5. ScrubShape'
    BY <2>1 DEF ScrubShape, ScrubPhases
  <2>6. WorkFits(phase, work)' /\ ActivatedShape' /\ ReadyReads'
    BY <2>1, OpenPhaseFits, ScrubPhaseFits DEF OpenPhases, ScrubPhases
  <2> QED
    BY <1>1, <2>2, <2>3, <2>4, <2>5, <2>6, SameDatabase, Zenon DEF StorageInv
<1> QED
  BY <1>3, <1>4

(* The second look at the metadata keeps the invariant: a rotation is only *)
(* begun on format 2, and a store that needs no conversion is activated    *)
(* with the key it names.                                                  *)
LEMMA RecheckKeeps == StorageInv /\ RecheckMetadata => StorageInv'
<1> SUFFICES ASSUME StorageInv, RecheckMetadata
             PROVE  StorageInv'
  OBVIOUS
<1> DEFINE ok == /\ db.security.format = read.format
                 /\ db.security.key = read.key
                 /\ db.security.state = "ACTIVE"
                 /\ db.security.verifier = SourceFor(read)
<1>0. RecheckError = "NONE" <=> ok
  BY DEF RecheckError, VerifiedError
<1>1. CASE ~ok
  <2>1. Lock(RecheckError) /\ UNCHANGED <<db, resolved, read, faults>>
    BY <1>0, <1>1, Zenon DEF RecheckMetadata
  <2> QED
    BY <2>1, LockKeeps, Zenon DEF StorageInv, TypeOK
<1>2. CASE ok
  <2>1. /\ phase = "recheck"
        /\ phase' = IF read.format = 1 THEN "upgrade_begin"
                    ELSE IF Rekeyed THEN "rekey_begin" ELSE "activated"
        /\ UNCHANGED <<db, keyFile, config, keys, read, after, work, codec, code, faults>>
    BY <1>0, <1>2, Zenon DEF RecheckMetadata, resolved
  <2>2. TypeOK'
    BY <2>1 DEF StorageInv, TypeOK
  <2>3. KeysResolved'
    BY <2>1 DEF StorageInv, KeysResolved, Phases, KeyedPhases
  <2>4. LocalKeyIsKept'
    BY <2>1, Zenon DEF StorageInv, LocalKeyIsKept
  <2>5. db.security \in Security
    BY <1>2 DEF StorageInv, TypeOK, Databases, NoSecurity
  <2>6. read.format # 1 => db.security.format = 2
    BY <1>2, <2>5 DEF Security
  <2>7. WorkFits(phase, work)' /\ ScrubShape' /\ ActivatedShape' /\ ReadyReads'
    <3>1. CASE phase' = "upgrade_begin"
      BY <3>1, OpenPhaseFits, Zenon DEF OpenPhases
    <3>2. CASE phase' = "rekey_begin" /\ read.format # 1
      <4>1. \A t \in Tables : phase' \notin ConvertedIn(t)
        BY <3>2 DEF ConvertedIn, LegacyPhases, UpgradePhases, RekeyPhases, Tables
      <4>2. phase' \notin LegacyPhases \cup UpgradePhases \cup {"validating"}
        BY <3>2, Zenon DEF LegacyPhases, UpgradePhases
      <4>3. WorkFits(phase, work)'
        BY <2>1, <2>6, <3>2, <4>1, <4>2, Zenon DEF WorkFits, Tables, CountedTables
      <4> QED
        BY <3>2, <4>3 DEF ScrubShape, ActivatedShape, ReadyReads, ScrubPhases
    <3>3. CASE phase' = "activated" /\ read.format # 1 /\ ~Rekeyed
      <4>1. \A t \in Tables : phase' \notin ConvertedIn(t)
        BY <3>3 DEF ConvertedIn, LegacyPhases, UpgradePhases, RekeyPhases, Tables
      <4>2. phase' \notin LegacyPhases \cup UpgradePhases \cup RekeyPhases
                            \cup {"validating", "rekey_begin"}
        BY <3>3 DEF LegacyPhases, UpgradePhases, RekeyPhases
      <4>3. WorkFits(phase, work)'
        BY <4>1, <4>2 DEF WorkFits, Tables, CountedTables
      <4>4. /\ db.security.format = 2 /\ db.security.key = keys.active
            /\ db.security.state = "ACTIVE" /\ db.security.verifier = keys.active
        BY <1>2, <2>6, <3>3, Zenon DEF Rekeyed, SourceFor
      <4>5. ActivatedShape'
        BY <2>1, <2>5, <4>4, Zenon DEF ActivatedShape, Security
      <4> QED
        BY <3>3, <4>3, <4>5 DEF ScrubShape, ReadyReads, ScrubPhases
    <3> QED
      BY <2>1, <3>1, <3>2, <3>3
  <2> QED
    BY <2>1, <2>2, <2>3, <2>4, <2>7, SameDatabase, Zenon DEF StorageInv
<1> QED
  BY <1>1, <1>2, Zenon

(* A scrub step changes only what the file and its WAL still hold of old   *)
(* pages, and goes on to the next scrub phase.                             *)
LEMMA ScrubStepKeeps ==
    ASSUME StorageInv, NEW here \in ScrubPhases, NEW next \in ScrubPhases, NEW d,
           ScrubStep(here, next, d), d \in Databases,
           d.ledger = db.ledger, d.security = db.security, d.content = db.content,
           d.counts = db.counts,
           db.security.state = "ACTIVE" => ~d.wal /\ ~d.pages,
           next = "second_checkpoint" => d.vacuumed,
           next = "mark" => ~d.wal /\ ~d.pages
    PROVE  StorageInv'
<1>1. /\ phase = here /\ phase' = next /\ db' = d
      /\ UNCHANGED <<keyFile, config, keys, read, after, work, codec, code, faults>>
  BY Zenon DEF ScrubStep, resolved
<1>2. TypeOK'
  BY <1>1, Zenon DEF StorageInv, TypeOK
<1>3. KeysResolved'
  BY <1>1, Zenon DEF StorageInv, KeysResolved, Phases, KeyedPhases
<1>4. FormatShape' /\ OneKeyProtects' /\ LocalKeyIsKept'
  BY <1>1, Zenon DEF StorageInv, FormatShape, OneKeyProtects, LocalKeyIsKept
<1>5. ScrubShape' /\ ActiveIsScrubbed'
  BY <1>1, Zenon DEF StorageInv, ScrubShape, ActiveIsScrubbed
<1>6. WorkFits(phase, work)' /\ ActivatedShape' /\ ReadyReads'
  BY <1>1, ScrubPhaseFits
<1> QED
  BY <1>2, <1>3, <1>4, <1>5, <1>6, Zenon DEF StorageInv

(* A checkpoint empties the WAL; the old pages go with a vacuumed file.    *)
LEMMA CheckpointedFields ==
    ASSUME NEW d \in Databases
    PROVE  LET e == Checkpointed(d) IN
           /\ e \in Databases
           /\ e.ledger = d.ledger /\ e.security = d.security
           /\ e.content = d.content /\ e.counts = d.counts
           /\ ~e.wal
           /\ ~d.pages \/ d.vacuumed => ~e.pages
<1> DEFINE b == d.pages /\ ~d.vacuumed
           e == Checkpointed(d)
<1>1. b \in BOOLEAN /\ (~d.pages \/ d.vacuumed => b = FALSE)
  BY Zenon DEF Databases
<1>2. e = [d EXCEPT !.wal = FALSE, !.pages = b, !.vacuumed = FALSE]
  BY Zenon DEF Checkpointed
<1> HIDE DEF b
<1>3. /\ e \in Databases
      /\ e.ledger = d.ledger /\ e.security = d.security
      /\ e.content = d.content /\ e.counts = d.counts
      /\ e.wal = FALSE /\ e.pages = b
  BY <1>1, <1>2, Zenon DEF Databases
<1> QED
  BY <1>1, <1>3, Zenon

(* A VACUUM leaves a vacuumed file in the WAL and nothing else.            *)
LEMMA VacuumedFields ==
    ASSUME NEW d \in Databases
    PROVE  LET e == [d EXCEPT !.vacuumed = TRUE] IN
           /\ e \in Databases
           /\ e.ledger = d.ledger /\ e.security = d.security
           /\ e.content = d.content /\ e.counts = d.counts
           /\ e.wal = d.wal /\ e.pages = d.pages /\ e.vacuumed = TRUE
BY Zenon DEF Databases

(* The durable mark changes the state of the metadata and nothing else.    *)
LEMMA MarkedFields ==
    ASSUME NEW d \in Databases, d.security \in Security
    PROVE  LET e == [d EXCEPT !.security.state = "ACTIVE"] IN
           /\ e \in Databases /\ e.security \in Security
           /\ e.ledger = d.ledger /\ e.content = d.content /\ e.counts = d.counts
           /\ e.wal = d.wal /\ e.pages = d.pages
           /\ e.security.format = d.security.format /\ e.security.key = d.security.key
           /\ e.security.verifier = d.security.verifier
<1> DEFINE m == [d.security EXCEPT !.state = "ACTIVE"]
           e == [d EXCEPT !.security.state = "ACTIVE"]
<1>1. e = [d EXCEPT !.security = m]
  BY DEF Databases
<1>2. /\ m \in Security /\ m.format = d.security.format /\ m.key = d.security.key
      /\ m.verifier = d.security.verifier
  BY DEF Security, States
<1> HIDE DEF m
<1>3. /\ e \in Databases /\ e.security = m
      /\ e.ledger = d.ledger /\ e.content = d.content /\ e.counts = d.counts
      /\ e.wal = d.wal /\ e.pages = d.pages
  BY <1>1, <1>2, Zenon DEF Databases
<1> QED
  BY <1>2, <1>3

(* The scrub keeps the invariant; its mark is set on a clean file.         *)
LEMMA ScrubKeeps == StorageInv /\ StoreScrub => StorageInv'
<1> SUFFICES ASSUME StorageInv, StoreScrub
             PROVE  StorageInv'
  OBVIOUS
<1>1. db \in Databases /\ (db.security.state = "ACTIVE" => ~db.wal /\ ~db.pages)
  BY Zenon DEF StorageInv, TypeOK, ActiveIsScrubbed
<1>2. CASE CheckpointTruncate
  <2> DEFINE e == Checkpointed(db)
  <2>1. /\ e \in Databases /\ e.ledger = db.ledger /\ e.security = db.security
        /\ e.content = db.content /\ e.counts = db.counts /\ ~e.wal
        /\ ~db.pages => ~e.pages
    BY <1>1, CheckpointedFields
  <2>2. ScrubStep("checkpoint", "vacuum", e)
    BY <1>2, Zenon DEF CheckpointTruncate
  <2> HIDE DEF e
  <2> QED
    BY <1>1, <2>1, <2>2, ScrubStepKeeps, Zenon DEF ScrubPhases
<1>3. CASE Vacuum
  <2> DEFINE e == [db EXCEPT !.vacuumed = TRUE]
  <2>1. /\ e \in Databases /\ e.ledger = db.ledger /\ e.security = db.security
        /\ e.content = db.content /\ e.counts = db.counts
        /\ e.wal = db.wal /\ e.pages = db.pages /\ e.vacuumed
    BY <1>1, VacuumedFields
  <2>2. ScrubStep("vacuum", "second_checkpoint", e)
    BY <1>3, Zenon DEF Vacuum
  <2> HIDE DEF e
  <2> QED
    BY <1>1, <2>1, <2>2, ScrubStepKeeps DEF ScrubPhases
<1>4. CASE SecondCheckpoint
  <2> DEFINE e == Checkpointed(db)
  <2>1. phase = "second_checkpoint" /\ db.vacuumed
    BY <1>4, Zenon DEF SecondCheckpoint, ScrubStep, StorageInv, ScrubShape
  <2>2. /\ e \in Databases /\ e.ledger = db.ledger /\ e.security = db.security
        /\ e.content = db.content /\ e.counts = db.counts /\ ~e.wal /\ ~e.pages
    BY <1>1, <2>1, CheckpointedFields
  <2>3. ScrubStep("second_checkpoint", "mark", e)
    BY <1>4 DEF SecondCheckpoint
  <2> HIDE DEF e
  <2> QED
    BY <2>2, <2>3, ScrubStepKeeps DEF ScrubPhases
<1>5. CASE MarkActive
  <2>1. CASE db.security.state # "NEEDS_SCRUB"
    <3>1. Lock("STORAGE_SCRUB_FAILED") /\ UNCHANGED <<db, resolved, read, faults>>
      BY <1>5, <2>1 DEF MarkActive
    <3> QED
      BY <3>1, LockKeeps DEF StorageInv, TypeOK
  <2>2. CASE db.security.state = "NEEDS_SCRUB"
    <3>1. /\ phase = "mark" /\ phase' = after
          /\ db' = [db EXCEPT !.security.state = "ACTIVE"]
          /\ UNCHANGED <<keyFile, config, keys, read, after, work, codec, code, faults>>
      BY <1>5, <2>2, Zenon DEF MarkActive, resolved
    <3>2. db.security \in Security
      BY <1>1, <2>2 DEF Databases, NoSecurity
    <3>3. /\ db' \in Databases /\ db'.security \in Security
          /\ db'.ledger = db.ledger /\ db'.content = db.content /\ db'.counts = db.counts
          /\ db'.wal = db.wal /\ db'.pages = db.pages
          /\ db'.security.format = db.security.format
          /\ db'.security.key = db.security.key
          /\ db'.security.verifier = db.security.verifier
      BY <1>1, <3>1, <3>2, MarkedFields
    <3>4. phase' \in {"existing", "recheck", "final"} /\ ~db.wal /\ ~db.pages
      BY <3>1 DEF StorageInv, ScrubShape, ScrubPhases
    <3>5. TypeOK'
      BY <3>1, <3>3 DEF StorageInv, TypeOK
    <3>6. KeysResolved'
      BY <3>1, <3>4, Zenon DEF StorageInv, KeysResolved, Phases, KeyedPhases, ScrubPhases
    <3>7. db.security # NoSecurity
      BY <2>2 DEF NoSecurity
    <3>8. FormatShape' /\ OneKeyProtects' /\ LocalKeyIsKept' /\ ActiveIsScrubbed'
      BY <3>1, <3>3, <3>4, <3>7 DEF StorageInv, FormatShape, OneKeyProtects, LocalKeyIsKept,
          ActiveIsScrubbed
    <3>9. WorkFits(phase, work)' /\ ScrubShape' /\ ActivatedShape' /\ ReadyReads'
      BY <3>4, OpenPhaseFits DEF OpenPhases
    <3> QED
      BY <3>5, <3>6, <3>8, <3>9 DEF StorageInv
  <2> QED
    BY <2>1, <2>2, Zenon
<1> QED
  BY <1>2, <1>3, <1>4, <1>5 DEF StoreScrub

(* The check after a conversion keeps the invariant.                       *)
LEMMA ConvertedKeeps == StorageInv /\ CheckConverted => StorageInv'
<1> SUFFICES ASSUME StorageInv, CheckConverted
             PROVE  StorageInv'
  OBVIOUS
<1> DEFINE meant == [format |-> 2, key |-> keys.active, state |-> "ACTIVE",
                     verifier |-> keys.active]
<1>0. ConvertedError = "NONE" <=> db.security = meant
  <2>1. db.security \in Security \cup {NoSecurity}
    BY DEF StorageInv, TypeOK, Databases
  <2> QED
    BY <2>1 DEF ConvertedError, VerifiedError, Security, NoSecurity
<1>1. CASE db.security # meant
  <2>1. Lock(ConvertedError) /\ UNCHANGED <<db, resolved, read, faults>>
    BY <1>0, <1>1, Zenon DEF CheckConverted
  <2> QED
    BY <2>1, LockKeeps, Zenon DEF StorageInv, TypeOK
<1>2. CASE db.security = meant
  <2>1. /\ phase = "final" /\ phase' = "activated"
        /\ UNCHANGED <<db, keyFile, config, keys, read, after, work, codec, code, faults>>
    BY <1>0, <1>2, Zenon DEF CheckConverted, resolved
  <2>2. TypeOK'
    BY <2>1 DEF StorageInv, TypeOK
  <2>3. KeysResolved'
    BY <2>1 DEF StorageInv, KeysResolved, Phases, KeyedPhases
  <2>4. \A t \in Tables : phase' \notin ConvertedIn(t)
    BY <2>1 DEF ConvertedIn, LegacyPhases, UpgradePhases, RekeyPhases, Tables
  <2>5. phase' \notin LegacyPhases \cup UpgradePhases \cup RekeyPhases
                        \cup {"validating", "rekey_begin"}
    BY <2>1, Zenon DEF LegacyPhases, UpgradePhases, RekeyPhases
  <2>6. WorkFits(phase, work)'
    BY <2>4, <2>5 DEF WorkFits, Tables, CountedTables
  <2>7. ScrubShape' /\ ReadyReads' /\ ActivatedShape' /\ LocalKeyIsKept'
    BY <1>2, <2>1 DEF StorageInv, ScrubShape, ScrubPhases, ReadyReads, ActivatedShape,
        LocalKeyIsKept
  <2> QED
    BY <2>1, <2>2, <2>3, <2>6, <2>7, SameDatabase, Zenon DEF StorageInv
<1> QED
  BY <1>1, <1>2, Zenon
----------------------------------------------------------------------------
(* The running plugin, the operator, and faults                            *)

(* A step into the ready phase keeps what is said of transaction and scrub.*)
LEMMA ReadyPhaseFits ==
    ASSUME phase' = "ready"
    PROVE  WorkFits(phase, work)' /\ ScrubShape' /\ ActivatedShape'
<1>1. phase' \notin LegacyPhases \cup UpgradePhases \cup RekeyPhases \cup ScrubPhases
                      \cup {"validating", "rekey_begin"}
  BY DEF LegacyPhases, UpgradePhases, RekeyPhases, ScrubPhases
<1>2. \A t \in Tables : phase' \notin ConvertedIn(t)
  BY Zenon DEF ConvertedIn, LegacyPhases, UpgradePhases, RekeyPhases, Tables
<1>3. WorkFits(phase, work)'
  BY <1>1, <1>2, Zenon DEF WorkFits, Tables, CountedTables
<1>4. ScrubShape' /\ ActivatedShape'
  BY <1>1 DEF ScrubShape, ActivatedShape, ScrubPhases
<1> QED
  BY <1>3, <1>4

(* The repository is constructed on a migrated database of format 2 whose  *)
(* every value is under the key of its codec.                              *)
LEMMA ConstructKeeps == StorageInv /\ ConstructRepository => StorageInv'
<1> SUFFICES ASSUME StorageInv, ConstructRepository
             PROVE  StorageInv'
  OBVIOUS
<1>1. /\ phase = "activated" /\ phase' = "ready" /\ codec' = keys.active
      /\ db' = [db EXCEPT !.ledger = Migrated(@)]
      /\ UNCHANGED <<keyFile, config, keys, read, after, work, code, faults>>
  BY DEF ConstructRepository, resolved
<1>2. db.security = [format |-> 2, key |-> keys.active, state |-> "ACTIVE",
                     verifier |-> keys.active]
  BY <1>1 DEF StorageInv, ActivatedShape
<1>3. /\ db' \in Databases /\ db'.security = db.security
      /\ db'.content = db.content /\ db'.counts = db.counts
      /\ FormatShape' /\ OneKeyProtects' /\ ActiveIsScrubbed' /\ db'.ledger = 3
  BY <1>1, <1>2, MigrateKeeps
<1>4. keys.active \in Keys
  BY <1>1 DEF StorageInv, KeysResolved, KeyedPhases
<1>5. TypeOK'
  BY <1>1, <1>3, <1>4 DEF StorageInv, TypeOK
<1>6. KeysResolved'
  BY <1>1, <1>4 DEF StorageInv, KeysResolved, Phases, KeyedPhases
<1>7. LocalKeyIsKept'
  BY <1>1, <1>3, Zenon DEF StorageInv, LocalKeyIsKept
<1>8. db.security # NoSecurity
  BY <1>2 DEF NoSecurity
<1>9. /\ \A t \in Tables : db.content[t] \subseteq {keys.active}
      /\ \A t \in CountedTables : db.counts[t] \subseteq {keys.active}
  BY <1>2, <1>8 DEF StorageInv, OneKeyProtects
<1>10. ReadyReads'
  BY <1>1, <1>2, <1>3, <1>9 DEF ReadyReads
<1> QED
  BY <1>1, <1>3, <1>5, <1>6, <1>7, <1>10, ReadyPhaseFits DEF StorageInv

(* A row is written under the key of the codec, so a running repository    *)
(* never mixes forms.                                                      *)
LEMMA WriteKeeps == ASSUME StorageInv, NEW t \in Tables, WriteRow(t) PROVE StorageInv'
<1> DEFINE c == [db.content EXCEPT ![t] = @ \cup {codec}]
           n == [u \in CountedTables |->
                   IF u = t THEN db.counts[u] \cup {codec} ELSE db.counts[u]]
<1>1. /\ phase = "ready"
      /\ db' = [db EXCEPT !.content = c, !.counts = n]
      /\ UNCHANGED <<keyFile, config, keys, phase, read, after, work, codec, code, faults>>
  BY DEF WriteRow, resolved
<1>2. /\ db.ledger = 3
      /\ db.security = [format |-> 2, key |-> codec, state |-> "ACTIVE", verifier |-> codec]
      /\ \A u \in Tables : db.content[u] \subseteq {codec}
      /\ \A u \in CountedTables : db.counts[u] \subseteq {codec}
  BY <1>1 DEF StorageInv, ReadyReads
<1>3. db \in Databases /\ codec \in Keys
  <2>1. db \in Databases
    BY Zenon DEF StorageInv, TypeOK
  <2>2. db.security \in Security \cup {NoSecurity} /\ db.security.key = codec
    BY <1>2, <2>1 DEF Databases
  <2>3. db.security # NoSecurity
    BY <1>2 DEF NoSecurity
  <2> QED
    BY <2>1, <2>2, <2>3, Zenon DEF Security
<1>4. db.content \in [Tables -> SUBSET Forms] /\ db.counts \in [CountedTables -> SUBSET Forms]
  BY <1>3, Zenon DEF Databases
<1>5. c \in [Tables -> SUBSET Forms] /\ \A u \in Tables : c[u] \subseteq {codec}
  BY <1>2, <1>3, <1>4, Zenon DEF Forms
<1>6. n \in [CountedTables -> SUBSET Forms] /\ \A u \in CountedTables : n[u] \subseteq {codec}
  BY <1>2, <1>3, <1>4 DEF Forms
<1> HIDE DEF c, n
<1>7. /\ db' \in Databases /\ db'.content = c /\ db'.counts = n
      /\ db'.ledger = db.ledger /\ db'.security = db.security
      /\ db'.wal = db.wal /\ db'.pages = db.pages
  BY <1>1, <1>3, <1>5, <1>6, Zenon DEF Databases
<1>8. TypeOK'
  BY <1>1, <1>7 DEF StorageInv, TypeOK
<1>9. KeysResolved' /\ LocalKeyIsKept'
  BY <1>1, <1>7 DEF StorageInv, KeysResolved, LocalKeyIsKept
<1>10. ReadyReads'
  BY <1>1, <1>2, <1>5, <1>6, <1>7 DEF ReadyReads
<1>11. FormatShape' /\ OneKeyProtects'
  BY <1>2, <1>5, <1>6, <1>7 DEF FormatShape, OneKeyProtects
<1>12. ActiveIsScrubbed'
  BY <1>7 DEF StorageInv, ActiveIsScrubbed
<1> QED
  BY <1>1, <1>8, <1>9, <1>10, <1>11, <1>12, ReadyPhaseFits DEF StorageInv

(* Forgetting everything that is not on disk, by a stop or a crash, keeps  *)
(* the invariant.                                                          *)
LEMMA ForgetKeeps ==
    ASSUME StorageInv, Forget, UNCHANGED <<db, keyFile, config>>, faults' \in 0 .. MaxFaults
    PROVE  StorageInv'
<1>1. /\ phase' = "down" /\ keys' = NoKeys /\ read' = NoSecurity
      /\ work' = EmptyDatabase /\ codec' = NoKey
  BY Zenon DEF Forget
<1>2. TypeOK'
  BY <1>1, EmptyType, Zenon DEF StorageInv, TypeOK, NoKeys, Slots
<1>3. KeysResolved'
  BY <1>1, KeyAssumption DEF KeysResolved, Phases, KeyedPhases, LegacyPhases, UpgradePhases,
      RekeyPhases, ScrubPhases, NoKeys, Keys
<1>4. LocalKeyIsKept'
  BY DEF StorageInv, LocalKeyIsKept
<1> QED
  BY <1>1, <1>2, <1>3, <1>4, OpenPhaseFits, SameDatabase DEF StorageInv, OpenPhases

(* A start, and a change of the configuration, keep the invariant.         *)
LEMMA OperatorKeeps == StorageInv /\ (Start \/ Configure) => StorageInv'
<1> SUFFICES ASSUME StorageInv, Start \/ Configure
             PROVE  StorageInv'
  BY Zenon
<1>1. /\ phase' \in {"resolving", "down"} /\ config' \in Supplied(keyFile)
      /\ UNCHANGED <<db, keyFile, keys, read, work, codec, faults>>
  BY Zenon DEF Start, Configure, resolved, StorageInv, TypeOK
<1>2. TypeOK'
  BY <1>1, Zenon DEF StorageInv, TypeOK
<1>3. KeysResolved'
  BY <1>1 DEF StorageInv, KeysResolved, Phases, KeyedPhases, LegacyPhases, UpgradePhases,
      RekeyPhases, ScrubPhases
<1>4. LocalKeyIsKept'
  BY <1>1 DEF StorageInv, LocalKeyIsKept
<1> QED
  BY <1>1, <1>2, <1>3, <1>4, OpenPhaseFits, SameDatabase DEF StorageInv, OpenPhases

(* A stop, a crash and a failed step keep the invariant.                   *)
LEMMA FaultKeeps == StorageInv /\ (Stop \/ Crash \/ Fail) => StorageInv'
<1> SUFFICES ASSUME StorageInv, Stop \/ Crash \/ Fail
             PROVE  StorageInv'
  OBVIOUS
<1>1. faults \in 0 .. MaxFaults /\ (faults < MaxFaults => faults + 1 \in 0 .. MaxFaults)
  BY FaultAssumption DEF StorageInv, TypeOK
<1>2. CASE Stop
  BY <1>1, <1>2, ForgetKeeps, Zenon DEF Stop
<1>3. CASE Crash
  BY <1>1, <1>3, ForgetKeeps, Zenon DEF Crash
<1>4. CASE Fail
  BY <1>1, <1>4, LockKeeps DEF Fail, StorageInv, TypeOK
<1> QED
  BY <1>2, <1>3, <1>4
----------------------------------------------------------------------------
(* The theorems                                                            *)

(* The databases a first start can meet satisfy the invariant.             *)
LEMMA StorageInit == Init => StorageInv
<1> SUFFICES ASSUME Init
             PROVE  StorageInv
  OBVIOUS
<1> DEFINE clear == [t \in Tables |-> IF t = "token_metrics" THEN {} ELSE {"plain"}]
           counted == [t \in CountedTables |-> {"plain"}]
           held(k) == [t \in Tables |-> IF t = "token_metrics" THEN {} ELSE {k}]
           meta(k, s) == [format |-> 1, key |-> k, state |-> s, verifier |-> k]
<1>1. /\ db \in Databases
      /\ FormatShape /\ OneKeyProtects /\ ActiveIsScrubbed
      /\ db.security.key # LocalKey
  <2>1. CASE db = EmptyDatabase
    BY <2>1, EmptyType, KeyAssumption, Zenon DEF EmptyDatabase, NoSecurity, FormatShape, Tables,
        OneKeyProtects, ActiveIsScrubbed, Keys
  <2>2. CASE db = LegacyDatabase
    <3>1. db = [ledger |-> 1, security |-> NoSecurity, content |-> clear, counts |-> counted,
                wal |-> FALSE, pages |-> FALSE, vacuumed |-> FALSE]
      BY <2>2, Zenon DEF LegacyDatabase, EmptyDatabase
    <3>2. db \in Databases
      BY <3>1 DEF Databases, Forms
    <3> QED
      BY <3>1, <3>2, KeyAssumption DEF NoSecurity, FormatShape, Tables, OneKeyProtects,
          ActiveIsScrubbed, Keys
  <2>3. ASSUME NEW k \in OperatorKeys, NEW s \in {"NEEDS_SCRUB", "ACTIVE"},
               db = FormatOneDatabase(k, s)
        PROVE  /\ db \in Databases
               /\ FormatShape /\ OneKeyProtects /\ ActiveIsScrubbed
               /\ db.security.key # LocalKey
    <3>1. db = [ledger |-> 1, security |-> meta(k, s), content |-> held(k),
                counts |-> counted, wal |-> (s = "NEEDS_SCRUB"),
                pages |-> (s = "NEEDS_SCRUB"), vacuumed |-> FALSE]
      BY <2>3, Zenon DEF FormatOneDatabase, LegacyDatabase, EmptyDatabase
    <3>2. /\ meta(k, s) \in Security /\ meta(k, s).format = 1 /\ meta(k, s).key = k
          /\ meta(k, s).state = s /\ meta(k, s).verifier = k
      BY DEF Security, States, Keys
    <3>3. /\ held(k) \in [Tables -> SUBSET Forms] /\ held(k)["token_metrics"] = {}
          /\ \A t \in Tables : held(k)[t] \subseteq {k}
      BY DEF Forms, Keys, Tables
    <3>4. /\ counted \in [CountedTables -> SUBSET Forms]
          /\ \A t \in CountedTables : counted[t] \subseteq {"plain"}
      BY Zenon DEF Forms
    <3> HIDE DEF held, meta, counted
    <3>5. /\ db.ledger = 1 /\ db.security = meta(k, s) /\ db.content = held(k)
          /\ db.counts = counted
      BY <3>1, Zenon
    <3>6. db \in Databases
      BY <3>1, <3>2, <3>3, <3>4 DEF Databases
    <3>7. s = "ACTIVE" => ~db.wal /\ ~db.pages
      BY <3>1, Zenon
    <3>8. FormatShape /\ OneKeyProtects
      BY <3>2, <3>3, <3>4, <3>5 DEF FormatShape, OneKeyProtects
    <3>9. ActiveIsScrubbed /\ db.security.key # LocalKey
      BY <3>2, <3>5, <3>7, KeyAssumption DEF ActiveIsScrubbed
    <3> QED
      BY <3>6, <3>8, <3>9
  <2> QED
    BY <2>1, <2>2, <2>3 DEF Init
<1>2. TypeOK
  BY <1>1, EmptyType, FaultAssumption DEF Init, TypeOK, NoKeys, Slots
<1>3. KeysResolved
  BY KeyAssumption DEF Init, KeysResolved, Phases, KeyedPhases, LegacyPhases, UpgradePhases,
      RekeyPhases, ScrubPhases, NoKeys, Keys
<1>4. \A t \in Tables : phase \notin ConvertedIn(t)
  BY Zenon DEF Init, ConvertedIn, LegacyPhases, UpgradePhases, RekeyPhases, Tables
<1>5. WorkFits(phase, work)
  BY <1>4, Zenon DEF Init, WorkFits, LegacyPhases, UpgradePhases, RekeyPhases, Tables, CountedTables
<1>6. ScrubShape /\ ActivatedShape /\ ReadyReads /\ LocalKeyIsKept
  BY <1>1 DEF Init, ScrubShape, ScrubPhases, ActivatedShape, ReadyReads, LocalKeyIsKept
<1> QED
  BY <1>1, <1>2, <1>3, <1>5, <1>6 DEF StorageInv

(* Every step keeps the invariant.                                         *)
LEMMA StorageNext == StorageInv /\ [Next]_vars => StorageInv'
<1> SUFFICES ASSUME StorageInv, [Next]_vars
             PROVE  StorageInv'
  OBVIOUS
<1>1. CASE Start \/ Configure
  BY <1>1, OperatorKeeps
<1>2. CASE Stop \/ Crash \/ Fail
  BY <1>2, FaultKeeps
<1>3. CASE StartStep
  BY <1>3, ResolveKeeps, StartMigrationKeeps, LegacyKeeps, ReadKeeps, RecheckKeeps,
     UpgradeKeeps, RekeyKeeps, ScrubKeeps, ConvertedKeeps, ConstructKeeps, Zenon DEF StartStep
<1>4. CASE \E t \in Tables : WriteRow(t)
  BY <1>4, WriteKeeps, Zenon
<1>5. CASE UNCHANGED vars
  <2>1. TypeOK' /\ KeysResolved' /\ LocalKeyIsKept'
    BY <1>5, Zenon DEF vars, StorageInv, TypeOK, KeysResolved, LocalKeyIsKept
  <2>2. WorkFits(phase, work)'
    BY <1>5, Zenon DEF vars, StorageInv, WorkFits
  <2>3. ScrubShape' /\ ActivatedShape' /\ ReadyReads'
    BY <1>5 DEF vars, StorageInv, ScrubShape, ActivatedShape, ReadyReads
  <2> QED
    BY <1>5, <2>1, <2>2, <2>3, SameDatabase, Zenon DEF vars, StorageInv
<1> QED
  BY <1>1, <1>2, <1>3, <1>4, <1>5 DEF Next

(* The store keeps its inductive invariant from the first start on.        *)
THEOREM StorageInvariant == Spec => []StorageInv
BY StorageInit, StorageNext, PTL DEF Spec

(* The variables of the store have their types in every start, after       *)
(* every crash and every failed step.                                      *)
THEOREM StorageTypeCorrect == Spec => []TypeOK
<1>1. StorageInv => TypeOK
  BY DEF StorageInv
<1> QED
  BY <1>1, StorageInvariant, PTL

(* No stop inside the legacy transform, the format upgrade or the rotation *)
(* leaves rows, counts or the verifier of two forms, for every set of keys *)
(* and every number of faults.                                             *)
THEOREM StoreHasOneKey == Spec => []OneKeyProtects
<1>1. StorageInv => OneKeyProtects
  BY DEF StorageInv
<1> QED
  BY <1>1, StorageInvariant, PTL

(* The ACTIVE mark of _scrub_storage is never on a file whose WAL or free  *)
(* pages still hold what a conversion replaced.                            *)
THEOREM StoreActiveIsScrubbed == Spec => []ActiveIsScrubbed
<1>1. StorageInv => ActiveIsScrubbed
  BY DEF StorageInv
<1> QED
  BY <1>1, StorageInvariant, PTL

(* A ready repository has a codec that reads everything stored, on the     *)
(* last schema and format, however many starts were cut off before.        *)
THEOREM StoreReadyReads == Spec => []ReadyReads
<1>1. StorageInv => ReadyReads
  BY DEF StorageInv
<1> QED
  BY <1>1, StorageInvariant, PTL

(* A database under the local key always has its key in astrcontinuum.key. *)
THEOREM StoreLocalKeyIsKept == Spec => []LocalKeyIsKept
<1>1. StorageInv => LocalKeyIsKept
  BY DEF StorageInv
<1> QED
  BY <1>1, StorageInvariant, PTL
=============================================================================
