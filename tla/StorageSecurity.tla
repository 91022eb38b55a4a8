-------------------------- MODULE StorageSecurity --------------------------
(***************************************************************************)
(* The encrypted store from one start of the plugin to the next            *)
(* (astrcontinuum/storage/security.py, with the migrator it calls).        *)
(*                                                                         *)
(* A start resolves the configured keys, applies the structural            *)
(* migrations, and then encrypts a legacy database, upgrades format 1 to   *)
(* format 2, or moves every protected value to a new key.  Each of these   *)
(* is one exclusive transaction over all tables, followed by a scrub of    *)
(* what the old pages and the WAL still hold.  The process may stop        *)
(* between any two durable steps, and any step may fail.                   *)
(*                                                                         *)
(* A protected value is abstracted to its form: "plain", or the key it is  *)
(* encrypted under.  A table is the set of the forms its rows have, so a   *)
(* table that is half converted, or written with two keys, is visible.     *)
(***************************************************************************)
EXTENDS Integers, FiniteSets

CONSTANTS
    OperatorKeys,   \* keys the operator keeps outside the data directory
    LocalKey,       \* the key secrets.token_bytes yields for astrcontinuum.key
    NoKey,          \* an absent setting
    Configs,        \* configurations the operator may start the plugin with
    MaxFaults       \* crashes and failed steps in one behaviour

Keys == OperatorKeys \cup {LocalKey}

\* The parsers of the environment and of key files take any key, a copy of
\* the local one included: that is how a store leaves local mode.
Slots == [active : Keys \cup {NoKey}, previous : Keys \cup {NoKey}]

ASSUME KeyAssumption ==
    /\ LocalKey \notin OperatorKeys
    /\ NoKey \notin Keys
    /\ {"plain", "missing", "partial"} \cap (Keys \cup {NoKey}) = {}

ASSUME ConfigAssumption ==
    Configs \subseteq [source : {"environment", "file", "local", "unset"}, slot : Slots]

ASSUME FaultAssumption == MaxFaults \in Nat

VARIABLES
    db,       \* the database file and its WAL
    keyFile,  \* astrcontinuum.key: "missing", "partial", or the key it holds
    config,   \* the configuration of this start
    phase,    \* where the start is
    keys,     \* ResolvedKeyMaterial
    read,     \* security metadata read by _activate_existing
    after,    \* where the start goes on once the running scrub is done
    work,     \* the database as the open transaction sees it
    codec,    \* key of the repository's codec once the plugin is ready
    code,     \* security code of the storage status
    faults    \* crashes and failures so far

vars == <<db, keyFile, config, phase, keys, read, after, work, codec, code, faults>>
\* What no step after key resolution changes.
resolved == <<keyFile, config, keys>>

Forms == Keys \cup {"plain"}

\* Tables with protected columns; the first three after sessions hold counts.
Tables == {"sessions", "journal_events", "capsules", "snapshots", "token_metrics"}
CountedTables == {"journal_events", "capsules", "snapshots"}

NoSecurity == [format |-> 0, key |-> NoKey, state |-> "NONE", verifier |-> NoKey]

States == {"NEEDS_MIGRATION", "NEEDS_REKEY", "NEEDS_SCRUB", "ACTIVE"}

Security == [format : {1, 2}, key : Keys, state : States, verifier : Keys]

Databases ==
    [ledger : 0..3,
     security : Security \cup {NoSecurity},
     content : [Tables -> SUBSET Forms],
     counts : [CountedTables -> SUBSET Forms],
     wal : BOOLEAN, pages : BOOLEAN, vacuumed : BOOLEAN]

NoKeys == [active |-> NoKey, previous |-> NoKey]

\* The operator copies the local key from the file that holds it.
Supplied(file) ==
    {c \in Configs : LocalKey \in {c.slot.active, c.slot.previous} => file = LocalKey}
----------------------------------------------------------------------------
(* Databases a first start of this version can meet. *)

EmptyDatabase ==
    [ledger |-> 0, security |-> NoSecurity,
     content |-> [t \in Tables |-> {}], counts |-> [t \in CountedTables |-> {}],
     wal |-> FALSE, pages |-> FALSE, vacuumed |-> FALSE]

\* A plaintext v0.1 database: rows and token counts in the clear.
LegacyDatabase ==
    [EmptyDatabase EXCEPT
        !.ledger = 1,
        !.content = [t \in Tables |-> IF t = "token_metrics" THEN {} ELSE {"plain"}],
        !.counts = [t \in CountedTables |-> {"plain"}]]

\* A v0.2.0 database: content encrypted, token counts still clear integers.
FormatOneDatabase(k, s) ==
    [LegacyDatabase EXCEPT
        !.security = [format |-> 1, key |-> k, state |-> s, verifier |-> k],
        !.content = [t \in Tables |-> IF t = "token_metrics" THEN {} ELSE {k}],
        !.wal = (s = "NEEDS_SCRUB"), !.pages = (s = "NEEDS_SCRUB")]

Init ==
    /\ db \in {EmptyDatabase, LegacyDatabase} \cup
                {FormatOneDatabase(k, s) : k \in OperatorKeys, s \in {"NEEDS_SCRUB", "ACTIVE"}}
    /\ keyFile = "missing"
    /\ config \in Supplied(keyFile)
    /\ phase = "down"
    /\ keys = NoKeys
    /\ read = NoSecurity
    /\ after = "none"
    /\ work = EmptyDatabase
    /\ codec = NoKey
    /\ code = "NONE"
    /\ faults = 0
----------------------------------------------------------------------------
(* Key resolution *)

\* A missing source falls back to the environment when it names any key.
ResolveKeySource ==
    IF config.source # "unset" THEN config.source
    ELSE IF config.slot # NoKeys THEN "environment" ELSE "local"

\* The codes with which an external slot is refused.
SlotError(slot) ==
    IF slot.active = NoKey THEN "STORAGE_KEY_MISSING"
    ELSE IF slot.active = slot.previous THEN "STORAGE_KEY_INVALID"
    ELSE "NONE"

Lock(reason) ==
    /\ phase' = "locked"
    /\ code' = reason
    /\ work' = EmptyDatabase
    /\ codec' = NoKey

ResolveExternalKeys ==
    /\ phase = "resolving"
    /\ ResolveKeySource \in {"environment", "file"}
    /\ IF SlotError(config.slot) # "NONE"
         THEN Lock(SlotError(config.slot)) /\ keys' = keys
         ELSE /\ keys' = config.slot
              /\ phase' = "migrating"
              /\ UNCHANGED <<work, codec, code>>
    /\ UNCHANGED <<db, keyFile, config, read, after, faults>>

\* Mutant: the text of the file is not parsed.
ReadLocalKeyUnparsed ==
    /\ phase = "resolving"
    /\ ResolveKeySource = "local"
    /\ keyFile # "missing"
    /\ keys' = [active |-> keyFile, previous |-> NoKey]
    /\ phase' = "migrating"
    /\ UNCHANGED <<db, keyFile, config, read, after, work, codec, code, faults>>

\* An existing local file is read back; a truncated one does not parse.
ReadLocalKey ==
    /\ phase = "resolving"
    /\ ResolveKeySource = "local"
    /\ keyFile # "missing"
    /\ IF keyFile = "partial"
         THEN Lock("STORAGE_KEY_INVALID") /\ keys' = keys
         ELSE /\ keys' = [active |-> keyFile, previous |-> NoKey]
              /\ phase' = "migrating"
              /\ UNCHANGED <<work, codec, code>>
    /\ UNCHANGED <<db, keyFile, config, read, after, faults>>

\* Mutant: the key is used before it is written.
CreateLocalKeyFileUnwritten ==
    /\ phase = "resolving"
    /\ ResolveKeySource = "local"
    /\ keyFile = "missing"
    /\ keyFile' = "partial"
    /\ keys' = [active |-> LocalKey, previous |-> NoKey]
    /\ phase' = "migrating"
    /\ UNCHANGED <<db, config, read, after, work, codec, code, faults>>

\* O_CREAT | O_EXCL makes the name before the key bytes are written, so a
\* process that stops in between leaves an empty file.  The directory is not
\* synced: after a loss of power the name itself may be gone.
CreateLocalKeyFile ==
    /\ phase = "resolving"
    /\ ResolveKeySource = "local"
    /\ keyFile = "missing"
    /\ keyFile' = "partial"
    /\ phase' = "writing_key"
    /\ UNCHANGED <<db, config, keys, read, after, work, codec, code, faults>>

\* write, flush and fsync; only then is the key returned to the caller.
WriteLocalKey ==
    /\ phase = "writing_key"
    /\ keyFile' = LocalKey
    /\ keys' = [active |-> LocalKey, previous |-> NoKey]
    /\ phase' = "migrating"
    /\ UNCHANGED <<db, config, read, after, work, codec, code, faults>>
----------------------------------------------------------------------------
(* Structural migrations *)

\* SQLiteMigrator.migrate: the keyed migration 2 stops an unkeyed run.
Migrated(ledger) == CASE ledger = 0 -> 1 [] ledger = 2 -> 3 [] OTHER -> ledger

Migrate ==
    /\ phase = "migrating"
    /\ db' = [db EXCEPT !.ledger = Migrated(@)]
    /\ phase' = IF db.security = NoSecurity THEN "validating" ELSE "existing"
    /\ UNCHANGED <<resolved, read, after, work, codec, code, faults>>
----------------------------------------------------------------------------
(* Work inside one exclusive transaction *)

\* Every row of a table is decrypted with one key and none fails.
ReadableWith(forms, k) == forms \subseteq {k}

\* The forms of the same rows once each has been written under k.
Rewritten(forms, k) == {k : f \in forms}

\* One conversion inside the open transaction; a failed one rolls it back.
Convert(here, next, ok, converted, reason) ==
    /\ phase = here
    /\ IF ok
         THEN work' = converted /\ phase' = next /\ UNCHANGED <<codec, code>>
         ELSE Lock(reason)
    /\ UNCHANGED <<db, resolved, read, after, faults>>

\* The commit of a conversion: old pages and the WAL keep what they held.
CommitConversion(here, next, security, ledger) ==
    /\ phase = here
    /\ db' = [work EXCEPT !.security = security, !.ledger = ledger,
                          !.wal = TRUE, !.pages = TRUE, !.vacuumed = FALSE]
    /\ work' = EmptyDatabase
    /\ phase' = "checkpoint"
    /\ after' = next
    /\ UNCHANGED <<resolved, read, codec, code, faults>>
----------------------------------------------------------------------------
(* Encryption of a legacy database *)

\* BEGIN EXCLUSIVE and the preflight over every legacy row.
ValidateLegacyRows ==
    Convert("validating", "transform_sessions",
            \A t \in Tables : ReadableWith(db.content[t], "plain"),
            db, "STORAGE_LEGACY_VALIDATION_FAILED")

Encrypted(w, t, k) == [w EXCEPT !.content[t] = Rewritten(@, k)]

TransformSessions ==
    Convert("transform_sessions", "transform_events", TRUE,
            Encrypted(work, "sessions", keys.active), "STORAGE_MIGRATION_FAILED")

TransformEvents ==
    Convert("transform_events", "transform_capsules", TRUE,
            Encrypted(work, "journal_events", keys.active), "STORAGE_MIGRATION_FAILED")

TransformCapsules ==
    Convert("transform_capsules", "transform_snapshots", TRUE,
            Encrypted(work, "capsules", keys.active), "STORAGE_MIGRATION_FAILED")

TransformSnapshots ==
    Convert("transform_snapshots", "transform_commit", TRUE,
            Encrypted(work, "snapshots", keys.active), "STORAGE_MIGRATION_FAILED")

TransformCommit ==
    CommitConversion("transform_commit", "existing",
        [format |-> 1, key |-> keys.active, state |-> "NEEDS_SCRUB",
         verifier |-> keys.active],
        db.ledger)
----------------------------------------------------------------------------
(* Activation of an encrypted database *)

\* The codec that reads rows under the durable key id of m.
SourceFor(m) == IF m.key # keys.active THEN keys.previous ELSE keys.active

Rekeyed == read.key # keys.active

\* Mutant: an unfinished scrub is refused instead of resumed.
MetadataErrorUnscrubbed(m) ==
    IF m.key # keys.active /\ (m.key # keys.previous \/ m.verifier # keys.previous)
    THEN "STORAGE_PREVIOUS_KEY_REQUIRED"
    ELSE IF m.verifier # SourceFor(m) THEN "STORAGE_AUTHENTICATION_FAILED"
    ELSE IF m.state # "ACTIVE" THEN "STORAGE_MIGRATION_FAILED"
    ELSE "NONE"

\* Why the metadata m cannot be used with the resolved keys.
MetadataError(m) ==
    IF m.key # keys.active /\ (m.key # keys.previous \/ m.verifier # keys.previous)
    THEN "STORAGE_PREVIOUS_KEY_REQUIRED"
    ELSE IF m.verifier # SourceFor(m) THEN "STORAGE_AUTHENTICATION_FAILED"
    ELSE IF m.state \notin {"NEEDS_SCRUB", "ACTIVE"} THEN "STORAGE_MIGRATION_FAILED"
    ELSE "NONE"

\* Read the metadata, authenticate the verifier, finish an interrupted scrub.
ReadSecurityMetadata ==
    /\ phase = "existing"
    /\ read' = db.security
    /\ IF MetadataError(db.security) # "NONE"
         THEN Lock(MetadataError(db.security)) /\ UNCHANGED after
         ELSE /\ phase' = IF db.security.state = "NEEDS_SCRUB" THEN "checkpoint" ELSE "recheck"
              /\ after' = "recheck"
              /\ UNCHANGED <<work, codec, code>>
    /\ UNCHANGED <<db, resolved, faults>>

\* The code for metadata that has to be active and to authenticate with k.
VerifiedError(k, expected, reason) ==
    IF ~expected \/ db.security.state # "ACTIVE" THEN reason
    ELSE IF db.security.verifier # k THEN "STORAGE_AUTHENTICATION_FAILED"
    ELSE "NONE"

RecheckError ==
    VerifiedError(SourceFor(read),
                  db.security.format = read.format /\ db.security.key = read.key,
                  "STORAGE_MIGRATION_FAILED")

\* Read again after the scrub and choose what is left to do.
RecheckMetadata ==
    /\ phase = "recheck"
    /\ IF RecheckError = "NONE"
         THEN /\ phase' = IF read.format = 1 THEN "upgrade_begin"
                          ELSE IF Rekeyed THEN "rekey_begin" ELSE "activated"
              /\ UNCHANGED <<work, codec, code>>
         ELSE Lock(RecheckError)
    /\ UNCHANGED <<db, resolved, read, after, faults>>
----------------------------------------------------------------------------
(* Format 1 to format 2, possibly to another key at the same time *)

\* The transaction rechecks the metadata before it copies anything.
UpgradeBegin ==
    Convert("upgrade_begin", "upgrade_sessions",
            db.security = [format |-> 1, key |-> SourceFor(read), state |-> "ACTIVE",
                           verifier |-> SourceFor(read)],
            db, "STORAGE_MIGRATION_FAILED")

\* A table whose content is copied under the active key and whose clear
\* token counts become envelopes.
CopiedUnderActiveKey(w, t) ==
    [w EXCEPT !.content[t] = Rewritten(@, keys.active),
              !.counts[t] = Rewritten(@, keys.active)]

CanCopyToFormatTwo(w, t) ==
    ReadableWith(w.content[t], SourceFor(read)) /\ ReadableWith(w.counts[t], "plain")

RewriteFormatTwoSessions ==
    Convert("upgrade_sessions", "upgrade_events",
            ReadableWith(work.content["sessions"], SourceFor(read)),
            Encrypted(work, "sessions", keys.active), "STORAGE_MIGRATION_FAILED")

CopyFormatTwoJournalEvents ==
    Convert("upgrade_events", "upgrade_capsules",
            CanCopyToFormatTwo(work, "journal_events"),
            CopiedUnderActiveKey(work, "journal_events"), "STORAGE_MIGRATION_FAILED")

CopyFormatTwoCapsules ==
    Convert("upgrade_capsules", "upgrade_snapshots",
            CanCopyToFormatTwo(work, "capsules"),
            CopiedUnderActiveKey(work, "capsules"), "STORAGE_MIGRATION_FAILED")

CopyFormatTwoSnapshots ==
    Convert("upgrade_snapshots", "upgrade_commit",
            CanCopyToFormatTwo(work, "snapshots"),
            CopiedUnderActiveKey(work, "snapshots"), "STORAGE_MIGRATION_FAILED")

\* New metadata row, table swap, ledger row 2 and user_version, then COMMIT.
UpgradeCommit ==
    CommitConversion("upgrade_commit", "final",
        [format |-> 2, key |-> keys.active, state |-> "NEEDS_SCRUB",
         verifier |-> keys.active],
        2)
----------------------------------------------------------------------------
(* Key rotation of a format 2 database *)

RotateBegin ==
    Convert("rekey_begin", "rekey_sessions",
            /\ keys.previous = db.security.verifier
            /\ db.security.key = read.key
            /\ db.security.state = "ACTIVE",
            db, "STORAGE_REKEY_FAILED")

RekeySessions ==
    Convert("rekey_sessions", "rekey_events",
            ReadableWith(work.content["sessions"], keys.previous),
            Encrypted(work, "sessions", keys.active), "STORAGE_REKEY_FAILED")

\* Content and token count of a row move to the active key together.
CanRekey(w, t) ==
    ReadableWith(w.content[t], keys.previous) /\ ReadableWith(w.counts[t], keys.previous)

RekeyEvents ==
    Convert("rekey_events", "rekey_capsules", CanRekey(work, "journal_events"),
            CopiedUnderActiveKey(work, "journal_events"), "STORAGE_REKEY_FAILED")

RekeyCapsules ==
    Convert("rekey_capsules", "rekey_snapshots", CanRekey(work, "capsules"),
            CopiedUnderActiveKey(work, "capsules"), "STORAGE_REKEY_FAILED")

RekeySnapshots ==
    Convert("rekey_snapshots", "rekey_metrics", CanRekey(work, "snapshots"),
            CopiedUnderActiveKey(work, "snapshots"), "STORAGE_REKEY_FAILED")

\* Mutant: the metric envelopes are forgotten by the rotation.
RekeyTokenMetricsSkipped ==
    Convert("rekey_metrics", "rekey_commit", TRUE, work, "STORAGE_REKEY_FAILED")

RekeyTokenMetrics ==
    Convert("rekey_metrics", "rekey_commit",
            ReadableWith(work.content["token_metrics"], keys.previous),
            Encrypted(work, "token_metrics", keys.active), "STORAGE_REKEY_FAILED")

RekeyCommit ==
    CommitConversion("rekey_commit", "final",
        [db.security EXCEPT !.key = keys.active, !.state = "NEEDS_SCRUB",
                            !.verifier = keys.active],
        db.ledger)
----------------------------------------------------------------------------
(* Scrub: checkpoint, VACUUM, checkpoint, and only then the durable mark *)

\* wal_checkpoint(TRUNCATE) copies the WAL into the file and empties it; the
\* pages of dropped rows go only if the WAL holds a vacuumed file.
Checkpointed(d) ==
    [d EXCEPT !.wal = FALSE, !.pages = @ /\ ~d.vacuumed, !.vacuumed = FALSE]

ScrubStep(here, next, d) ==
    /\ phase = here
    /\ db' = d
    /\ phase' = next
    /\ UNCHANGED <<resolved, read, after, work, codec, code, faults>>

CheckpointTruncate == ScrubStep("checkpoint", "vacuum", Checkpointed(db))

\* Mutant: the vacuumed file is left in the WAL.
VacuumLast == ScrubStep("vacuum", "mark", [db EXCEPT !.vacuumed = TRUE])

Vacuum == ScrubStep("vacuum", "second_checkpoint", [db EXCEPT !.vacuumed = TRUE])

SecondCheckpoint == ScrubStep("second_checkpoint", "mark", Checkpointed(db))

\* UPDATE ... WHERE state = NEEDS_SCRUB must change exactly one row.
MarkActive ==
    /\ phase = "mark"
    /\ IF db.security.state = "NEEDS_SCRUB"
         THEN /\ db' = [db EXCEPT !.security.state = "ACTIVE"]
              /\ phase' = after
              /\ UNCHANGED <<work, codec, code>>
         ELSE Lock("STORAGE_SCRUB_FAILED") /\ UNCHANGED db
    /\ UNCHANGED <<resolved, read, after, faults>>

\* The metadata a conversion left must be the one it meant to leave.  (The
\* code does not compare the format again after a rotation, which keeps it.)
ConvertedError ==
    VerifiedError(keys.active,
                  db.security.format = 2 /\ db.security.key = keys.active,
                  IF read.format = 1 THEN "STORAGE_MIGRATION_FAILED"
                  ELSE "STORAGE_REKEY_FAILED")

CheckConverted ==
    /\ phase = "final"
    /\ IF ConvertedError = "NONE"
         THEN phase' = "activated" /\ UNCHANGED <<work, codec, code>>
         ELSE Lock(ConvertedError)
    /\ UNCHANGED <<db, resolved, read, after, faults>>

\* Mutant: the repository trusts the migrations applied before activation.
ConstructRepositoryUnmigrated ==
    /\ phase = "activated"
    /\ codec' = keys.active
    /\ phase' = "ready"
    /\ UNCHANGED <<db, resolved, read, after, work, code, faults>>

\* SQLiteRepository migrates again, which applies migration 3 after an upgrade.
ConstructRepository ==
    /\ phase = "activated"
    /\ db' = [db EXCEPT !.ledger = Migrated(@)]
    /\ codec' = keys.active
    /\ phase' = "ready"
    /\ UNCHANGED <<resolved, read, after, work, code, faults>>
----------------------------------------------------------------------------
(* The running plugin, the operator, and faults *)

\* The repository adds rows to a table; their counts are envelopes too.
WriteRow(t) ==
    /\ phase = "ready"
    /\ db' = [db EXCEPT
                !.content[t] = @ \cup {codec},
                !.counts = [c \in CountedTables |-> IF c = t THEN @[c] \cup {codec} ELSE @[c]]]
    /\ UNCHANGED <<resolved, phase, read, after, work, codec, code, faults>>

\* initialize takes the plugin from down to its first key.
Start ==
    /\ phase = "down"
    /\ phase' = "resolving"
    /\ code' = "NONE"
    /\ UNCHANGED <<db, resolved, read, after, work, codec, faults>>

\* terminate forgets everything that is not on disk.
Forget ==
    /\ phase' = "down"
    /\ keys' = NoKeys
    /\ read' = NoSecurity
    /\ after' = "none"
    /\ work' = EmptyDatabase
    /\ codec' = NoKey

Stop ==
    /\ phase \in {"ready", "locked"}
    /\ Forget
    /\ UNCHANGED <<db, keyFile, config, code, faults>>

\* The operator changes the configuration while the plugin is stopped.
Configure ==
    /\ phase = "down"
    /\ config' \in Supplied(keyFile) \ {config}
    /\ UNCHANGED <<db, keyFile, phase, keys, read, after, work, codec, code, faults>>

Starting == phase \notin {"down", "ready", "locked"}

Crash ==
    /\ faults < MaxFaults
    /\ Starting
    /\ Forget
    /\ faults' = faults + 1
    /\ UNCHANGED <<db, keyFile, config, code>>

\* The code a failing SQLite or file call leads to in each part of a start.
FailureCode ==
    CASE phase = "resolving" -> "STORAGE_KEY_FILE_UNSAFE"
      [] phase = "writing_key" -> "STORAGE_LOCAL_KEY_CREATE_FAILED"
      [] phase \in {"checkpoint", "vacuum", "second_checkpoint", "mark"}
           -> "STORAGE_SCRUB_FAILED"
      [] phase \in {"rekey_begin", "rekey_sessions", "rekey_events", "rekey_capsules",
                    "rekey_snapshots", "rekey_metrics", "rekey_commit"}
           -> "STORAGE_REKEY_FAILED"
      [] phase = "activated" -> "STORAGE_STARTUP_FAILED"
      [] OTHER -> "STORAGE_MIGRATION_FAILED"

Fail ==
    /\ faults < MaxFaults
    /\ Starting
    /\ Lock(FailureCode)
    /\ faults' = faults + 1
    /\ UNCHANGED <<db, resolved, read, after>>

ResolveStep == ResolveExternalKeys \/ ReadLocalKey \/ CreateLocalKeyFile \/ WriteLocalKey

LegacyStep ==
    \/ ValidateLegacyRows \/ TransformSessions \/ TransformEvents
    \/ TransformCapsules \/ TransformSnapshots \/ TransformCommit

UpgradeStep ==
    \/ UpgradeBegin \/ RewriteFormatTwoSessions \/ CopyFormatTwoJournalEvents
    \/ CopyFormatTwoCapsules \/ CopyFormatTwoSnapshots \/ UpgradeCommit

RekeyStep ==
    \/ RotateBegin \/ RekeySessions \/ RekeyEvents \/ RekeyCapsules
    \/ RekeySnapshots \/ RekeyTokenMetrics \/ RekeyCommit

StoreScrub == CheckpointTruncate \/ Vacuum \/ SecondCheckpoint \/ MarkActive

StartStep ==
    \/ ResolveStep \/ Migrate \/ LegacyStep
    \/ ReadSecurityMetadata \/ RecheckMetadata \/ UpgradeStep \/ RekeyStep
    \/ StoreScrub \/ CheckConverted \/ ConstructRepository

Next ==
    \/ Start \/ StartStep \/ Stop \/ Configure \/ Crash \/ Fail
    \/ \E t \in Tables : WriteRow(t)

Spec == Init /\ [][Next]_vars

\* initialize runs to its end once it is called; the host starts a plugin
\* that is down and reloads one that is locked.
FairSpec ==
    /\ Spec
    /\ WF_vars(StartStep)
    /\ WF_vars(Start)
    /\ WF_vars(phase = "locked" /\ Stop)
----------------------------------------------------------------------------
TypeOK ==
    /\ db \in Databases
    /\ keyFile \in {"missing", "partial", LocalKey}
    /\ config \in Supplied(keyFile)
    /\ keys \in Slots
    /\ read \in Security \cup {NoSecurity}
    /\ work \in Databases
    /\ codec \in Keys \cup {NoKey}
    /\ faults \in 0..MaxFaults

\* At every moment, in the middle of a start or after a crash, all durable
\* protected values and the verifier are under the one key the metadata
\* names: no stop inside the legacy transform, the format upgrade or the
\* rotation (_transform_legacy, _apply_secure_format_two, _rekey_storage)
\* leaves rows of two forms.
OneKeyProtects ==
    db.security # NoSecurity =>
        /\ db.security.verifier = db.security.key
        /\ \A t \in Tables : db.content[t] \subseteq {db.security.key}
        /\ \A t \in CountedTables :
             db.counts[t] \subseteq {IF db.security.format = 1 THEN "plain" ELSE db.security.key}

\* The ACTIVE mark is written only when neither the WAL nor a free page can
\* still hold what the conversion replaced, wherever an earlier scrub
\* stopped (_scrub_storage).
ActiveIsScrubbed == db.security.state = "ACTIVE" => ~db.wal /\ ~db.pages

\* A ready repository reads everything that is stored with its codec, on the
\* last schema and the last format: the activation never hands out a codec
\* for a database that a stopped start left half way.
ReadyReads ==
    phase = "ready" =>
        /\ db.ledger = 3
        /\ db.security = [format |-> 2, key |-> codec, state |-> "ACTIVE", verifier |-> codec]
        /\ \A t \in Tables : db.content[t] \subseteq {codec}
        /\ \A t \in CountedTables : db.counts[t] \subseteq {codec}

\* Data is never encrypted under a local key that astrcontinuum.key does not
\* hold: _create_local_key returns the key only after the file is synced, so
\* a process that crashes can leave a useless file but never an unreadable
\* database.
LocalKeyIsKept == db.security.key = LocalKey => keyFile = LocalKey

\* The configuration can open the database as it is on disk.
Unlocks ==
    LET held == IF ResolveKeySource = "local" THEN {keyFile}
                ELSE {config.slot.active, config.slot.previous}
        usable == IF ResolveKeySource = "local" THEN keyFile # "partial"
                  ELSE SlotError(config.slot) = "NONE"
    IN  usable /\ (db.security = NoSecurity \/ db.security.key \in held)

\* Whatever steps crashed or failed, restarts under a configuration that
\* holds the durable key end with a ready plugin: an interrupted conversion
\* is either rolled back and done again, or committed and its scrub resumed.
RecoversAfterFaults == <>[]Unlocks => []<>(phase = "ready")

\* docs/superpowers/specs/2026-07-27-v0.2-storage-security-design.md: when a
\* rotation step fails, the scrub included, the operator restores the old
\* key as active.  So the key the store had before the attempt must open it.
\* (A rotation is of format 2; with format 1 the upgrade changes the key.)
OldKeyOpensAfterFailedRotation ==
    /\ phase = "locked"
    /\ code \in {"STORAGE_REKEY_FAILED", "STORAGE_SCRUB_FAILED"}
    /\ read.format = 2
    => db.security.key = read.key
=============================================================================
