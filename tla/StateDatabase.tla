--------------------------- MODULE StateDatabase ----------------------------
(***************************************************************************)
(* The life of the SQLite state database: schema migration when a process  *)
(* opens it, backup and restore.                                           *)
(*                                                                         *)
(* A process reads the version of the file, applies the pending migrations *)
(* in one transaction and checks the result.  Two processes may open the   *)
(* file at once, and a process may die in the middle of a transaction: the *)
(* file is in SQLite's default journal mode, so that leaves a rollback     *)
(* journal beside it, which the next connection applies.  A backup is an   *)
(* online copy and then a manifest with a checksum.  A restore checks both *)
(* and replaces the file while no process has it open (ADR 0012).          *)
(***************************************************************************)
EXTENDS Naturals, Sequences, FiniteSets, Optional

CONSTANTS
    Openers,        \* processes that open the database
    InitialFiles,   \* what may lie at the path when the first one starts
    MaxData         \* bound: transactions of the stores

VARIABLES
    file,       \* the database file, None if there is none
    journalOf,  \* the file a rollback journal was left for, None if there is none
    opener,     \* where each process is, and the version it read
    backupFile, \* state.sqlite3 of the backup directory
    manifest,   \* manifest.json: the content its checksum is of
    restore     \* where the restore is

databaseVars == <<file, journalOf, opener, backupFile, manifest, restore>>

-----------------------------------------------------------------------------
\* The migrations, table by table: what is created if it does not exist, what is
\* added to a table, and the column whose presence skips the migration.  The
\* tables of the baseline that no later migration touches are "memories".
Core(tables) == {<<t, "core">> : t \in tables}

BaselineV1 ==
    [create |-> Core({"schema_migrations", "memories", "delivery_outbox"}), add |-> {}, skip |-> None]

RuntimeLearningStateV2 ==
    [create |-> Core({"background_jobs", "reviews"}), add |-> {}, skip |-> None]

ConversationTranscriptsV3 ==
    [create |-> Core({"transcripts"}), add |-> {}, skip |-> None]

SafetyAuditV4 ==
    [create |-> Core({"safety_audit"}), add |-> {}, skip |-> None]

ReviewCandidateTypeV5 ==
    [create |-> {}, add |-> {<<"reviews", "candidate_type">>}, skip |-> None]

BackgroundJobPressureV6 ==
    [create |-> {}, add |-> {<<"background_jobs", "resource_profile">>}, skip |-> None]

PresentationHintsV7 ==
    [create |-> {}, add |-> {<<"delivery_outbox", "hints">>}, skip |-> <<"delivery_outbox", "hints">>]

TranscriptCleanupV8 ==
    [create |-> Core({"cleanup_operations"}), add |-> {<<"transcripts", "legal_hold">>}, skip |-> None]

UserControlAndAuditVersionsV9 ==
    [create |-> Core({"user_controls"}), add |-> {<<"safety_audit", "model_versions">>},
     skip |-> <<"safety_audit", "model_versions">>]

\* available_migrations.
Migrations ==
    <<BaselineV1, RuntimeLearningStateV2, ConversationTranscriptsV3,
      SafetyAuditV4, ReviewCandidateTypeV5, BackgroundJobPressureV6,
      PresentationHintsV7, TranscriptCleanupV8, UserControlAndAuditVersionsV9>>

\* CURRENT_SQLITE_SCHEMA_VERSION.
CurrentVersion == Len(Migrations)

\* The schema after the first v migrations of an empty file.
SchemaAt(v) == UNION {Migrations[i].create \cup Migrations[i].add : i \in 1 .. v}

\* _REQUIRED_COLUMNS.
RequiredColumns == SchemaAt(CurrentVersion)

\* _UNVERSIONED_ADOPTION_OPTIONAL_COLUMNS.
OptionalForAdoption == {<<"delivery_outbox", "hints">>}

TablesOf(schema) == {c[1] : c \in schema}

Columns == RequiredColumns \cup UNION {f.schema : f \in InitialFiles \ {None}}

\* A database file: user_version, schema_migrations, the columns, what the stores
\* wrote, and whether quick_check finds it damaged.
Files ==
    [version : Nat, history : SUBSET Nat, schema : SUBSET Columns, data : Nat, torn : BOOLEAN]

\* The column UserControlAndAuditVersionsV9 is skipped for, and the table it makes.
AuditVersions == <<"safety_audit", "model_versions">>
UserControls == <<"user_controls", "core">>

\* A versioned file is as its release made it.  A file without versions has no
\* history, and if it has the audit column, the create_all of the schema package
\* made it, which makes the table of the user controls with it.
ASSUME FilesAsReleased ==
    /\ None \notin Files
    /\ InitialFiles \subseteq Files \cup {None}
    /\ \A f \in InitialFiles \ {None} :
         /\ f.version \in 1 .. CurrentVersion =>
                f.schema = SchemaAt(f.version) /\ f.history = 1 .. f.version
         /\ f.version = 0 =>
                f.history = {} /\ (AuditVersions \in f.schema => UserControls \in f.schema)

\* _validate_unversioned_adoption: every known table that exists is complete.
Adoptable(f) ==
    \A c \in RequiredColumns \ OptionalForAdoption :
        c[1] \in TablesOf(f.schema) \ {"schema_migrations"} => c \in f.schema

\* _validate_current_schema and _validate_migration_history.
ValidCurrent(f) ==
    /\ RequiredColumns \subseteq f.schema
    /\ 1 .. CurrentVersion \subseteq f.history

\* _apply_pending_migration: None if a statement fails, an ALTER of a table that is
\* not there or already has the column, or a second row for the version.
ApplyMigration(f, v) ==
    LET m == Migrations[v]
        created == f.schema \cup m.create
        skipped == m.skip # None /\ m.skip \in f.schema
    IN  IF v \in f.history THEN None
        ELSE IF skipped THEN [f EXCEPT !.version = v, !.history = @ \cup {v}]
        ELSE IF \E c \in m.add : c \in created \/ c[1] \notin TablesOf(created) THEN None
        ELSE [f EXCEPT !.version = v, !.history = @ \cup {v}, !.schema = created \cup m.add]

\* Mutant: every migration is committed on its own.
CommitOneByOne(f, seen) ==
    LET after[n \in 0 .. CurrentVersion - seen] ==
            IF n = 0 THEN f
            ELSE OrElse(ApplyMigration(after[n - 1], seen + n), after[n - 1])
    IN  after[CurrentVersion - seen]

\* _apply_pending: all migrations above the version read before the transaction,
\* in one transaction; None if one fails, which rolls all of them back.
ApplyPending(f, seen) ==
    LET after[n \in 0 .. CurrentVersion - seen] ==
            IF n = 0 THEN f
            ELSE IF after[n - 1] = None THEN None ELSE ApplyMigration(after[n - 1], seen + n)
    IN  after[CurrentVersion - seen]

EmptyFile == [version |-> 0, history |-> {}, schema |-> {}, data |-> 0, torn |-> FALSE]

\* A connection applies a rollback journal it finds, whatever file lies there now.
Recovered(f) ==
    IF journalOf = None \/ f = None THEN f
    ELSE IF journalOf = f THEN f ELSE [f EXCEPT !.torn = TRUE]

-----------------------------------------------------------------------------
DatabaseInit ==
    /\ file \in InitialFiles
    /\ journalOf = None
    /\ opener = [p \in Openers |-> [pc |-> "down", seen |-> 0]]
    /\ backupFile = None
    /\ manifest = None
    /\ restore = "idle"

Move(p, pc, seen) == opener' = [opener EXCEPT ![p] = [pc |-> pc, seen |-> seen]]

\* _assert_supported_version.
Supported(version) == version <= CurrentVersion

\* ensure_current up to the transaction: connect, quick_check, version, adoption.
OpenDatabase(p) ==
    /\ opener[p].pc = "down"
    /\ restore = "idle"
    /\ LET f == Recovered(OrElse(file, EmptyFile))
       IN  /\ file' = f
           /\ CASE f.torn \/ ~Supported(f.version) -> Move(p, "failed", f.version)
                [] f.version = CurrentVersion /\ ~f.torn ->
                     Move(p, IF ValidCurrent(f) THEN "open" ELSE "failed", f.version)
                [] f.version = 0 /\ ~Adoptable(f) /\ ~f.torn -> Move(p, "failed", 0)
                [] OTHER -> Move(p, "migrate", f.version)
    /\ journalOf' = None
    /\ UNCHANGED <<backupFile, manifest, restore>>

\* The transaction and the checks after it.
Migrate(p) ==
    /\ opener[p].pc = "migrate"
    /\ LET result == ApplyPending(file, opener[p].seen)
       IN  /\ file' = OrElse(result, file)
           /\ Move(p, IF result # None /\ ValidCurrent(file') THEN "open" ELSE "failed", opener[p].seen)
    /\ UNCHANGED <<journalOf, backupFile, manifest, restore>>

\* A transaction of one of the stores.
WriteData(p) ==
    /\ opener[p].pc = "open"
    /\ file.data < MaxData
    /\ file' = [file EXCEPT !.data = @ + 1]
    /\ UNCHANGED <<journalOf, opener, backupFile, manifest, restore>>

\* The process ends, or dies; in the middle of a transaction it leaves a journal.
StopProcess(p) ==
    /\ opener[p].pc # "down"
    /\ Move(p, "down", 0)
    /\ \/ UNCHANGED journalOf
       \/ opener[p].pc \in {"migrate", "open"} /\ journalOf' = file
    /\ UNCHANGED <<file, backupFile, manifest, restore>>

\* create_backup after its ensure_current: the online copy.
CopyBackup(p) ==
    /\ opener[p].pc = "open"
    /\ backupFile = None
    /\ manifest = None
    /\ backupFile' = file
    /\ Move(p, "copied", opener[p].seen)
    /\ UNCHANGED <<file, journalOf, manifest, restore>>

\* ... and the manifest, after an inspection of the copy.
WriteManifest(p) ==
    /\ opener[p].pc = "copied"
    /\ manifest' = backupFile
    /\ Move(p, "down", 0)
    /\ UNCHANGED <<file, journalOf, backupFile, restore>>

\* The copy changes on its medium.
BackupRots ==
    /\ backupFile # None
    /\ restore = "idle"
    /\ ~backupFile.torn
    /\ backupFile' = [backupFile EXCEPT !.torn = TRUE]
    /\ UNCHANGED <<file, journalOf, opener, manifest, restore>>

\* Mutant: the checksum is not compared.
AnyPayload == TRUE

\* _validate_backup_payload.
ChecksumOK == backupFile = manifest

\* read_backup_manifest: without the manifest the copy is no backup.
BackupComplete == manifest # None /\ backupFile # None

\* restore_backup up to the copy, with overwrite; the database is not open.  There
\* are no WAL files to find: no connection of the runtime asks for that mode.
CheckRestore ==
    /\ restore = "idle"
    /\ \A p \in Openers : opener[p].pc = "down"
    /\ BackupComplete
    /\ ChecksumOK
    /\ Supported(backupFile.version)
    /\ restore' = "checked"
    /\ UNCHANGED <<file, journalOf, opener, backupFile, manifest>>

\* _replace_target_db: a copy beside the target, then a rename; and the inspection
\* of the target, which connects to it.  A rollback journal of the file it replaces
\* is not looked for, and the connection applies it ("spoiled").
ReplaceFile ==
    /\ restore = "checked"
    /\ file' = Recovered(backupFile)
    /\ journalOf' = None
    /\ restore' = IF journalOf = None \/ journalOf = backupFile THEN "restored" ELSE "spoiled"
    /\ UNCHANGED <<opener, backupFile, manifest>>

\* The restore dies before the rename, or it has ended and the runtime may start.
EndRestore ==
    /\ restore # "idle"
    /\ restore' = "idle"
    /\ UNCHANGED <<file, journalOf, opener, backupFile, manifest>>

DatabaseNext ==
    \/ \E p \in Openers :
         \/ OpenDatabase(p)
         \/ Migrate(p)
         \/ WriteData(p)
         \/ StopProcess(p)
         \/ CopyBackup(p)
         \/ WriteManifest(p)
    \/ BackupRots
    \/ CheckRestore
    \/ ReplaceFile
    \/ EndRestore

DatabaseSpec == DatabaseInit /\ [][DatabaseNext]_databaseVars

-----------------------------------------------------------------------------
\* Whoever races to open it, whatever lay there and wherever a process dies, the
\* file is never between two versions: its version, its migration history and its
\* columns agree, and a process is open only on the current schema.
NeverHalfMigrated ==
    /\ file # None /\ file.version \in 1 .. CurrentVersion =>
         /\ file.history = 1 .. file.version
         /\ SchemaAt(file.version) \subseteq file.schema
    /\ \A p \in Openers : opener[p].pc \in {"open", "copied"} =>
         file.version = CurrentVersion /\ ValidCurrent(file)

\* A restore leaves just the content the manifest was written for, however the copy
\* fared since, unless a process had died in a transaction on the file it replaced
\* and nobody opened that file before the restore.
RestoredIsBackup == restore = "restored" => file = manifest
=============================================================================
