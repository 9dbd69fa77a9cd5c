---------------------------- MODULE SchemaMigration ----------------------------
(***************************************************************************)
(* Bringing a project database up to date (persistence/migrations.py and   *)
(* initialize of persistence/database.py): processes of several program    *)
(* versions read the history, keep a backup, and apply what is missing,    *)
(* one transaction per migration.  The history is read outside of them.    *)
(* SQLite gives one writer at a time and takes back what is not committed. *)
(***************************************************************************)
EXTENDS Integers, Sequences

CONSTANTS
    Apps,           \* the processes
    Migrations,     \* Migrations[a]: the checksums of a's migrations, in order
    Statements,     \* the number of statements of a migration
    Nobody

\* The checksums are those of bundled files.
Checksums == UNION {{Migrations[a][v] : v \in DOMAIN Migrations[a]} : a \in Apps}

SchemaConstants ==
    /\ Nobody \notin Apps
    /\ DOMAIN Migrations = Apps /\ \A a \in Apps : Migrations[a] \in Seq(Checksums)
    /\ Statements \in Nat

VARIABLES
    history,    \* the rows of schema_version: [checksum, by]
    schema,     \* the statements in effect, <<checksum, n>>
    at,         \* at[a]: how far initialize() got
    next,       \* next[a]: the migration a is at
    writer,     \* who has a transaction open
    executed,   \* the number of statements in it
    backups     \* the schemas that were saved

vars == <<history, schema, at, next, writer, executed, backups>>

Supported(a) == Len(Migrations[a])

Version == Len(history)

Applied(checksum, n) == {<<checksum, k>> : k \in 1..n}

Init ==
    /\ history = <<>> /\ schema = {}
    /\ at = [a \in Apps |-> "idle"]
    /\ next = [a \in Apps |-> 1]
    /\ writer = Nobody /\ executed = 0
    /\ backups = {}

\* _validate_history() and the check for a newer schema; tables without a
\* history are nobody's.
Compatible(a) ==
    /\ schema # {} => Version > 0
    /\ Version <= Supported(a)
    /\ \A v \in 1..Version : history[v].checksum = Migrations[a][v]

\* initialize() looks at the version and keeps a backup of an older schema.
Backup(a) ==
    /\ at[a] = "idle"
    /\ at' = [at EXCEPT ![a] = "saved"]
    /\ backups' = backups \cup IF 0 < Version /\ Version < Supported(a) THEN {schema} ELSE {}
    /\ UNCHANGED <<history, schema, next, writer, executed>>

\* apply_migrations() reads the history again.
Read(a) ==
    /\ at[a] = "saved"
    /\ \/ /\ Compatible(a)
          /\ at' = [at EXCEPT ![a] = "applying"]
          /\ next' = [next EXCEPT ![a] = Version + 1]
       \/ /\ ~Compatible(a)
          /\ at' = [at EXCEPT ![a] = "refused"]
          /\ UNCHANGED next
    /\ UNCHANGED <<history, schema, writer, executed, backups>>

\* BEGIN IMMEDIATE waits for the other writer.
Begin(a) ==
    /\ at[a] = "applying" /\ writer = Nobody
    /\ next[a] <= Supported(a)
    /\ writer' = a /\ executed' = 0
    /\ UNCHANGED <<history, schema, at, next, backups>>

Checksum(a) == Migrations[a][next[a]]

\* Mutant: every statement is committed at once, as executescript() does.
ExecuteCommitting(a) ==
    /\ writer = a /\ executed < Statements
    /\ executed' = executed + 1
    /\ schema' = schema \cup Applied(Checksum(a), executed + 1)
    /\ UNCHANGED <<history, at, next, writer, backups>>

Execute(a) ==
    /\ writer = a /\ executed < Statements
    /\ executed' = executed + 1
    /\ UNCHANGED <<history, schema, at, next, writer, backups>>

\* Mutant: a row takes the place after the last one, whatever its version.
CommitNextRow(a) ==
    /\ writer = a /\ executed = Statements
    /\ history' = Append(history, [checksum |-> Checksum(a), by |-> a])
    /\ schema' = schema \cup Applied(Checksum(a), Statements)
    /\ next' = [next EXCEPT ![a] = @ + 1]
    /\ writer' = Nobody /\ executed' = 0
    /\ UNCHANGED <<at, backups>>

\* The row of the migration, whose key is its version, and the commit.
Commit(a) ==
    /\ writer = a /\ executed = Statements
    /\ next[a] = Version + 1
    /\ history' = Append(history, [checksum |-> Checksum(a), by |-> a])
    /\ schema' = schema \cup Applied(Checksum(a), Statements)
    /\ next' = [next EXCEPT ![a] = @ + 1]
    /\ writer' = Nobody /\ executed' = 0
    /\ UNCHANGED <<at, backups>>

\* A statement finds its table there already, the row has a rival, or the
\* process dies: nothing of the transaction stays.
Rollback(a) ==
    /\ writer = a
    /\ writer' = Nobody /\ executed' = 0
    /\ at' = [at EXCEPT ![a] = "idle"]
    /\ UNCHANGED <<history, schema, next, backups>>

Return(a) ==
    /\ at[a] = "applying" /\ next[a] > Supported(a)
    /\ at' = [at EXCEPT ![a] = "ready"]
    /\ UNCHANGED <<history, schema, next, writer, executed, backups>>

\* The process opens the database again.
Reopen(a) ==
    /\ at[a] \in {"ready", "refused"}
    /\ at' = [at EXCEPT ![a] = "idle"]
    /\ UNCHANGED <<history, schema, next, writer, executed, backups>>

Next ==
    \E a \in Apps :
        \/ Backup(a) \/ Read(a) \/ Begin(a) \/ Execute(a) \/ Commit(a)
        \/ Rollback(a) \/ Return(a) \/ Reopen(a)

Spec == Init /\ [][Next]_vars

-----------------------------------------------------------------------------

TypeOK ==
    /\ \A v \in 1..Version : history[v].by \in Apps
    /\ at \in [Apps -> {"idle", "saved", "applying", "ready", "refused"}]
    /\ \A a \in Apps : next[a] \in 1 .. Supported(a) + 1
    /\ writer \in Apps \cup {Nobody} /\ executed \in 0..Statements

Whole(n) == UNION {Applied(history[v].checksum, Statements) : v \in 1..n}

\* Half a migration is never in effect: the schema is that of its history,
\* after a crash and while another process migrates, and so is every backup.
SchemaIsItsHistory ==
    /\ schema = Whole(Version)
    /\ \A b \in backups : \E n \in 1..Version : b = Whole(n)

\* A migration is only ever applied on top of those that the same program
\* knows, though the history was read before the transaction; and a program
\* that is ready finds everything it needs in place, if perhaps more.
HistoryIsOneLine ==
    /\ \A v \in 1..Version : \A u \in 1..v :
         history[u].checksum = Migrations[history[v].by][u]
    /\ \A a \in Apps : at[a] = "ready" =>
         /\ Version >= Supported(a)
         /\ \A v \in 1..Supported(a) : history[v].checksum = Migrations[a][v]

MigrationsAreWhole == SchemaIsItsHistory /\ HistoryIsOneLine
=============================================================================
