------------------------------- MODULE Schema -------------------------------
(***************************************************************************)
(* Opening the request database (storage.NewSQLite, storage.NewPostgres,   *)
(* main.go 165-204).  Every statement commits by itself, so an instance    *)
(* that is killed, or gives up because a statement has failed, leaves what *)
(* it has done; on SQLite the next one may find columns that its version   *)
(* says it has to add.                                                     *)
(***************************************************************************)
EXTENDS Integers, FiniteSets

CONSTANTS
    Instances,    \* processes that open the same database
    Columns,      \* how many columns the migration adds (8 in the code)
    MaxKills,     \* bound: how often a process is killed
    MaxFaults     \* bound: how many statements fail

ASSUME SchemaAssumption == Columns \in Nat \ {0} /\ MaxKills \in Nat /\ MaxFaults \in Nat

VARIABLES
    database,   \* "sqlite" or "postgres"
    columns,    \* the columns that exist
    version,    \* PRAGMA user_version
    found,      \* of an instance: the version that it read
    phase,      \* of an instance: "down", "tables", "migrate", "mark", "serving" or "exited"
    adding,     \* of an instance: the column it adds next
    kills,      \* how often a process was killed
    faults      \* how many statements have failed

schemaVars == <<database, columns, version, found, phase, adding, kills, faults>>

SchemaTypeOK ==
    /\ database \in {"sqlite", "postgres"}
    /\ columns \subseteq 1 .. Columns
    /\ version \in {0, 1}
    /\ found \in [Instances -> {0, 1}]
    /\ phase \in [Instances -> {"down", "tables", "migrate", "mark", "serving", "exited"}]
    /\ adding \in [Instances -> 1 .. Columns + 1]
    /\ kills \in 0 .. MaxKills
    /\ faults \in 0 .. MaxFaults

\* No database yet; the first start creates the tables without those columns.
SchemaInit ==
    /\ database \in {"sqlite", "postgres"}
    /\ columns = {} /\ version = 0
    /\ found = [i \in Instances |-> 0]
    /\ phase = [i \in Instances |-> "down"]
    /\ adding = [i \in Instances |-> 1]
    /\ kills = 0 /\ faults = 0

\* main: the tables are created if they do not exist.
Open(i) ==
    /\ phase[i] \in {"down", "exited"}
    /\ phase' = [phase EXCEPT ![i] = "tables"]
    /\ adding' = [adding EXCEPT ![i] = 1]
    /\ UNCHANGED <<database, columns, version, found, kills, faults>>

\* Mutant: the version is not read.
IgnoreVersion(i) ==
    /\ phase[i] = "tables"
    /\ found' = [found EXCEPT ![i] = version]
    /\ phase' = [phase EXCEPT ![i] = "migrate"]
    /\ UNCHANGED <<database, columns, version, adding, kills, faults>>

\* Only SQLite keeps a version; PostgreSQL goes through its statements every time.
ReadVersion(i) ==
    /\ phase[i] = "tables"
    /\ found' = [found EXCEPT ![i] = version]
    /\ phase' = [phase EXCEPT ![i] = IF database = "sqlite" /\ version = 1
                                     THEN "serving" ELSE "migrate"]
    /\ UNCHANGED <<database, columns, version, adding, kills, faults>>

\* Mutant: a column that exists is no error.
AddIfMissing(i) ==
    /\ database = "sqlite"
    /\ phase[i] = "migrate" /\ adding[i] <= Columns
    /\ columns' = columns \cup {adding[i]}
    /\ adding' = [adding EXCEPT ![i] = @ + 1]
    /\ UNCHANGED <<database, version, found, phase, kills, faults>>

\* ALTER TABLE ADD COLUMN.  SQLite has no IF NOT EXISTS for it: the start fails and main exits.
AddColumnSQLite(i) ==
    /\ database = "sqlite"
    /\ phase[i] = "migrate" /\ adding[i] <= Columns
    /\ IF adding[i] \in columns
       THEN /\ phase' = [phase EXCEPT ![i] = "exited"]
            /\ UNCHANGED <<columns, adding>>
       ELSE /\ columns' = columns \cup {adding[i]}
            /\ adding' = [adding EXCEPT ![i] = @ + 1]
            /\ UNCHANGED phase
    /\ UNCHANGED <<database, version, found, kills, faults>>

\* Mutant: as on SQLite.
AddOnce(i) ==
    /\ database = "postgres"
    /\ phase[i] = "migrate" /\ adding[i] <= Columns /\ adding[i] \notin columns
    /\ columns' = columns \cup {adding[i]}
    /\ adding' = [adding EXCEPT ![i] = @ + 1]
    /\ UNCHANGED <<database, version, found, phase, kills, faults>>

\* Mutant: one column too many.
AddOneMore(i) ==
    /\ database = "postgres"
    /\ phase[i] = "migrate" /\ adding[i] <= Columns + 1
    /\ columns' = columns \cup {adding[i]}
    /\ adding' = [adding EXCEPT ![i] = @ + 1]
    /\ UNCHANGED <<database, version, found, phase, kills, faults>>

AddColumnPostgres(i) ==
    /\ database = "postgres"
    /\ phase[i] = "migrate" /\ adding[i] <= Columns
    /\ columns' = columns \cup {adding[i]}
    /\ adding' = [adding EXCEPT ![i] = @ + 1]
    /\ UNCHANGED <<database, version, found, phase, kills, faults>>

\* The two indexes, which both engines create if they do not exist.
CreateIndexes(i) ==
    /\ phase[i] = "migrate" /\ adding[i] = Columns + 1
    /\ phase' = [phase EXCEPT ![i] = IF database = "sqlite" THEN "mark" ELSE "serving"]
    /\ UNCHANGED <<database, columns, version, found, adding, kills, faults>>

SetVersion(i) ==
    /\ phase[i] = "mark"
    /\ version' = 1
    /\ phase' = [phase EXCEPT ![i] = "serving"]
    /\ UNCHANGED <<database, columns, found, adding, kills, faults>>

\* The pool or the connection, a CREATE, an ALTER or the PRAGMA that sets the version
\* returns an error: the start fails and main exits.  The error may come from the
\* connection to PostgreSQL, with the column there.
StatementFails(i) ==
    /\ phase[i] \in {"tables", "migrate", "mark"}
    /\ faults < MaxFaults
    /\ faults' = faults + 1
    /\ phase' = [phase EXCEPT ![i] = "exited"]
    /\ \/ UNCHANGED columns
       \/ /\ database = "postgres" /\ phase[i] = "migrate" /\ adding[i] <= Columns
          /\ columns' = columns \cup {adding[i]}
    /\ UNCHANGED <<database, version, found, adding, kills>>

\* SQLite: a version that cannot be read counts as 0.
ReadFails(i) ==
    /\ database = "sqlite" /\ phase[i] = "tables"
    /\ faults < MaxFaults
    /\ faults' = faults + 1
    /\ found' = [found EXCEPT ![i] = 0]
    /\ phase' = [phase EXCEPT ![i] = "migrate"]
    /\ UNCHANGED <<database, columns, version, adding, kills>>

Kill(i) ==
    /\ phase[i] \notin {"down", "exited"}
    /\ kills < MaxKills
    /\ kills' = kills + 1
    /\ phase' = [phase EXCEPT ![i] = "down"]
    /\ UNCHANGED <<database, columns, version, found, adding, faults>>

OpenStep(i) ==
    ReadVersion(i) \/ AddColumnSQLite(i) \/ AddColumnPostgres(i) \/ CreateIndexes(i) \/ SetVersion(i)

Mishap(i) == StatementFails(i) \/ ReadFails(i) \/ Kill(i)

SchemaNext == \E i \in Instances : Open(i) \/ OpenStep(i) \/ Mishap(i)

SchemaSpec == SchemaInit /\ [][SchemaNext]_schemaVars

\* A start that has begun goes on, and a supervisor starts what has exited.
SchemaFairness == \A i \in Instances : WF_schemaVars(Open(i) \/ OpenStep(i))

-----------------------------------------------------------------------------
Migrating(i) == phase[i] \in {"migrate", "mark"} /\ (columns # {} => adding[i] > 1)

\* Some of the migration is done and nobody is at it.
HalfMigrated ==
    database = "sqlite" /\ version = 0 /\ columns # {} /\ ~\E i \in Instances : Migrating(i)

(* sqlite.go:83-121, postgres.go:93-113: whoever serves has the whole      *)
(* schema, and on SQLite two instances never migrate at the same time.     *)
WholeSchema ==
    /\ \A i \in Instances : phase[i] = "serving" => columns = 1 .. Columns
    /\ database = "sqlite" /\ columns # {} => Cardinality({i \in Instances : Migrating(i)}) <= 1

(* sqlite.go:83-115: a start in which no statement but an ALTER for an     *)
(* existing column fails gives up only on SQLite, when it took the version *)
(* for 0 and a migration was cut short, is done, or is another one's.      *)
GivesUpOnlyThen ==
    [][\A i \in Instances : phase[i] # "exited" /\ phase'[i] = "exited" /\ faults' = faults =>
          /\ database = "sqlite" /\ found[i] = 0
          /\ HalfMigrated \/ version = 1 \/ \E j \in Instances \ {i} : Migrating(j)]_schemaVars

(* sqlite.go:86-117: a migration that was cut short is never finished: no  *)
(* later start gets past the first column or sets the version, and none    *)
(* serves.                                                                 *)
CutShortForGood ==
    [][HalfMigrated => /\ UNCHANGED <<columns, version>> /\ HalfMigrated'
                       /\ \A i \in Instances : phase'[i] = "serving" => phase[i] = "serving"]_schemaVars

(* sqlite.go:88-117: only a kill or a failing statement cuts a migration   *)
(* short, never an instance that starts beside it.                         *)
CutShortByMishap ==
    [][~HalfMigrated /\ HalfMigrated' => kills' > kills \/ faults' > faults]_schemaVars

(* sqlite.go:83-121: what a failed start may do, what cuts a migration     *)
(* short, and what follows from it.                                        *)
MigrationFails == GivesUpOnlyThen /\ CutShortForGood /\ CutShortByMishap

(* main.go:165-204: an instance that starts serves in the end, whoever     *)
(* starts with it, unless kills and failing statements never end or have   *)
(* cut a migration of SQLite short; on PostgreSQL in spite of both.        *)
StartsServe ==
    \A i \in Instances : phase[i] = "tables" ~> (phase[i] = "serving" \/ HalfMigrated)
=============================================================================
