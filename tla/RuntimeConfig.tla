---------------------------- MODULE RuntimeConfig ---------------------------
(***************************************************************************)
(* Runtime configuration (internal/api/handler.go 803-902, config.go       *)
(* 286-317, main.go 228-351).  PUT and DELETE change an entry of the       *)
(* runtime_config table, write an audit row and, for PUT, reload the       *)
(* plugin of that section; a restart lays the entries over the file.  A    *)
(* section is one limit, 0 meaning none: budget, rate-limit and            *)
(* tool-policy are all handled this way, and each plugin is registered     *)
(* only if its limit is positive at startup.                               *)
(***************************************************************************)
EXTENDS Integers

CONSTANTS
    Admins,     \* goroutines that serve the admin API
    Keys,       \* sections
    Entries,    \* the JSON values that are PUT
    NoEntry,    \* no row, or a null value in the audit log
    NoJob,      \* a handler without a request
    File,       \* File[k]: the limit in the configuration file
    Failing     \* TRUE: calls of the storage may fail

\* The spelling of the field names in an entry: "snake" (max_cost_per_day) or
\* "go" (maxcostperday, in any case); "broken" is not of the section's type.
Entry == [form : {"snake", "go", "broken"}, limit : Nat]
Row == Entry \cup {NoEntry}

ASSUME RuntimeConfigAssumption ==
    /\ Entries \subseteq Entry
    /\ NoEntry \notin Entry
    /\ File \in [Keys -> Nat]
    /\ Failing \in BOOLEAN

VARIABLES
    stored,     \* stored[k]: the row of k
    audited,    \* audited[k]: the newest audit row of k
    running,    \* running[k]: the limit its plugin enforces
    registered, \* sections whose plugin exists
    up,         \* the process runs
    pc,         \* pc[a]: where its handler is
    job,        \* job[a]: what it changes, and whether it had k for itself so far
    last,       \* history: how the last change of k was made, and what it replaced
    lost,       \* history: sections whose last change failed to read or to audit
    origin      \* history: origin[k]: what k is due to: "rows" or "file" (the last
                \* startup could or could not read the table), or a "change" since

tables == <<stored, audited>>
process == <<running, registered, up>>
handlers == <<pc, job>>
histories == <<last, lost, origin>>
vars == <<tables, process, handlers, histories>>

\* ReloadConfig unmarshals into a struct with json tags.
ByPlugin(e) == IF e.form = "snake" THEN e.limit ELSE 0

\* OverlayRuntimeConfig unmarshals into the section's configuration struct, which
\* has yaml tags only: encoding/json knows its fields by their Go names.
ByOverlay(k, e) ==
    IF e = NoEntry \/ e.form = "broken" THEN File[k]
    ELSE IF e.form = "go" THEN e.limit ELSE 0

Enforced(limits) == {k \in Keys : limits[k] > 0}

Init ==
    /\ stored = [k \in Keys |-> NoEntry]
    /\ audited = [k \in Keys |-> [old |-> NoEntry, new |-> NoEntry]]
    /\ running = File
    /\ registered = Enforced(File)
    /\ up = TRUE
    /\ pc = [a \in Admins |-> "idle"]
    /\ job = [a \in Admins |-> NoJob]
    /\ last = [k \in Keys |-> [how |-> "none", replaced |-> NoEntry]]
    /\ lost = {}
    /\ origin = [k \in Keys |-> "rows"]

Changing(a, k) == pc[a] # "idle" /\ job[a].key = k
MayFail == IF Failing THEN BOOLEAN ELSE {FALSE}

\* a goes on; a finished handler leaves nothing behind.
Goto(a, from, to) ==
    /\ up
    /\ pc[a] = from
    /\ pc' = [pc EXCEPT ![a] = to]
    /\ job' = IF to = "idle" THEN [job EXCEPT ![a] = NoJob] ELSE job

-----------------------------------------------------------------------------
(* putConfig and deleteConfig                                              *)

\* A valid request for k arrives and reads the old row; a failed read counts as
\* none.  new is NoEntry for DELETE.
Begin(a, k, new) ==
    /\ up /\ pc[a] = "idle"
    /\ pc' = [pc EXCEPT ![a] = "save"]
    /\ LET others == {b \in Admins : Changing(b, k)}
       IN  \E known \in {~fails : fails \in MayFail} :
              job' = [b \in Admins |->
                IF b = a
                THEN [key |-> k, new |-> new, old |-> IF known THEN stored[k] ELSE NoEntry,
                      alone |-> others = {}, known |-> known]
                ELSE IF b \in others THEN [job[b] EXCEPT !.alone = FALSE] ELSE job[b]]
    /\ UNCHANGED <<tables, process, histories>>

\* Mutant: the error is reported, but the return is missing.
SaveFailsOnward(a) ==
    /\ TRUE \in MayFail
    /\ Goto(a, "save", "audit")
    /\ UNCHANGED <<tables, process, histories>>

SaveFails(a) ==
    /\ TRUE \in MayFail
    /\ Goto(a, "save", "idle")
    /\ UNCHANGED <<tables, process, histories>>

\* SaveConfig or DeleteConfig.
Save(a) ==
    /\ Goto(a, "save", "audit")
    /\ LET j == job[a] k == job[a].key
       IN  /\ stored' = [stored EXCEPT ![k] = j.new]
           /\ last' = [last EXCEPT ![k] =
                [how |-> IF ~j.alone THEN "overlapped"
                         ELSE IF j.new = NoEntry THEN "delete" ELSE "put",
                 replaced |-> stored[k]]]
           /\ lost' = IF j.known THEN lost \ {k} ELSE lost \cup {k}
           /\ origin' = [origin EXCEPT ![k] = "change"]
    /\ UNCHANGED <<audited, process>>

AfterAudit(a) == IF job[a].new = NoEntry THEN "idle" ELSE "reload"

\* Mutant: the old value of the audit row is read when the row is written.
WriteAuditLate(a) ==
    /\ Goto(a, "audit", AfterAudit(a))
    /\ LET k == job[a].key
       IN  audited' = [audited EXCEPT ![k] = [old |-> stored[k], new |-> job[a].new]]
    /\ UNCHANGED <<stored, process, histories>>

WriteAudit(a) ==
    /\ Goto(a, "audit", AfterAudit(a))
    /\ LET k == job[a].key
       IN  audited' = [audited EXCEPT ![k] = [old |-> job[a].old, new |-> job[a].new]]
    /\ UNCHANGED <<stored, process, histories>>

\* A failed audit is logged, and the request goes on.
AuditFails(a) ==
    /\ TRUE \in MayFail
    /\ Goto(a, "audit", AfterAudit(a))
    /\ lost' = lost \cup {job[a].key}
    /\ UNCHANGED <<tables, process, last, origin>>

\* Dispatcher.ReloadConfig; a registered plugin keeps its limit if the value does
\* not parse, and a plugin that is not registered hears nothing.
Reload(a) ==
    /\ Goto(a, "reload", "idle")
    /\ LET j == job[a] k == job[a].key
       IN  running' = IF k \in registered /\ j.new.form # "broken"
                      THEN [running EXCEPT ![k] = ByPlugin(j.new)] ELSE running
    /\ UNCHANGED <<tables, registered, up, histories>>

-----------------------------------------------------------------------------
(* Crashes and restarts                                                    *)

\* The process ends anywhere; requests that have saved stay half done.
Crash ==
    /\ up /\ up' = FALSE
    /\ pc' = [a \in Admins |-> "idle"]
    /\ job' = [a \in Admins |-> NoJob]
    /\ last' = [k \in Keys |->
                  IF \E a \in Admins : Changing(a, k) /\ pc[a] # "save"
                  THEN [last[k] EXCEPT !.how = "cut off"] ELSE last[k]]
    /\ UNCHANGED <<tables, running, registered, lost, origin>>

\* main: the entries are laid over the file, if they can be read, and the
\* plugins are built from the result.
Start ==
    /\ ~up /\ up' = TRUE
    /\ \E fails \in MayFail :
          /\ running' = [k \in Keys |-> IF fails THEN File[k] ELSE ByOverlay(k, stored[k])]
          /\ origin' = [k \in Keys |-> IF fails THEN "file" ELSE "rows"]
    /\ registered' = Enforced(running')
    /\ UNCHANGED <<tables, handlers, last, lost>>

Handle(a) ==
    \/ Save(a) \/ SaveFails(a) \/ WriteAudit(a) \/ AuditFails(a) \/ Reload(a)

Next ==
    \/ \E a \in Admins : \/ Handle(a)
                         \/ \E k \in Keys, new \in Entries \cup {NoEntry} : Begin(a, k, new)
    \/ Crash \/ Start

Spec == Init /\ [][Next]_vars

-----------------------------------------------------------------------------
(* Properties                                                              *)

Job == [key : Keys, new : Row, old : Row, alone : BOOLEAN, known : BOOLEAN]

TypeOK ==
    /\ stored \in [Keys -> Row]
    /\ audited \in [Keys -> [old : Row, new : Row]]
    /\ running \in [Keys -> Nat]
    /\ registered \subseteq Keys
    /\ up \in BOOLEAN
    /\ pc \in [Admins -> {"idle", "save", "audit", "reload"}]
    /\ job \in [Admins -> Job \cup {NoJob}]
    /\ \A a \in Admins : IF pc[a] = "idle" THEN job[a] = NoJob ELSE job[a] \in Job
    /\ last \in [Keys -> [how : {"none", "put", "delete", "overlapped", "cut off"},
                          replaced : Row]]
    /\ lost \subseteq Keys
    /\ origin \in [Keys -> {"rows", "file", "change"}]

Settled(k) == up /\ \A a \in Admins : ~Changing(a, k)

\* What is enforced is what was last asked for, once nobody is changing it: after
\* a startup the rows over the file, or the file if they could not be read; after
\* a PUT without competition its value, if there is a plugin to read it.  A save
\* that fails changes nothing (handler.go:841-851, main.go:230-351).
InForce ==
    \A k \in Keys : Settled(k) =>
        CASE origin[k] = "rows" -> running[k] = ByOverlay(k, stored[k])
          [] origin[k] = "file" -> running[k] = File[k]
          [] origin[k] = "change" ->
               (k \in registered /\ last[k].how = "put" /\ stored[k].form # "broken")
               => running[k] = ByPlugin(stored[k])

\* The newest audit row tells what the last change of a section wrote and what it
\* replaced, unless changes overlapped, a crash cut one off, or the storage failed
\* (handler.go:828-833, 847).
AuditExplains ==
    \A k \in Keys :
        (Settled(k) /\ k \notin lost /\ last[k].how \in {"none", "put", "delete"})
        => audited[k] = [old |-> last[k].replaced, new |-> stored[k]]

\* website/guide/configuration.md:119: "Config values stored in the
\* `runtime_config` database table override YAML at startup."  Violated for
\* every value the admin API documents: the overlay does not know its spelling.
StoredOverridesFile ==
    \A k \in Keys :
        (Settled(k) /\ origin[k] = "rows" /\ stored[k] # NoEntry /\ stored[k].form = "snake")
        => running[k] = stored[k].limit

=============================================================================
