---------------------------- MODULE AdminProofs -----------------------------
(***************************************************************************)
(* Proofs about what admins change while the gateway runs: its limits      *)
(* (RuntimeConfig), managed keys (ManagedKeys), alerts (Alerting) and the  *)
(* statistics they look at (Statistics).                                   *)
(***************************************************************************)
EXTENDS RuntimeConfig, ManagedKeys, Alerting, Statistics, Aggregates, SequenceTheorems

-----------------------------------------------------------------------------
(***************************************************************************)
(* Proofs about RuntimeConfig, for any admins, sections and values.  Both  *)
(* properties speak of settled sections only; the invariants below say     *)
(* what holds while a change is under way.  Everything rests on Exclusive: *)
(* a change that had its section for itself when it began, and is not      *)
(* marked since, still has.                                                *)
(***************************************************************************)

\* a has changed the row of k, but has not finished.
Past(a, k) == Changing(a, k) /\ pc[a] \in {"audit", "reload"}

DownIsIdle == ~up => \A a \in Admins : pc[a] = "idle"

Exclusive ==
    \A a, b \in Admins :
        pc[a] # "idle" /\ job[a].alone /\ a # b => ~Changing(b, job[a].key)

\* Only a PUT is reloaded.
PutsReload == \A a \in Admins : pc[a] = "reload" => job[a].new # NoEntry

\* What a change without competition has read is still there when it saves.
ReadIsCurrent ==
    \A a \in Admins :
        pc[a] = "save" /\ job[a].alone /\ job[a].known => job[a].old = stored[job[a].key]

\* Until the first change after a startup, running is what that startup made it.
SinceStartup ==
    \A k \in Keys :
        /\ origin[k] = "rows" => running[k] = ByOverlay(k, stored[k])
        /\ origin[k] = "file" => running[k] = File[k]
        /\ origin[k] # "change" => \A a \in Admins : ~Past(a, k)

\* A PUT without competition is in force, or its handler is on the way to reload.
PutArrives ==
    \A k \in Keys :
        origin[k] = "change" /\ last[k].how = "put" =>
            /\ stored[k] # NoEntry
            /\ \A a \in Admins : Past(a, k) => job[a].new = stored[k]
            /\ k \in registered /\ stored[k].form # "broken"
               => running[k] = ByPlugin(stored[k]) \/ \E a \in Admins : Past(a, k)

\* A change without competition is audited, or its handler is about to.
AuditArrives ==
    \A k \in Keys \ lost :
        last[k].how \in {"none", "put", "delete"} =>
            /\ \A a \in Admins :
                  Changing(a, k) /\ pc[a] = "audit"
                  => job[a].new = stored[k] /\ job[a].old = last[k].replaced
            /\ \/ audited[k] = [old |-> last[k].replaced, new |-> stored[k]]
               \/ \E a \in Admins : Changing(a, k) /\ pc[a] = "audit"

Base == TypeOK /\ DownIsIdle /\ Exclusive /\ PutsReload

-----------------------------------------------------------------------------
(* Types and exclusion                                                     *)

\* Both readings of an entry are limits; ByPlugin reads no missing row.
LEMMA ReadingsAreLimits ==
    ASSUME NEW k \in Keys, NEW e \in Row
    PROVE  /\ e # NoEntry => ByPlugin(e) \in Nat
           /\ ByOverlay(k, e) \in Nat
BY RuntimeConfigAssumption DEF Row, Entry, ByPlugin, ByOverlay

\* The process starts idle and well typed.
LEMMA InitBase == Init => Base
BY RuntimeConfigAssumption
   DEF Init, Base, TypeOK, DownIsIdle, Exclusive, PutsReload, Changing, Row, Enforced

\* What Begin does to the jobs: the new one is alone only if nobody else is
\* changing k, and nobody who is stays alone.
LEMMA BeginJobs ==
    ASSUME Base, NEW a \in Admins, NEW k \in Keys, NEW new \in Entries \cup {NoEntry},
           Begin(a, k, new)
    PROVE  /\ pc[a] = "idle" /\ pc' = [pc EXCEPT ![a] = "save"] /\ up
           /\ UNCHANGED <<stored, audited, running, registered, up, last, lost, origin>>
           /\ job' \in [Admins -> Job \cup {NoJob}]
           /\ job'[a] \in Job /\ job'[a].key = k
           /\ job'[a].alone => \A b \in Admins : ~Changing(b, k)
           /\ job'[a].known => job'[a].old = stored[k]
           /\ \A b \in Admins \ {a} :
                 /\ pc'[b] = pc[b]
                 /\ pc[b] = "idle" => job'[b] = job[b]
                 /\ pc[b] # "idle" =>
                      /\ job'[b] \in Job
                      /\ job'[b].key = job[b].key /\ job'[b].new = job[b].new
                      /\ job'[b].old = job[b].old /\ job'[b].known = job[b].known
                      /\ job'[b].alone => job[b].alone /\ job[b].key # k
<1> USE RuntimeConfigAssumption DEF Base
<1> DEFINE others == {b \in Admins : Changing(b, k)}
<1>1. PICK known \in BOOLEAN :
        job' = [b \in Admins |->
                IF b = a
                THEN [key |-> k, new |-> new, old |-> IF known THEN stored[k] ELSE NoEntry,
                      alone |-> others = {}, known |-> known]
                ELSE IF b \in others THEN [job[b] EXCEPT !.alone = FALSE] ELSE job[b]]
  BY DEF Begin, MayFail
<1>2. /\ pc' = [pc EXCEPT ![a] = "save"] /\ pc[a] = "idle" /\ up
      /\ UNCHANGED <<stored, audited, running, registered, up, last, lost, origin>>
  BY DEF Begin, tables, process, histories
<1>3. new \in Row /\ stored[k] \in Row /\ NoEntry \in Row
  BY DEF TypeOK, Row
<1>4. job'[a] \in Job
  BY <1>1, <1>3 DEF Job
<1>5. /\ job'[a].key = k
      /\ job'[a].alone => \A b \in Admins : ~Changing(b, k)
      /\ job'[a].known => job'[a].old = stored[k]
  BY <1>1
<1>6. \A b \in Admins \ {a} :
         /\ pc'[b] = pc[b]
         /\ pc[b] = "idle" => job'[b] = job[b]
         /\ pc[b] # "idle" =>
              /\ job'[b] \in Job
              /\ job'[b].key = job[b].key /\ job'[b].new = job[b].new
              /\ job'[b].old = job[b].old /\ job'[b].known = job[b].known
              /\ job'[b].alone => job[b].alone /\ job[b].key # k
  BY <1>1, <1>2 DEF TypeOK, Job, Changing
<1>7. job' \in [Admins -> Job \cup {NoJob}]
  <2>1. \A b \in Admins : job'[b] \in Job \cup {NoJob}
    BY <1>4, <1>6 DEF TypeOK
  <2> QED BY <2>1, <1>1
<1> QED BY <1>2, <1>4, <1>5, <1>6, <1>7

\* A new change marks its competitors, which keeps Exclusive.
LEMMA BeginBase ==
    ASSUME Base, NEW a \in Admins, NEW k \in Keys, NEW new \in Entries \cup {NoEntry},
           Begin(a, k, new)
    PROVE  Base'
<1> USE DEF Base
<1>1. /\ pc[a] = "idle" /\ pc' = [pc EXCEPT ![a] = "save"] /\ up
      /\ UNCHANGED <<stored, audited, running, registered, up, last, lost, origin>>
      /\ job' \in [Admins -> Job \cup {NoJob}]
  BY BeginJobs
<1>2. /\ job'[a] \in Job /\ job'[a].key = k
      /\ job'[a].alone => \A b \in Admins : ~Changing(b, k)
  BY BeginJobs
<1>3. \A b \in Admins \ {a} :
         /\ pc'[b] = pc[b]
         /\ pc[b] = "idle" => job'[b] = job[b]
         /\ pc[b] # "idle" =>
              /\ job'[b] \in Job
              /\ job'[b].key = job[b].key /\ job'[b].new = job[b].new
              /\ job'[b].alone => job[b].alone /\ job[b].key # k
  BY BeginJobs
<1>4. TypeOK'
  <2>1. /\ pc' \in [Admins -> {"idle", "save", "audit", "reload"}]
        /\ pc'[a] = "save"
    BY <1>1 DEF TypeOK
  <2>2. \A b \in Admins : IF pc'[b] = "idle" THEN job'[b] = NoJob ELSE job'[b] \in Job
    BY <2>1, <1>2, <1>3 DEF TypeOK
  <2> QED BY <2>1, <2>2, <1>1 DEF TypeOK
<1>5. (DownIsIdle /\ PutsReload)'
  BY <1>1, <1>3 DEF TypeOK, DownIsIdle, PutsReload
<1>6. Exclusive'
  <2> SUFFICES ASSUME NEW b \in Admins, NEW c \in Admins, b # c,
                      pc'[b] # "idle", job'[b].alone,
                      pc'[c] # "idle", job'[c].key = job'[b].key
               PROVE  FALSE
    BY DEF Exclusive, Changing
  <2>1. CASE b = a
    BY <2>1, <1>2, <1>3 DEF Changing
  <2>2. CASE b # a
    <3>1. pc[b] # "idle" /\ job[b].alone /\ job'[b].key = job[b].key /\ job[b].key # k
      BY <2>2, <1>3
    <3>2. CASE c = a
      BY <3>1, <3>2, <1>2
    <3>3. CASE c # a
      BY <3>1, <3>3, <1>3 DEF Exclusive, Changing
    <3> QED BY <3>2, <3>3
  <2> QED BY <2>1, <2>2
<1> QED BY <1>4, <1>5, <1>6

\* Whatever Goto does, handlers that go on keep their jobs.
LEMMA GotoBase ==
    ASSUME Base, NEW a \in Admins, NEW from \in {"save", "audit", "reload"},
           NEW to \in {"idle", "audit", "reload"}, Goto(a, from, to),
           to = "reload" => job[a].new # NoEntry, up' = up
    PROVE  /\ pc' \in [Admins -> {"idle", "save", "audit", "reload"}]
           /\ job' \in [Admins -> Job \cup {NoJob}]
           /\ \A b \in Admins : IF pc'[b] = "idle" THEN job'[b] = NoJob ELSE job'[b] \in Job
           /\ \A b \in Admins : pc'[b] # "idle" => pc[b] # "idle" /\ job'[b] = job[b]
           /\ \A b \in Admins \ {a} : pc'[b] = pc[b] /\ job'[b] = job[b]
           /\ (DownIsIdle /\ Exclusive /\ PutsReload)'
<1>1. \A b \in Admins \ {a} : pc'[b] = pc[b] /\ job'[b] = job[b]
  BY DEF Goto, Base, TypeOK
<1>2. pc[a] = from /\ pc'[a] = to /\ (to # "idle" => job' = job)
  BY DEF Goto, Base, TypeOK
<1>3. /\ pc' \in [Admins -> {"idle", "save", "audit", "reload"}]
      /\ job' \in [Admins -> Job \cup {NoJob}]
  BY DEF Goto, Base, TypeOK
<1>4. \A b \in Admins : pc'[b] # "idle" => pc[b] # "idle" /\ job'[b] = job[b]
  BY <1>1, <1>2
<1>5. \A b \in Admins : IF pc'[b] = "idle" THEN job'[b] = NoJob ELSE job'[b] \in Job
  <2> SUFFICES ASSUME NEW b \in Admins
               PROVE  IF pc'[b] = "idle" THEN job'[b] = NoJob ELSE job'[b] \in Job
    OBVIOUS
  <2>1. CASE b # a
    BY <2>1, <1>1 DEF Base, TypeOK
  <2>2. CASE b = a /\ to # "idle"
    BY <2>2, <1>2, <1>4 DEF Base, TypeOK
  <2>3. CASE b = a /\ to = "idle"
    <3>1. job' = [job EXCEPT ![a] = NoJob]
      BY <2>3 DEF Goto
    <3> QED BY <3>1, <2>3, <1>2 DEF Base, TypeOK
  <2> QED BY <2>1, <2>2, <2>3
<1>6. DownIsIdle'
  BY DEF Goto, DownIsIdle
<1>7. Exclusive'
  BY <1>4 DEF Base, Exclusive, Changing
<1>8. PutsReload'
  BY <1>1, <1>2, <1>4 DEF Base, PutsReload
<1> QED BY <1>1, <1>3, <1>4, <1>5, <1>6, <1>7, <1>8

\* Save writes a row of the right type and keeps the jobs.
LEMMA SaveBase == ASSUME Base, NEW a \in Admins, Save(a) PROVE Base'
<1>1. /\ Goto(a, "save", "audit") /\ job[a] \in Job
      /\ UNCHANGED <<audited, running, registered, up>>
  BY DEF Base, TypeOK, Save, Goto, process
<1>2. /\ (DownIsIdle /\ Exclusive /\ PutsReload)'
      /\ pc' \in [Admins -> {"idle", "save", "audit", "reload"}]
      /\ job' \in [Admins -> Job \cup {NoJob}]
      /\ \A b \in Admins : IF pc'[b] = "idle" THEN job'[b] = NoJob ELSE job'[b] \in Job
  BY <1>1, GotoBase
<1>3. job[a].key \in Keys /\ job[a].new \in Row
  BY <1>1 DEF Job
<1>4. stored' \in [Keys -> Row] /\ lost' \subseteq Keys
      /\ origin' \in [Keys -> {"rows", "file", "change"}]
  BY <1>3 DEF Base, TypeOK, Save
<1>5. last' \in [Keys -> [how : {"none", "put", "delete", "overlapped", "cut off"},
                          replaced : Row]]
  <2>1. stored[job[a].key] \in Row
    BY <1>3 DEF Base, TypeOK
  <2> QED BY <1>3, <2>1 DEF Base, TypeOK, Save
<1>6. TypeOK'
  BY <1>1, <1>2, <1>4, <1>5 DEF Base, TypeOK
<1> QED BY <1>2, <1>6 DEF Base

\* So does the audit, written or failed; only a PUT goes on to reload.
LEMMA AuditBase ==
    ASSUME Base, NEW a \in Admins, WriteAudit(a) \/ AuditFails(a) PROVE Base'
<1>1. /\ Goto(a, "audit", AfterAudit(a)) /\ job[a] \in Job
      /\ UNCHANGED <<stored, running, registered, up, last, origin>>
  BY DEF Base, TypeOK, WriteAudit, AuditFails, Goto, tables, process, histories
<1>2. AfterAudit(a) \in {"idle", "audit", "reload"}
      /\ (AfterAudit(a) = "reload" => job[a].new # NoEntry)
  BY DEF AfterAudit
<1>3. /\ (DownIsIdle /\ Exclusive /\ PutsReload)'
      /\ pc' \in [Admins -> {"idle", "save", "audit", "reload"}]
      /\ job' \in [Admins -> Job \cup {NoJob}]
      /\ \A b \in Admins : IF pc'[b] = "idle" THEN job'[b] = NoJob ELSE job'[b] \in Job
  BY <1>1, <1>2, GotoBase
<1>4. audited' \in [Keys -> [old : Row, new : Row]] /\ lost' \subseteq Keys
  <2>1. job[a].key \in Keys /\ job[a].new \in Row /\ job[a].old \in Row
    BY <1>1 DEF Job
  <2>2. CASE WriteAudit(a)
    BY <2>1, <2>2 DEF Base, TypeOK, WriteAudit, histories
  <2>3. CASE AuditFails(a)
    BY <2>1, <2>3 DEF Base, TypeOK, AuditFails, tables
  <2> QED BY <2>2, <2>3
<1>5. TypeOK'
  BY <1>1, <1>3, <1>4 DEF Base, TypeOK
<1> QED BY <1>3, <1>5 DEF Base

\* A failed save only ends its handler.
LEMMA SaveFailsBase == ASSUME Base, NEW a \in Admins, SaveFails(a) PROVE Base'
<1>1. Goto(a, "save", "idle") /\ UNCHANGED <<tables, process, histories>>
  BY DEF SaveFails
<1>2. up' = up
  BY <1>1 DEF process
<1>3. /\ (DownIsIdle /\ Exclusive /\ PutsReload)'
      /\ pc' \in [Admins -> {"idle", "save", "audit", "reload"}]
      /\ job' \in [Admins -> Job \cup {NoJob}]
      /\ \A b \in Admins : IF pc'[b] = "idle" THEN job'[b] = NoJob ELSE job'[b] \in Job
  BY <1>1, <1>2, GotoBase
<1>4. TypeOK'
  BY <1>1, <1>3 DEF Base, TypeOK, tables, process, histories
<1> QED BY <1>3, <1>4 DEF Base

\* What is reloaded is a PUT, so the plugin gets a limit.
LEMMA ReloadBase == ASSUME Base, NEW a \in Admins, Reload(a) PROVE Base'
<1>1. /\ Goto(a, "reload", "idle") /\ job[a] \in Job /\ pc[a] = "reload"
      /\ UNCHANGED <<tables, registered, up, histories>>
  BY DEF Base, TypeOK, Reload, Goto
<1>2. /\ (DownIsIdle /\ Exclusive /\ PutsReload)'
      /\ pc' \in [Admins -> {"idle", "save", "audit", "reload"}]
      /\ job' \in [Admins -> Job \cup {NoJob}]
      /\ \A b \in Admins : IF pc'[b] = "idle" THEN job'[b] = NoJob ELSE job'[b] \in Job
  BY <1>1, GotoBase
<1>3. running' \in [Keys -> Nat]
  <2>1. job[a].key \in Keys /\ job[a].new \in Row /\ job[a].new # NoEntry
    BY <1>1 DEF Job, Base, PutsReload
  <2>2. ByPlugin(job[a].new) \in Nat
    BY <2>1, ReadingsAreLimits
  <2> QED BY <2>1, <2>2 DEF Base, TypeOK, Reload
<1>4. TypeOK'
  BY <1>1, <1>2, <1>3 DEF Base, TypeOK, tables, histories
<1> QED BY <1>2, <1>4 DEF Base

\* A crash leaves no handler.
LEMMA CrashBase == ASSUME Base, Crash PROVE Base'
<1>1. /\ pc' = [a \in Admins |-> "idle"] /\ job' = [a \in Admins |-> NoJob]
      /\ up' = FALSE /\ UNCHANGED <<stored, audited, running, registered, lost, origin>>
  BY DEF Crash, tables
<1>2. last' \in [Keys -> [how : {"none", "put", "delete", "overlapped", "cut off"},
                          replaced : Row]]
  <2>1. \A k \in Keys : last[k] \in [how : {"none", "put", "delete", "overlapped", "cut off"},
                                     replaced : Row]
    BY DEF Base, TypeOK
  <2> QED BY <2>1 DEF Crash
<1>3. TypeOK'
  BY <1>1, <1>2 DEF Base, TypeOK
<1>4. (DownIsIdle /\ Exclusive /\ PutsReload)'
  BY <1>1 DEF DownIsIdle, Exclusive, PutsReload
<1> QED BY <1>3, <1>4 DEF Base

\* A startup finds no handler and gives every plugin a limit.
LEMMA StartBase == ASSUME Base, Start PROVE Base'
<1>1. /\ UNCHANGED <<stored, audited, pc, job, last, lost>> /\ up' = TRUE
      /\ registered' = Enforced(running')
  BY DEF Start, tables, handlers
<1>2. PICK fails \in BOOLEAN :
        /\ running' = [k \in Keys |-> IF fails THEN File[k] ELSE ByOverlay(k, stored[k])]
        /\ origin' = [k \in Keys |-> IF fails THEN "file" ELSE "rows"]
  BY DEF Start, MayFail
<1>3. \A k \in Keys : File[k] \in Nat /\ ByOverlay(k, stored[k]) \in Nat
  BY RuntimeConfigAssumption, ReadingsAreLimits DEF Base, TypeOK
<1>4. running' \in [Keys -> Nat] /\ origin' \in [Keys -> {"rows", "file", "change"}]
  BY <1>2, <1>3
<1>5. TypeOK'
  BY <1>1, <1>4 DEF Base, TypeOK, Enforced
<1>6. (DownIsIdle /\ Exclusive /\ PutsReload)'
  BY <1>1 DEF Base, DownIsIdle, Exclusive, PutsReload, Changing
<1> QED BY <1>5, <1>6 DEF Base

\* Every step keeps the types and the exclusion.
LEMMA NextBase == ASSUME Base, [Next]_vars PROVE Base'
<1>1. ASSUME NEW a \in Admins, NEW k \in Keys, NEW new \in Entries \cup {NoEntry},
             Begin(a, k, new)
      PROVE  Base'
  BY <1>1, BeginBase
<1>2. ASSUME NEW a \in Admins, Handle(a) PROVE Base'
  BY <1>2, SaveBase, SaveFailsBase, AuditBase, ReloadBase DEF Handle
<1>3. CASE UNCHANGED vars
  BY <1>3 DEF vars, tables, process, handlers, histories, Base, TypeOK, DownIsIdle,
              Exclusive, PutsReload, Changing
<1> QED BY <1>1, <1>2, <1>3, CrashBase, StartBase DEF Next

\* TypeOK holds in every reachable state.
THEOREM ConfigTypeCorrect == Spec => []TypeOK
<1>1. Base => TypeOK
  BY DEF Base
<1> QED BY <1>1, InitBase, NextBase, PTL DEF Spec

-----------------------------------------------------------------------------
(* What is on its way                                                      *)

Inv == Base /\ ReadIsCurrent /\ SinceStartup /\ PutArrives /\ AuditArrives

\* At first nothing is on its way and the file is in force.
LEMMA InitInv == Init => Inv
<1> SUFFICES ASSUME Init PROVE Inv
  OBVIOUS
<1>1. Base
  BY InitBase
<1>2. ReadIsCurrent /\ PutArrives /\ AuditArrives
  BY DEF Init, ReadIsCurrent, PutArrives, AuditArrives, Changing
<1>3. SinceStartup
  BY DEF Init, SinceStartup, Past, Changing, ByOverlay
<1> QED BY <1>1, <1>2, <1>3 DEF Inv

\* A change that begins reads its section and touches nothing else.
LEMMA BeginInv ==
    ASSUME Inv, NEW a \in Admins, NEW k \in Keys, NEW new \in Entries \cup {NoEntry},
           Begin(a, k, new)
    PROVE  Inv'
<1> USE DEF Inv
<1>0. pc[a] = "idle" /\ pc' = [pc EXCEPT ![a] = "save"]
  BY BeginJobs
<1>1. /\ pc[a] = "idle" /\ pc'[a] = "save"
      /\ UNCHANGED <<stored, audited, running, registered, last, lost, origin>>
      /\ job'[a].key = k
      /\ job'[a].known => job'[a].old = stored[k]
  <2>1. pc'[a] = "save"
    BY <1>0 DEF Base, TypeOK
  <2> QED BY <1>0, <2>1, BeginJobs
<1>2. \A b \in Admins \ {a} :
         /\ pc'[b] = pc[b]
         /\ pc[b] = "idle" => job'[b] = job[b]
         /\ pc[b] # "idle" =>
              /\ job'[b].key = job[b].key /\ job'[b].new = job[b].new
              /\ job'[b].old = job[b].old /\ job'[b].known = job[b].known
              /\ job'[b].alone => job[b].alone
  BY BeginJobs
<1>3. \A b \in Admins, m \in Keys :
         /\ Past(b, m)' <=> Past(b, m)
         /\ (Changing(b, m) /\ pc[b] = "audit")' <=> (Changing(b, m) /\ pc[b] = "audit")
         /\ Past(b, m) => job'[b].new = job[b].new /\ job'[b].old = job[b].old
         /\ pc[b] = "audit" => job'[b].new = job[b].new /\ job'[b].old = job[b].old
  BY <1>1, <1>2 DEF Past, Changing
<1>4. ReadIsCurrent'
  BY <1>1, <1>2 DEF ReadIsCurrent
<1>5. SinceStartup'
  BY <1>1, <1>3 DEF SinceStartup, ByOverlay
<1>6. PutArrives'
  BY <1>1, <1>3 DEF PutArrives, ByPlugin
<1>7. AuditArrives'
  BY <1>1, <1>3 DEF AuditArrives
<1> QED BY <1>4, <1>5, <1>6, <1>7, BeginBase

\* The saver alone decides what is put and replaced; competitors void the promise.
LEMMA SaveInv == ASSUME Inv, NEW a \in Admins, Save(a) PROVE Inv'
<1> USE DEF Inv
<1>1. PICK k \in Keys : job[a].key = k
  BY DEF Base, TypeOK, Save, Goto, Job
<1>2. /\ Goto(a, "save", "audit") /\ pc[a] = "save" /\ pc'[a] = "audit" /\ job' = job
      /\ job[a] \in Job
      /\ UNCHANGED <<audited, running, registered>>
      /\ \A b \in Admins \ {a} : pc'[b] = pc[b]
  BY DEF Base, TypeOK, Save, Goto, process, Job
<1>3. /\ stored'[k] = job[a].new /\ origin'[k] = "change"
      /\ last'[k] = [how |-> IF ~job[a].alone THEN "overlapped"
                             ELSE IF job[a].new = NoEntry THEN "delete" ELSE "put",
                     replaced |-> stored[k]]
      /\ k \notin lost' => job[a].known
      /\ \A m \in Keys \ {k} : /\ stored'[m] = stored[m] /\ origin'[m] = origin[m]
                               /\ last'[m] = last[m] /\ (m \in lost' <=> m \in lost)
  BY <1>2, <1>1 DEF Base, TypeOK, Save
<1>4. job[a].alone => \A b \in Admins \ {a} : ~Changing(b, k) /\ ~Changing(b, k)'
  BY <1>2, <1>1 DEF Base, Exclusive, Changing
<1>5. \A m \in Keys \ {k}, b \in Admins :
         /\ Past(b, m)' <=> Past(b, m)
         /\ (Changing(b, m) /\ pc[b] = "audit")' <=> (Changing(b, m) /\ pc[b] = "audit")
  BY <1>2, <1>1 DEF Past, Changing
<1>6. Changing(a, k)' /\ Past(a, k)'
  BY <1>2, <1>1 DEF Past, Changing
<1>7. ReadIsCurrent'
  <2> SUFFICES ASSUME NEW b \in Admins, pc'[b] = "save", job'[b].alone, job'[b].known
               PROVE  job'[b].old = stored'[job'[b].key]
    BY DEF ReadIsCurrent
  <2>1. b # a /\ pc[b] = "save" /\ job'[b] = job[b] /\ job[b] \in Job
    BY <1>2 DEF Base, TypeOK
  <2>2. job[b].key # k
    BY <2>1, <1>2, <1>1 DEF Base, Exclusive, Changing
  <2>3. job[b].key \in Keys \ {k}
    BY <2>1, <2>2 DEF Job
  <2> QED BY <2>1, <2>3, <1>3 DEF ReadIsCurrent
<1>8. SinceStartup'
  BY <1>2, <1>3, <1>5 DEF SinceStartup, ByOverlay
<1>9. PutArrives'
  <2> SUFFICES ASSUME NEW m \in Keys, origin'[m] = "change", last'[m].how = "put"
               PROVE  /\ stored'[m] # NoEntry
                      /\ \A b \in Admins : Past(b, m)' => job'[b].new = stored'[m]
                      /\ m \in registered' /\ stored'[m].form # "broken"
                         => \/ running'[m] = ByPlugin(stored'[m])
                            \/ \E b \in Admins : Past(b, m)'
    BY DEF PutArrives, ByPlugin
  <2>1. CASE m = k
    <3>1. job[a].alone /\ job[a].new # NoEntry
      BY <2>1, <1>3
    <3>2. \A b \in Admins : Past(b, m)' => b = a
      BY <2>1, <3>1, <1>4 DEF Past
    <3> QED BY <2>1, <3>1, <3>2, <1>2, <1>3, <1>6
  <2>2. CASE m # k
    <3>1. /\ stored'[m] = stored[m] /\ origin'[m] = origin[m] /\ last'[m] = last[m]
          /\ running'[m] = running[m] /\ registered' = registered /\ job' = job
      BY <2>2, <1>2, <1>3
    <3>2. \A b \in Admins : Past(b, m)' <=> Past(b, m)
      BY <2>2, <1>5
    <3> QED BY <3>1, <3>2 DEF PutArrives
  <2> QED BY <2>1, <2>2
<1>10. AuditArrives'
  <2> SUFFICES ASSUME NEW m \in Keys, m \notin lost',
                      last'[m].how \in {"none", "put", "delete"}
               PROVE  /\ \A b \in Admins :
                            (Changing(b, m) /\ pc[b] = "audit")'
                            => /\ job'[b].new = stored'[m]
                               /\ job'[b].old = last'[m].replaced
                      /\ \/ audited'[m] = [old |-> last'[m].replaced, new |-> stored'[m]]
                         \/ \E b \in Admins : (Changing(b, m) /\ pc[b] = "audit")'
    BY DEF AuditArrives
  <2>1. CASE m = k
    <3>1. job[a].alone /\ job[a].known
      BY <2>1, <1>3
    <3>2. \A b \in Admins : Changing(b, m)' => b = a
      BY <2>1, <3>1, <1>4
    <3>3. job[a].old = stored[k]
      BY <3>1, <1>2, <1>1 DEF ReadIsCurrent
    <3> QED BY <2>1, <3>2, <3>3, <1>2, <1>3, <1>6
  <2>2. CASE m # k
    <3>1. /\ stored'[m] = stored[m] /\ last'[m] = last[m] /\ m \notin lost
          /\ audited' = audited /\ job' = job
      BY <2>2, <1>2, <1>3
    <3>2. \A b \in Admins :
             (Changing(b, m) /\ pc[b] = "audit")' <=> (Changing(b, m) /\ pc[b] = "audit")
      BY <2>2, <1>5
    <3> QED BY <3>1, <3>2 DEF AuditArrives
  <2> QED BY <2>1, <2>2
<1> QED BY <1>7, <1>8, <1>9, <1>10, SaveBase

\* A save that fails ends its change before it touched anything.
LEMMA SaveFailsInv == ASSUME Inv, NEW a \in Admins, SaveFails(a) PROVE Inv'
<1> USE DEF Inv
<1>1. /\ pc[a] = "save" /\ pc'[a] = "idle"
      /\ UNCHANGED <<stored, audited, running, registered, last, lost, origin>>
      /\ \A b \in Admins \ {a} : pc'[b] = pc[b] /\ job'[b] = job[b]
  BY DEF Base, TypeOK, SaveFails, Goto, tables, process, histories
<1>2. \A b \in Admins, m \in Keys :
         /\ Past(b, m)' <=> Past(b, m)
         /\ (Changing(b, m) /\ pc[b] = "audit")' <=> (Changing(b, m) /\ pc[b] = "audit")
         /\ Past(b, m) => job'[b] = job[b]
  BY <1>1 DEF Past, Changing
<1>3. ReadIsCurrent'
  BY <1>1 DEF ReadIsCurrent
<1>4. SinceStartup'
  BY <1>1, <1>2 DEF SinceStartup, ByOverlay
<1>5. PutArrives'
  BY <1>1, <1>2 DEF PutArrives, ByPlugin
<1>6. AuditArrives'
  BY <1>1, <1>2 DEF AuditArrives, Past
<1> QED BY <1>3, <1>4, <1>5, <1>6, SaveFailsBase

\* The auditing change leaves its row behind, or is lost; a PUT goes on to reload.
LEMMA AuditInv ==
    ASSUME Inv, NEW a \in Admins, WriteAudit(a) \/ AuditFails(a) PROVE Inv'
<1> USE DEF Inv
<1>1. PICK k \in Keys : job[a].key = k
  BY DEF Base, TypeOK, WriteAudit, AuditFails, Goto, Job
<1>2. /\ pc[a] = "audit" /\ pc'[a] = AfterAudit(a)
      /\ UNCHANGED <<stored, running, registered, last, origin>>
      /\ \A b \in Admins \ {a} : pc'[b] = pc[b] /\ job'[b] = job[b]
      /\ job[a].new # NoEntry => pc'[a] = "reload" /\ job'[a] = job[a]
      /\ job[a].new = NoEntry => pc'[a] = "idle"
  <2>1. /\ Goto(a, "audit", AfterAudit(a))
        /\ UNCHANGED <<stored, running, registered, last, origin>>
    BY DEF WriteAudit, AuditFails, tables, process, histories
  <2> QED BY <2>1 DEF Base, TypeOK, Goto, AfterAudit
<1>3. /\ \/ audited'[k] = [old |-> job[a].old, new |-> job[a].new]
         \/ k \in lost'
      /\ \A m \in Keys \ {k} : audited'[m] = audited[m]
      /\ lost \subseteq lost'
  <2>1. CASE WriteAudit(a)
    BY <2>1, <1>1 DEF Base, TypeOK, WriteAudit, histories
  <2>2. CASE AuditFails(a)
    BY <2>2, <1>1 DEF Base, TypeOK, AuditFails, tables
  <2> QED BY <2>1, <2>2
<1>4. \A b \in Admins, m \in Keys :
         /\ Past(b, m)' => Past(b, m) /\ job'[b] = job[b]
         /\ Past(b, m) /\ job[b].new # NoEntry => Past(b, m)'
         /\ (Changing(b, m) /\ pc[b] = "audit")' =>
               Changing(b, m) /\ pc[b] = "audit" /\ job'[b] = job[b]
         /\ Changing(b, m) /\ pc[b] = "audit" =>
               b = a \/ (Changing(b, m) /\ pc[b] = "audit")'
  BY <1>2 DEF Past, Changing, Base, PutsReload
<1>5. ReadIsCurrent'
  BY <1>2 DEF ReadIsCurrent
<1>6. SinceStartup'
  BY <1>2, <1>4 DEF SinceStartup, ByOverlay
<1>7. PutArrives'
  BY <1>2, <1>4 DEF PutArrives, ByPlugin
<1>8. AuditArrives'
  <2> SUFFICES ASSUME NEW m \in Keys, m \notin lost',
                      last[m].how \in {"none", "put", "delete"}
               PROVE  /\ \A b \in Admins :
                            (Changing(b, m) /\ pc[b] = "audit")'
                            => /\ job'[b].new = stored[m]
                               /\ job'[b].old = last[m].replaced
                      /\ \/ audited'[m] = [old |-> last[m].replaced, new |-> stored[m]]
                         \/ \E b \in Admins : (Changing(b, m) /\ pc[b] = "audit")'
    BY <1>2 DEF AuditArrives
  <2>1. /\ \A b \in Admins :
              Changing(b, m) /\ pc[b] = "audit"
              => job[b].new = stored[m] /\ job[b].old = last[m].replaced
        /\ \/ audited[m] = [old |-> last[m].replaced, new |-> stored[m]]
           \/ \E b \in Admins : Changing(b, m) /\ pc[b] = "audit"
    BY <1>3 DEF AuditArrives
  <2>2. CASE m = k
    <3>1. Changing(a, k) /\ pc[a] = "audit"
      BY <1>1, <1>2 DEF Changing
    <3> QED BY <2>1, <2>2, <3>1, <1>3, <1>4
  <2>3. CASE m # k
    <3>1. ~Changing(a, m)
      BY <2>3, <1>1 DEF Changing
    <3> QED BY <2>1, <2>3, <3>1, <1>3, <1>4
  <2> QED BY <2>2, <2>3
<1> QED BY <1>5, <1>6, <1>7, <1>8, AuditBase

\* A handler on the way to reload leaves its value in force.
LEMMA ReloadInv == ASSUME Inv, NEW a \in Admins, Reload(a) PROVE Inv'
<1> USE DEF Inv
<1>1. PICK k \in Keys : job[a].key = k
  BY DEF Base, TypeOK, Reload, Goto, Job
<1>2. /\ pc[a] = "reload" /\ pc'[a] = "idle" /\ job[a].new # NoEntry
      /\ UNCHANGED <<stored, audited, registered, last, lost, origin>>
      /\ \A b \in Admins \ {a} : pc'[b] = pc[b] /\ job'[b] = job[b]
  BY DEF Base, TypeOK, PutsReload, Reload, Goto, tables, histories
<1>3. /\ k \in registered /\ job[a].new.form # "broken" => running'[k] = ByPlugin(job[a].new)
      /\ \A m \in Keys \ {k} : running'[m] = running[m]
  BY <1>1 DEF Base, TypeOK, Reload
<1>4. Past(a, k)
  BY <1>1, <1>2 DEF Past, Changing
<1>5. \A b \in Admins, m \in Keys :
         /\ Past(b, m)' => Past(b, m) /\ job'[b] = job[b]
         /\ Past(b, m) /\ m # k => Past(b, m)'
         /\ (Changing(b, m) /\ pc[b] = "audit")' <=> (Changing(b, m) /\ pc[b] = "audit")
         /\ Changing(b, m) /\ pc[b] = "audit" => job'[b] = job[b]
  BY <1>1, <1>2 DEF Past, Changing
<1>6. ReadIsCurrent'
  BY <1>2 DEF ReadIsCurrent
<1>7. SinceStartup'
  <2>1. origin[k] = "change"
    BY <1>4 DEF SinceStartup, Base, TypeOK
  <2> QED BY <2>1, <1>2, <1>3, <1>5 DEF SinceStartup, ByOverlay
<1>8. PutArrives'
  <2> SUFFICES ASSUME NEW m \in Keys, origin[m] = "change", last[m].how = "put"
               PROVE  /\ stored[m] # NoEntry
                      /\ \A b \in Admins : Past(b, m)' => job'[b].new = stored[m]
                      /\ m \in registered /\ stored[m].form # "broken"
                         => \/ running'[m] = ByPlugin(stored[m])
                            \/ \E b \in Admins : Past(b, m)'
    BY <1>2 DEF PutArrives, ByPlugin
  <2>1. /\ stored[m] # NoEntry
        /\ \A b \in Admins : Past(b, m) => job[b].new = stored[m]
        /\ m \in registered /\ stored[m].form # "broken"
           => running[m] = ByPlugin(stored[m]) \/ \E b \in Admins : Past(b, m)
    BY DEF PutArrives
  <2>2. CASE m = k
    BY <2>1, <2>2, <1>3, <1>4, <1>5
  <2>3. CASE m # k
    BY <2>1, <2>3, <1>3, <1>5
  <2> QED BY <2>2, <2>3
<1>9. AuditArrives'
  BY <1>2, <1>5 DEF AuditArrives
<1> QED BY <1>6, <1>7, <1>8, <1>9, ReloadBase

\* A crash voids the promise of every change that had saved, and of no other.
LEMMA CrashInv == ASSUME Inv, Crash PROVE Inv'
<1> USE DEF Inv
<1>1. /\ UNCHANGED <<stored, audited, running, registered, lost, origin>>
      /\ \A a \in Admins : pc'[a] = "idle"
  BY DEF Crash, tables
<1>2. \A a \in Admins, m \in Keys : ~Past(a, m)' /\ ~Changing(a, m)'
  BY <1>1 DEF Past, Changing
<1>3. \A m \in Keys : last'[m].how # "cut off" =>
         last'[m] = last[m] /\ \A a \in Admins : ~Past(a, m)
  <2> TAKE m \in Keys
  <2>1. last[m] \in [how : {"none", "put", "delete", "overlapped", "cut off"}, replaced : Row]
    BY DEF Base, TypeOK
  <2>2. CASE \E a \in Admins : Changing(a, m) /\ pc[a] # "save"
    BY <2>1, <2>2 DEF Crash
  <2>3. CASE ~ \E a \in Admins : Changing(a, m) /\ pc[a] # "save"
    BY <2>3 DEF Crash, Past
  <2> QED BY <2>2, <2>3
<1>4. ReadIsCurrent'
  BY <1>1 DEF ReadIsCurrent
<1>5. SinceStartup'
  BY <1>1, <1>2 DEF SinceStartup, ByOverlay
<1>6. PutArrives'
  BY <1>1, <1>2, <1>3 DEF PutArrives, ByPlugin
<1>7. AuditArrives'
  BY <1>1, <1>2, <1>3 DEF AuditArrives, Past
<1> QED BY <1>4, <1>5, <1>6, <1>7, CrashBase

\* A startup makes every limit due to what it has read.
LEMMA StartInv == ASSUME Inv, Start PROVE Inv'
<1> USE DEF Inv
<1>1. /\ UNCHANGED <<stored, audited, last, lost>>
      /\ \A a \in Admins : pc[a] = "idle" /\ pc'[a] = "idle"
  BY DEF Start, tables, handlers, Base, DownIsIdle
<1>2. \A k \in Keys :
         \/ origin'[k] = "file" /\ running'[k] = File[k]
         \/ origin'[k] = "rows" /\ running'[k] = ByOverlay(k, stored[k])
  BY DEF Start
<1>3. \A a \in Admins, k \in Keys :
         ~Past(a, k)' /\ ~Changing(a, k) /\ ~Changing(a, k)'
  BY <1>1 DEF Past, Changing
<1>4. (ReadIsCurrent /\ PutArrives)'
  BY <1>1, <1>2 DEF ReadIsCurrent, PutArrives
<1>5. SinceStartup'
  BY <1>1, <1>2, <1>3 DEF SinceStartup, ByOverlay
<1>6. AuditArrives'
  BY <1>1, <1>3 DEF AuditArrives
<1> QED BY <1>4, <1>5, <1>6, StartBase

\* Every step keeps the invariant.
LEMMA NextInv == ASSUME Inv, [Next]_vars PROVE Inv'
<1>1. ASSUME NEW a \in Admins, NEW k \in Keys, NEW new \in Entries \cup {NoEntry},
             Begin(a, k, new)
      PROVE  Inv'
  BY <1>1, BeginInv
<1>2. ASSUME NEW a \in Admins, Handle(a) PROVE Inv'
  BY <1>2, SaveInv, SaveFailsInv, AuditInv, ReloadInv DEF Handle
<1>3. CASE UNCHANGED vars
  <2>1. Base'
    BY <1>3, NextBase DEF Inv
  <2>2. /\ UNCHANGED <<stored, audited, running, registered, pc, job, last, lost, origin>>
        /\ \A a \in Admins, k \in Keys :
              (Past(a, k)' <=> Past(a, k)) /\ (Changing(a, k)' <=> Changing(a, k))
    BY <1>3 DEF vars, tables, process, handlers, histories, Past, Changing
  <2>3. (ReadIsCurrent /\ SinceStartup /\ PutArrives /\ AuditArrives)'
    BY <2>2 DEF Inv, ReadIsCurrent, SinceStartup, PutArrives, AuditArrives,
                ByOverlay, ByPlugin
  <2> QED BY <2>1, <2>3 DEF Inv
<1> QED BY <1>1, <1>2, <1>3, CrashInv, StartInv DEF Next

-----------------------------------------------------------------------------
(* The two properties                                                      *)

\* Once nobody is changing a section its plugin enforces what was last asked for.
THEOREM LimitsInForce == Spec => []InForce
<1>1. Inv => InForce
  <2> SUFFICES ASSUME Inv, NEW k \in Keys, Settled(k)
               PROVE  CASE origin[k] = "rows" -> running[k] = ByOverlay(k, stored[k])
                        [] origin[k] = "file" -> running[k] = File[k]
                        [] origin[k] = "change" ->
                             (k \in registered /\ last[k].how = "put"
                              /\ stored[k].form # "broken")
                             => running[k] = ByPlugin(stored[k])
    BY DEF InForce
  <2>1. origin[k] \in {"rows", "file", "change"}
    BY DEF Inv, Base, TypeOK
  <2>2. \A a \in Admins : ~Past(a, k)
    BY DEF Settled, Past
  <2> QED BY <2>1, <2>2 DEF Inv, SinceStartup, PutArrives
<1> QED BY <1>1, InitInv, NextInv, PTL DEF Spec

\* Once nobody is changing a section its audit row tells what its last change did.
THEOREM AuditTellsLastChange == Spec => []AuditExplains
<1>1. Inv => AuditExplains
  BY DEF Inv, AuditExplains, AuditArrives, Settled
<1> QED BY <1>1, InitInv, NextInv, PTL DEF Spec

-----------------------------------------------------------------------------
(***************************************************************************)
(* Proofs about ManagedKeys, for any keys, prefixes, providers and callers.*)
(* The table never has more than the row of the empty id, and that row     *)
(* holds the first key that was announced.                                 *)
(***************************************************************************)

URLs == {DefaultURL, Nobody} \cup {Providers[i].url : i \in DOMAIN Providers}
ProviderKeys == {Providers[i].key : i \in DOMAIN Providers}
APIKeys == ManagedKey \cup {Nobody} \cup ProviderKeys
Authorizations == Bearers \cup {Nobody} \cup ProviderKeys

Call == [state : {"none", "found", "valid", "refused", "sent"}, key : ManagedKey \cup {Nobody},
         bearer : Bearers \cup {Nobody}, url : URLs, apiKey : APIKeys, authorization : Authorizations]

KeysTyped ==
    /\ api_keys \in [IDs -> [key : ManagedKey \cup {Nobody}, enabled : BOOLEAN]]
    /\ announced \in Seq(ManagedKey)
    /\ call \in [Callers -> Call]

LoneRow == \A id \in KeyIDs : api_keys[id].key = Nobody

FirstRow ==
    /\ announced = <<>> => api_keys[NoID].key = Nobody
    /\ announced # <<>> => api_keys[NoID] = [key |-> announced[1], enabled |-> TRUE]

\* What a caller carries in each state: nothing is chosen before it is sent.
CallKept(r) ==
    /\ r.state \in {"valid", "sent"} => announced # <<>> /\ r.key = announced[1]
    /\ r.state # "sent" => r.url = Nobody /\ r.apiKey = Nobody
    /\ r.state = "sent" =>
         \/ r.url = DefaultURL /\ r.apiKey = r.key /\ r.authorization = r.bearer
         \/ \E i \in DOMAIN Providers :
              /\ r.url = Providers[i].url
              /\ r.apiKey \in Clash(r.key, Providers[i].key)
              /\ r.authorization \in Clash(r.bearer, Providers[i].key)

KeysInv == KeysTyped /\ LoneRow /\ FirstRow /\ \A c \in Callers : CallKept(call[c])

(* The two maps by name give a pair that some provider was configured with.*)
LEMMA TargetIsPair ==
    ASSUME NEW i \in DOMAIN Providers
    PROVE  \E j \in DOMAIN Providers : Target(i) = <<Providers[j].url, Providers[j].key>>
<1> DEFINE Same == {j \in DOMAIN Providers : Providers[j].name = Providers[i].name}
<1>1. Same \in SUBSET Nat /\ Same # {} /\ \A j \in Same : j <= Len(Providers)
  BY ManagedKeysAssumption
<1>2. Max(Same) \in Same
  <2> HIDE DEF Same
  <2> QED BY <1>1, MaxOfBounded, ManagedKeysAssumption
<1>3. ByName(i) = Providers[Max(Same)]
  BY DEF ByName
<1> QED BY <1>2, <1>3 DEF Target

LEMMA KeysInitInv == KeysInit => KeysInv
<1> SUFFICES ASSUME KeysInit PROVE KeysInv
  OBVIOUS
<1>1. Unset \in Call
  BY DEF Unset, Call, URLs, APIKeys, Authorizations
<1>2. KeysTyped
  BY <1>1 DEF KeysTyped, KeysInit
<1>3. LoneRow /\ FirstRow
  BY DEF LoneRow, FirstRow, KeysInit, IDs
<1>4. \A c \in Callers : CallKept(call[c])
  BY DEF CallKept, KeysInit, Unset
<1> QED BY <1>2, <1>3, <1>4 DEF KeysInv

(* A key is only ever inserted into an empty table.                        *)
LEMMA GenerateInv ==
    ASSUME KeysInv, NEW k \in ManagedKey, Generate(k)
    PROVE  KeysInv'
<1>1. /\ api_keys' = [api_keys EXCEPT ![NoID] = [key |-> IF NoID \in Rows THEN @.key ELSE k, enabled |-> TRUE]]
      /\ announced' = Append(announced, k) /\ call' = call
  BY DEF Generate, SaveAPIKey
<1>2. NoID \in IDs /\ NoID \notin KeyIDs
  BY ManagedKeysAssumption DEF IDs
<1>3. NoID \in Rows <=> announced # <<>>
  BY <1>2, ManagedKeysAssumption DEF Rows, KeysInv, FirstRow, KeysTyped
<1>4. /\ announced' \in Seq(ManagedKey) /\ announced' # <<>>
      /\ announced'[1] = IF announced # <<>> THEN announced[1] ELSE k
  BY <1>1 DEF KeysInv, KeysTyped
<1>5. api_keys'[NoID] = [key |-> announced'[1], enabled |-> TRUE]
  <2>1. api_keys'[NoID] = [key |-> IF NoID \in Rows THEN api_keys[NoID].key ELSE k,
                           enabled |-> TRUE]
    BY <1>1, <1>2 DEF KeysInv, KeysTyped
  <2>2. announced # <<>> => api_keys[NoID].key = announced[1]
    BY DEF KeysInv, FirstRow
  <2> QED BY <2>1, <2>2, <1>3, <1>4
<1>6. announced'[1] \in ManagedKey
  BY <1>4 DEF KeysInv, KeysTyped
<1>7. KeysTyped'
  BY <1>1, <1>4, <1>5, <1>6 DEF KeysInv, KeysTyped
<1>8. LoneRow' /\ FirstRow'
  BY <1>1, <1>2, <1>4, <1>5 DEF KeysInv, LoneRow, FirstRow, KeysTyped, IDs
<1>9. \A c \in Callers : CallKept(call[c])'
  BY <1>1, <1>4 DEF KeysInv, CallKept
<1> QED BY <1>7, <1>8, <1>9 DEF KeysInv

LEMMA DisableKeyInv ==
    ASSUME KeysInv, NEW id \in IDs, DisableKey(id)
    PROVE  KeysInv'
<1>1. /\ api_keys' = [api_keys EXCEPT ![id] = [@ EXCEPT !.enabled = FALSE]] /\ id # NoID
      /\ announced' = announced /\ call' = call
  BY DEF DisableKey
<1>2. KeysTyped'
  BY <1>1 DEF KeysInv, KeysTyped
<1>3. LoneRow' /\ FirstRow'
  BY <1>1 DEF KeysInv, KeysTyped, LoneRow, FirstRow, IDs
<1>4. \A c \in Callers : CallKept(call[c])'
  BY <1>1 DEF KeysInv, CallKept
<1> QED BY <1>2, <1>3, <1>4 DEF KeysInv

(* A step of one caller leaves the table and the other callers alone.      *)
LEMMA CallerStep ==
    ASSUME KeysInv, NEW c \in Callers, NEW r, r \in Call, CallKept(r),
           call' = [call EXCEPT ![c] = r], UNCHANGED <<api_keys, announced>>
    PROVE  KeysInv'
<1>1. KeysTyped'
  BY DEF KeysInv, KeysTyped
<1>2. LoneRow' /\ FirstRow'
  BY DEF KeysInv, LoneRow, FirstRow
<1>3. \A d \in Callers : call'[d] = IF d = c THEN r ELSE call[d]
  BY DEF KeysInv, KeysTyped
<1>4. \A d \in Callers : CallKept(call[d])'
  BY <1>3 DEF KeysInv, CallKept
<1> QED BY <1>1, <1>2, <1>4 DEF KeysInv

LEMMA LookupInv ==
    ASSUME KeysInv, NEW c \in Callers, NEW k \in ManagedKey, Lookup(c, k)
    PROVE  KeysInv'
<1>1. PICK s \in {"found", "refused"}, bearer \in Bearers :
        call' = [call EXCEPT ![c] = [Unset EXCEPT !.key = k, !.bearer = bearer, !.state = s]]
  BY DEF Lookup
<1> DEFINE r == [Unset EXCEPT !.key = k, !.bearer = bearer, !.state = s]
<1>2. r \in Call /\ CallKept(r)
  BY DEF Unset, Call, URLs, APIKeys, Authorizations, CallKept
<1> HIDE DEF r
<1> QED BY <1>1, <1>2, CallerStep DEF Lookup, r

(* Only the first key has a row to be compared with.                       *)
LEMMA CompareInv ==
    ASSUME KeysInv, NEW c \in Callers, Compare(c)
    PROVE  KeysInv'
<1> DEFINE r == [call[c] EXCEPT !.state = IF \E id \in Rows : api_keys[id].key = call[c].key
                                          THEN "valid" ELSE "refused"]
<1>1. call' = [call EXCEPT ![c] = r] /\ UNCHANGED <<api_keys, announced>>
  BY DEF Compare
<1>2. call[c] \in Call /\ call[c].state = "found" /\ CallKept(call[c])
  BY DEF KeysInv, KeysTyped, Compare
<1>3. r \in Call /\ r.state \in {"valid", "refused"} /\ r.key = call[c].key
      /\ r.url = call[c].url /\ r.apiKey = call[c].apiKey
  BY <1>2 DEF Call
<1>4. ASSUME r.state = "valid" PROVE announced # <<>> /\ r.key = announced[1]
  <2>1. PICK id \in Rows : api_keys[id].key = call[c].key
    BY <1>2, <1>4 DEF Call
  <2>2. id = NoID
    BY <2>1 DEF Rows, IDs, KeysInv, LoneRow
  <2> QED BY <1>3, <2>1, <2>2 DEF KeysInv, FirstRow, Rows
<1>5. CallKept(r)
  <2> HIDE DEF r
  <2> QED BY <1>2, <1>3, <1>4 DEF CallKept
<1> HIDE DEF r
<1> QED BY <1>1, <1>3, <1>5, CallerStep

(* Both halves of a target come from one provider.                         *)
LEMMA ForwardInv ==
    ASSUME KeysInv, NEW c \in Callers, NEW model \in Models, Forward(c, model)
    PROVE  KeysInv'
<1> DEFINE chosen == SelectProvider(model)
           target == IF chosen = {} THEN <<DefaultURL, Nobody>>
                     ELSE Target(CHOOSE i \in chosen : TRUE)
           r(apiKey, authorization) ==
               [call[c] EXCEPT !.state = "sent", !.url = target[1],
                               !.apiKey = apiKey, !.authorization = authorization]
<1>1. PICK apiKey \in Clash(call[c].key, target[2]),
           authorization \in IF chosen = {} THEN {call[c].bearer}
                             ELSE Clash(call[c].bearer, target[2]) :
        call' = [call EXCEPT ![c] = r(apiKey, authorization)] /\ UNCHANGED <<api_keys, announced>>
  BY DEF Forward
<1>2. call[c] \in Call /\ call[c].state = "valid" /\ CallKept(call[c])
  BY DEF KeysInv, KeysTyped, Forward
<1>3. \/ target = <<DefaultURL, Nobody>> /\ authorization = call[c].bearer
      \/ \E j \in DOMAIN Providers :
           /\ target = <<Providers[j].url, Providers[j].key>>
           /\ authorization \in Clash(call[c].bearer, target[2])
  <2>1. CASE chosen = {}
    BY <2>1, <1>1
  <2>2. CASE chosen # {}
    <3>1. (CHOOSE i \in chosen : TRUE) \in DOMAIN Providers
      BY <2>2 DEF SelectProvider
    <3>2. authorization \in Clash(call[c].bearer, target[2])
      BY <2>2, <1>1
    <3> QED BY <2>2, <3>1, <3>2, TargetIsPair
  <2> QED BY <2>1, <2>2
<1> DEFINE sent == r(apiKey, authorization)
<1> HIDE DEF chosen
<1>4. target[1] \in URLs /\ apiKey \in APIKeys /\ authorization \in Authorizations
  <2> HIDE DEF target
  <2>1. apiKey \in {call[c].key, target[2]}
    BY <1>1 DEF Clash
  <2>2. authorization \in {call[c].bearer, target[2]}
    BY <1>3 DEF Clash
  <2> QED BY <1>2, <1>3, <2>1, <2>2 DEF URLs, APIKeys, Authorizations, ProviderKeys, Call
<1>5. apiKey \in Clash(call[c].key, target[2])
  BY <1>1
<1> HIDE DEF target
<1>6. /\ sent \in Call /\ sent.state = "sent" /\ sent.key = call[c].key /\ sent.bearer = call[c].bearer
      /\ sent.url = target[1] /\ sent.apiKey = apiKey /\ sent.authorization = authorization
  BY <1>2, <1>4 DEF Call
<1>7. call' = [call EXCEPT ![c] = sent]
  BY <1>1
<1> HIDE DEF sent
<1>8. \/ sent.url = DefaultURL /\ sent.apiKey = sent.key /\ sent.authorization = sent.bearer
      \/ \E j \in DOMAIN Providers :
           /\ sent.url = Providers[j].url
           /\ sent.apiKey \in Clash(sent.key, Providers[j].key)
           /\ sent.authorization \in Clash(sent.bearer, Providers[j].key)
  <2>1. CASE target = <<DefaultURL, Nobody>> /\ authorization = call[c].bearer
    BY <2>1, <1>5, <1>6 DEF Clash
  <2>2. ASSUME NEW j \in DOMAIN Providers, target = <<Providers[j].url, Providers[j].key>>,
               authorization \in Clash(call[c].bearer, target[2])
        PROVE  /\ sent.url = Providers[j].url
               /\ sent.apiKey \in Clash(sent.key, Providers[j].key)
               /\ sent.authorization \in Clash(sent.bearer, Providers[j].key)
    BY <2>2, <1>5, <1>6
  <2> QED BY <2>1, <2>2, <1>3
<1>9. CallKept(sent)
  BY <1>2, <1>6, <1>8 DEF CallKept
<1> QED BY <1>1, <1>6, <1>7, <1>9, CallerStep

LEMMA AnsweredInv ==
    ASSUME KeysInv, NEW c \in Callers, Answered(c)
    PROVE  KeysInv'
<1>1. Unset \in Call /\ CallKept(Unset)
  BY DEF Unset, Call, URLs, APIKeys, Authorizations, CallKept
<1> QED BY <1>1, CallerStep DEF Answered

LEMMA KeysNextInv == KeysInv /\ [KeysNext]_keysVars => KeysInv'
<1> SUFFICES ASSUME KeysInv, [KeysNext]_keysVars PROVE KeysInv'
  OBVIOUS
<1>1. CASE UNCHANGED keysVars
  BY <1>1 DEF keysVars, KeysInv, KeysTyped, LoneRow, FirstRow, CallKept
<1>2. ASSUME NEW k \in ManagedKey, Generate(k) PROVE KeysInv'
  BY <1>2, GenerateInv
<1>3. ASSUME NEW k \in ManagedKey, NEW c \in Callers, Lookup(c, k) PROVE KeysInv'
  BY <1>3, LookupInv
<1>4. ASSUME NEW id \in IDs, DisableKey(id) PROVE KeysInv'
  BY <1>4, DisableKeyInv
<1>5. ASSUME NEW c \in Callers, Compare(c) PROVE KeysInv'
  BY <1>5, CompareInv
<1>6. ASSUME NEW c \in Callers, Answered(c) PROVE KeysInv'
  BY <1>6, AnsweredInv
<1>7. ASSUME NEW c \in Callers, NEW model \in Models, Forward(c, model) PROVE KeysInv'
  BY <1>7, ForwardInv
<1> QED BY <1>1, <1>2, <1>3, <1>4, <1>5, <1>6, <1>7 DEF KeysNext

LEMMA KeysInvariant == KeysSpec => []KeysInv
<1> QED BY KeysInitInv, KeysNextInv, PTL DEF KeysSpec

(* The table and the calls are well typed, and nothing but a forwarded     *)
(* call has an upstream and a credential.                                  *)
THEOREM KeysTypeCorrect == KeysSpec => []KeysTypeOK
<1>1. KeysInv => KeysTypeOK
  <2> SUFFICES ASSUME KeysInv PROVE KeysTypeOK
    OBVIOUS
  <2>1. ASSUME NEW c \in Callers
        PROVE /\ call[c].state \in {"none", "found", "valid", "refused", "sent"}
              /\ call[c].key \in ManagedKey \cup {Nobody}
              /\ call[c].bearer \in Bearers \cup {Nobody}
              /\ call[c].url # Nobody <=> call[c].state = "sent"
              /\ call[c].apiKey # Nobody <=> call[c].state = "sent"
    <3>1. call[c] \in Call /\ CallKept(call[c])
      BY DEF KeysInv, KeysTyped
    <3>2. ASSUME call[c].state = "sent"
          PROVE call[c].url # Nobody /\ call[c].apiKey # Nobody
      <4>1. call[c].key # Nobody
        BY <3>1, <3>2, ManagedKeysAssumption DEF CallKept, KeysInv, KeysTyped
      <4> QED BY <3>1, <3>2, <4>1, ManagedKeysAssumption DEF CallKept, Clash
    <3> QED BY <3>1, <3>2 DEF CallKept, Call
  <2> QED BY <2>1 DEF KeysTypeOK, KeysInv, KeysTyped
<1> QED BY <1>1, KeysInvariant, PTL

(* Whatever is generated, disabled or looked up: the first key, and no     *)
(* other, passes.                                                          *)
THEOREM OnlyTheFirstKeyPasses == KeysSpec => []FirstKeyOnly
<1>1. KeysInv => FirstKeyOnly
  BY DEF KeysInv, FirstRow, CallKept, FirstKeyOnly
<1> QED BY <1>1, KeysInvariant, PTL

(* For any number of providers, names used twice included, no provider is  *)
(* sent the key of another, whichever of two headers of one name is kept.  *)
THEOREM CredentialsStayApart == KeysSpec => []OwnCredential
<1>1. KeysInv => OwnCredential
  BY DEF KeysInv, CallKept, OwnCredential
<1> QED BY <1>1, KeysInvariant, PTL

-----------------------------------------------------------------------------
(***************************************************************************)
(* Proofs about Alerting, for any rules, notifiers and clock.  A round     *)
(* that nobody has disturbed works on what is still to come of the current *)
(* rules; the firings it copied are those of every name that has not fired *)
(* since.                                                                  *)
(***************************************************************************)

AlertConfig == [rules : Seq(Rule), notifiers : SUBSET Notifiers]

Round == [on : BOOLEAN, todo : Seq(Rule), seen : [RuleNames -> Nat],
          notifiers : SUBSET Notifiers, sending : SUBSET Notifiers]

AlertTypeOK ==
    /\ alerts \in AlertConfig /\ given \in AlertConfig
    /\ lastFired \in [RuleNames -> Nat] /\ lastSent \in [RuleNames -> Nat]
    /\ clock \in Nat
    /\ round \in Round
    /\ firedNow \in SUBSET RuleNames /\ outdated \in BOOLEAN

\* todo is the end of s.
RestOf(s, todo) == \E k \in 0 .. Len(s) : todo = SubSeq(s, k + 1, Len(s))

CurrentRound ==
    ~outdated /\ round.on =>
        /\ round.notifiers = given.notifiers
        /\ round.sending \subseteq given.notifiers
        /\ RestOf(given.rules, round.todo)

SeenKept == round.on => \A n \in RuleNames \ firedNow : round.seen[n] = lastSent[n]

FiredBefore == \A n \in RuleNames : lastSent[n] <= clock

AlertInv ==
    /\ AlertTypeOK /\ given = alerts /\ lastFired = lastSent
    /\ CurrentRound /\ SeenKept /\ FiredBefore

(* What is left of the end of a sequence after its first element is an end *)
(* of it too.                                                              *)
LEMMA RestOfTail ==
    ASSUME NEW s \in Seq(Rule), NEW todo, RestOf(s, todo), todo # <<>>
    PROVE  RestOf(s, Tail(todo))
<1>1. PICK k \in 0 .. Len(s) : todo = SubSeq(s, k + 1, Len(s))
  BY DEF RestOf
<1>2. k < Len(s)
  BY <1>1
<1>3. Tail(todo) = SubSeq(s, (k + 1) + 1, Len(s))
  BY <1>1, <1>2
<1>4. k + 1 \in 0 .. Len(s)
  BY <1>2
<1> QED BY <1>3, <1>4 DEF RestOf

LEMMA WholeIsRest == \A s \in Seq(Rule) : RestOf(s, s)
<1> SUFFICES ASSUME NEW s \in Seq(Rule) PROVE RestOf(s, s)
  OBVIOUS
<1>1. s = SubSeq(s, 0 + 1, Len(s))
  OBVIOUS
<1> QED BY <1>1 DEF RestOf

LEMMA NoRoundType == NoRound \in Round /\ NoRound.on = FALSE
BY DEF NoRound, Round

LEMMA AlertInitInv == AlertInit => AlertInv
<1> SUFFICES ASSUME AlertInit PROVE AlertInv
  OBVIOUS
<1>1. AlertTypeOK
  BY AlertingAssumption, NoRoundType DEF AlertInit, AlertTypeOK, AlertConfig
<1>2. CurrentRound /\ SeenKept /\ FiredBefore
  BY NoRoundType DEF AlertInit, CurrentRound, SeenKept, FiredBefore
<1> QED BY <1>1, <1>2 DEF AlertInit, AlertInv

LEMMA UpdateAlertsInv == AlertInv /\ UpdateAlerts => AlertInv'
<1> SUFFICES ASSUME AlertInv, UpdateAlerts PROVE AlertInv'
  OBVIOUS
<1>1. AlertTypeOK' /\ given' = alerts'
  BY AlertingAssumption DEF AlertInv, UpdateAlerts, AlertTypeOK, AlertConfig
<1>2. CurrentRound' /\ SeenKept' /\ FiredBefore'
  BY DEF AlertInv, UpdateAlerts, CurrentRound, SeenKept, FiredBefore
<1> QED BY <1>1, <1>2 DEF AlertInv, UpdateAlerts

LEMMA StartRoundInv == AlertInv /\ StartRound => AlertInv'
<1> SUFFICES ASSUME AlertInv, StartRound PROVE AlertInv'
  OBVIOUS
<1>1. AlertTypeOK'
  BY DEF AlertInv, StartRound, AlertTypeOK, AlertConfig, Round
<1>2. given \in AlertConfig /\ given = alerts
  BY DEF AlertInv, AlertTypeOK
<1>3. RestOf(given.rules, alerts.rules)
  BY <1>2, WholeIsRest DEF AlertConfig
<1>4. CurrentRound'
  BY <1>2, <1>3 DEF StartRound, CurrentRound
<1>5. SeenKept' /\ FiredBefore'
  BY DEF AlertInv, StartRound, SeenKept, FiredBefore
<1> QED BY <1>1, <1>4, <1>5 DEF AlertInv, StartRound

(* While a round waits for its next rule, there is one.                    *)
LEMMA RuleAtHand ==
    ASSUME AlertInv, Waiting
    PROVE  Head(round.todo) \in Rule /\ Tail(round.todo) \in Seq(Rule)
<1>1. round.todo \in Seq(Rule) /\ round.todo # <<>>
  BY DEF AlertInv, AlertTypeOK, Waiting, Round
<1> QED BY <1>1

(* Whatever happens to a rule, the round goes on to the next one.          *)
LEMMA NextRule ==
    ASSUME AlertInv, Waiting, NEW notified \in SUBSET Notifiers, notified \subseteq round.notifiers,
           round' = [round EXCEPT !.todo = Tail(@), !.sending = notified],
           UNCHANGED <<given, outdated>>
    PROVE  round' \in Round /\ CurrentRound'
<1>1. round \in Round /\ round.todo # <<>> /\ round.on
  BY DEF AlertInv, AlertTypeOK, Waiting
<1>2. /\ Tail(round.todo) \in Seq(Rule)
      /\ round' \in Round /\ round'.todo = Tail(round.todo) /\ round'.sending = notified
      /\ round'.notifiers = round.notifiers
  BY <1>1, RuleAtHand DEF Round
<1>3. ASSUME ~outdated
      PROVE round.notifiers = given.notifiers /\ RestOf(given.rules, round.todo)
  BY <1>1, <1>3 DEF AlertInv, CurrentRound
<1>4. given.rules \in Seq(Rule)
  BY DEF AlertInv, AlertTypeOK, AlertConfig
<1>5. ASSUME ~outdated PROVE RestOf(given.rules, Tail(round.todo))
  BY <1>1, <1>3, <1>4, <1>5, RestOfTail
<1>6. CurrentRound'
  BY <1>2, <1>3, <1>5 DEF CurrentRound
<1> QED BY <1>2, <1>6

LEMMA SkipRuleInv == AlertInv /\ SkipRule => AlertInv'
<1> SUFFICES ASSUME AlertInv, SkipRule PROVE AlertInv'
  OBVIOUS
<1>1. round \in Round /\ round.sending = {}
  BY DEF AlertInv, AlertTypeOK, SkipRule, Waiting
<1>2. round' = [round EXCEPT !.todo = Tail(@), !.sending = {}]
  BY <1>1 DEF SkipRule, Round
<1>3. round' \in Round /\ CurrentRound'
  BY <1>2, NextRule DEF SkipRule
<1>4. AlertTypeOK'
  BY <1>3 DEF AlertInv, SkipRule, AlertTypeOK
<1>5. round'.seen = round.seen /\ round'.on = round.on
  BY <1>1, <1>2 DEF Round
<1>6. SeenKept' /\ FiredBefore'
  BY <1>5 DEF AlertInv, SkipRule, SeenKept, FiredBefore
<1> QED BY <1>3, <1>4, <1>6 DEF AlertInv, SkipRule

LEMMA FireInv == AlertInv /\ Fire => AlertInv'
<1> SUFFICES ASSUME AlertInv, Fire PROVE AlertInv'
  OBVIOUS
<1> DEFINE n == Head(round.todo).name
<1>1. round \in Round /\ Head(round.todo) \in Rule /\ n \in RuleNames
  BY RuleAtHand DEF AlertInv, AlertTypeOK, Fire, Rule
<1>2. /\ lastFired' = [lastFired EXCEPT ![n] = clock]
      /\ lastSent' = [lastSent EXCEPT ![n] = clock]
      /\ firedNow' = firedNow \cup {n}
      /\ round' = [round EXCEPT !.todo = Tail(@), !.sending = round.notifiers]
      /\ UNCHANGED <<alerts, clock, given, outdated>>
  BY DEF Fire
<1>3. round' \in Round /\ CurrentRound'
  BY <1>1, <1>2, NextRule DEF Fire, Round
<1>4. AlertTypeOK'
  BY <1>1, <1>2, <1>3 DEF AlertInv, AlertTypeOK
<1>5. \A m \in RuleNames : lastSent'[m] = IF m = n THEN clock ELSE lastSent[m]
  BY <1>1, <1>2 DEF AlertInv, AlertTypeOK
<1>6. round'.seen = round.seen /\ round'.on = round.on
  BY <1>1, <1>2 DEF Round
<1>7. SeenKept' /\ FiredBefore'
  <2> HIDE DEF n
  <2>1. SeenKept'
    BY <1>2, <1>5, <1>6 DEF AlertInv, SeenKept
  <2>2. FiredBefore'
    BY <1>2, <1>5 DEF AlertInv, FiredBefore, AlertTypeOK
  <2> QED BY <2>1, <2>2
<1> QED BY <1>2, <1>3, <1>4, <1>7 DEF AlertInv

LEMMA SentInv ==
    ASSUME AlertInv, NEW n \in Notifiers, Sent(n)
    PROVE  AlertInv'
<1>1. round \in Round /\ round' = [round EXCEPT !.sending = @ \ {n}]
  BY DEF AlertInv, AlertTypeOK, Sent
<1>2. /\ round' \in Round /\ round'.sending = round.sending \ {n} /\ round'.todo = round.todo
      /\ round'.seen = round.seen /\ round'.on = round.on /\ round'.notifiers = round.notifiers
  BY <1>1 DEF Round
<1>3. AlertTypeOK'
  BY <1>2 DEF AlertInv, AlertTypeOK, Sent
<1>4. CurrentRound'
  BY <1>2 DEF AlertInv, CurrentRound, Sent
<1>5. SeenKept' /\ FiredBefore'
  BY <1>2 DEF AlertInv, SeenKept, FiredBefore, Sent
<1> QED BY <1>3, <1>4, <1>5 DEF AlertInv, Sent

LEMMA EndRoundInv == AlertInv /\ EndRound => AlertInv'
<1> SUFFICES ASSUME AlertInv, EndRound PROVE AlertInv'
  OBVIOUS
<1>1. AlertTypeOK'
  BY NoRoundType DEF AlertInv, AlertTypeOK, EndRound
<1>2. CurrentRound' /\ SeenKept' /\ FiredBefore'
  BY NoRoundType DEF AlertInv, EndRound, CurrentRound, SeenKept, FiredBefore
<1> QED BY <1>1, <1>2 DEF AlertInv, EndRound

LEMMA TimePassesInv == AlertInv /\ TimePasses => AlertInv'
<1> SUFFICES ASSUME AlertInv, TimePasses PROVE AlertInv'
  OBVIOUS
<1>1. AlertTypeOK'
  BY DEF AlertInv, AlertTypeOK, TimePasses
<1>2. CurrentRound' /\ SeenKept'
  BY DEF AlertInv, TimePasses, CurrentRound, SeenKept
<1>3. FiredBefore'
  BY DEF AlertInv, AlertTypeOK, TimePasses, FiredBefore
<1> QED BY <1>1, <1>2, <1>3 DEF AlertInv, TimePasses

LEMMA AlertNextInv == AlertInv /\ [AlertNext]_alertVars => AlertInv'
<1> SUFFICES ASSUME AlertInv, [AlertNext]_alertVars PROVE AlertInv'
  OBVIOUS
<1>1. CASE UNCHANGED alertVars
  BY <1>1 DEF alertVars, AlertInv, AlertTypeOK, CurrentRound, SeenKept, FiredBefore
<1>2. ASSUME NEW n \in Notifiers, Sent(n) PROVE AlertInv'
  BY <1>2, SentInv
<1> QED BY <1>1, <1>2, UpdateAlertsInv, StartRoundInv, SkipRuleInv, FireInv, EndRoundInv,
           TimePassesInv DEF AlertNext

LEMMA AlertInvariant == AlertSpec => []AlertInv
<1> QED BY AlertInitInv, AlertNextInv, PTL DEF AlertSpec

Patient ==
    \A n \in RuleNames :
        lastSent'[n] # lastSent[n] /\ lastSent[n] # 0 /\ n \notin firedNow =>
            clock - lastSent[n] >= Head(round.todo).duration

(* Only Fire moves the time of an alert, and what a round compares with is *)
(* the time of a name that has not fired in it yet.                        *)
LEMMA AlertsArePatient == AlertInv /\ [AlertNext]_alertVars => Patient
<1> SUFFICES ASSUME AlertInv, [AlertNext]_alertVars,
                    NEW n \in RuleNames,
                    lastSent'[n] # lastSent[n], lastSent[n] # 0, n \notin firedNow
             PROVE  clock - lastSent[n] >= Head(round.todo).duration
  BY DEF Patient
<1>1. Fire
  BY DEF AlertNext, alertVars, UpdateAlerts, StartRound, SkipRule, EndRound, TimePasses, Sent
<1> DEFINE r == Head(round.todo)
<1>2. r \in Rule /\ r.duration \in Nat
  BY <1>1, RuleAtHand DEF Fire, Rule
<1>3. n = r.name
  BY <1>1, <1>2 DEF AlertInv, AlertTypeOK, Fire
<1>4. round.seen[n] = lastSent[n]
  BY <1>1 DEF AlertInv, SeenKept, Fire, Waiting
<1>5. lastSent[n] \in Nat /\ clock \in Nat /\ lastSent[n] <= clock
  BY DEF AlertInv, AlertTypeOK, FiredBefore
<1>6. ~(round.seen[r.name] # 0 /\ r.duration > 0 /\ clock - round.seen[r.name] < r.duration)
  BY <1>1 DEF Fire, Cooling
<1> HIDE DEF r
<1>7. clock - lastSent[n] >= r.duration
  BY <1>2, <1>3, <1>4, <1>5, <1>6
<1> QED BY <1>7 DEF r

(* For any rules and any updates: an undisturbed round uses nothing that   *)
(* is gone, and no name fires again before the duration of its rule.       *)
THEOREM AlertsComeInOrder == AlertSpec => AlertsInOrder
<1>1. AlertInv => NothingObsolete
  BY DEF AlertInv, CurrentRound, NothingObsolete, RestOf
<1>2. AlertSpec => []NothingObsolete
  BY <1>1, AlertInvariant, PTL
<1>3. AlertSpec => CooldownKept
  <2>1. AlertInv /\ [AlertNext]_alertVars => [Patient]_alertVars
    BY AlertsArePatient
  <2>2. AlertSpec => [][Patient]_alertVars
    BY <2>1, AlertInvariant, PTL DEF AlertSpec
  <2> QED BY <2>2 DEF CooldownKept, Patient
<1> QED BY <1>2, <1>3 DEF AlertsInOrder

-----------------------------------------------------------------------------
(* Statistics: the counters of the cost tracker against the rows, and the  *)
(* ranges a client asks for.                                               *)

Charges == [answer : Answers, spent : Days, came : Nat]
StoredRows == [answer : Answers, spent : Days, at : Nat, known : Nat]

(* Type invariant of the statistics.                                       *)
StatTypeOK ==
    /\ hour \in DayLength .. MaxHour /\ zone \in Zones /\ price \in TokenPrices
    /\ durable \in BOOLEAN /\ tracking \in BOOLEAN
    /\ daily \in [Days -> Nat] /\ total \in Nat
    /\ transit \in Seq(Charges) /\ table \in Seq(StoredRows)
    /\ edge \in Nat /\ edges \subseteq Nat /\ polled \in Nat /\ cut \in BOOLEAN
    /\ repriced \in BOOLEAN /\ restarted \in BOOLEAN
    /\ forgotten \in BOOLEAN /\ unsaved \in BOOLEAN

\* What the counters take of an answer.
Counted == [a \in Answers |-> CostMicro(a)]

(* The counters hold exactly what was counted of the requests that are     *)
(* known of, more only if rows were lost and less only if increments were, *)
(* unless the price has changed; the days to come have none.               *)
CountersHold ==
    /\ \A d \in Days : d > UtcDay \/ ~tracking => daily[d] = 0
    /\ ~repriced =>
         /\ ~unsaved => (\A d \in Days : daily[d] <= Charged({d}, Counted))
                          /\ total <= Charged(Days, Counted)
         /\ tracking /\ ~forgotten =>
              (\A d \in Days : Charged({d}, Counted) <= daily[d]) /\ Charged(Days, Counted) <= total

(* Rows that were stored before the last range was asked for are not later *)
(* than its end, and the client has been told of what RangesAdjoin says.   *)
PollsHold ==
    /\ edge \in edges /\ edge <= hour /\ \A e \in edges : e <= edge
    /\ \A i \in DOMAIN table :
         /\ table[i].known <= edge /\ table[i].at <= hour
         /\ table[i].known < edge => table[i].at <= edge
    /\ RangesAdjoin

\* Sequences of charges, stored or not.
ChargeLists == Seq(Charges \cup StoredRows)
Worths == [Answers -> Nat]

LEMMA CostsAreNatural ==
    ASSUME StatTypeOK
    PROVE  /\ Spent \in Worths /\ Counted \in Worths /\ Shortfall \in Worths
           /\ \A a \in Answers : /\ Cost(a) \in Nat /\ CostMicro(a) \in Nat
                                 /\ Micro * CostMicro(a) \in Nat
                                 /\ Micro * CostMicro(a) <= Cost(a)
                                 /\ Cost(a) <= Micro * CostMicro(a) + (Micro - 1)
<1>1. price \in Nat /\ Micro \in Nat \ {0} /\ 2 * Micro \in Nat
  BY StatisticsAssumption DEF StatTypeOK
<1>2. ASSUME NEW a \in Answers
      PROVE  /\ Cost(a) \in Nat /\ CostMicro(a) \in Nat /\ Micro * CostMicro(a) \in Nat
             /\ Micro * CostMicro(a) <= Cost(a)
             /\ Cost(a) <= Micro * CostMicro(a) + (Micro - 1)
  <2> DEFINE c == Cost(a)
             q == c \div Micro
  <2>1. c \in Nat
    <3>1. a.tokens \in Nat
      BY StatisticsAssumption
    <3>2. \A n \in Nat : a.tokens * n \in Nat
      BY <3>1
    <3> QED
      BY <1>1, <3>2 DEF Cost
  <2> HIDE DEF c
  <2>2. q \in Nat /\ Micro * q <= c /\ c < Micro * (q + 1)
    BY <1>1, <2>1
  <2> HIDE DEF q
  <2>3. Micro * (q + 1) = Micro * q + Micro /\ Micro * q \in Nat
    BY <1>1, <2>2
  <2>4. c <= Micro * q + (Micro - 1)
    BY <1>1, <2>1, <2>2, <2>3
  <2>5. CostMicro(a) = q
    BY DEF CostMicro, q, c
  <2> QED
    BY <2>1, <2>2, <2>3, <2>4, <2>5 DEF c
<1>3. Micro - 1 \in Nat
  BY <1>1
<1>4. Spent \in Worths /\ Counted \in Worths
  BY <1>2 DEF Spent, Counted, Worths
<1>5. Shortfall \in Worths
  BY <1>3 DEF Shortfall, Worths
<1> QED
  BY <1>2, <1>4, <1>5

LEMMA ItemsWorth ==
    ASSUME NEW seq \in ChargeLists, NEW w \in Worths, NEW i \in DOMAIN seq
    PROVE  w[seq[i].answer] \in Nat
<1>1. seq[i] \in Charges \cup StoredRows
  BY DEF ChargeLists
<1>2. seq[i].answer \in Answers
  BY <1>1 DEF Charges, StoredRows
<1> QED
  BY <1>2 DEF Worths

LEMMA OnDaysFinite ==
    ASSUME NEW seq \in ChargeLists, NEW days
    PROVE  IsFiniteSet(OnDays(seq, days)) /\ OnDays(seq, days) \subseteq DOMAIN seq
<1>1. DOMAIN seq = 1 .. Len(seq) /\ Len(seq) \in Nat
  BY DEF ChargeLists
<1>2. IsFiniteSet(DOMAIN seq)
  BY <1>1, FS_Interval
<1> QED
  BY <1>2, FS_Subset DEF OnDays

LEMMA SumOfIsNatural ==
    ASSUME NEW seq \in ChargeLists, NEW days, NEW w \in Worths
    PROVE  SumOf(seq, days, w) \in Nat
<1> DEFINE f == [i \in DOMAIN seq |-> w[seq[i].answer]]
           S == OnDays(seq, days)
<1>1. IsFiniteSet(S)
  BY OnDaysFinite
<1>2. \A i \in S : f[i] \in Nat
  BY OnDaysFinite, ItemsWorth
<1> HIDE DEF f, S
<1>3. SumFunctionOnSet(f, S) \in Nat
  BY <1>1, <1>2, SumNat
<1> QED
  BY <1>3 DEF f, S, SumOf

LEMMA SumOfNothing ==
    ASSUME NEW days, NEW w PROVE SumOf(<<>>, days, w) = 0
<1>1. OnDays(<<>>, days) = {}
  BY DEF OnDays
<1> QED
  BY <1>1, SumEmpty DEF SumOf

\* What one charge adds.
Share(c, days, w) == IF c.spent \in days THEN w[c.answer] ELSE 0

LEMMA SumOfAppended ==
    ASSUME NEW seq \in ChargeLists, NEW c \in Charges \cup StoredRows, NEW days,
           NEW w \in Worths
    PROVE  SumOf(Append(seq, c), days, w) = SumOf(seq, days, w) + Share(c, days, w)
<1> DEFINE more == Append(seq, c)
           n == Len(seq) + 1
           f == [i \in DOMAIN seq |-> w[seq[i].answer]]
           g == [i \in DOMAIN more |-> w[more[i].answer]]
           S == OnDays(seq, days)
           T == OnDays(more, days)
<1>1. /\ DOMAIN seq = 1 .. Len(seq) /\ Len(seq) \in Nat
      /\ DOMAIN more = 1 .. n /\ more[n] = c
      /\ \A i \in DOMAIN seq : more[i] = seq[i] /\ i # n /\ i \in DOMAIN more
      /\ n \in DOMAIN more /\ \A i \in DOMAIN more : i # n => i \in DOMAIN seq
      /\ more \in ChargeLists
  BY DEF ChargeLists
<1>2. IsFiniteSet(DOMAIN more)
  BY <1>1, FS_Interval
<1>3. IsFiniteSet(S) /\ IsFiniteSet(T)
  <2>1. S \subseteq DOMAIN more /\ T \subseteq DOMAIN more
    BY <1>1 DEF OnDays
  <2> HIDE DEF S, T, more
  <2> QED
    BY <1>2, <2>1, FS_Subset
<1>4. T = IF c.spent \in days THEN S \cup {n} ELSE S
  <2> HIDE DEF more, n
  <2> QED
    BY <1>1 DEF OnDays
<1>5. n \notin S /\ T \ {n} = S
  <2>1. n \notin S
    BY <1>1 DEF OnDays
  <2> HIDE DEF T, S, more, n
  <2> QED
    BY <1>4, <2>1
<1>6. \A i \in T : g[i] \in Int
  <2> SUFFICES ASSUME NEW i \in T PROVE g[i] \in Int
    OBVIOUS
  <2>1. i \in DOMAIN more
    BY DEF OnDays
  <2>2. more \in ChargeLists
    BY <1>1
  <2> HIDE DEF more, T
  <2> QED
    BY <2>1, <2>2, ItemsWorth
<1>7. \A i \in S : f[i] = g[i]
  <2> HIDE DEF more
  <2> QED
    BY <1>1 DEF OnDays
<1>8. g[n] = w[c.answer]
  <2> HIDE DEF more, n
  <2> QED
    BY <1>1
<1> HIDE DEF f, g, S, T, n
<1>9. SumFunctionOnSet(f, S) = SumFunctionOnSet(g, S)
  BY <1>3, <1>7, SumSame
<1>10. SumFunctionOnSet(g, S) \in Int
  <2>1. \A i \in S : g[i] \in Int
    BY <1>5, <1>6
  <2> QED
    BY <1>3, <2>1, SumType
<1>11. CASE c.spent \in days
  <2>1. n \in T
    BY <1>4, <1>11
  <2>2. SumFunctionOnSet(g, T) = g[n] + SumFunctionOnSet(g, T \ {n})
    BY <1>3, <1>6, <2>1, SumWithout
  <2>3. g[n] \in Int
    BY <1>6, <2>1
  <2>4. SumFunctionOnSet(g, T \ {n}) = SumFunctionOnSet(f, S)
    BY <1>5, <1>9
  <2>5. SumFunctionOnSet(f, S) \in Int
    BY <1>9, <1>10
  <2>6. SumFunctionOnSet(g, T) = SumFunctionOnSet(f, S) + g[n]
    BY ONLY <2>2, <2>3, <2>4, <2>5
  <2> QED
    BY <1>8, <1>11, <2>6 DEF SumOf, Share, f, g, S, T
<1>12. CASE c.spent \notin days
  <2>1. SumFunctionOnSet(g, T) = SumFunctionOnSet(f, S) + 0
    BY <1>4, <1>9, <1>10, <1>12
  <2> QED
    BY <1>12, <2>1 DEF SumOf, Share, f, g, S, T
<1> QED
  BY <1>11, <1>12

(* Taking one charge out of a sequence.                                    *)
LEMMA RemovedAt ==
    ASSUME NEW R, NEW seq \in Seq(R), NEW i \in DOMAIN seq
    PROVE  /\ RemoveAt(seq, i) \in Seq(R) /\ Len(RemoveAt(seq, i)) = Len(seq) - 1
           /\ \A j \in 1 .. Len(seq) - 1 :
                RemoveAt(seq, i)[j] = IF j < i THEN seq[j] ELSE seq[j + 1]
<1> DEFINE a == SubSeq(seq, 1, i - 1)
           b == SubSeq(seq, i + 1, Len(seq))
<1>1. Len(seq) \in Nat /\ i \in 1 .. Len(seq)
  OBVIOUS
<1>2. a \in Seq(R) /\ Len(a) = i - 1 /\ \A j \in 1 .. i - 1 : a[j] = seq[j]
  BY <1>1
<1>3. b \in Seq(R) /\ Len(b) = Len(seq) - i /\ \A j \in 1 .. Len(seq) - i : b[j] = seq[i + j]
  BY <1>1
<1> HIDE DEF a, b
<1>4. a \o b \in Seq(R) /\ Len(a \o b) = Len(seq) - 1
  BY <1>1, <1>2, <1>3
<1>5. \A j \in 1 .. Len(seq) - 1 : (a \o b)[j] = IF j < i THEN a[j] ELSE b[j - (i - 1)]
  <2>1. \A j \in 1 .. Len(a) + Len(b) : (a \o b)[j] = IF j <= Len(a) THEN a[j] ELSE b[j - Len(a)]
    BY <1>2, <1>3, ConcatProperties
  <2>2. Len(a) + Len(b) = Len(seq) - 1 /\ \A j \in 1 .. Len(seq) - 1 : j <= Len(a) <=> j < i
    BY <1>1, <1>2, <1>3
  <2> QED
    BY <1>2, <2>1, <2>2
<1>6. ASSUME NEW j \in 1 .. Len(seq) - 1, ~ (j < i)
      PROVE  b[j - (i - 1)] = seq[j + 1]
  <2>1. j - (i - 1) \in 1 .. Len(seq) - i /\ i + (j - (i - 1)) = j + 1
    BY <1>1, <1>6
  <2> QED
    BY <1>3, <2>1
<1>7. RemoveAt(seq, i) = a \o b
  BY DEF RemoveAt, a, b
<1> QED
  BY <1>1, <1>2, <1>4, <1>5, <1>6, <1>7

LEMMA SumOfRemoved ==
    ASSUME NEW seq \in ChargeLists, NEW i \in DOMAIN seq, NEW days, NEW w \in Worths
    PROVE  SumOf(seq, days, w) = SumOf(RemoveAt(seq, i), days, w) + Share(seq[i], days, w)
<1> DEFINE less == RemoveAt(seq, i)
           f == [j \in DOMAIN less |-> w[less[j].answer]]
           g == [j \in DOMAIN seq |-> w[seq[j].answer]]
           name == [j \in DOMAIN less |-> IF j < i THEN j ELSE j + 1]
           S == OnDays(less, days)
           T == OnDays(seq, days)
<1>1. /\ less \in ChargeLists /\ Len(less) = Len(seq) - 1
      /\ \A j \in 1 .. Len(seq) - 1 : less[j] = IF j < i THEN seq[j] ELSE seq[j + 1]
  BY RemovedAt DEF ChargeLists
<1> HIDE DEF less
<1>2. DOMAIN seq = 1 .. Len(seq) /\ Len(seq) \in Nat /\ i \in 1 .. Len(seq)
  BY DEF ChargeLists
<1>3. DOMAIN less = 1 .. Len(seq) - 1
  BY <1>1, <1>2 DEF ChargeLists
<1>4. \A j \in DOMAIN less : name[j] \in DOMAIN seq \ {i} /\ less[j] = seq[name[j]]
  BY <1>1, <1>2, <1>3
<1>5. \A j, k \in DOMAIN less : name[j] = name[k] => j = k
  BY <1>2, <1>3
<1>6. \A k \in DOMAIN seq \ {i} : \E j \in DOMAIN less : name[j] = k
  <2> SUFFICES ASSUME NEW k \in DOMAIN seq \ {i} PROVE \E j \in DOMAIN less : name[j] = k
    OBVIOUS
  <2>1. CASE k < i
    <3>1. k \in DOMAIN less /\ name[k] = k
      BY <1>2, <1>3, <2>1
    <3> QED
      BY <3>1
  <2>2. CASE k > i
    <3>1. k - 1 \in DOMAIN less /\ name[k - 1] = k
      BY <1>2, <1>3, <2>2
    <3> QED
      BY <3>1
  <2> QED
    BY <1>2, <2>1, <2>2
<1> HIDE DEF name
<1>7. IsFiniteSet(DOMAIN seq) /\ IsFiniteSet(DOMAIN less)
  BY <1>2, <1>3, FS_Interval
<1>8. IsFiniteSet(S) /\ IsFiniteSet(T)
  BY <1>7, FS_Subset DEF OnDays
<1>9. T \ {i} = {name[j] : j \in S}
  <2>1. \A k \in T \ {i} : \E j \in S : name[j] = k
    BY <1>4, <1>6 DEF OnDays
  <2>2. \A j \in S : name[j] \in T \ {i}
    BY <1>4 DEF OnDays
  <2> HIDE DEF S, T
  <2> QED
    BY <2>1, <2>2
<1>10. \A j \in DOMAIN seq : g[j] \in Int
  <2> SUFFICES ASSUME NEW j \in DOMAIN seq PROVE g[j] \in Int
    OBVIOUS
  <2>1. seq[j] \in Charges \cup StoredRows
    BY DEF ChargeLists
  <2> QED
    BY <2>1, ItemsWorth
<1>11. \A j \in S : f[j] \in Int /\ g[name[j]] = f[j]
  BY <1>4, <1>10 DEF OnDays
<1>12. S \subseteq DOMAIN less /\ T \subseteq DOMAIN seq
  BY DEF OnDays
<1>13. i \in T <=> seq[i].spent \in days
  BY DEF OnDays
<1>14. g[i] = w[seq[i].answer]
  OBVIOUS
<1> HIDE DEF f, g, S, T
<1>15. SumFunctionOnSet(g, T \ {i}) = SumFunctionOnSet(f, S)
  <2>1. \A j, k \in S : name[j] = name[k] => j = k
    BY <1>5, <1>12
  <2> QED
    BY <1>8, <1>9, <1>11, <2>1, SumRenamed
<1>16. SumFunctionOnSet(f, S) \in Int
  BY <1>8, <1>11, SumType
<1>17. CASE i \in T
  <2>1. \A j \in T : g[j] \in Int
    BY <1>10, <1>12
  <2>2. SumFunctionOnSet(g, T) = g[i] + SumFunctionOnSet(g, T \ {i})
    BY <1>8, <1>17, <2>1, SumWithout
  <2>3. SumFunctionOnSet(g, T) = SumFunctionOnSet(f, S) + g[i]
    BY <1>10, <1>15, <1>16, <2>2
  <2> QED
    BY <1>13, <1>14, <1>17, <2>3 DEF SumOf, Share, f, g, S, T, less
<1>18. CASE i \notin T
  <2>1. T \ {i} = T
    BY <1>18
  <2>2. SumFunctionOnSet(g, T) = SumFunctionOnSet(f, S) + 0
    BY <1>15, <1>16, <2>1
  <2> QED
    BY <1>13, <1>18, <2>2 DEF SumOf, Share, f, g, S, T, less
<1> QED
  BY <1>17, <1>18

LEMMA DivisionGrows ==
    ASSUME NEW a \in Int, NEW b \in Int, a <= b, NEW k \in Nat \ {0}
    PROVE  a \div k \in Int /\ b \div k \in Int /\ a \div k <= b \div k
<1> DEFINE p == a \div k
           q == b \div k
<1>1. p \in Int /\ q \in Int
  OBVIOUS
<1>2. k * p <= a /\ b < k * (q + 1)
  OBVIOUS
<1> HIDE DEF p, q
<1>3. k * p < k * (q + 1) /\ k * p \in Int /\ k * (q + 1) \in Int
  BY <1>1, <1>2
<1>4. ~ (p >= q + 1)
  BY <1>1, <1>3
<1>5. p <= q
  BY <1>1, <1>4
<1> QED
  BY <1>1, <1>5 DEF p, q

LEMMA DaysAreNumbers ==
    ASSUME StatTypeOK
    PROVE  /\ UtcDay \in Days /\ Days \subseteq Int
           /\ LocalDay \in Int
<1>1. DayLength \in Nat \ {0} /\ MaxHour \in Nat /\ zone \in Int
  BY StatisticsAssumption DEF StatTypeOK
<1>2. hour \in Int /\ hour + zone \in Int
  BY <1>1 DEF StatTypeOK
<1>3. UtcDay \in Days
  BY DEF StatTypeOK, UtcDay, Days
<1>4. LocalDay \in Int
  BY <1>1, <1>2, DivisionGrows DEF LocalDay
<1>5. ASSUME NEW h \in DayLength .. MaxHour PROVE h \div DayLength \in Int
  <2>1. h \in Int
    BY <1>1
  <2> QED
    BY <1>1, <2>1, DivisionGrows
<1> QED
  BY <1>3, <1>4, <1>5 DEF Days

LEMMA StatInitially ==
    ASSUME StatisticsInit
    PROVE  StatTypeOK /\ CountersHold /\ PollsHold
<1>1. DayLength \in DayLength .. MaxHour /\ DayLength \in Nat
  BY StatisticsAssumption
<1>2. StatTypeOK
  <2>1. daily \in [Days -> Nat] /\ total \in Nat /\ polled \in Nat
    BY DEF StatisticsInit
  <2>2. transit \in Seq(Charges) /\ table \in Seq(StoredRows)
    BY DEF StatisticsInit
  <2>3. /\ repriced \in BOOLEAN /\ restarted \in BOOLEAN /\ forgotten \in BOOLEAN
        /\ unsaved \in BOOLEAN /\ cut \in BOOLEAN /\ durable \in BOOLEAN /\ tracking \in BOOLEAN
    BY DEF StatisticsInit
  <2>4. /\ hour \in DayLength .. MaxHour /\ zone \in Zones /\ price \in TokenPrices
        /\ edge \in Nat /\ edges \subseteq Nat
    BY <1>1 DEF StatisticsInit
  <2> QED
    BY <2>1, <2>2, <2>3, <2>4 DEF StatTypeOK
<1>3. CountersHold
  <2>1. \A d \in Days : daily[d] = 0
    BY DEF StatisticsInit
  <2>2. \A days : Charged(days, Counted) = 0
    <3>1. table = <<>> /\ transit = <<>>
      BY DEF StatisticsInit
    <3> QED
      BY <3>1, SumOfNothing DEF Charged
  <2>3. total = 0
    BY DEF StatisticsInit
  <2> QED
    BY <2>1, <2>2, <2>3 DEF CountersHold
<1>4. PollsHold
  <2>1. edge = hour /\ hour = DayLength /\ edges = {hour} /\ polled = 0 /\ table = <<>>
    BY DEF StatisticsInit
  <2>2. Asked = {} /\ OnEdge = {}
    BY <2>1 DEF Asked, OnEdge
  <2>3. Tokens({}) = 0
    BY SumEmpty DEF Tokens
  <2>4. RangesAdjoin
    BY <2>1, <2>2, <2>3 DEF RangesAdjoin
  <2> QED
    BY <1>1, <2>1, <2>4 DEF PollsHold
<1> QED
  BY <1>2, <1>3, <1>4

\* The worths of today are those of tomorrow.
LEMMA WorthsStay ==
    ASSUME UNCHANGED <<tracking, price>>
    PROVE  Counted' = Counted /\ Spent' = Spent /\ Shortfall' = Shortfall
BY DEF Counted, Spent, Shortfall, CostMicro, Cost

LEMMA AnswerKeepsStat ==
    ASSUME StatTypeOK, CountersHold, NEW a \in Answers, Answer(a)
    PROVE  StatTypeOK' /\ CountersHold'
<1> DEFINE c == [answer |-> a, spent |-> UtcDay, came |-> hour]
           n == CostMicro(a)
<1>1. UtcDay \in Days /\ Days \subseteq Int /\ hour \in Nat
  BY DaysAreNumbers, StatisticsAssumption DEF StatTypeOK
<1>2. PICK onDay \in BOOLEAN, inTotal \in BOOLEAN :
        /\ ~tracking => ~onDay /\ ~inTotal
        /\ Track(a, onDay, inTotal)
        /\ forgotten' = (forgotten \/ (tracking /\ ~(onDay /\ inTotal)))
  BY DEF Answer, StatTypeOK
<1>3. /\ transit' = Append(transit, c)
      /\ UNCHANGED <<hour, zone, durable, tracking, price, table,
                     edge, edges, polled, cut, repriced, restarted, unsaved>>
  BY DEF Answer
<1>4. c \in Charges /\ c.spent = UtcDay /\ c.answer = a
  BY <1>1 DEF Charges
<1>5. n \in Nat /\ n = Counted[a] /\ Counted \in Worths
  BY CostsAreNatural DEF Counted
<1>6. /\ daily' = IF onDay THEN [daily EXCEPT ![UtcDay] = @ + n] ELSE daily
      /\ total' = IF inTotal THEN total + n ELSE total
  BY <1>2 DEF Track
<1> HIDE DEF c, n
<1>7. UtcDay' = UtcDay /\ Counted' = Counted
  BY <1>3, WorthsStay DEF UtcDay
<1>8. daily' \in [Days -> Nat] /\ total' \in Nat
  BY <1>1, <1>5, <1>6 DEF StatTypeOK
<1>9. \A d \in Days : daily'[d] = IF onDay /\ d = UtcDay THEN daily[d] + n ELSE daily[d]
  BY <1>1, <1>6 DEF StatTypeOK
<1>10. transit' \in Seq(Charges)
  BY <1>3, <1>4 DEF StatTypeOK
<1>11. StatTypeOK'
  BY <1>2, <1>3, <1>8, <1>10 DEF StatTypeOK
<1>12. transit \in ChargeLists /\ table \in ChargeLists
  BY DEF StatTypeOK, ChargeLists
<1>13. ASSUME NEW days
       PROVE  /\ Charged(days, Counted)' = Charged(days, Counted) + (IF UtcDay \in days THEN n ELSE 0)
              /\ Charged(days, Counted) \in Nat
  <2>1. SumOf(transit', days, Counted) = SumOf(transit, days, Counted) + Share(c, days, Counted)
    BY <1>3, <1>4, <1>5, <1>12, SumOfAppended
  <2>2. Share(c, days, Counted) = IF UtcDay \in days THEN n ELSE 0
    BY <1>4, <1>5 DEF Share
  <2>3. SumOf(transit, days, Counted) \in Nat /\ SumOf(table, days, Counted) \in Nat
    BY <1>5, <1>12, SumOfIsNatural
  <2>4. Charged(days, Counted)' = SumOf(table, days, Counted) + SumOf(transit', days, Counted)
    BY <1>3, <1>7 DEF Charged
  <2> QED
    BY <1>5, <2>1, <2>2, <2>3, <2>4 DEF Charged
<1>14. \A d \in Days : (d > UtcDay \/ ~tracking) => daily'[d] = 0
  BY <1>1, <1>2, <1>9 DEF CountersHold
<1>15. ASSUME ~repriced, ~unsaved
       PROVE  (\A d \in Days : daily'[d] <= Charged({d}, Counted)') /\ total' <= Charged(Days, Counted)'
  <2>1. (\A d \in Days : daily[d] <= Charged({d}, Counted)) /\ total <= Charged(Days, Counted)
    BY <1>15 DEF CountersHold
  <2>2. total' <= Charged(Days, Counted)'
    BY <1>1, <1>5, <1>6, <1>8, <1>13, <2>1 DEF StatTypeOK
  <2>3. ASSUME NEW d \in Days PROVE daily'[d] <= Charged({d}, Counted)'
    <3>1. daily[d] \in Nat /\ daily[d] <= Charged({d}, Counted)
      BY <2>1 DEF StatTypeOK
    <3>2. Charged({d}, Counted) \in Nat
          /\ Charged({d}, Counted)' = Charged({d}, Counted) + (IF UtcDay = d THEN n ELSE 0)
      BY <1>13
    <3>3. daily'[d] = IF onDay /\ d = UtcDay THEN daily[d] + n ELSE daily[d]
      BY <1>9
    <3> QED
      BY <1>5, <3>1, <3>2, <3>3
  <2> QED
    BY <2>2, <2>3
<1>16. ASSUME ~repriced, tracking, ~forgotten'
       PROVE  (\A d \in Days : Charged({d}, Counted)' <= daily'[d]) /\ Charged(Days, Counted)' <= total'
  <2>1. ~forgotten /\ onDay /\ inTotal
    BY <1>2, <1>16
  <2>2. (\A d \in Days : Charged({d}, Counted) <= daily[d]) /\ Charged(Days, Counted) <= total
    BY <1>16, <2>1 DEF CountersHold
  <2>3. Charged(Days, Counted)' <= total'
    BY <1>1, <1>5, <1>6, <1>8, <1>13, <2>1, <2>2 DEF StatTypeOK
  <2>4. ASSUME NEW d \in Days PROVE Charged({d}, Counted)' <= daily'[d]
    <3>1. daily[d] \in Nat /\ Charged({d}, Counted) <= daily[d]
      BY <2>2 DEF StatTypeOK
    <3>2. Charged({d}, Counted) \in Nat
          /\ Charged({d}, Counted)' = Charged({d}, Counted) + (IF UtcDay = d THEN n ELSE 0)
      BY <1>13
    <3>3. daily'[d] = IF d = UtcDay THEN daily[d] + n ELSE daily[d]
      BY <1>9, <2>1
    <3> QED
      BY <1>5, <3>1, <3>2, <3>3
  <2> QED
    BY <2>3, <2>4
<1>17. CountersHold'
  BY <1>3, <1>7, <1>14, <1>15, <1>16 DEF CountersHold
<1> QED
  BY <1>11, <1>17

LEMMA KeepKeepsStat ==
    ASSUME StatTypeOK, CountersHold, NEW i \in DOMAIN transit, Keep(i)
    PROVE  StatTypeOK' /\ CountersHold'
<1> DEFINE c == transit[i]
           row(at) == [answer |-> c.answer, spent |-> c.spent, at |-> at, known |-> edge]
<1>1. /\ transit' = RemoveAt(transit, i)
      /\ UNCHANGED <<hour, zone, durable, tracking, price, daily, total,
                     edge, edges, polled, cut, repriced, restarted, forgotten>>
  BY DEF Keep
<1>2. \/ (\E at \in c.came .. hour : table' = Append(table, row(at))) /\ unsaved' = unsaved
      \/ table' = table /\ unsaved' = TRUE
  BY DEF Keep
<1>3. c \in Charges /\ edge \in Nat /\ hour \in Nat
  BY StatisticsAssumption DEF StatTypeOK
<1>4. \A at \in c.came .. hour : row(at) \in StoredRows /\ row(at).answer = c.answer /\ row(at).spent = c.spent
  BY <1>3 DEF Charges, StoredRows
<1> HIDE DEF c, row
<1>5. transit' \in Seq(Charges)
  BY <1>1, RemovedAt DEF StatTypeOK
<1>6. table' \in Seq(StoredRows)
  <2>1. table \in Seq(StoredRows)
    BY DEF StatTypeOK
  <2>2. \A at \in c.came .. hour : Append(table, row(at)) \in Seq(StoredRows)
    BY <1>4, <2>1
  <2> QED
    BY <1>2, <2>1, <2>2
<1>7. StatTypeOK'
  BY <1>1, <1>2, <1>5, <1>6 DEF StatTypeOK
<1>8. transit \in ChargeLists /\ table \in ChargeLists /\ transit' \in ChargeLists /\ table' \in ChargeLists
  BY <1>5, <1>6 DEF StatTypeOK, ChargeLists
<1>9. Counted' = Counted /\ Counted \in Worths /\ UtcDay' = UtcDay
  BY <1>1, WorthsStay, CostsAreNatural DEF UtcDay
<1>10. ASSUME NEW days
       PROVE  /\ Charged(days, Counted)' <= Charged(days, Counted)
              /\ ~unsaved' => Charged(days, Counted)' = Charged(days, Counted)
              /\ Charged(days, Counted) \in Nat /\ Charged(days, Counted)' \in Nat
  <2>1. SumOf(transit, days, Counted) = SumOf(transit', days, Counted) + Share(c, days, Counted)
    BY <1>1, <1>8, <1>9, SumOfRemoved DEF c
  <2>2. Share(c, days, Counted) \in Nat
    <3>1. c.answer \in Answers
      BY <1>3 DEF Charges
    <3> QED
      BY <1>9, <3>1 DEF Share, Worths
  <2>3. /\ SumOf(transit, days, Counted) \in Nat /\ SumOf(table, days, Counted) \in Nat
        /\ SumOf(transit', days, Counted) \in Nat /\ SumOf(table', days, Counted) \in Nat
    BY <1>8, <1>9, SumOfIsNatural
  <2>4. \/ SumOf(table', days, Counted) = SumOf(table, days, Counted) + Share(c, days, Counted)
        \/ SumOf(table', days, Counted) = SumOf(table, days, Counted) /\ unsaved' = TRUE
    <3>1. CASE \E at \in c.came .. hour : table' = Append(table, row(at))
      <4>1. PICK at \in c.came .. hour : table' = Append(table, row(at))
        BY <3>1
      <4>2. SumOf(table', days, Counted) = SumOf(table, days, Counted) + Share(row(at), days, Counted)
        BY <1>4, <1>8, <1>9, <4>1, SumOfAppended
      <4>3. Share(row(at), days, Counted) = Share(c, days, Counted)
        BY <1>4 DEF Share
      <4> QED
        BY <4>2, <4>3
    <3>2. CASE table' = table /\ unsaved' = TRUE
      BY <3>2
    <3> QED
      BY <1>2, <3>1, <3>2
  <2>5. /\ Charged(days, Counted)' = SumOf(table', days, Counted) + SumOf(transit', days, Counted)
        /\ Charged(days, Counted) = SumOf(table, days, Counted) + SumOf(transit, days, Counted)
    BY <1>9 DEF Charged
  <2> DEFINE t == SumOf(transit, days, Counted)
             u == SumOf(transit', days, Counted)
             v == SumOf(table, days, Counted)
             x == SumOf(table', days, Counted)
             s == Share(c, days, Counted)
  <2>6. t = u + s /\ s \in Nat /\ t \in Nat /\ u \in Nat /\ v \in Nat /\ x \in Nat
    BY <2>1, <2>2, <2>3
  <2>7. x = v + s \/ (x = v /\ unsaved' = TRUE)
    BY <2>4
  <2>8. Charged(days, Counted)' = x + u /\ Charged(days, Counted) = v + t
    BY <2>5
  <2> HIDE DEF t, u, v, x, s
  <2> QED
    BY <2>6, <2>7, <2>8
<1>11. ~unsaved' => ~unsaved
  BY <1>2 DEF StatTypeOK
<1>12. ASSUME ~repriced, ~unsaved'
       PROVE  (\A d \in Days : daily[d] <= Charged({d}, Counted)') /\ total <= Charged(Days, Counted)'
  BY <1>10, <1>11, <1>12 DEF CountersHold
<1>13. ASSUME ~repriced, tracking, ~forgotten
       PROVE  (\A d \in Days : Charged({d}, Counted)' <= daily[d]) /\ Charged(Days, Counted)' <= total
  <2>1. (\A d \in Days : Charged({d}, Counted) <= daily[d]) /\ Charged(Days, Counted) <= total
    BY <1>13 DEF CountersHold
  <2>2. (\A d \in Days : daily[d] \in Nat) /\ total \in Nat
    BY DEF StatTypeOK
  <2> QED
    BY <1>10, <2>1, <2>2
<1>14. CountersHold'
  BY <1>1, <1>9, <1>12, <1>13 DEF CountersHold
<1> QED
  BY <1>7, <1>14

LEMMA RestKeepsCounters ==
    ASSUME StatTypeOK, CountersHold,
           \/ NextHour \/ Restart \/ \E p \in TokenPrices : Reprice(p)
           \/ UNCHANGED statisticsVars
    PROVE  StatTypeOK' /\ CountersHold'
<1>1. UtcDay \in Days /\ Days \subseteq Int
  BY DaysAreNumbers
<1>2. CASE NextHour
  <2>1. /\ hour' = hour + 1 /\ hour < MaxHour
        /\ UNCHANGED <<zone, durable, tracking, price, daily, total, transit, table,
                       edge, edges, polled, cut, repriced, restarted, forgotten, unsaved>>
    BY <1>2 DEF NextHour
  <2>2. DayLength \in Nat \ {0} /\ MaxHour \in Nat /\ hour \in Int
    BY StatisticsAssumption DEF StatTypeOK
  <2>3. StatTypeOK'
    BY <2>1, <2>2 DEF StatTypeOK
  <2>4. UtcDay <= UtcDay' /\ UtcDay' \in Int /\ UtcDay \in Int
    BY <2>1, <2>2, DivisionGrows DEF UtcDay
  <2>5. \A d \in Days : d > UtcDay' \/ ~tracking => daily[d] = 0
    BY <1>1, <2>4 DEF CountersHold
  <2>6. \A days : Charged(days, Counted)' = Charged(days, Counted)
    BY <2>1, WorthsStay DEF Charged
  <2> QED
    BY <2>1, <2>3, <2>5, <2>6 DEF CountersHold
<1>3. CASE Restart
  <2>1. /\ restarted' = TRUE /\ transit' = <<>> /\ unsaved' = (unsaved \/ transit # <<>>)
        /\ UNCHANGED <<hour, zone, durable, tracking, price, table, edge, edges, polled, cut, repriced>>
    BY <1>3 DEF Restart
  <2>2. \/ daily' = daily /\ total' = total /\ forgotten' = forgotten
        \/ daily' = [d \in Days |-> 0] /\ total' = 0 /\ forgotten' = TRUE
    BY <1>3 DEF Restart, StatTypeOK
  <2>3. StatTypeOK'
    <3>1. daily' \in [Days -> Nat] /\ total' \in Nat /\ forgotten' \in BOOLEAN
      <4>1. [d \in Days |-> 0] \in [Days -> Nat]
        OBVIOUS
      <4>2. daily \in [Days -> Nat] /\ total \in Nat /\ forgotten \in BOOLEAN
        BY DEF StatTypeOK
      <4>3. daily' \in [Days -> Nat]
        BY <2>2, <4>1, <4>2, Zenon
      <4>4. total' \in Nat
        BY <2>2, <4>2
      <4>5. forgotten' \in BOOLEAN
        BY <2>2, <4>2, Zenon
      <4> QED
        BY <4>3, <4>4, <4>5
    <3>2. transit' \in Seq(Charges) /\ unsaved' \in BOOLEAN
      BY <2>1 DEF StatTypeOK
    <3> QED
      BY <2>1, <3>1, <3>2 DEF StatTypeOK
  <2>4. UtcDay' = UtcDay /\ Counted' = Counted /\ Counted \in Worths
    BY <2>1, WorthsStay, CostsAreNatural DEF UtcDay
  <2>5. \A d \in Days : d > UtcDay \/ ~tracking => daily'[d] = 0
    BY <2>2 DEF CountersHold
  <2>6. ASSUME NEW days
        PROVE  /\ Charged(days, Counted) \in Nat /\ Charged(days, Counted)' \in Nat
               /\ Charged(days, Counted)' <= Charged(days, Counted)
               /\ ~unsaved' => Charged(days, Counted)' = Charged(days, Counted)
    <3>1. table \in ChargeLists /\ transit \in ChargeLists
      BY DEF StatTypeOK, ChargeLists
    <3>2. SumOf(table, days, Counted) \in Nat /\ SumOf(transit, days, Counted) \in Nat
      BY <2>4, <3>1, SumOfIsNatural
    <3>3. Charged(days, Counted)' = SumOf(table, days, Counted)
      <4>1. SumOf(<<>>, days, Counted) = 0
        BY SumOfNothing
      <4> QED
        BY <2>1, <2>4, <3>2, <4>1 DEF Charged
    <3>4. ~unsaved' => SumOf(transit, days, Counted) = 0
      BY <2>1, SumOfNothing
    <3> QED
      BY <3>2, <3>3, <3>4 DEF Charged
  <2>7. ASSUME ~repriced, ~unsaved'
        PROVE  (\A d \in Days : daily'[d] <= Charged({d}, Counted)') /\ total' <= Charged(Days, Counted)'
    <3>1. ~unsaved
      BY <2>1, <2>7
    <3>2. (\A d \in Days : daily[d] <= Charged({d}, Counted)) /\ total <= Charged(Days, Counted)
      BY <2>7, <3>1 DEF CountersHold
    <3>3. CASE daily' = daily /\ total' = total
      BY <2>6, <2>7, <3>2, <3>3
    <3>4. CASE daily' = [d \in Days |-> 0] /\ total' = 0
      BY <2>6, <3>4
    <3> QED
      BY <2>2, <3>3, <3>4
  <2>8. ASSUME ~repriced, tracking, ~forgotten'
        PROVE  (\A d \in Days : Charged({d}, Counted)' <= daily'[d]) /\ Charged(Days, Counted)' <= total'
    <3>1. daily' = daily /\ total' = total /\ ~forgotten
      BY <2>2, <2>8
    <3>2. (\A d \in Days : Charged({d}, Counted) <= daily[d]) /\ Charged(Days, Counted) <= total
      BY <2>8, <3>1 DEF CountersHold
    <3>3. (\A d \in Days : daily[d] \in Nat) /\ total \in Nat
      BY DEF StatTypeOK
    <3> QED
      BY <2>6, <3>1, <3>2, <3>3
  <2> QED
    BY <2>1, <2>3, <2>4, <2>5, <2>7, <2>8 DEF CountersHold
<1>4. CASE \E p \in TokenPrices : Reprice(p)
  <2>1. /\ repriced' = TRUE /\ price' \in TokenPrices
        /\ UNCHANGED <<hour, zone, durable, tracking, daily, total, transit, table,
                       edge, edges, polled, cut, restarted, forgotten, unsaved>>
    BY <1>4 DEF Reprice
  <2>2. StatTypeOK'
    BY <2>1 DEF StatTypeOK
  <2>3. UtcDay' = UtcDay
    BY <2>1 DEF UtcDay
  <2> QED
    BY <2>1, <2>2, <2>3 DEF CountersHold
<1>5. CASE UNCHANGED statisticsVars
  <2>1. UNCHANGED <<hour, zone, durable, tracking, price, daily, total, transit, table,
                    edge, edges, polled, cut, repriced, restarted, forgotten, unsaved>>
    BY <1>5 DEF statisticsVars
  <2>2. UtcDay' = UtcDay
    BY <2>1 DEF UtcDay
  <2>3. StatTypeOK'
    BY <2>1 DEF StatTypeOK
  <2>4. \A days : Charged(days, Counted)' = Charged(days, Counted)
    BY <2>1, WorthsStay DEF Charged
  <2> QED
    BY <2>1, <2>2, <2>3, <2>4 DEF CountersHold
<1> QED
  BY <1>2, <1>3, <1>4, <1>5

(* Rows and what they are summed by.                                       *)
LEMMA RowsAreFinite ==
    ASSUME StatTypeOK
    PROVE  /\ DOMAIN table = 1 .. Len(table) /\ Len(table) \in Nat
           /\ \A rows : rows \subseteq DOMAIN table => IsFiniteSet(rows)
           /\ \A i \in DOMAIN table :
                /\ table[i].answer.tokens + table[i].answer.cached \in Nat
                /\ Cost(table[i].answer) \in Nat /\ table[i].answer \in Answers
                /\ table[i].at \in Nat /\ table[i].known \in Nat /\ table[i].spent \in Days
<1>1. DOMAIN table = 1 .. Len(table) /\ Len(table) \in Nat
  BY DEF StatTypeOK
<1>2. \A rows : rows \subseteq DOMAIN table => IsFiniteSet(rows)
  <2>1. IsFiniteSet(DOMAIN table)
    BY <1>1, FS_Interval
  <2> QED
    BY <2>1, FS_Subset
<1>3. ASSUME NEW i \in DOMAIN table
      PROVE  /\ table[i].answer.tokens + table[i].answer.cached \in Nat
             /\ Cost(table[i].answer) \in Nat /\ table[i].answer \in Answers
             /\ table[i].at \in Nat /\ table[i].known \in Nat /\ table[i].spent \in Days
  <2>1. table[i] \in StoredRows
    BY DEF StatTypeOK
  <2>2. /\ table[i].answer \in Answers /\ table[i].spent \in Days
        /\ table[i].at \in Nat /\ table[i].known \in Nat
    BY <2>1 DEF StoredRows
  <2>3. table[i].answer.tokens \in Nat /\ table[i].answer.cached \in Nat
    BY <2>2, StatisticsAssumption
  <2>4. Cost(table[i].answer) \in Nat
    BY <2>2, CostsAreNatural
  <2> QED
    BY <2>2, <2>3, <2>4
<1> QED
  BY <1>1, <1>2, <1>3

LEMMA TokensAreNatural ==
    ASSUME StatTypeOK, NEW rows \in SUBSET DOMAIN table
    PROVE  Tokens(rows) \in Nat
<1> DEFINE f == [i \in DOMAIN table |-> table[i].answer.tokens + table[i].answer.cached]
<1>1. IsFiniteSet(rows) /\ \A i \in rows : f[i] \in Nat
  BY RowsAreFinite
<1> HIDE DEF f
<1>2. SumFunctionOnSet(f, rows) \in Nat
  BY <1>1, SumNat
<1> QED
  BY <1>2 DEF Tokens, f

LEMMA TokensAdd ==
    ASSUME StatTypeOK, NEW A \in SUBSET DOMAIN table, NEW B \in SUBSET DOMAIN table, A \cap B = {}
    PROVE  Tokens(A \cup B) = Tokens(A) + Tokens(B)
<1> DEFINE f == [i \in DOMAIN table |-> table[i].answer.tokens + table[i].answer.cached]
<1>1. IsFiniteSet(A) /\ IsFiniteSet(B) /\ \A i \in A \cup B : f[i] \in Int
  BY RowsAreFinite
<1> HIDE DEF f
<1>2. SumFunctionOnSet(f, A \cup B) = SumFunctionOnSet(f, A) + SumFunctionOnSet(f, B)
  BY <1>1, SumDisjoint
<1> QED
  BY <1>2 DEF Tokens, f

LEMMA TokensOfSome ==
    ASSUME StatTypeOK, NEW B \in SUBSET DOMAIN table, NEW A \in SUBSET B
    PROVE  Tokens(A) <= Tokens(B)
<1>1. A \cup (B \ A) = B /\ A \cap (B \ A) = {} /\ A \in SUBSET DOMAIN table /\ B \ A \in SUBSET DOMAIN table
  OBVIOUS
<1>2. Tokens(A \cup (B \ A)) = Tokens(A) + Tokens(B \ A)
  BY <1>1, TokensAdd
<1>3. Tokens(A) \in Nat /\ Tokens(B \ A) \in Nat
  BY <1>1, TokensAreNatural
<1>4. Tokens(B) = Tokens(A) + Tokens(B \ A)
  BY <1>1, <1>2, Zenon
<1> QED
  BY ONLY <1>3, <1>4

(* A limit takes rows away only if there are more.                         *)
LEMMA NewestOfFew ==
    ASSUME NEW rows, NEW limit, StatTypeOK, rows \subseteq DOMAIN table, limit \in Nat
    PROVE  /\ Newest(rows, limit) \subseteq rows
           /\ Cardinality(rows) <= limit => Newest(rows, limit) = rows
<1> DEFINE Later(i, j) == table[i].at > table[j].at \/ (table[i].at = table[j].at /\ i > j)
           Before(i) == {j \in rows : Later(j, i)}
<1>1. Newest(rows, limit) = {i \in rows : Cardinality(Before(i)) < limit}
  BY DEF Newest
<1>2. ASSUME Cardinality(rows) <= limit, NEW i \in rows PROVE Cardinality(Before(i)) < limit
  <2>1. IsFiniteSet(rows)
    BY RowsAreFinite
  <2>2. i \in DOMAIN table /\ table[i].at \in Nat /\ i \in Int
    BY RowsAreFinite
  <2>3. i \notin Before(i)
    BY <2>2
  <2>4. Before(i) \subseteq rows \ {i}
    BY <2>3
  <2> HIDE DEF Before
  <2>5. IsFiniteSet(rows \ {i}) /\ Cardinality(rows \ {i}) = Cardinality(rows) - 1 /\ Cardinality(rows) \in Nat
    BY <2>1, FS_RemoveElement, FS_CardinalityType
  <2>6. Cardinality(Before(i)) <= Cardinality(rows \ {i}) /\ Cardinality(Before(i)) \in Nat
    BY <2>4, <2>5, FS_Subset, FS_CardinalityType
  <2> QED
    BY <1>2, <2>5, <2>6
<1> HIDE DEF Before
<1> QED
  BY <1>1, <1>2

(* The points of a time series make up the rows it was computed from.      *)
LEMMA PointsAddUp ==
    ASSUME StatTypeOK, NEW from, NEW to, NEW size
    PROVE  LET points == timeseriesStats(from, to, size) IN
           SumFunction([b \in DOMAIN points |-> points[b].tokens])
             = Tokens(Newest(RowsOf(from, to), Limit))
<1> DEFINE I == Newest(RowsOf(from, to), Limit)
           class == [i \in I |-> (table[i].at \div size) * size]
           K == {(table[i].at \div size) * size : i \in I}
           f == [i \in DOMAIN table |-> table[i].answer.tokens + table[i].answer.cached]
           g == [b \in K |-> Tokens({i \in I : (table[i].at \div size) * size = b})]
           points == timeseriesStats(from, to, size)
<1>1. [b \in DOMAIN points |-> points[b].tokens] = g /\ DOMAIN g = K
  BY DEF timeseriesStats, Sums
<1>2. I \subseteq DOMAIN table
  BY DEF Newest, RowsOf
<1> HIDE DEF I
<1>3. IsFiniteSet(I) /\ \A i \in I : f[i] \in Int
  BY <1>2, RowsAreFinite
<1>4. K = {class[i] : i \in I} /\ \A i \in I : class[i] \in K
  OBVIOUS
<1>5. \A b \in K : g[b] = SumFunctionOnSet(f, {i \in I : class[i] = b})
  <2> SUFFICES ASSUME NEW b \in K PROVE g[b] = SumFunctionOnSet(f, {i \in I : class[i] = b})
    OBVIOUS
  <2>1. {i \in I : class[i] = b} = {i \in I : (table[i].at \div size) * size = b}
    OBVIOUS
  <2> QED
    BY <2>1 DEF Tokens
<1>6. Tokens(I) = SumFunctionOnSet(f, I)
  BY DEF Tokens
<1> HIDE DEF K, class, f, g, points
<1>7. IsFiniteSet(K)
  BY <1>3, <1>4, FiniteImage
<1>8. SumFunctionOnSet(g, K) = SumFunctionOnSet(f, I)
  <2>1. \A i \in I : f[i] \in Int /\ class[i] \in K
    BY <1>3, <1>4
  <2>2. IsFiniteSet(I)
    BY <1>3
  <2> QED
    BY ONLY <1>5, <1>7, <2>1, <2>2, SumParted, SMTT(60)
<1>9. SumFunction(g) = Tokens(I)
  BY <1>1, <1>6, <1>8, SumWhole
<1> QED
  BY <1>1, <1>9 DEF points, I

LEMMA PollKeepsStat ==
    ASSUME StatTypeOK, CountersHold, PollsHold, NEW size, Poll(size)
    PROVE  StatTypeOK' /\ CountersHold' /\ PollsHold'
<1> DEFINE R == RowsOf(edge, hour)
           N == Newest(R, Limit)
           Fresh == {i \in DOMAIN table : table[i].known = edge /\ table[i].at >= edge}
           Again == {i \in DOMAIN table : table[i].known < edge /\ table[i].at = edge}
<1>1. /\ edge < hour /\ edge' = hour /\ edges' = edges \cup {hour}
      /\ polled' = polled + Tokens(N)
      /\ cut' = (cut \/ Cardinality(R) > Limit)
      /\ UNCHANGED <<hour, zone, durable, tracking, price, daily, total, transit, table,
                     repriced, restarted, forgotten, unsaved>>
  BY PointsAddUp DEF Poll
<1>2. hour \in Nat /\ edge \in Nat /\ edges \subseteq Nat /\ polled \in Nat /\ Limit \in Nat
  BY StatisticsAssumption DEF StatTypeOK
<1>3. R \in SUBSET DOMAIN table /\ N \in SUBSET R /\ (Cardinality(R) <= Limit => N = R)
  <2>1. R \in SUBSET DOMAIN table
    BY DEF RowsOf
  <2> HIDE DEF R
  <2> QED
    BY <1>2, <2>1, NewestOfFew
<1>4. \A i \in DOMAIN table : /\ table[i].known \in Nat /\ table[i].at \in Nat
                              /\ table[i].known <= edge /\ table[i].at <= hour
                              /\ table[i].known < edge => table[i].at <= edge
  BY RowsAreFinite DEF PollsHold
<1>5. R = Fresh \cup Again /\ Fresh \cap Again = {}
  BY <1>2, <1>4 DEF RowsOf, InRange
<1>6. Asked' = Asked \cup Fresh /\ Asked \cap Fresh = {}
  <2>1. Asked' = {i \in DOMAIN table : table[i].known <= table[i].at /\ table[i].known < hour}
    BY <1>1 DEF Asked
  <2>2. Asked = {i \in DOMAIN table : table[i].known <= table[i].at /\ table[i].known < edge}
    BY DEF Asked
  <2> QED
    BY <1>1, <1>2, <1>4, <2>1, <2>2
<1>7. OnEdge' = OnEdge \cup Again /\ OnEdge \cap Again = {}
  <2>1. OnEdge' = {i \in Asked' : table[i].at \in (edges \cup {hour}) \ {table[i].known, hour}}
    BY <1>1 DEF OnEdge
  <2>2. OnEdge = {i \in Asked : table[i].at \in edges \ {table[i].known, edge}}
    BY DEF OnEdge
  <2>3. edge \in edges
    BY DEF PollsHold
  <2>4. ASSUME NEW i \in DOMAIN table PROVE i \in OnEdge' <=> i \in OnEdge \cup Again
    <3>1. i \in Asked <=> table[i].known <= table[i].at /\ table[i].known < edge
      BY DEF Asked
    <3>2. i \in OnEdge' <=> i \in Asked \cup Fresh /\ table[i].at \in edges
                              /\ table[i].at # table[i].known /\ table[i].at # hour
      BY <1>6, <2>1
    <3>3. i \in OnEdge <=> i \in Asked /\ table[i].at \in edges
                             /\ table[i].at # table[i].known /\ table[i].at # edge
      BY <2>2
    <3>4. \A e \in edges : e <= edge
      BY DEF PollsHold
    <3> QED
      BY <1>1, <1>2, <1>4, <2>3, <3>1, <3>2, <3>3, <3>4
  <2>5. OnEdge' \subseteq DOMAIN table /\ OnEdge \cup Again \subseteq DOMAIN table
    BY <1>6, <2>1 DEF Asked, OnEdge
  <2> QED
    BY <2>2, <2>4, <2>5
<1>8. /\ Asked \in SUBSET DOMAIN table /\ OnEdge \in SUBSET DOMAIN table
      /\ Fresh \in SUBSET DOMAIN table /\ Again \in SUBSET DOMAIN table
  BY DEF Asked, OnEdge
<1> HIDE DEF R, N, Fresh, Again
<1>9. /\ Tokens(R) = Tokens(Fresh) + Tokens(Again)
      /\ Tokens(Asked \cup Fresh) = Tokens(Asked) + Tokens(Fresh)
      /\ Tokens(OnEdge \cup Again) = Tokens(OnEdge) + Tokens(Again)
  BY <1>5, <1>6, <1>7, <1>8, TokensAdd
<1>10. /\ Tokens(Asked) \in Nat /\ Tokens(OnEdge) \in Nat
       /\ Tokens(Fresh) \in Nat /\ Tokens(Again) \in Nat /\ Tokens(N) \in Nat
       /\ Tokens(N) <= Tokens(R)
  BY <1>3, <1>8, TokensAreNatural, TokensOfSome
<1>11. \A rows : Tokens(rows)' = Tokens(rows')
  BY <1>1 DEF Tokens
<1>12. Tokens(Asked)' = Tokens(Asked) + Tokens(Fresh) /\ Tokens(OnEdge)' = Tokens(OnEdge) + Tokens(Again)
  <2>1. Tokens(Asked)' = Tokens(Asked \cup Fresh)
    BY <1>1, <1>6 DEF Tokens
  <2>2. Tokens(OnEdge)' = Tokens(OnEdge \cup Again)
    BY <1>1, <1>7 DEF Tokens
  <2> QED
    BY <1>9, <2>1, <2>2
<1>13. RangesAdjoin'
  <2>1. polled <= Tokens(Asked) + Tokens(OnEdge) /\ (~cut => polled = Tokens(Asked) + Tokens(OnEdge))
    BY DEF PollsHold, RangesAdjoin
  <2>2. polled' <= Tokens(Asked)' + Tokens(OnEdge)'
    BY <1>1, <1>2, <1>9, <1>10, <1>12, <2>1
  <2>3. ~cut' => ~cut /\ Tokens(N) = Tokens(R)
    <3>1. Cardinality(R) \in Nat
      BY <1>3, RowsAreFinite, FS_CardinalityType
    <3>2. ~cut' => ~cut /\ ~(Cardinality(R) > Limit)
      BY <1>1, Zenon
    <3>3. ~(Cardinality(R) > Limit) => Cardinality(R) <= Limit
      BY <1>2, <3>1
    <3> QED
      BY <1>3, <3>2, <3>3, Zenon
  <2>4. ~cut' => polled' = Tokens(Asked)' + Tokens(OnEdge)'
    BY <1>1, <1>2, <1>9, <1>10, <1>12, <2>1, <2>3
  <2> QED
    BY <2>2, <2>4 DEF RangesAdjoin
<1>14. PollsHold'
  <2>1. edge' \in edges' /\ edge' <= hour' /\ \A e \in edges' : e <= edge'
    BY <1>1, <1>2 DEF PollsHold
  <2>2. \A i \in DOMAIN table' :
          /\ table'[i].known <= edge' /\ table'[i].at <= hour'
          /\ table'[i].known < edge' => table'[i].at <= edge'
    BY <1>1, <1>2, <1>4
  <2> QED
    BY <1>13, <2>1, <2>2 DEF PollsHold
<1>15. StatTypeOK'
  <2>1. polled' \in Nat /\ edge' \in Nat /\ edges' \subseteq Nat /\ cut' \in BOOLEAN
    BY <1>1, <1>2, <1>10 DEF StatTypeOK
  <2> QED
    BY <1>1, <2>1 DEF StatTypeOK
<1>16. CountersHold'
  <2>1. UtcDay' = UtcDay /\ \A days : Charged(days, Counted)' = Charged(days, Counted)
    BY <1>1, WorthsStay DEF UtcDay, Charged
  <2> QED
    BY <1>1, <2>1 DEF CountersHold
<1> QED
  BY <1>14, <1>15, <1>16

LEMMA OthersKeepPolls ==
    ASSUME StatTypeOK, PollsHold,
           \/ NextHour \/ Restart \/ \E p \in TokenPrices : Reprice(p)
           \/ \E a \in Answers : Answer(a)
           \/ UNCHANGED statisticsVars
    PROVE  PollsHold'
<1>1. hour' \in Nat /\ hour <= hour' /\ hour \in Nat
  <2>1. hour \in Nat
    BY StatisticsAssumption DEF StatTypeOK
  <2>2. hour' = hour \/ hour' = hour + 1
    BY DEF NextHour, Restart, Reprice, Answer, statisticsVars
  <2> QED
    BY <2>1, <2>2
<1>2. UNCHANGED <<table, edge, edges, polled, cut>>
  BY DEF NextHour, Restart, Reprice, Answer, statisticsVars
<1>3. RangesAdjoin'
  <2>1. Tokens(Asked)' = Tokens(Asked) /\ Tokens(OnEdge)' = Tokens(OnEdge)
    BY <1>2 DEF Tokens, Asked, OnEdge
  <2> QED
    BY <1>2, <2>1 DEF PollsHold, RangesAdjoin
<1>4. edge \in Nat /\ \A i \in DOMAIN table : table[i].at \in Nat
  BY RowsAreFinite DEF StatTypeOK
<1>5. edge' \in edges' /\ edge' <= hour' /\ \A e \in edges' : e <= edge'
  <2>1. edge \in edges /\ edge <= hour /\ \A e \in edges : e <= edge
    BY DEF PollsHold
  <2>2. edge' = edge /\ edges' = edges
    BY <1>2
  <2>3. edge <= hour'
    BY <1>1, <1>4, <2>1
  <2> QED
    BY <2>1, <2>2, <2>3
<1>6. ASSUME NEW i \in DOMAIN table
      PROVE  /\ table[i].known <= edge /\ table[i].at <= hour'
             /\ table[i].known < edge => table[i].at <= edge
  <2>1. /\ table[i].known <= edge /\ table[i].at <= hour
        /\ table[i].known < edge => table[i].at <= edge
    BY DEF PollsHold
  <2> QED
    BY <1>1, <1>4, <2>1
<1> QED
  BY <1>2, <1>3, <1>5, <1>6 DEF PollsHold

LEMMA KeepKeepsPolls ==
    ASSUME StatTypeOK, PollsHold, NEW i \in DOMAIN transit, Keep(i)
    PROVE  PollsHold'
<1>1. UNCHANGED <<hour, edge, edges, polled, cut>>
  BY DEF Keep
<1>2. CASE table' = table
  <2>1. Tokens(Asked)' = Tokens(Asked) /\ Tokens(OnEdge)' = Tokens(OnEdge)
    BY <1>1, <1>2 DEF Tokens, Asked, OnEdge
  <2> QED
    BY <1>1, <1>2, <2>1 DEF PollsHold, RangesAdjoin
<1>3. ASSUME NEW at \in transit[i].came .. hour, NEW row,
             row = [answer |-> transit[i].answer, spent |-> transit[i].spent,
                    at |-> at, known |-> edge],
             table' = Append(table, row)
      PROVE  PollsHold'
  <2> DEFINE n == Len(table) + 1
  <2>1. hour \in Nat /\ edge \in Nat /\ table \in Seq(StoredRows)
    BY StatisticsAssumption DEF StatTypeOK
  <2>2. transit[i].came \in Nat
    <3>1. transit[i] \in Charges
      BY DEF StatTypeOK
    <3> QED
      BY <3>1 DEF Charges
  <2>3. at \in Nat /\ at <= hour
    BY <2>1, <2>2
  <2>4. row.known = edge /\ row.at = at
    BY <1>3
  <2>5. /\ DOMAIN table = 1 .. Len(table) /\ Len(table) \in Nat
        /\ DOMAIN table' = DOMAIN table \cup {n} /\ n \notin DOMAIN table
        /\ table'[n] = row /\ \A j \in DOMAIN table : table'[j] = table[j]
    BY <1>3, <2>1
  <2> HIDE DEF n
  <2>6. Asked' = Asked /\ OnEdge' = OnEdge
    <3>1. Asked' = Asked
      BY <1>1, <2>1, <2>4, <2>5 DEF Asked
    <3> QED
      BY <1>1, <2>5, <3>1 DEF OnEdge, Asked
  <2>7. ASSUME NEW rows \in SUBSET DOMAIN table
        PROVE  SumFunctionOnSet([j \in DOMAIN table' |->
                                   table'[j].answer.tokens + table'[j].answer.cached], rows)
                 = Tokens(rows)
    <3> DEFINE f == [j \in DOMAIN table |-> table[j].answer.tokens + table[j].answer.cached]
               g == [j \in DOMAIN table' |-> table'[j].answer.tokens + table'[j].answer.cached]
    <3>1. IsFiniteSet(rows)
      BY RowsAreFinite
    <3>2. \A j \in rows : g[j] = f[j]
      BY <2>5
    <3> HIDE DEF f, g
    <3>3. SumFunctionOnSet(g, rows) = SumFunctionOnSet(f, rows)
      BY <3>1, <3>2, SumSame
    <3> QED
      BY <3>3 DEF f, g, Tokens
  <2>8. Tokens(Asked)' = Tokens(Asked) /\ Tokens(OnEdge)' = Tokens(OnEdge)
    <3>1. Asked \in SUBSET DOMAIN table /\ OnEdge \in SUBSET DOMAIN table
      BY DEF Asked, OnEdge
    <3>2. /\ Tokens(Asked)' = SumFunctionOnSet([j \in DOMAIN table' |->
                                   table'[j].answer.tokens + table'[j].answer.cached], Asked')
          /\ Tokens(OnEdge)' = SumFunctionOnSet([j \in DOMAIN table' |->
                                   table'[j].answer.tokens + table'[j].answer.cached], OnEdge')
      BY DEF Tokens
    <3> QED
      BY <2>6, <2>7, <3>1, <3>2
  <2>9. RangesAdjoin'
    BY <1>1, <2>8 DEF PollsHold, RangesAdjoin
  <2>10. ASSUME NEW j \in DOMAIN table'
         PROVE  /\ table'[j].known <= edge /\ table'[j].at <= hour
                /\ table'[j].known < edge => table'[j].at <= edge
    <3>1. CASE j \in DOMAIN table
      BY <2>5, <3>1 DEF PollsHold
    <3>2. CASE j = n
      BY <2>1, <2>3, <2>4, <2>5, <3>2
    <3> QED
      BY <2>5, <3>1, <3>2
  <2> QED
    BY <1>1, <2>9, <2>10 DEF PollsHold
<1>4. table' = table \/ \E at \in transit[i].came .. hour :
        table' = Append(table, [answer |-> transit[i].answer, spent |-> transit[i].spent,
                                at |-> at, known |-> edge])
  BY DEF Keep
<1> QED
  BY <1>2, <1>3, <1>4

LEMMA StatIsInvariant == StatisticsSpec => [](StatTypeOK /\ CountersHold /\ PollsHold)
<1> DEFINE StatInv == StatTypeOK /\ CountersHold /\ PollsHold
<1>1. StatInv /\ [StatisticsNext]_statisticsVars => StatInv'
  <2> SUFFICES ASSUME StatInv, [StatisticsNext]_statisticsVars PROVE StatInv'
    OBVIOUS
  <2>1. CASE \/ NextHour \/ Restart \/ \E p \in TokenPrices : Reprice(p)
             \/ UNCHANGED statisticsVars
    BY <2>1, RestKeepsCounters, OthersKeepPolls
  <2>2. ASSUME NEW a \in Answers, Answer(a) PROVE StatInv'
    BY <2>2, AnswerKeepsStat, OthersKeepPolls
  <2>3. ASSUME NEW i \in DOMAIN transit, Keep(i) PROVE StatInv'
    BY <2>3, KeepKeepsStat, KeepKeepsPolls
  <2>4. ASSUME NEW size \in {1, DayLength}, Poll(size) PROVE StatInv'
    BY <2>4, PollKeepsStat
  <2> QED
    BY <2>1, <2>2, <2>3, <2>4 DEF StatisticsNext
<1>2. StatisticsInit => StatInv
  BY StatInitially
<1> QED
  BY <1>1, <1>2, PTL DEF StatisticsSpec

(* The counters of the days on which something was charged, in fractions,  *)
(* against what it was worth.                                              *)
LEMMA WorthsCompared ==
    ASSUME StatTypeOK, NEW days
    PROVE  /\ Charged(days, Counted) \in Nat /\ Charged(days, Spent) \in Nat
           /\ Charged(days, Shortfall) \in Nat
           /\ Micro * Charged(days, Counted) <= Charged(days, Spent)
           /\ Charged(days, Spent) <= Micro * Charged(days, Counted) + Charged(days, Shortfall)
<1>1. /\ Spent \in Worths /\ Counted \in Worths /\ Shortfall \in Worths
      /\ Micro \in Nat
  BY CostsAreNatural, StatisticsAssumption
<1>2. ASSUME NEW seq \in ChargeLists
      PROVE  /\ SumOf(seq, days, Counted) \in Nat /\ SumOf(seq, days, Spent) \in Nat
             /\ SumOf(seq, days, Shortfall) \in Nat
             /\ Micro * SumOf(seq, days, Counted) <= SumOf(seq, days, Spent)
             /\ SumOf(seq, days, Spent) <= Micro * SumOf(seq, days, Counted) + SumOf(seq, days, Shortfall)
  <2> DEFINE f == [i \in DOMAIN seq |-> Counted[seq[i].answer]]
             g == [i \in DOMAIN seq |-> Spent[seq[i].answer]]
             h == [i \in DOMAIN seq |-> Shortfall[seq[i].answer]]
             m == [i \in DOMAIN seq |-> Micro * f[i]]
             p == [i \in DOMAIN seq |-> m[i] + h[i]]
             S == OnDays(seq, days)
  <2>1. IsFiniteSet(S) /\ S \subseteq DOMAIN seq
    BY OnDaysFinite
  <2>2. ASSUME NEW i \in S
        PROVE  /\ f[i] \in Int /\ g[i] \in Int /\ h[i] \in Int /\ m[i] \in Int /\ p[i] \in Int
               /\ m[i] = Micro * f[i] /\ p[i] = m[i] + h[i]
               /\ m[i] <= g[i] /\ g[i] <= p[i]
    <3>1. i \in DOMAIN seq
      BY <2>1
    <3>2. seq[i].answer \in Answers
      <4>1. seq[i] \in Charges \cup StoredRows
        BY <3>1 DEF ChargeLists
      <4> QED
        BY <4>1 DEF Charges, StoredRows
    <3> DEFINE a == seq[i].answer
    <3>3. /\ Cost(a) \in Nat /\ CostMicro(a) \in Nat /\ Micro * CostMicro(a) \in Nat
          /\ Micro * CostMicro(a) <= Cost(a) /\ Cost(a) <= Micro * CostMicro(a) + (Micro - 1)
      BY <3>2, CostsAreNatural
    <3>4. f[i] = CostMicro(a) /\ g[i] = Cost(a) /\ h[i] = Micro - 1
      BY <3>1, <3>2 DEF Counted, Spent, Shortfall
    <3>5. m[i] = Micro * f[i] /\ p[i] = m[i] + h[i]
      BY <3>1
    <3> HIDE DEF a, f, g, h, m, p
    <3> QED
      BY <1>1, <3>3, <3>4, <3>5
  <2> HIDE DEF f, g, h, m, p, S
  <2>3. /\ SumFunctionOnSet(m, S) = Micro * SumFunctionOnSet(f, S)
        /\ SumFunctionOnSet(p, S) = SumFunctionOnSet(m, S) + SumFunctionOnSet(h, S)
        /\ SumFunctionOnSet(m, S) <= SumFunctionOnSet(g, S)
        /\ SumFunctionOnSet(g, S) <= SumFunctionOnSet(p, S)
    <3>1. SumFunctionOnSet(m, S) = Micro * SumFunctionOnSet(f, S)
      BY <1>1, <2>1, <2>2, SumScaled
    <3>2. SumFunctionOnSet(p, S) = SumFunctionOnSet(m, S) + SumFunctionOnSet(h, S)
      BY <2>1, <2>2, SumPlus
    <3>3. SumFunctionOnSet(m, S) <= SumFunctionOnSet(g, S)
      BY <2>1, <2>2, SumAtMost
    <3>4. SumFunctionOnSet(g, S) <= SumFunctionOnSet(p, S)
      BY <2>1, <2>2, SumAtMost
    <3> QED
      BY <3>1, <3>2, <3>3, <3>4
  <2>4. /\ SumOf(seq, days, Counted) = SumFunctionOnSet(f, S)
        /\ SumOf(seq, days, Spent) = SumFunctionOnSet(g, S)
        /\ SumOf(seq, days, Shortfall) = SumFunctionOnSet(h, S)
    BY DEF SumOf, f, g, h, S
  <2>5. /\ SumOf(seq, days, Counted) \in Nat /\ SumOf(seq, days, Spent) \in Nat
        /\ SumOf(seq, days, Shortfall) \in Nat
    BY <1>1, SumOfIsNatural
  <2> QED
    BY <2>3, <2>4, <2>5
<1>3. table \in ChargeLists /\ transit \in ChargeLists
  BY DEF StatTypeOK, ChargeLists
<1> DEFINE c == SumOf(table, days, Counted)
           d == SumOf(transit, days, Counted)
<1>4. c \in Nat /\ d \in Nat
  BY <1>2, <1>3
<1>5. Micro * (c + d) = Micro * c + Micro * d /\ Micro * c \in Nat /\ Micro * d \in Nat
  BY <1>1, <1>4
<1> HIDE DEF c, d
<1>6. /\ Charged(days, Counted) = c + d
      /\ Charged(days, Spent) = SumOf(table, days, Spent) + SumOf(transit, days, Spent)
      /\ Charged(days, Shortfall) = SumOf(table, days, Shortfall) + SumOf(transit, days, Shortfall)
  BY DEF Charged, c, d
<1>7. /\ SumOf(table, days, Spent) \in Nat /\ SumOf(transit, days, Spent) \in Nat
      /\ SumOf(table, days, Shortfall) \in Nat /\ SumOf(transit, days, Shortfall) \in Nat
      /\ Micro * c <= SumOf(table, days, Spent) /\ Micro * d <= SumOf(transit, days, Spent)
      /\ SumOf(table, days, Spent) <= Micro * c + SumOf(table, days, Shortfall)
      /\ SumOf(transit, days, Spent) <= Micro * d + SumOf(transit, days, Shortfall)
  BY <1>2, <1>3 DEF c, d
<1> QED
  BY <1>4, <1>5, <1>6, <1>7

\* Multiplying by Micro keeps the order.
LEMMA MicroGrows ==
    ASSUME NEW a \in Nat, NEW b \in Nat, a <= b
    PROVE  Micro * a <= Micro * b /\ Micro * a \in Nat /\ Micro * b \in Nat
<1>1. Micro \in Nat /\ b - a \in Nat
  BY StatisticsAssumption
<1>2. Micro * (b - a) \in Nat /\ Micro * a \in Nat /\ Micro * b \in Nat
  BY <1>1
<1>3. Micro * b = Micro * a + Micro * (b - a)
  BY <1>1
<1> QED
  BY <1>2, <1>3

LEMMA NothingCharged ==
    ASSUME NEW d, d \notin Days, StatTypeOK, NEW w
    PROVE  Charged({d}, w) = 0
<1>1. ASSUME NEW seq \in ChargeLists PROVE SumOf(seq, {d}, w) = 0
  <2>1. ASSUME NEW i \in DOMAIN seq PROVE seq[i].spent # d
    <3>1. seq[i] \in Charges \cup StoredRows
      BY DEF ChargeLists
    <3> QED
      BY <3>1 DEF Charges, StoredRows
  <2>2. OnDays(seq, {d}) = {}
    BY <2>1 DEF OnDays
  <2> QED
    BY <2>2, SumEmpty DEF SumOf
<1>2. table \in ChargeLists /\ transit \in ChargeLists
  BY DEF StatTypeOK, ChargeLists
<1> QED
  BY <1>1, <1>2 DEF Charged

LEMMA DailyIsShown ==
    ASSUME StatTypeOK, CountersHold
    PROVE  DailyShown
<1>1. UtcDay \in Days /\ Days \subseteq Int /\ LocalDay \in Int
  BY DaysAreNumbers
<1>2. costStats.daily = Micro * (IF LocalDay \in Days THEN daily[LocalDay] ELSE 0)
  BY <1>1 DEF costStats, DailyCost, StatTypeOK
<1>3. Micro \in Nat /\ Micro * 0 = 0
  BY StatisticsAssumption
<1>4. ~tracking \/ LocalDay > UtcDay => costStats.daily = 0
  BY <1>1, <1>2, <1>3 DEF CountersHold
<1>5. /\ Charged({LocalDay}, Counted) \in Nat /\ Charged({LocalDay}, Spent) \in Nat
      /\ Charged({LocalDay}, Shortfall) \in Nat
      /\ Micro * Charged({LocalDay}, Counted) <= Charged({LocalDay}, Spent)
      /\ Charged({LocalDay}, Spent)
           <= Micro * Charged({LocalDay}, Counted) + Charged({LocalDay}, Shortfall)
  BY WorthsCompared
<1>6. CASE LocalDay \in Days
  <2>1. daily[LocalDay] \in Nat /\ costStats.daily = Micro * daily[LocalDay]
    BY <1>2, <1>6 DEF StatTypeOK
  <2>2. ASSUME ~repriced, ~unsaved PROVE costStats.daily <= Charged({LocalDay}, Spent)
    <3>1. daily[LocalDay] <= Charged({LocalDay}, Counted)
      BY <1>6, <2>2 DEF CountersHold
    <3>2. Micro * daily[LocalDay] <= Micro * Charged({LocalDay}, Counted)
          /\ Micro * daily[LocalDay] \in Nat /\ Micro * Charged({LocalDay}, Counted) \in Nat
      BY <1>5, <2>1, <3>1, MicroGrows
    <3> QED
      BY <1>5, <2>1, <3>2
  <2>3. ASSUME ~repriced, tracking, ~forgotten
        PROVE  Charged({LocalDay}, Spent) <= costStats.daily + Charged({LocalDay}, Shortfall)
    <3>1. Charged({LocalDay}, Counted) <= daily[LocalDay]
      BY <1>6, <2>3 DEF CountersHold
    <3>2. Micro * Charged({LocalDay}, Counted) <= Micro * daily[LocalDay]
          /\ Micro * daily[LocalDay] \in Nat /\ Micro * Charged({LocalDay}, Counted) \in Nat
      BY <1>5, <2>1, <3>1, MicroGrows
    <3> QED
      BY <1>5, <2>1, <3>2
  <2> QED
    BY <1>4, <2>2, <2>3 DEF DailyShown
<1>7. CASE LocalDay \notin Days
  <2>1. costStats.daily = 0 /\ \A w : Charged({LocalDay}, w) = 0
    BY <1>2, <1>3, <1>7, NothingCharged
  <2> QED
    BY <1>4, <2>1 DEF DailyShown
<1> QED
  BY <1>6, <1>7

(* Rounding the lines of a view moves their sum by half a cent for each.   *)
LEMMA RoundingAddsUp ==
    ASSUME NEW K, IsFiniteSet(K), NEW f, NEW g,
           \A k \in K : f[k] \in Nat /\ g[k] = round2(f[k])
    PROVE  /\ SumFunctionOnSet(f, K) \in Int /\ SumFunctionOnSet(g, K) \in Int
           /\ 2 * SumFunctionOnSet(g, K) <= 2 * SumFunctionOnSet(f, K) + Cent * Cardinality(K)
           /\ 2 * SumFunctionOnSet(f, K) <= 2 * SumFunctionOnSet(g, K) + Cent * Cardinality(K)
<1>1. Cent \in Nat \ {0}
  BY StatisticsAssumption
<1>2. ASSUME NEW x \in Nat
      PROVE  /\ round2(x) \in Int
             /\ 2 * round2(x) <= 2 * x + Cent /\ 2 * x <= 2 * round2(x) + Cent
  <2> DEFINE y == 2 * x + Cent
             c == 2 * Cent
             q == y \div c
  <2>1. y \in Nat /\ c \in Nat \ {0}
    BY <1>1
  <2> HIDE DEF y, c
  <2>2. q \in Int /\ c * q <= y /\ y < c * (q + 1)
    BY <2>1
  <2>3. round2(x) = q * Cent
    BY DEF round2, q, y, c
  <2> HIDE DEF q
  <2>4. c * (q + 1) = c * q + c /\ c * q \in Int
    BY <2>1, <2>2
  <2>5. 2 * (q * Cent) = c * q /\ q * Cent \in Int
    BY <1>1, <2>2 DEF c
  <2>6. c * q <= 2 * x + Cent /\ 2 * x < c * q + Cent
    BY <1>1, <2>1, <2>2, <2>4 DEF y, c
  <2> QED
    BY <1>1, <2>3, <2>4, <2>5, <2>6
<1> DEFINE f2 == [k \in K |-> f[k] + f[k]]
           g2 == [k \in K |-> g[k] + g[k]]
           cents == [k \in K |-> Cent]
           fc == [k \in K |-> f2[k] + cents[k]]
           gc == [k \in K |-> g2[k] + cents[k]]
<1>3. ASSUME NEW k \in K
      PROVE  /\ f[k] \in Int /\ g[k] \in Int
             /\ f2[k] = f[k] + f[k] /\ g2[k] = g[k] + g[k] /\ cents[k] = Cent
             /\ fc[k] = f2[k] + cents[k] /\ gc[k] = g2[k] + cents[k]
             /\ f2[k] \in Int /\ g2[k] \in Int /\ cents[k] \in Int /\ fc[k] \in Int /\ gc[k] \in Int
             /\ f2[k] <= gc[k] /\ g2[k] <= fc[k]
  <2>1. /\ f[k] \in Nat /\ g[k] \in Int
        /\ 2 * g[k] <= 2 * f[k] + Cent /\ 2 * f[k] <= 2 * g[k] + Cent
    BY <1>2
  <2> QED
    BY <1>1, <2>1
<1> HIDE DEF f2, g2, cents, fc, gc
<1>4. /\ SumFunctionOnSet(f2, K) = SumFunctionOnSet(f, K) + SumFunctionOnSet(f, K)
      /\ SumFunctionOnSet(g2, K) = SumFunctionOnSet(g, K) + SumFunctionOnSet(g, K)
  <2>1. SumFunctionOnSet(f2, K) = SumFunctionOnSet(f, K) + SumFunctionOnSet(f, K)
    BY <1>3, SumPlus
  <2>2. SumFunctionOnSet(g2, K) = SumFunctionOnSet(g, K) + SumFunctionOnSet(g, K)
    BY <1>3, SumPlus
  <2> QED
    BY <2>1, <2>2
<1>5. /\ SumFunctionOnSet(fc, K) = SumFunctionOnSet(f2, K) + SumFunctionOnSet(cents, K)
      /\ SumFunctionOnSet(gc, K) = SumFunctionOnSet(g2, K) + SumFunctionOnSet(cents, K)
  <2>1. SumFunctionOnSet(fc, K) = SumFunctionOnSet(f2, K) + SumFunctionOnSet(cents, K)
    BY <1>3, SumPlus
  <2>2. SumFunctionOnSet(gc, K) = SumFunctionOnSet(g2, K) + SumFunctionOnSet(cents, K)
    BY <1>3, SumPlus
  <2> QED
    BY <2>1, <2>2
<1>6. SumFunctionOnSet(f2, K) <= SumFunctionOnSet(gc, K)
  BY <1>3, SumAtMost
<1>7. SumFunctionOnSet(g2, K) <= SumFunctionOnSet(fc, K)
  BY <1>3, SumAtMost
<1>8. SumFunctionOnSet(cents, K) = Cent * Cardinality(K)
  BY <1>1, <1>3, SumConstant
<1>9. SumFunctionOnSet(f, K) \in Int /\ SumFunctionOnSet(g, K) \in Int
  BY <1>3, SumType
<1>10. Cent * Cardinality(K) \in Int
  BY <1>1, FS_CardinalityType
<1> QED
  BY <1>4, <1>5, <1>6, <1>7, <1>8, <1>9, <1>10

\* The rows of a class.
OfClass(rows, class, k) == {i \in rows : class[i] = k}

(* A view that sums the rows by some class of theirs, and rows without.    *)
LEMMA ViewAddsUp ==
    ASSUME StatTypeOK, CountersHold, tracking, ~repriced, transit = <<>>,
           NEW I \in SUBSET DOMAIN table, NEW class, NEW K, IsFiniteSet(K),
           \A i \in I : class[i] \in K, NEW view, DOMAIN view = K,
           \A k \in K : view[k].cost = round2(Costs(OfClass(I, class, k)))
    PROVE  AddsUp(view, Costs(DOMAIN table \ I))
<1> DEFINE w == [i \in DOMAIN table |-> Cost(table[i].answer)]
           f == [k \in K |-> Costs({i \in I : class[i] = k})]
           g == [k \in K |-> view[k].cost]
           R == DOMAIN table \ I
<1>1. /\ IsFiniteSet(I) /\ IsFiniteSet(R) /\ IsFiniteSet(DOMAIN table)
      /\ \A i \in DOMAIN table : w[i] \in Nat
  BY RowsAreFinite
<1>2. IsFiniteSet(K)
  OBVIOUS
<1>3. \A k \in K : f[k] = SumFunctionOnSet(w, {i \in I : class[i] = k}) /\ f[k] \in Nat
  <2> SUFFICES ASSUME NEW k \in K
               PROVE  f[k] = SumFunctionOnSet(w, {i \in I : class[i] = k}) /\ f[k] \in Nat
    OBVIOUS
  <2> DEFINE C == {i \in I : class[i] = k}
  <2>1. IsFiniteSet(C) /\ \A i \in C : w[i] \in Nat
    BY <1>1, FS_Subset
  <2>2. f[k] = SumFunctionOnSet(w, C)
    BY DEF Costs
  <2> HIDE DEF C, w, f
  <2>3. SumFunctionOnSet(w, C) \in Nat
    BY <2>1, SumNat
  <2> QED
    BY <2>2, <2>3 DEF C
<1>4. \A k \in K : g[k] = round2(f[k])
  BY DEF OfClass
<1>5. \A i \in I : class[i] \in K
  OBVIOUS
<1>6. /\ Costs(R) = SumFunctionOnSet(w, R)
      /\ SumFunction([k \in DOMAIN view |-> view[k].cost]) = SumFunctionOnSet(g, K)
  <2>1. DOMAIN g = K /\ g = [k \in DOMAIN view |-> view[k].cost]
    OBVIOUS
  <2> QED
    BY <2>1, SumWhole DEF Costs
<1>7. Charged(Days, Spent) = SumFunctionOnSet(w, DOMAIN table)
  <2>1. OnDays(table, Days) = DOMAIN table
    BY RowsAreFinite DEF OnDays
  <2>2. [i \in DOMAIN table |-> Spent[table[i].answer]] = w
    BY RowsAreFinite DEF Spent
  <2>3. SumOf(table, Days, Spent) = SumFunctionOnSet(w, DOMAIN table)
    BY <2>1, <2>2 DEF SumOf
  <2>4. SumOf(transit, Days, Spent) = 0
    BY SumOfNothing
  <2>5. SumFunctionOnSet(w, DOMAIN table) \in Nat
    <3> HIDE DEF w
    <3> QED
      BY <1>1, SumNat
  <2> QED
    BY <2>3, <2>4, <2>5 DEF Charged
<1>8. I \cup R = DOMAIN table /\ I \cap R = {}
  OBVIOUS
<1> HIDE DEF w, f, g, R
<1>9. SumFunctionOnSet(f, K) = SumFunctionOnSet(w, I)
  <2>1. \A i \in I : w[i] \in Int /\ class[i] \in K
    BY <1>1, <1>5
  <2>2. \A k \in K : f[k] = SumFunctionOnSet(w, {i \in I : class[i] = k})
    BY <1>3
  <2>3. IsFiniteSet(I)
    BY <1>1
  <2> QED
    BY ONLY <1>2, <2>1, <2>2, <2>3, SumParted, SMTT(60)
<1>10. SumFunctionOnSet(w, DOMAIN table) = SumFunctionOnSet(w, I) + SumFunctionOnSet(w, R)
  <2>1. \A i \in I \cup R : w[i] \in Int
    BY <1>1, <1>8
  <2>2. SumFunctionOnSet(w, I \cup R) = SumFunctionOnSet(w, I) + SumFunctionOnSet(w, R)
    BY <1>1, <1>8, <2>1, SumDisjoint
  <2> QED
    BY <1>8, <2>2
<1>11. /\ SumFunctionOnSet(f, K) \in Int /\ SumFunctionOnSet(g, K) \in Int
       /\ 2 * SumFunctionOnSet(g, K) <= 2 * SumFunctionOnSet(f, K) + Cent * Cardinality(K)
       /\ 2 * SumFunctionOnSet(f, K) <= 2 * SumFunctionOnSet(g, K) + Cent * Cardinality(K)
  BY <1>2, <1>3, <1>4, RoundingAddsUp
<1>12. SumFunctionOnSet(w, R) \in Int
  <2>1. \A i \in R : w[i] \in Int
    BY <1>1, <1>8
  <2> QED
    BY <1>1, <2>1, SumType
<1>13. /\ Charged(Days, Counted) \in Nat /\ Charged(Days, Spent) \in Nat
       /\ Charged(Days, Shortfall) \in Nat
       /\ Micro * Charged(Days, Counted) <= Charged(Days, Spent)
       /\ Charged(Days, Spent) <= Micro * Charged(Days, Counted) + Charged(Days, Shortfall)
  BY WorthsCompared
<1>14. costStats.total = Micro * total /\ total \in Nat
  BY DEF costStats, StatTypeOK
<1>15. Cent * Cardinality(K) \in Int
  BY <1>2, FS_CardinalityType, StatisticsAssumption
<1> DEFINE s == SumFunctionOnSet(g, K)
           x == SumFunctionOnSet(f, K)
           r == SumFunctionOnSet(w, R)
           n == Cent * Cardinality(K)
           spent == Charged(Days, Spent)
           slack == Charged(Days, Shortfall)
           shown == costStats.total
<1>16. spent = x + r /\ x \in Int /\ s \in Int /\ r \in Int /\ n \in Int /\ slack \in Nat
       /\ 2 * s <= 2 * x + n /\ 2 * x <= 2 * s + n
  BY <1>7, <1>9, <1>10, <1>11, <1>12, <1>13, <1>15
<1>17. ~unsaved => shown <= spent /\ shown \in Nat
  <2> SUFFICES ASSUME ~unsaved PROVE shown <= spent /\ shown \in Nat
    OBVIOUS
  <2>1. total <= Charged(Days, Counted)
    BY DEF CountersHold
  <2>2. Micro * total <= Micro * Charged(Days, Counted)
        /\ Micro * total \in Nat /\ Micro * Charged(Days, Counted) \in Nat
    BY <1>13, <1>14, <2>1, MicroGrows
  <2> QED
    BY <1>13, <1>14, <2>2
<1>18. ~forgotten => spent <= shown + slack /\ shown \in Nat
  <2> SUFFICES ASSUME ~forgotten PROVE spent <= shown + slack /\ shown \in Nat
    OBVIOUS
  <2>1. Charged(Days, Counted) <= total
    BY DEF CountersHold
  <2>2. Micro * Charged(Days, Counted) <= Micro * total
        /\ Micro * total \in Nat /\ Micro * Charged(Days, Counted) \in Nat
    BY <1>13, <1>14, <2>1, MicroGrows
  <2> QED
    BY <1>13, <1>14, <2>2
<1>19. AddsUp(view, Costs(R)) <=>
         /\ ~unsaved => 2 * shown <= 2 * (s + r) + n
         /\ ~forgotten => 2 * (s + r) <= 2 * (shown + slack) + n
  BY <1>6 DEF AddsUp
<1> HIDE DEF s, x, r, n, spent, slack, shown
<1>20. ~unsaved => 2 * shown <= 2 * (s + r) + n
  BY <1>16, <1>17
<1>21. ~forgotten => 2 * (s + r) <= 2 * (shown + slack) + n
  BY <1>16, <1>18
<1> QED
  BY <1>19, <1>20, <1>21 DEF R

LEMMA TotalsAreClose ==
    ASSUME StatTypeOK, CountersHold
    PROVE  TotalsAgree
<1> SUFFICES ASSUME tracking, ~repriced, transit = <<>>
             PROVE  /\ Len(table) <= Window => AddsUp(costStats.models, 0)
                    /\ Len(table) <= SessionWindow =>
                         AddsUp(listSessions,
                                Costs({i \in DOMAIN table : table[i].answer.session = ""}))
  BY DEF TotalsAgree
<1> DEFINE T == DOMAIN table
<1>1. Len(table) = Cardinality(T) /\ T \subseteq T
  <2>1. T = 1 .. Len(table) /\ Len(table) \in Nat
    BY RowsAreFinite
  <2>2. Cardinality(1 .. Len(table)) = Len(table)
    BY <2>1, FS_Interval
  <2> QED
    BY <2>1, <2>2
<1>2. Len(table) <= Window => Newest(T, Window) = T
  BY <1>1, NewestOfFew, StatisticsAssumption
<1>3. Len(table) <= SessionWindow => Newest(T, SessionWindow) = T
  BY <1>1, NewestOfFew, StatisticsAssumption
<1>4. ASSUME Len(table) <= Window PROVE AddsUp(costStats.models, 0)
  <2> DEFINE class == [i \in T |-> table[i].answer.model]
             K == {class[i] : i \in T}
             view == costStats.models
  <2>1. view = [m \in K |-> Sums({i \in T : table[i].answer.model = m})]
    <3>1. K = {table[i].answer.model : i \in T}
      OBVIOUS
    <3> QED
      BY <1>2, <1>4, <3>1 DEF costStats
  <2>2. DOMAIN view = K /\ \A m \in K : view[m].cost = round2(Costs(OfClass(T, class, m)))
    <3> SUFFICES ASSUME NEW m \in K PROVE view[m].cost = round2(Costs(OfClass(T, class, m)))
      BY <2>1
    <3>1. OfClass(T, class, m) = {i \in T : table[i].answer.model = m}
      BY DEF OfClass
    <3>2. view[m] = Sums({i \in T : table[i].answer.model = m})
      BY <2>1
    <3>3. \A rows : Sums(rows).cost = round2(Costs(rows))
      BY DEF Sums
    <3> QED
      BY <3>1, <3>2, <3>3
  <2> HIDE DEF class, view
  <2>3. IsFiniteSet(K) /\ \A i \in T : class[i] \in K
    BY RowsAreFinite, FiniteImage
  <2> HIDE DEF K
  <2>4. AddsUp(view, Costs(T \ T))
    BY <2>2, <2>3, ViewAddsUp
  <2>5. Costs(T \ T) = 0
    <3>1. T \ T = {}
      OBVIOUS
    <3> QED
      BY <3>1, SumEmpty DEF Costs
  <2> QED
    BY <2>4, <2>5 DEF view
<1>5. ASSUME Len(table) <= SessionWindow
      PROVE  AddsUp(listSessions, Costs({i \in T : table[i].answer.session = ""}))
  <2> DEFINE I == {i \in T : table[i].answer.session # ""}
             class == [i \in T |-> table[i].answer.session]
             K == {class[i] : i \in I}
             view == listSessions
  <2>1. K = {table[i].answer.session : i \in T} \ {""}
    OBVIOUS
  <2>2. DOMAIN view = K
    BY <1>3, <1>5, <2>1 DEF listSessions
  <2>3. \A m \in K : view[m].cost = round2(Costs(OfClass(I, class, m)))
    <3> SUFFICES ASSUME NEW m \in K PROVE view[m].cost = round2(Costs(OfClass(I, class, m)))
      OBVIOUS
    <3>1. OfClass(I, class, m) = {i \in T : table[i].answer.session = m}
      BY DEF OfClass
    <3>2. view[m].cost = Sums({i \in T : table[i].answer.session = m}).cost
      BY <1>3, <1>5, <2>1 DEF listSessions
    <3> QED
      BY <3>1, <3>2 DEF Sums
  <2>4. I \in SUBSET DOMAIN table /\ T \ I = {i \in T : table[i].answer.session = ""}
    OBVIOUS
  <2> HIDE DEF class, view
  <2>5. IsFiniteSet(K) /\ \A i \in I : class[i] \in K
    <3>1. IsFiniteSet(I)
      BY <2>4, RowsAreFinite
    <3> HIDE DEF I
    <3>2. IsFiniteSet(K)
      BY <3>1, FiniteImage
    <3> QED
      BY <3>2
  <2> HIDE DEF I, K
  <2>6. AddsUp(view, Costs(T \ I))
    BY <2>2, <2>3, <2>4, <2>5, ViewAddsUp
  <2> QED
    BY <2>4, <2>6 DEF view
<1> QED
  BY <1>4, <1>5

(* Invariant CountersMatch: the daily cost shown is what was spent on the  *)
(* UTC day that the local date names, nothing if that day is yet to come,  *)
(* and the costs by model and by session add up to the total, but for      *)
(* fractions, rounding and what failures and restarts took, whatever is    *)
(* on its way to the table and whenever it arrives.                        *)
THEOREM ViewsMatchCounters == StatisticsSpec => []CountersMatch
<1>1. StatTypeOK /\ CountersHold /\ PollsHold => CountersMatch
  BY DailyIsShown, TotalsAreClose DEF CountersMatch
<1> QED
  BY <1>1, StatIsInvariant, PTL

(* Invariant RangesAdjoin: a client that asks for one range after the      *)
(* other is told of each request once, on an edge twice, if stored late    *)
(* never, for any size of points, limit, requests and moments of saving.   *)
THEOREM RangesTellOnce == StatisticsSpec => []RangesAdjoin
<1>1. StatTypeOK /\ CountersHold /\ PollsHold => RangesAdjoin
  BY DEF PollsHold
<1> QED
  BY <1>1, StatIsInvariant, PTL

=============================================================================
