---------------------------- MODULE StoresProofs ----------------------------
(***************************************************************************)
(* Proofs about the stores: the counters in memory (MemoryStore), the      *)
(* migration of the database (Schema) and the table of requests with the   *)
(* clients that page through it (RequestStore).                            *)
(***************************************************************************)
EXTENDS MemoryStore, Schema, RequestStore, Aggregates

-----------------------------------------------------------------------------
(* For every set of keys, deltas and lifetimes: the lazily cleaned map of  *)
(* MemoryStore is well typed, never moves a live deadline, and implements  *)
(* the store whose counters vanish at their deadline.                      *)

(* An entry handed to a write call is an entry: the one in the map when it *)
(* is visible, a fresh one otherwise (memory.go:70-76 and 107-113).        *)
LEMMA EntryForType ==
    ASSUME TypeOK, NEW k \in Keys, NEW e \in Nat
    PROVE  EntryFor(k, e) \in Entry
BY DEF EntryFor, Held, TypeOK, Entry

(* A write call keeps the map well typed and reports an integer.           *)
LEMMA AddToType ==
    ASSUME TypeOK, NEW k \in Keys, NEW d \in Deltas, NEW en \in Entry,
           AddTo(k, en, d)
    PROVE  TypeOK'
<1>1. en.value + d \in Int /\ en.expiry \in Nat
  BY StoreAssumption DEF Entry
<1>2. [en EXCEPT !.value = @ + d] \in Entry
  BY <1>1 DEF Entry
<1>3. counters' \in [Keys -> Entry \cup {NoEntry}]
  BY <1>2 DEF AddTo, TypeOK
<1>4. reply' \subseteq Keys \X Int
  BY <1>1 DEF AddTo
<1> QED
  BY <1>3, <1>4 DEF AddTo, TypeOK

(* Every step of the store keeps the type invariant.                       *)
LEMMA TypeStep == TypeOK /\ [Next]_vars => TypeOK'
<1> SUFFICES ASSUME TypeOK, [Next]_vars PROVE TypeOK'
  OBVIOUS
<1>1. CASE Tick
  BY <1>1 DEF Tick, TypeOK
<1>2. CASE CleanExpired
  BY <1>2 DEF CleanExpired, TypeOK
<1>3. CASE Close
  BY <1>3 DEF Close, TypeOK
<1>4. ASSUME NEW k \in Keys, Reset(k) PROVE TypeOK'
  BY <1>4 DEF Reset, TypeOK
<1>5. ASSUME NEW k \in Keys, Get(k) PROVE TypeOK'
  <2>1. Held(k) => counters[k].value \in Int
    BY DEF Held, TypeOK, Entry
  <2> QED
    BY <1>5, <2>1 DEF Get, TypeOK
<1>6. ASSUME NEW k \in Keys, NEW d \in Deltas, Increment(k, d) PROVE TypeOK'
  <2>1. EntryFor(k, 0) \in Entry
    BY EntryForType
  <2> QED
    BY <1>6, <2>1, AddToType DEF Increment
<1>7. ASSUME NEW k \in Keys, NEW d \in Deltas, NEW ttl \in TTLs,
             IncrementWithTTL(k, d, ttl)
      PROVE  TypeOK'
  <2>1. now + ttl \in Nat
    BY StoreAssumption DEF TypeOK
  <2>2. EntryFor(k, now + ttl) \in Entry
    BY <2>1, EntryForType
  <2> QED
    BY <1>7, <2>2, AddToType DEF IncrementWithTTL
<1>8. ASSUME NEW ks \in SUBSET Keys, GetMany(ks) PROVE TypeOK'
  <2>1. \A j \in Keys : Held(j) => counters[j].value \in Int
    BY DEF Held, TypeOK, Entry
  <2>2. reply' \subseteq Keys \X Int
    BY <1>8, <2>1 DEF GetMany
  <2> QED
    BY <1>8, <2>2 DEF GetMany, TypeOK
<1>9. CASE UNCHANGED vars
  BY <1>9 DEF vars, TypeOK
<1> QED
  BY <1>1, <1>2, <1>3, <1>4, <1>5, <1>6, <1>7, <1>8, <1>9 DEF Next

(* Type correctness of the memory backend.                                 *)
THEOREM StoreTypeCorrect == Spec => []TypeOK
<1>1. Init => TypeOK
  BY DEF Init, TypeOK
<1> QED
  BY <1>1, TypeStep, PTL DEF Spec

-----------------------------------------------------------------------------
(* A write call on the lazy map adds to the visible counter exactly what   *)
(* the eager store adds, and starts a fresh counter in the same cases.     *)
LEMMA AddToRefines ==
    ASSUME TypeOK, NEW k \in Keys, NEW d \in Deltas, NEW e \in Nat,
           e = 0 \/ e >= now,
           AddTo(k, EntryFor(k, e), d)
    PROVE  Eager!AddFrom(k, d, e)
<1> DEFINE old == IF Visible[k] = NoEntry THEN [value |-> 0, expiry |-> e]
                                          ELSE Visible[k]
           new == [old EXCEPT !.value = @ + d]
<1>1. old = EntryFor(k, e)
  BY DEF Visible, EntryFor, Held
<1>2. old \in Entry
  BY <1>1, EntryForType
<1>3. new \in Entry /\ new.expiry = old.expiry
  BY <1>2, StoreAssumption DEF Entry
<1>4. ~Expired(old, now)
  BY DEF Visible, Held, Expired, TypeOK
<1>5. counters'[k] = new /\ now' = now /\ \A j \in Keys \ {k} : counters'[j] = counters[j]
  BY <1>1 DEF AddTo, TypeOK
<1>6. new # NoEntry /\ ~Expired(new, now)
  BY <1>3, <1>4, StoreAssumption DEF Expired
<1>7. Visible' = [Visible EXCEPT ![k] = new]
  <2> HIDE DEF new, old
  <2>1. Visible'[k] = new
    BY <1>5, <1>6 DEF Visible, Held, Expired
  <2>2. ASSUME NEW j \in Keys \ {k} PROVE Visible'[j] = Visible[j]
    BY <1>5 DEF Visible, Held, Expired
  <2> QED
    BY <2>1, <2>2 DEF Visible
<1>8. reply' = {<<k, old.value + d>>}
  BY <1>1 DEF AddTo
<1> QED
  BY <1>5, <1>7, <1>8 DEF Eager!AddFrom

(* The refinement's step: every call of the lazy map is the same call of   *)
(* the eager store, and cleanExpired and Close change nothing it can see.  *)
LEMMA EagerStep == TypeOK /\ [Next]_vars => [Eager!Next]_(Eager!vars)
<1> SUFFICES ASSUME TypeOK, [Next]_vars PROVE [Eager!Next]_(Eager!vars)
  OBVIOUS
<1>1. CASE Tick
  <2>1. now' = now + 1 /\ counters' = counters /\ reply' = reply
    BY <1>1 DEF Tick
  <2>2. ASSUME NEW k \in Keys
        PROVE  Visible'[k] = IF Visible[k] # NoEntry /\ Eager!Over(Visible[k], now + 1)
                             THEN NoEntry ELSE Visible[k]
    BY <2>1 DEF Visible, Held, Expired, Eager!Over, TypeOK, Entry
  <2>3. Visible' = [k \in Keys |->
                     IF Visible[k] # NoEntry /\ Eager!Over(Visible[k], now + 1)
                     THEN NoEntry ELSE Visible[k]]
    BY <2>2 DEF Visible
  <2> QED
    BY <2>1, <2>3 DEF Eager!Next, Eager!Tick
<1>2. CASE CleanExpired
  <2>1. Visible' = Visible
    BY <1>2 DEF CleanExpired, Visible, Held
  <2> QED
    BY <1>2, <2>1 DEF CleanExpired, Eager!vars
<1>3. CASE Close
  BY <1>3 DEF Close, Visible, Held, Eager!vars
<1>4. ASSUME NEW k \in Keys, Reset(k) PROVE Eager!Next
  <2>1. Visible' = [Visible EXCEPT ![k] = NoEntry]
    BY <1>4 DEF Reset, Visible, Held, TypeOK
  <2> QED
    BY <1>4, <2>1 DEF Reset, Eager!Next, Eager!Forget
<1>5. ASSUME NEW k \in Keys, Get(k) PROVE Eager!Next
  <2>1. Visible' = Visible
    BY <1>5 DEF Get, Visible, Held
  <2>2. Held(k) <=> Visible[k] # NoEntry
    BY DEF Visible, Held
  <2>3. Held(k) => Visible[k] = counters[k]
    BY DEF Visible
  <2>4. Eager!Read(k)
    BY <1>5, <2>1, <2>2, <2>3 DEF Get, Eager!Read
  <2> QED
    BY <2>4 DEF Eager!Next
<1>6. ASSUME NEW k \in Keys, NEW d \in Deltas, Increment(k, d) PROVE Eager!Next
  <2>1. Eager!AddFrom(k, d, 0)
    BY <1>6, AddToRefines DEF Increment
  <2> QED
    BY <2>1 DEF Eager!Next, Eager!Add
<1>7. ASSUME NEW k \in Keys, NEW d \in Deltas, NEW ttl \in TTLs,
             IncrementWithTTL(k, d, ttl)
      PROVE  Eager!Next
  <2>1. now + ttl \in Nat /\ now + ttl >= now
    BY StoreAssumption DEF TypeOK
  <2>2. Eager!AddFrom(k, d, now + ttl)
    BY <1>7, <2>1, AddToRefines DEF IncrementWithTTL
  <2> QED
    BY <2>2 DEF Eager!Next, Eager!AddUntil
<1>8. ASSUME NEW ks \in SUBSET Keys, GetMany(ks) PROVE Eager!Next
  <2>1. Visible' = Visible
    BY <1>8 DEF GetMany, Visible, Held
  <2>2. \A j \in Keys : Held(j) <=> Visible[j] # NoEntry
    BY DEF Visible, Held
  <2>3. \A j \in Keys : Held(j) => Visible[j] = counters[j]
    BY DEF Visible
  <2>4. {<<k, counters[k].value>> : k \in {j \in ks : Held(j)}}
        = {<<k, Visible[k].value>> : k \in {j \in ks : Visible[j] # NoEntry}}
    BY <2>2, <2>3
  <2>5. Eager!ReadAll(ks)
    BY <1>8, <2>1, <2>4 DEF GetMany, Eager!ReadAll
  <2> QED
    BY <2>5 DEF Eager!Next
<1>9. CASE UNCHANGED vars
  BY <1>9 DEF vars, Eager!vars, Visible, Held
<1> QED
  BY <1>1, <1>2, <1>3, <1>4, <1>5, <1>6, <1>7, <1>8, <1>9 DEF Next

(* What a write call leaves behind for a counter that stays live keeps the *)
(* deadline the counter had.                                               *)
LEMMA AddToKeepsDeadline ==
    ASSUME TypeOK, NEW k \in Keys, NEW d \in Deltas, NEW e \in Nat,
           AddTo(k, EntryFor(k, e), d),
           NEW j \in Keys, Held(j)
    PROVE  counters'[j].expiry = counters[j].expiry
<1> DEFINE old == EntryFor(k, e)
<1>1. old \in Entry
  BY EntryForType
<1>2. old.value + d \in Int
  BY <1>1, StoreAssumption DEF Entry
<1>3. [old EXCEPT !.value = @ + d].expiry = old.expiry
  BY <1>1, <1>2 DEF Entry
<1>4. j = k => old = counters[j]
  BY DEF EntryFor
<1>5. counters' = [counters EXCEPT ![k] = [old EXCEPT !.value = @ + d]]
  BY DEF AddTo
<1> HIDE DEF old
<1>6. j = k => counters'[j] = [old EXCEPT !.value = @ + d]
  BY <1>5 DEF TypeOK
<1>7. j # k => counters'[j] = counters[j]
  BY <1>5 DEF TypeOK
<1> QED
  BY <1>3, <1>4, <1>6, <1>7

(* A live counter's deadline never moves, for any keys and lifetimes: the  *)
(* windows the rate limiter counts in are fixed, not sliding.              *)
THEOREM WindowsAreFixed == Spec => DeadlineFixed
<1> DEFINE Kept == \A k \in Keys :
             Held(k) /\ counters'[k] # NoEntry /\ ~Expired(counters[k], now')
               => counters'[k].expiry = counters[k].expiry
<1>1. TypeOK /\ [Next]_vars => [Kept]_vars
  <2> SUFFICES ASSUME TypeOK, Next PROVE Kept
    OBVIOUS
  <2>1. CASE Tick \/ Close
    BY <2>1 DEF Tick, Close
  <2>2. CASE CleanExpired
    BY <2>2 DEF CleanExpired
  <2>3. ASSUME NEW k \in Keys, Reset(k) PROVE Kept
    BY <2>3 DEF Reset, TypeOK
  <2>4. ASSUME NEW k \in Keys, Get(k) PROVE Kept
    BY <2>4 DEF Get
  <2>5. ASSUME NEW k \in Keys, NEW d \in Deltas, Increment(k, d) PROVE Kept
    BY <2>5, AddToKeepsDeadline DEF Increment
  <2>6. ASSUME NEW k \in Keys, NEW d \in Deltas, NEW ttl \in TTLs,
               IncrementWithTTL(k, d, ttl)
        PROVE  Kept
    <3>1. now + ttl \in Nat
      BY StoreAssumption DEF TypeOK
    <3> QED
      BY <2>6, <3>1, AddToKeepsDeadline DEF IncrementWithTTL
  <2>7. ASSUME NEW ks \in SUBSET Keys, GetMany(ks) PROVE Kept
    BY <2>7 DEF GetMany
  <2> QED
    BY <2>1, <2>2, <2>3, <2>4, <2>5, <2>6, <2>7 DEF Next
<1> QED
  BY <1>1, StoreTypeCorrect, PTL DEF Spec, DeadlineFixed

(* MemoryStore implements EagerStore: what a caller reads from the memory  *)
(* backend never depends on when the janitor ran.                          *)
THEOREM RefinesEager == Spec => ActsEagerly
<1>1. Init => Eager!Init
  BY DEF Init, Eager!Init, Visible, Held
<1>2. QED
  BY <1>1, EagerStep, StoreTypeCorrect, PTL DEF Spec, ActsEagerly, Eager!Spec

-----------------------------------------------------------------------------
(***************************************************************************)
(* Proofs about Schema, for any number of instances, columns, kills and    *)
(* failing statements.                                                     *)
(* The columns that exist are a prefix of those to add.  An instance that  *)
(* has added one on SQLite (Active) has added all of them, is the only     *)
(* one, and finds exactly those that it has added itself; everything else  *)
(* follows from that.                                                      *)
(***************************************************************************)

AtIt(i) == phase[i] \in {"migrate", "mark"}
Active(i) == AtIt(i) /\ adding[i] > 1

Added == \A i \in Instances : AtIt(i) => 1 .. adding[i] - 1 \subseteq columns
OwnOnly == database = "sqlite" => \A i \in Instances : Active(i) => \A c \in columns : c < adding[i]
OneActive == database = "sqlite" => \A i, j \in Instances : Active(i) /\ Active(j) => i = j
MarkLast == \A i \in Instances : phase[i] = "mark" => adding[i] = Columns + 1
VersionIsWhole == version = 1 => columns = 1 .. Columns
ServingIsWhole == \A i \in Instances : phase[i] = "serving" => columns = 1 .. Columns
FirstIsFirst == columns # {} => 1 \in columns
MigratesUnversioned == database = "sqlite" => \A i \in Instances : AtIt(i) => found[i] = 0

SchemaInv ==
    /\ SchemaTypeOK
    /\ Added /\ OwnOnly /\ OneActive /\ MarkLast
    /\ VersionIsWhole /\ ServingIsWhole /\ FirstIsFirst /\ MigratesUnversioned

-----------------------------------------------------------------------------
\* Nothing exists and nobody runs.
LEMMA SchemaInitInv == SchemaInit => SchemaInv
BY SchemaAssumption
   DEF SchemaInit, SchemaInv, SchemaTypeOK, Added, OwnOnly, OneActive, MarkLast, VersionIsWhole,
       ServingIsWhole, FirstIsFirst, MigratesUnversioned, AtIt, Active

\* A start begins, a kill ends one: nobody becomes active.
LEMMA StartOrKill ==
    ASSUME SchemaInv, NEW i \in Instances, Open(i) \/ Kill(i)
    PROVE  SchemaInv'
<1>1. SchemaTypeOK'
  <2>1. CASE Open(i)
    <3>1. 1 \in 1 .. Columns + 1
      BY SchemaAssumption
    <3>2. adding' \in [Instances -> 1 .. Columns + 1] /\ kills' = kills /\ faults' = faults
      BY <2>1, <3>1 DEF SchemaInv, SchemaTypeOK, Open
    <3> QED BY <2>1, <3>2 DEF SchemaInv, SchemaTypeOK, Open
  <2>2. CASE Kill(i)
    <3>1. kills' \in 0 .. MaxKills
      BY <2>2, SchemaAssumption DEF SchemaInv, SchemaTypeOK, Kill
    <3> QED BY <2>2, <3>1 DEF SchemaInv, SchemaTypeOK, Kill
  <2> QED BY <2>1, <2>2
<1>2. (Added /\ OwnOnly /\ OneActive /\ MarkLast)'
  BY DEF SchemaInv, SchemaTypeOK, Open, Kill, Added, OwnOnly, OneActive, MarkLast, AtIt, Active
<1>3. (VersionIsWhole /\ ServingIsWhole /\ FirstIsFirst /\ MigratesUnversioned)'
  BY DEF SchemaInv, SchemaTypeOK, Open, Kill, VersionIsWhole, ServingIsWhole, FirstIsFirst,
         MigratesUnversioned, AtIt
<1> QED BY <1>1, <1>2, <1>3 DEF SchemaInv

\* adding is 1 before the version is read.
TablesFromOne == \A i \in Instances : phase[i] = "tables" => adding[i] = 1

\* A start gives up: nobody becomes active, and a column that is there all the same is one
\* of PostgreSQL's.
LEMMA FailInv ==
    ASSUME SchemaInv, NEW i \in Instances, StatementFails(i)
    PROVE  SchemaInv'
<1>1. /\ phase' = [phase EXCEPT ![i] = "exited"]
      /\ UNCHANGED <<database, version, found, adding, kills>>
      /\ columns \subseteq columns' /\ (database = "sqlite" => columns' = columns)
  BY DEF StatementFails
<1>2. columns' \subseteq 1 .. Columns /\ faults' \in 0 .. MaxFaults
  <2>1. faults' \in 0 .. MaxFaults
    BY SchemaAssumption DEF SchemaInv, SchemaTypeOK, StatementFails
  <2>2. ASSUME adding[i] <= Columns PROVE adding[i] \in 1 .. Columns
    BY <2>2, SchemaAssumption DEF SchemaInv, SchemaTypeOK
  <2> QED BY <2>1, <2>2 DEF SchemaInv, SchemaTypeOK, StatementFails
<1>3. SchemaTypeOK'
  BY <1>1, <1>2 DEF SchemaInv, SchemaTypeOK
<1>4. (Added /\ OwnOnly /\ OneActive /\ MarkLast)'
  BY <1>1 DEF SchemaInv, SchemaTypeOK, Added, OwnOnly, OneActive, MarkLast, AtIt, Active
<1>5. (VersionIsWhole /\ ServingIsWhole)'
  BY <1>1, <1>2 DEF SchemaInv, SchemaTypeOK, VersionIsWhole, ServingIsWhole
<1>6. FirstIsFirst'
  <2>1. CASE columns' = columns
    BY <2>1 DEF SchemaInv, FirstIsFirst
  <2>2. CASE columns' # columns
    <3>1. AtIt(i) /\ columns' = columns \cup {adding[i]} /\ adding[i] \in 1 .. Columns + 1
      BY <2>2 DEF SchemaInv, SchemaTypeOK, StatementFails, AtIt
    <3>2. adding[i] = 1 \/ 1 \in 1 .. adding[i] - 1
      BY <3>1, SchemaAssumption
    <3> QED BY <3>1, <3>2 DEF SchemaInv, Added, FirstIsFirst
  <2> QED BY <2>1, <2>2
<1>7. MigratesUnversioned'
  BY <1>1 DEF SchemaInv, SchemaTypeOK, MigratesUnversioned, AtIt
<1> QED BY <1>3, <1>4, <1>5, <1>6, <1>7 DEF SchemaInv

\* A version that was not read: a start migrates from the first column on.
LEMMA ReadFailsInv ==
    ASSUME SchemaInv, TablesFromOne, NEW i \in Instances, ReadFails(i)
    PROVE  SchemaInv'
<1>1. SchemaTypeOK'
  BY SchemaAssumption DEF SchemaInv, SchemaTypeOK, ReadFails
<1>2. (Added /\ OwnOnly /\ OneActive /\ MarkLast)'
  BY DEF SchemaInv, SchemaTypeOK, TablesFromOne, ReadFails, Added, OwnOnly, OneActive,
         MarkLast, AtIt, Active
<1>3. (VersionIsWhole /\ ServingIsWhole /\ FirstIsFirst /\ MigratesUnversioned)'
  BY DEF SchemaInv, SchemaTypeOK, ReadFails, VersionIsWhole, ServingIsWhole, FirstIsFirst,
         MigratesUnversioned, AtIt
<1> QED BY <1>1, <1>2, <1>3 DEF SchemaInv

LEMMA ReadInv ==
    ASSUME SchemaInv, TablesFromOne, NEW i \in Instances, ReadVersion(i)
    PROVE  SchemaInv'
<1>1. SchemaTypeOK'
  BY DEF SchemaInv, SchemaTypeOK, ReadVersion
<1>2. (Added /\ OwnOnly /\ OneActive /\ MarkLast)'
  BY DEF SchemaInv, SchemaTypeOK, TablesFromOne, ReadVersion, Added, OwnOnly, OneActive,
         MarkLast, AtIt, Active
<1>3. (VersionIsWhole /\ ServingIsWhole /\ FirstIsFirst /\ MigratesUnversioned)'
  BY DEF SchemaInv, SchemaTypeOK, ReadVersion, VersionIsWhole, ServingIsWhole, FirstIsFirst,
         MigratesUnversioned, AtIt
<1> QED BY <1>1, <1>2, <1>3 DEF SchemaInv

\* A new column comes behind all that exist, and only the active instance adds one.
LEMMA AddSQLiteInv ==
    ASSUME SchemaInv, NEW i \in Instances, AddColumnSQLite(i)
    PROVE  SchemaInv'
<1>1. CASE adding[i] \in columns
  <2>1. /\ phase' = [phase EXCEPT ![i] = "exited"]
        /\ UNCHANGED <<database, columns, version, found, adding, kills, faults>>
    BY <1>1 DEF AddColumnSQLite
  <2>2. SchemaTypeOK'
    BY <2>1 DEF SchemaInv, SchemaTypeOK
  <2>3. (Added /\ OwnOnly /\ OneActive /\ MarkLast)'
    BY <2>1 DEF SchemaInv, SchemaTypeOK, Added, OwnOnly, OneActive, MarkLast, AtIt, Active
  <2>4. (VersionIsWhole /\ ServingIsWhole /\ FirstIsFirst /\ MigratesUnversioned)'
    BY <2>1 DEF SchemaInv, SchemaTypeOK, VersionIsWhole, ServingIsWhole, FirstIsFirst,
                MigratesUnversioned, AtIt
  <2> QED BY <2>2, <2>3, <2>4 DEF SchemaInv
<1>2. CASE adding[i] \notin columns
  <2>1. /\ columns' = columns \cup {adding[i]} /\ adding' = [adding EXCEPT ![i] = @ + 1]
        /\ UNCHANGED <<database, version, found, phase, kills, faults>>
        /\ database = "sqlite" /\ phase[i] = "migrate" /\ adding[i] <= Columns
    BY <1>2 DEF AddColumnSQLite
  <2>2. adding[i] \in 1 .. Columns /\ columns \subseteq 1 .. Columns /\ adding'[i] = adding[i] + 1
    BY <2>1 DEF SchemaInv, SchemaTypeOK
  <2>3. SchemaTypeOK'
    <3>1. adding[i] + 1 \in 1 .. Columns + 1
      BY <2>2, SchemaAssumption
    <3>2. adding' \in [Instances -> 1 .. Columns + 1]
      BY <2>1, <3>1 DEF SchemaInv, SchemaTypeOK
    <3> QED BY <2>1, <2>2, <3>2 DEF SchemaInv, SchemaTypeOK
  <2>4. \A j \in Instances \ {i} : ~Active(j)
    <3>1. CASE adding[i] = 1
      BY <1>2, <3>1 DEF SchemaInv, SchemaTypeOK, Added, Active, AtIt
    <3>2. CASE adding[i] > 1
      BY <3>2, <2>1 DEF SchemaInv, OneActive, Active, AtIt
    <3> QED BY <3>1, <3>2, <2>2
  <2>5. \A c \in columns : c < adding[i]
    <3>1. CASE adding[i] = 1
      BY <1>2, <3>1 DEF SchemaInv, FirstIsFirst
    <3>2. CASE adding[i] > 1
      BY <3>2, <2>1 DEF SchemaInv, OwnOnly, Active, AtIt
    <3> QED BY <3>1, <3>2, <2>2
  <2>6. Added'
    BY <2>1, <2>2 DEF SchemaInv, SchemaTypeOK, Added, AtIt
  <2>7. (OwnOnly /\ OneActive)'
    <3>1. \A j \in Instances \ {i} : ~Active(j)'
      BY <2>1, <2>4 DEF SchemaInv, SchemaTypeOK, Active, AtIt
    <3>2. \A c \in columns' : c < adding'[i]
      BY <2>1, <2>2, <2>5
    <3> QED BY <3>1, <3>2 DEF OwnOnly, OneActive
  <2>8. MarkLast'
    BY <2>1 DEF SchemaInv, SchemaTypeOK, MarkLast
  <2>9. (VersionIsWhole /\ ServingIsWhole)'
    BY <2>1, <2>2, <1>2 DEF SchemaInv, VersionIsWhole, ServingIsWhole
  <2>10. FirstIsFirst'
    <3>1. adding[i] = 1 \/ 1 \in columns
      BY <2>1, <2>2 DEF SchemaInv, Added, AtIt
    <3> QED BY <3>1, <2>1 DEF FirstIsFirst
  <2>11. MigratesUnversioned'
    BY <2>1 DEF SchemaInv, MigratesUnversioned, AtIt
  <2> QED BY <2>3, <2>6, <2>7, <2>8, <2>9, <2>10, <2>11 DEF SchemaInv
<1> QED BY <1>1, <1>2

\* On PostgreSQL a column may exist already.
LEMMA AddPostgresInv ==
    ASSUME SchemaInv, NEW i \in Instances, AddColumnPostgres(i)
    PROVE  SchemaInv'
<1>1. /\ columns' = columns \cup {adding[i]} /\ adding' = [adding EXCEPT ![i] = @ + 1]
      /\ UNCHANGED <<database, version, found, phase, kills, faults>>
      /\ database = "postgres" /\ phase[i] = "migrate" /\ adding[i] <= Columns
  BY DEF AddColumnPostgres
<1>2. adding[i] \in 1 .. Columns /\ columns \subseteq 1 .. Columns /\ adding'[i] = adding[i] + 1
  BY <1>1 DEF SchemaInv, SchemaTypeOK
<1>3. SchemaTypeOK'
  <2>1. adding[i] + 1 \in 1 .. Columns + 1
    BY <1>2, SchemaAssumption
  <2>2. adding' \in [Instances -> 1 .. Columns + 1]
    BY <1>1, <2>1 DEF SchemaInv, SchemaTypeOK
  <2> QED BY <1>1, <1>2, <2>2 DEF SchemaInv, SchemaTypeOK
<1>4. Added'
  BY <1>1, <1>2 DEF SchemaInv, SchemaTypeOK, Added, AtIt
<1>5. (OwnOnly /\ OneActive /\ MigratesUnversioned)'
  BY <1>1 DEF OwnOnly, OneActive, MigratesUnversioned
<1>6. MarkLast'
  BY <1>1 DEF SchemaInv, SchemaTypeOK, MarkLast
<1>7. (VersionIsWhole /\ ServingIsWhole)'
  BY <1>1, <1>2 DEF SchemaInv, VersionIsWhole, ServingIsWhole
<1>8. FirstIsFirst'
  <2>1. adding[i] = 1 \/ 1 \in columns
    BY <1>1, <1>2 DEF SchemaInv, Added, AtIt
  <2> QED BY <2>1, <1>1 DEF FirstIsFirst
<1> QED BY <1>3, <1>4, <1>5, <1>6, <1>7, <1>8 DEF SchemaInv

\* Who is through has seen every column exist.
LEMMA FinishInv ==
    ASSUME SchemaInv, NEW i \in Instances, CreateIndexes(i) \/ SetVersion(i)
    PROVE  SchemaInv'
<1>1. adding[i] = Columns + 1 /\ AtIt(i)
  BY DEF SchemaInv, MarkLast, CreateIndexes, SetVersion, AtIt
<1>2. columns = 1 .. Columns
  <2>1. adding[i] - 1 = Columns
    BY <1>1, SchemaAssumption
  <2>2. 1 .. adding[i] - 1 \subseteq columns /\ columns \subseteq 1 .. Columns
    BY <1>1 DEF SchemaInv, SchemaTypeOK, Added
  <2> QED BY <2>1, <2>2
<1>3. SchemaTypeOK'
  BY DEF SchemaInv, SchemaTypeOK, CreateIndexes, SetVersion
<1>4. (Added /\ OwnOnly /\ OneActive /\ MarkLast)'
  BY DEF SchemaInv, SchemaTypeOK, CreateIndexes, SetVersion, Added, OwnOnly, OneActive, MarkLast,
         AtIt, Active
<1>5. (VersionIsWhole /\ ServingIsWhole /\ FirstIsFirst /\ MigratesUnversioned)'
  BY <1>2 DEF SchemaInv, SchemaTypeOK, CreateIndexes, SetVersion, VersionIsWhole, ServingIsWhole,
              FirstIsFirst, MigratesUnversioned, AtIt
<1> QED BY <1>3, <1>4, <1>5 DEF SchemaInv

\* Every step keeps both invariants.
LEMMA SchemaNextInv == SchemaInv /\ TablesFromOne /\ [SchemaNext]_schemaVars => (SchemaInv /\ TablesFromOne)'
<1> SUFFICES ASSUME SchemaInv, TablesFromOne, [SchemaNext]_schemaVars
             PROVE  SchemaInv' /\ TablesFromOne'
  OBVIOUS
<1>1. CASE UNCHANGED schemaVars
  BY <1>1 DEF schemaVars, SchemaInv, SchemaTypeOK, TablesFromOne, Added, OwnOnly, OneActive,
              MarkLast, VersionIsWhole, ServingIsWhole, FirstIsFirst, MigratesUnversioned, AtIt, Active
<1>2. ASSUME NEW i \in Instances, Open(i) \/ OpenStep(i) \/ Mishap(i)
      PROVE  SchemaInv' /\ TablesFromOne'
  <2>1. SchemaInv'
    BY <1>2, StartOrKill, ReadInv, AddSQLiteInv, AddPostgresInv, FinishInv, FailInv, ReadFailsInv
       DEF OpenStep, Mishap
  <2>2. TablesFromOne'
    BY <1>2 DEF SchemaInv, SchemaTypeOK, TablesFromOne, OpenStep, Mishap, Open, Kill, ReadVersion,
                AddColumnSQLite, AddColumnPostgres, CreateIndexes, SetVersion, StatementFails, ReadFails
  <2> QED BY <2>1, <2>2
<1> QED BY <1>1, <1>2 DEF SchemaNext

\* The invariant of the specification.
LEMMA SchemaInvariant == SchemaSpec => [](SchemaInv /\ TablesFromOne)
<1>1. SchemaInit => TablesFromOne
  BY DEF SchemaInit, TablesFromOne
<1> QED BY <1>1, SchemaInitInv, SchemaNextInv, PTL DEF SchemaSpec

-----------------------------------------------------------------------------
\* At most one instance migrates once a column exists.
LEMMA InvImpliesWhole == SchemaInv => WholeSchema
<1> SUFFICES ASSUME SchemaInv PROVE WholeSchema
  OBVIOUS
<1> DEFINE busy == {i \in Instances : Migrating(i)}
<1>1. ASSUME database = "sqlite", columns # {} PROVE Cardinality(busy) <= 1
  <2>1. \A i, j \in busy : i = j
    BY <1>1 DEF SchemaInv, OneActive, Active, AtIt, Migrating
  <2>2. CASE busy = {}
    BY <2>2, FS_EmptySet
  <2>3. CASE busy # {}
    <3>1. PICK i \in busy : busy = {i}
      BY <2>1, <2>3
    <3>2. Cardinality({i}) = 1
      BY FS_Singleton
    <3> HIDE DEF busy
    <3> QED BY <3>1, <3>2
  <2> QED BY <2>2, <2>3
<1> QED BY <1>1 DEF WholeSchema, SchemaInv, ServingIsWhole

(* The tables' columns, the version and the progress of every start are    *)
(* well typed (sqlite.go:27-121, postgres.go:33-120).                      *)
THEOREM SchemaTypeCorrect == SchemaSpec => []SchemaTypeOK
<1>1. SchemaInv => SchemaTypeOK
  BY DEF SchemaInv
<1> QED BY <1>1, SchemaInvariant, PTL

(* Whoever serves has the whole schema, and on SQLite two instances never  *)
(* migrate at the same time (sqlite.go:83-121, postgres.go:93-113).        *)
THEOREM SchemaIsWhole == SchemaSpec => []WholeSchema
BY InvImpliesWhole, SchemaInvariant, PTL

\* An instance whose statements do not fail gives up only on SQLite, when it took the version
\* for 0 and a migration was cut short, is done, or another one is at it (sqlite.go:83-103).
LEMMA GivesUpWithReason == SchemaSpec => GivesUpOnlyThen
<1> DEFINE Step == \A i \in Instances : phase[i] # "exited" /\ phase'[i] = "exited" /\ faults' = faults =>
                      /\ database = "sqlite" /\ found[i] = 0
                      /\ HalfMigrated \/ version = 1 \/ \E j \in Instances \ {i} : Migrating(j)
<1>1. SchemaInv /\ [SchemaNext]_schemaVars => [Step]_schemaVars
  <2> SUFFICES ASSUME SchemaInv, NEW k \in Instances, Open(k) \/ OpenStep(k) \/ Mishap(k),
                      NEW i \in Instances, phase[i] # "exited", phase'[i] = "exited", faults' = faults
               PROVE  /\ database = "sqlite" /\ found[i] = 0
                      /\ HalfMigrated \/ version = 1 \/ \E j \in Instances \ {i} : Migrating(j)
    BY DEF SchemaNext
  <2>1. /\ i = k /\ database = "sqlite" /\ phase[i] = "migrate" /\ adding[i] \in columns
    BY DEF SchemaInv, SchemaTypeOK, OpenStep, Mishap, Open, Kill, ReadVersion, AddColumnSQLite,
           AddColumnPostgres, CreateIndexes, SetVersion, StatementFails, ReadFails
  <2>2. found[i] = 0
    BY <2>1 DEF SchemaInv, MigratesUnversioned, AtIt
  <2>3. ~Migrating(i)
    BY <2>1 DEF SchemaInv, SchemaTypeOK, OwnOnly, Active, AtIt, Migrating
  <2>4. version = 0 \/ version = 1
    BY DEF SchemaInv, SchemaTypeOK
  <2> QED BY <2>1, <2>2, <2>3, <2>4 DEF HalfMigrated
<1> QED BY <1>1, SchemaInvariant, PTL DEF SchemaSpec, GivesUpOnlyThen

\* A migration that was cut short is never finished, by whichever later start
\* (sqlite.go:86-117).
LEMMA CutShortStays == SchemaSpec => CutShortForGood
<1> DEFINE Step == HalfMigrated => /\ UNCHANGED <<columns, version>> /\ HalfMigrated'
                                   /\ \A i \in Instances : phase'[i] = "serving" => phase[i] = "serving"
<1>1. SchemaInv /\ TablesFromOne /\ [SchemaNext]_schemaVars => [Step]_schemaVars
  <2> SUFFICES ASSUME SchemaInv, TablesFromOne, HalfMigrated,
                      NEW k \in Instances, Open(k) \/ OpenStep(k) \/ Mishap(k)
               PROVE  Step
    BY DEF SchemaNext
  <2>1. /\ database = "sqlite" /\ version = 0 /\ 1 \in columns
        /\ \A i \in Instances : ~Migrating(i)
    BY DEF HalfMigrated, SchemaInv, FirstIsFirst
  <2>2. ~CreateIndexes(k) /\ ~SetVersion(k) /\ ~AddColumnPostgres(k)
    BY <2>1, SchemaAssumption
       DEF SchemaInv, MarkLast, Migrating, CreateIndexes, SetVersion, AddColumnPostgres
  <2>3. CASE AddColumnSQLite(k)
    <3>1. adding[k] = 1
      BY <2>1, <2>3 DEF SchemaInv, SchemaTypeOK, Migrating, AddColumnSQLite
    <3>2. phase' = [phase EXCEPT ![k] = "exited"] /\ UNCHANGED <<database, columns, version, adding>>
      BY <2>1, <2>3, <3>1 DEF AddColumnSQLite
    <3> QED BY <2>1, <3>2 DEF SchemaInv, SchemaTypeOK, HalfMigrated, Migrating
  <2>4. CASE Open(k) \/ Kill(k)
    BY <2>1, <2>4 DEF SchemaInv, SchemaTypeOK, Open, Kill, HalfMigrated, Migrating
  <2>5. CASE ReadVersion(k)
    <3>1. adding[k] = 1 /\ phase' = [phase EXCEPT ![k] = "migrate"]
          /\ UNCHANGED <<database, columns, version, adding>>
      BY <2>1, <2>5 DEF TablesFromOne, ReadVersion
    <3> QED BY <2>1, <3>1 DEF SchemaInv, SchemaTypeOK, HalfMigrated, Migrating
  <2>6. CASE StatementFails(k)
    <3>1. phase' = [phase EXCEPT ![k] = "exited"] /\ UNCHANGED <<database, columns, version, adding>>
      BY <2>1, <2>6 DEF StatementFails
    <3> QED BY <2>1, <3>1 DEF SchemaInv, SchemaTypeOK, HalfMigrated, Migrating
  <2>7. CASE ReadFails(k)
    <3>1. adding[k] = 1 /\ phase' = [phase EXCEPT ![k] = "migrate"]
          /\ UNCHANGED <<database, columns, version, adding>>
      BY <2>1, <2>7 DEF TablesFromOne, ReadFails
    <3> QED BY <2>1, <3>1 DEF SchemaInv, SchemaTypeOK, HalfMigrated, Migrating
  <2> QED BY <2>2, <2>3, <2>4, <2>5, <2>6, <2>7 DEF OpenStep, Mishap
<1> QED BY <1>1, SchemaInvariant, PTL DEF SchemaSpec, CutShortForGood

\* An instance that gives up beside a migration, or adds or finishes, never leaves one half
\* done: who gives up has added nothing, and the one at it goes on (sqlite.go:88-117).
LEMMA CutShortExplained == SchemaSpec => CutShortByMishap
<1> DEFINE Step == ~HalfMigrated /\ HalfMigrated' => kills' > kills \/ faults' > faults
<1>1. SchemaInv /\ TablesFromOne /\ [SchemaNext]_schemaVars => [Step]_schemaVars
  <2> SUFFICES ASSUME SchemaInv, TablesFromOne, ~HalfMigrated, HalfMigrated',
                      NEW k \in Instances, Open(k) \/ OpenStep(k) \/ Mishap(k)
               PROVE  kills' > kills \/ faults' > faults
    BY DEF SchemaNext
  <2>1. CASE Mishap(k)
    BY <2>1 DEF SchemaInv, SchemaTypeOK, Mishap, Kill, StatementFails, ReadFails
  <2>2. CASE AddColumnSQLite(k)
    <3>1. CASE adding[k] \in columns
      <4>1. ~Migrating(k)
        BY <2>2, <3>1 DEF SchemaInv, SchemaTypeOK, OwnOnly, Active, AtIt, Migrating, AddColumnSQLite
      <4>2. phase' = [phase EXCEPT ![k] = "exited"] /\ UNCHANGED <<database, columns, version, adding>>
        BY <2>2, <3>1 DEF AddColumnSQLite
      <4> QED BY <4>1, <4>2 DEF SchemaInv, SchemaTypeOK, HalfMigrated, Migrating
    <3>2. CASE adding[k] \notin columns
      <4>1. Migrating(k)'
        BY <2>2, <3>2 DEF SchemaInv, SchemaTypeOK, AddColumnSQLite, Migrating
      <4> QED BY <4>1 DEF HalfMigrated
    <3> QED BY <3>1, <3>2
  <2>3. CASE Open(k)
    <3>1. ~Migrating(k) /\ phase' = [phase EXCEPT ![k] = "tables"]
          /\ adding' = [adding EXCEPT ![k] = 1] /\ UNCHANGED <<database, columns, version>>
      BY <2>3 DEF Open, Migrating
    <3> QED BY <3>1 DEF SchemaInv, SchemaTypeOK, HalfMigrated, Migrating
  <2>4. CASE ReadVersion(k)
    BY <2>4 DEF SchemaInv, SchemaTypeOK, ReadVersion, HalfMigrated, Migrating
  <2>5. CASE AddColumnPostgres(k) \/ SetVersion(k)
    BY <2>5 DEF AddColumnPostgres, SetVersion, HalfMigrated
  <2>6. CASE CreateIndexes(k)
    <3>1. CASE database = "postgres"
      BY <2>6, <3>1 DEF CreateIndexes, HalfMigrated
    <3>2. CASE database # "postgres"
      <4>1. database = "sqlite"
        BY <3>2 DEF SchemaInv, SchemaTypeOK
      <4>2. Migrating(k)'
        BY <2>6, <4>1, SchemaAssumption DEF SchemaInv, SchemaTypeOK, CreateIndexes, Migrating
      <4> QED BY <4>2 DEF HalfMigrated
    <3> QED BY <3>1, <3>2
  <2> QED BY <2>1, <2>2, <2>3, <2>4, <2>5, <2>6 DEF OpenStep
<1> QED BY <1>1, SchemaInvariant, PTL DEF SchemaSpec, CutShortByMishap

(* On SQLite a start in which no statement fails gives up only beside a    *)
(* migration, after one that was cut short, or for a version that it could *)
(* not read; only a kill or a failing statement cuts a migration short,    *)
(* and after that no start on SQLite serves (sqlite.go:83-121).            *)
THEOREM FailuresExplained == SchemaSpec => MigrationFails
BY GivesUpWithReason, CutShortStays, CutShortExplained, PTL DEF MigrationFails

-----------------------------------------------------------------------------
(***************************************************************************)
(* Proofs about RequestStore, for any sessions, page size and number of    *)
(* rows.  A client that follows cursors has seen whatever matches at its   *)
(* cursor or above; one that counts has seen whatever has fewer younger    *)
(* rows than it has counted.                                               *)
(***************************************************************************)

\* P is what may be on a page of n rows of T, newest first.
Top(P, T, n) ==
    /\ P \subseteq T /\ Cardinality(P) = Min({n, Cardinality(T)})
    /\ \A p \in P, q \in T \ P : p.at >= q.at

LEMMA PageIsTop ==
    ASSUME NEW S, NEW skip, NEW P \in PagesAfter(S, skip)
    PROVE  \E Q : Top(Q, S, skip) /\ Top(P, S \ Q, PageSize)
BY DEF PagesAfter, Top

(* A page is full unless it shows everything.                              *)
LEMMA TopCount ==
    ASSUME NEW T, IsFiniteSet(T), NEW n \in Nat, NEW P, Top(P, T, n)
    PROVE  /\ IsFiniteSet(P) /\ Cardinality(P) \in Nat /\ Cardinality(P) <= n
           /\ Cardinality(P) = n \/ P = T
<1>1. Cardinality(T) \in Nat
  BY FS_CardinalityType
<1> DEFINE m == {n, Cardinality(T)}
<1>2. m \in SUBSET Nat /\ m # {}
  BY <1>1
<1>3. Min(m) \in m /\ Min(m) <= n
  <2> HIDE DEF m
  <2> SUFFICES n \in m
    BY <1>2, MinOfNaturals
  <2> QED BY DEF m
<1>4. IsFiniteSet(P) /\ Cardinality(P) \in Nat
  BY FS_Subset, FS_CardinalityType DEF Top
<1>5. Cardinality(P) = Cardinality(T) => P = T
  BY FS_Subset DEF Top
<1> QED BY <1>3, <1>4, <1>5 DEF Top

(* The first page of the list below a cursor.                              *)
LEMMA FirstPage ==
    ASSUME NEW S, IsFiniteSet(S), NEW P \in PagesAfter(S, 0)
    PROVE  /\ P \subseteq S /\ IsFiniteSet(P)
           /\ \A p \in P, q \in S \ P : p.at >= q.at
           /\ Cardinality(P) = PageSize \/ P = S
<1>1. PICK Q : Top(Q, S, 0) /\ Top(P, S \ Q, PageSize)
  BY PageIsTop
<1>2. Q = {}
  <2>1. IsFiniteSet(Q) /\ Cardinality(Q) \in Nat /\ Cardinality(Q) <= 0
    BY <1>1, TopCount
  <2> QED BY <2>1, FS_EmptySet
<1>3. S \ Q = S
  BY <1>2
<1>4. Top(P, S, PageSize)
  BY <1>1, <1>3
<1> QED BY <1>4, TopCount, RequestStoreAssumption DEF Top

Above(r, S) == {q \in S : q.at > r.at}

(* Rows that are stamped differently, and a page of those behind the first *)
(* `skip' ones: it shows whatever has at least skip, and fewer than skip   *)
(* and a page of younger ones; if it is not full, whatever has as many.    *)
LEMMA PageBehind ==
    ASSUME NEW S, IsFiniteSet(S), \A r \in S : r.at \in Nat,
           \A r, q \in S : r # q => r.at # q.at,
           NEW skip \in Nat, NEW P \in PagesAfter(S, skip),
           NEW r \in S, Cardinality(Above(r, S)) >= skip,
           Cardinality(Above(r, S)) < skip + PageSize \/ Cardinality(P) # PageSize
    PROVE  r \in P
<1>1. PICK Q : Top(Q, S, skip) /\ Top(P, S \ Q, PageSize)
  BY PageIsTop
<1>2. PageSize \in Nat
  BY RequestStoreAssumption
<1>3. /\ Q \subseteq S /\ IsFiniteSet(Q) /\ Cardinality(Q) \in Nat /\ Cardinality(Q) <= skip
      /\ Cardinality(Q) = skip \/ Q = S
  BY <1>1, TopCount DEF Top
<1>4. IsFiniteSet(S \ Q)
  BY FS_Subset
<1>5. /\ P \subseteq S \ Q /\ IsFiniteSet(P) /\ Cardinality(P) \in Nat
      /\ Cardinality(P) = PageSize \/ P = S \ Q
  <2>1. /\ IsFiniteSet(P) /\ Cardinality(P) \in Nat
        /\ Cardinality(P) = PageSize \/ P = S \ Q
    BY <1>1, <1>2, <1>4, TopCount
  <2> QED BY <2>1, <1>1 DEF Top
<1>6. IsFiniteSet(Above(r, S)) /\ Cardinality(Above(r, S)) \in Nat
  BY FS_Subset, FS_CardinalityType DEF Above
<1>7. r \notin Q
  <2> SUFFICES ASSUME r \in Q PROVE FALSE
    OBVIOUS
  <2>1. \A q \in S \ Q : r.at >= q.at
    BY <1>1 DEF Top
  <2>2. Above(r, S) \subseteq Q \ {r}
    BY <2>1 DEF Above
  <2>3. IsFiniteSet(Q \ {r}) /\ Cardinality(Q \ {r}) = Cardinality(Q) - 1
    BY <1>3, FS_RemoveElement
  <2>4. Cardinality(Above(r, S)) <= Cardinality(Q \ {r})
    BY <2>2, <2>3, FS_Subset
  <2> QED BY <1>3, <1>6, <2>3, <2>4
<1> SUFFICES ASSUME r \notin P PROVE FALSE
  OBVIOUS
<1>8. Cardinality(Q) = skip /\ Cardinality(P) = PageSize
  BY <1>3, <1>5, <1>7
<1>9. P \cup Q \subseteq Above(r, S)
  <2>1. \A p \in P : p.at >= r.at
    BY <1>1, <1>7 DEF Top
  <2>2. \A p \in Q : p.at >= r.at
    BY <1>1, <1>7 DEF Top
  <2>3. \A p \in P \cup Q : p \in S /\ p # r
    BY <1>3, <1>5, <1>7
  <2> QED BY <2>1, <2>2, <2>3 DEF Above
<1>10. Cardinality(P \cup Q) = Cardinality(P) + Cardinality(Q)
  <2>1. P \cap Q = {}
    BY <1>5
  <2>2. Cardinality(P \cup Q) = Cardinality(P) + Cardinality(Q) - Cardinality(P \cap Q)
    BY <1>3, <1>5, FS_Union
  <2>3. Cardinality(P \cap Q) = 0
    BY ONLY <2>1, FS_EmptySet
  <2>4. Cardinality(P) \in Nat /\ Cardinality(Q) \in Nat
    BY <1>3, <1>5
  <2> QED BY ONLY <2>2, <2>3, <2>4
<1>11. Cardinality(P \cup Q) <= Cardinality(Above(r, S))
  BY <1>6, <1>9, FS_Subset
<1> QED BY <1>2, <1>6, <1>8, <1>10, <1>11

Row == [id : Nat, session : Sessions, big : BOOLEAN, gzip : BOOLEAN, at : Nat]

Compressed(r) == r.gzip \/ (compressing /\ r.big)

\* Every row is new, since the ids below its own are taken.
TableInv ==
    /\ engine \in {"sqlite", "postgres"} /\ compressing \in BOOLEAN /\ millis \in Nat
    /\ saving \subseteq Row /\ saved \subseteq Row
    /\ IsFiniteSet(saving \cup saved) /\ saving \cap saved = {}
    /\ \A r \in saving \cup saved : r.id <= Cardinality(saving \cup saved)
    /\ rows = {r \in saved : ~(engine = "postgres" /\ Compressed(r))}

ClientTyped ==
    /\ reading \in {"idle", "list", "session", "end", "failed"} /\ wanted \in Sessions
    /\ cursor \in Nat \cup {NoCursor} /\ offset \in Nat
    /\ atStart \subseteq rows /\ UNION pages \subseteq rows
    /\ cursor # NoCursor => reading \in {"list", "failed"}
    /\ reading \in {"idle", "list", "failed"} => offset = 0
    /\ reading = "idle" => cursor = NoCursor
    /\ cursor = NoCursor /\ offset = 0 /\ reading # "end" => pages = {}

Matching == {r \in atStart : r.session \in Containing[wanted]}
Seen(r) == r \in UNION pages \/ \E P \in pages : P # {} /\ r.at = Earliest(P)
Apart(P, Q) ==
    \/ \A p \in P, q \in Q : p.at > q.at
    \/ \A p \in P, q \in Q : p.at < q.at

Descending == \A P, Q \in pages : P # Q => Apart(P, Q)
AboveCursor == \A P \in pages : \A p \in P : p.at >= cursor
SeenToCursor == \A r \in Matching : r.at >= cursor => Seen(r)

ListInv ==
    offset = 0 =>
        /\ Descending
        /\ cursor # NoCursor => AboveCursor /\ SeenToCursor
        /\ reading = "end" => \A r \in Matching : Seen(r)

Distinct == \A r, q \in rows : r # q /\ r.session = q.session => r.at # q.at
OfSession(S) == {r \in S : r.session = wanted}

CountInv ==
    Distinct =>
        /\ reading = "session" =>
             \A r \in OfSession(atStart) :
                 Cardinality(Above(r, OfSession(rows))) < offset => r \in UNION pages
        /\ reading = "end" /\ offset > 0 => OfSession(atStart) \subseteq UNION pages

ClientInv == ClientTyped /\ ListInv /\ CountInv
RequestStoreInv == TableInv /\ ClientInv

(* What is saved compressed, and what is in the table.                     *)
LEMMA CompressedBody ==
    ASSUME TableInv, NEW r \in Row
    PROVE  CompressBody(r) > 0 <=> Compressed(r)
BY DEF TableInv, Row, CompressBody, Layers, Compressed

(* The table is finite.                                                    *)
LEMMA RowsFinite ==
    ASSUME TableInv
    PROVE  rows \subseteq Row /\ IsFiniteSet(rows)
<1>1. rows \subseteq saving \cup saved
  BY DEF TableInv
<1> QED BY <1>1, FS_Subset DEF TableInv

(* What does not touch the table keeps it.                                 *)
LEMMA TableKept ==
    ASSUME TableInv, UNCHANGED <<engine, compressing, saving, saved, rows>>, millis' \in Nat
    PROVE  TableInv'
<1>1. \A r : Compressed(r)' <=> Compressed(r)
  BY DEF Compressed
<1>2. {r \in saved' : ~(engine' = "postgres" /\ Compressed(r)')}
      = {r \in saved : ~(engine = "postgres" /\ Compressed(r))}
  BY <1>1
<1>3. rows' = {r \in saved' : ~(engine' = "postgres" /\ Compressed(r)')}
  BY <1>2 DEF TableInv
<1> QED BY <1>3 DEF TableInv

LEMMA RequestStoreInitInv == RequestStoreInit => RequestStoreInv
<1> SUFFICES ASSUME RequestStoreInit PROVE RequestStoreInv
  OBVIOUS
<1>1. IsFiniteSet({} \cup {})
  BY FS_EmptySet
<1>2. TableInv
  BY <1>1 DEF RequestStoreInit, TableInv
<1>3. ClientTyped
  BY DEF RequestStoreInit, ClientTyped
<1>4. ListInv /\ CountInv
  BY DEF RequestStoreInit, ListInv, Descending, CountInv
<1> QED BY <1>2, <1>3, <1>4 DEF RequestStoreInv, ClientInv

-----------------------------------------------------------------------------
(* Rows come in                                                            *)

(* A row that is stamped has an id of its own.                             *)
LEMMA StampInv ==
    ASSUME TableInv, NEW f \in Finished, Stamp(f)
    PROVE  TableInv' /\ rows' = rows
<1> DEFINE n == Cardinality(saving \cup saved)
           new == [id |-> n + 1, session |-> f.session, big |-> f.big, gzip |-> f.gzip,
                   at |-> millis]
<1>1. saving' = saving \cup {new} /\ UNCHANGED <<engine, compressing, millis, saved, rows>>
  BY DEF Stamp
<1>2. n \in Nat
  BY FS_CardinalityType DEF TableInv
<1>3. new \in Row /\ new.id = n + 1
  <2>1. f.session \in Sessions /\ f.big \in BOOLEAN /\ f.gzip \in BOOLEAN /\ millis \in Nat
    BY RequestStoreAssumption DEF TableInv
  <2> HIDE DEF n
  <2> QED BY <1>2, <2>1 DEF Row
<1> HIDE DEF new
<1>4. \A r \in saving \cup saved : r.id \in Nat /\ r.id <= n
  BY DEF TableInv, Row
<1>5. new \notin saving \cup saved
  <2> HIDE DEF n
  <2> QED BY <1>2, <1>3, <1>4
<1>6. saving' \cup saved' = (saving \cup saved) \cup {new}
  BY <1>1
<1>7. /\ IsFiniteSet((saving \cup saved) \cup {new})
      /\ Cardinality((saving \cup saved) \cup {new}) = n + 1
  BY <1>5, FS_AddElement DEF TableInv
<1>8. \A r \in saving' \cup saved' : r.id <= Cardinality(saving' \cup saved')
  <2>1. IsFiniteSet(saving' \cup saved') /\ Cardinality(saving' \cup saved') = n + 1
    BY <1>6, <1>7
  <2>2. \A r \in saving' \cup saved' : r.id \in Nat /\ r.id <= n + 1
    <3> HIDE DEF n
    <3> QED BY <1>2, <1>3, <1>6, <1>4
  <2> QED BY <2>1, <2>2
<1>9. IsFiniteSet(saving' \cup saved')
  BY <1>6, <1>7
<1>10. saving' \subseteq Row /\ saving' \cap saved' = {}
  BY <1>1, <1>3, <1>5 DEF TableInv
<1>11. rows' = {r \in saved' : ~(engine' = "postgres" /\ Compressed(r)')}
  BY <1>1 DEF TableInv, Compressed
<1> QED BY <1>1, <1>8, <1>9, <1>10, <1>11 DEF TableInv

(* A row that was not saved before is in the table if and only if its      *)
(* engine takes it.                                                        *)
LEMMA SaveInv ==
    ASSUME TableInv, NEW r \in saving, SaveSQLite(r) \/ SavePostgres(r)
    PROVE  TableInv' /\ rows \subseteq rows'
<1>1. /\ saving' = saving \ {r} /\ saved' = saved \cup {r}
      /\ UNCHANGED <<engine, compressing, millis>>
  BY DEF SaveSQLite, SavePostgres, Returns
<1>2. saving' \cup saved' = saving \cup saved
  BY <1>1
<1>3. r \in Row /\ r \notin saved
  BY DEF TableInv
<1>4. rows' = IF engine = "postgres" /\ Compressed(r) THEN rows ELSE rows \cup {r}
  BY <1>3, CompressedBody DEF SaveSQLite, SavePostgres, TableInv
<1>5. \A q : Compressed(q)' <=> Compressed(q)
  BY <1>1 DEF Compressed
<1>6. rows' = {q \in saved' : ~(engine' = "postgres" /\ Compressed(q)')}
  BY <1>1, <1>3, <1>4, <1>5 DEF TableInv
<1>7. saving' \subseteq Row /\ saved' \subseteq Row /\ saving' \cap saved' = {}
  BY <1>1, <1>3 DEF TableInv
<1>8. TableInv'
  BY <1>1, <1>2, <1>6, <1>7 DEF TableInv
<1> QED BY <1>4, <1>8

(* More rows above a row, or a tie: nothing that the client has to have    *)
(* seen.                                                                   *)
LEMMA RowsComeIn ==
    ASSUME ClientInv, TableInv', rows \subseteq rows', UNCHANGED client
    PROVE  ClientInv'
<1>1. ClientTyped'
  BY DEF ClientInv, ClientTyped, client
<1>2. ListInv'
  BY DEF ClientInv, ListInv, Descending, Apart, AboveCursor, SeenToCursor, Matching, Seen,
         Earliest, client
<1>3. ASSUME Distinct'
      PROVE CountInv'
  <2>1. Distinct
    BY <1>3 DEF Distinct
  <2>2. /\ wanted' = wanted /\ offset' = offset /\ reading' = reading
        /\ atStart' = atStart /\ pages' = pages
    BY DEF client
  <2>3. ASSUME NEW r \in OfSession(atStart), reading = "session",
               Cardinality(Above(r, OfSession(rows)')) < offset
        PROVE  r \in UNION pages
    <3>1. Above(r, OfSession(rows)) \subseteq Above(r, OfSession(rows)')
      BY <2>2 DEF Above, OfSession
    <3>2. IsFiniteSet(rows')
      <4>1. rows' \subseteq saving' \cup saved'
        BY DEF TableInv
      <4> QED BY <4>1, FS_Subset DEF TableInv
    <3>3. Above(r, OfSession(rows)') \subseteq rows'
      BY DEF Above, OfSession
    <3>4. IsFiniteSet(Above(r, OfSession(rows)'))
      BY <3>2, <3>3, FS_Subset
    <3>5. /\ Cardinality(Above(r, OfSession(rows))) <= Cardinality(Above(r, OfSession(rows)'))
          /\ Cardinality(Above(r, OfSession(rows))) \in Nat
          /\ Cardinality(Above(r, OfSession(rows)')) \in Nat
      BY <3>1, <3>4, FS_Subset, FS_CardinalityType
    <3>6. Cardinality(Above(r, OfSession(rows))) < offset
      BY <2>3, <3>5 DEF ClientInv, ClientTyped
    <3> QED BY <2>1, <2>3, <3>6 DEF ClientInv, CountInv
  <2>4. reading = "end" /\ offset > 0 => OfSession(atStart) \subseteq UNION pages
    BY <2>1 DEF ClientInv, CountInv
  <2> QED BY <2>2, <2>3, <2>4 DEF CountInv, OfSession, Above
<1> QED BY <1>1, <1>2, <1>3 DEF ClientInv, CountInv

-----------------------------------------------------------------------------
(* A client reads                                                          *)

(* A client that has seen nothing has to have seen nothing.                *)
LEMMA BeginInv ==
    ASSUME RequestStoreInv, NEW how \in {"list", "session"}, Begin(how)
    PROVE  ClientInv'
<1>1. /\ reading = "idle" /\ reading' = how /\ atStart' = rows
      /\ rows' = rows /\ wanted' = wanted /\ cursor' = cursor /\ offset' = offset /\ pages' = pages
  BY DEF Begin
<1>2. offset = 0 /\ cursor = NoCursor /\ pages = {}
  BY <1>1 DEF RequestStoreInv, ClientInv, ClientTyped
<1>3. ClientTyped'
  BY <1>1, <1>2 DEF RequestStoreInv, ClientInv, ClientTyped
<1>4. ListInv'
  BY <1>1, <1>2 DEF ListInv, Descending
<1>5. \A r : Cardinality(Above(r, OfSession(rows))) \in Nat
  <2> TAKE r
  <2>1. Above(r, OfSession(rows)) \subseteq rows /\ IsFiniteSet(rows)
    BY RowsFinite DEF Above, OfSession, RequestStoreInv
  <2> QED BY <2>1, FS_Subset, FS_CardinalityType
<1>6. CountInv'
  <2>1. \A r : Above(r, OfSession(rows))' = Above(r, OfSession(rows))
    BY <1>1 DEF Above, OfSession
  <2> QED BY <1>1, <1>2, <1>5, <2>1 DEF CountInv
<1> QED BY <1>3, <1>4, <1>6 DEF ClientInv

(* The cursor of a page is the time of its oldest row.                     *)
LEMMA EarliestIs ==
    ASSUME NEW P \in SUBSET Row, P # {}
    PROVE  /\ Earliest(P) \in Nat
           /\ \A p \in P : Earliest(P) <= p.at
           /\ \E p \in P : Earliest(P) = p.at
<1> DEFINE times == {r.at : r \in P}
<1>1. times \in SUBSET Nat /\ times # {}
  BY DEF Row
<1>2. Min(times) \in times /\ \A t \in times : Min(times) <= t
  <2> HIDE DEF times
  <2> QED BY <1>1, MinOfNaturals
<1> QED BY <1>1, <1>2 DEF Earliest

(* The next page lies below the cursor, and the rows it leaves out are no  *)
(* younger than its own last one.                                          *)
LEMMA ListRequestsInv ==
    ASSUME RequestStoreInv, ListRequests
    PROVE  ClientInv'
<1> DEFINE S == {r \in rows : r.session \in Containing[wanted] /\ Below(r.at, cursor)}
<1>1. /\ reading = "list" /\ offset' = offset /\ atStart' = atStart /\ wanted' = wanted
      /\ rows' = rows
  BY DEF ListRequests
<1>2. PICK P \in PagesAfter(S, 0) :
        /\ pages' = pages \cup {P}
        /\ reading' = IF HasNext(P) THEN "list" ELSE "end"
        /\ cursor' = IF HasNext(P) THEN Earliest(P) ELSE NoCursor
  BY DEF ListRequests, QueryRequests
<1>3. offset = 0 /\ ClientTyped /\ ListInv
  BY <1>1 DEF RequestStoreInv, ClientInv, ClientTyped
<1>4. rows \subseteq Row /\ IsFiniteSet(S)
  BY RowsFinite, FS_Subset DEF RequestStoreInv
<1>5. /\ P \subseteq S /\ IsFiniteSet(P)
      /\ \A p \in P, q \in S \ P : p.at >= q.at
      /\ HasNext(P) \/ P = S
  <2> HIDE DEF S
  <2> QED BY <1>4, FirstPage DEF HasNext
<1>6. UNION pages \subseteq Row /\ UNION pages \subseteq rows
  BY <1>3, <1>4 DEF ClientTyped
<1>7. \A Q \in pages, p \in P : \A q \in Q : p.at < q.at
  <2>1. CASE cursor = NoCursor
    BY <1>1, <1>3, <2>1 DEF ClientTyped
  <2>2. CASE cursor # NoCursor
    <3>1. cursor \in Nat /\ AboveCursor
      BY <1>3, <2>2 DEF ClientTyped, ListInv
    <3>2. \A p \in P : p.at < cursor /\ p.at \in Nat
      BY <1>4, <1>5, <2>2 DEF Below, Row
    <3>3. \A Q \in pages : \A q \in Q : q.at \in Nat /\ q.at >= cursor
      BY <3>1, <1>6 DEF AboveCursor, Row
    <3> HIDE DEF S
    <3> QED BY <3>1, <3>2, <3>3
  <2> QED BY <2>1, <2>2
<1>8. Descending'
  <2> SUFFICES ASSUME NEW A \in pages \cup {P}, NEW B \in pages \cup {P}, A # B PROVE Apart(A, B)
    BY <1>2 DEF Descending, Apart
  <2>1. CASE A \in pages /\ B \in pages
    BY <1>3, <2>1 DEF ListInv, Descending
  <2>2. CASE A = P /\ B \in pages
    BY <1>7, <2>2 DEF Apart
  <2>3. CASE A \in pages /\ B = P
    <3>1. \A a \in A, p \in P : a.at > p.at
      <4>1. \A a \in A, p \in P : p.at < a.at /\ p.at \in Nat /\ a.at \in Nat
        BY <1>4, <1>5, <1>6, <1>7, <2>3 DEF Row
      <4> QED BY <4>1
    <3> QED BY <2>3, <3>1 DEF Apart
  <2> QED BY <2>1, <2>2, <2>3
<1>9. \A r : Seen(r) => Seen(r)'
  BY <1>2 DEF Seen, Earliest
<1>10. \A r \in Matching : r \in Row /\ (r \in S \/ Seen(r))
  <2> SUFFICES ASSUME NEW r \in Matching PROVE r \in Row /\ (r \in S \/ Seen(r))
    OBVIOUS
  <2>1. r \in rows /\ r \in Row /\ r.session \in Containing[wanted]
    BY <1>3, <1>4 DEF Matching, ClientTyped
  <2>2. ASSUME ~Below(r.at, cursor) PROVE Seen(r)
    <3>1. cursor # NoCursor /\ cursor \in Nat
      BY <2>2, <1>3 DEF Below, ClientTyped
    <3>2. r.at >= cursor
      BY <2>1, <2>2, <3>1 DEF Below, Row
    <3> QED BY <1>3, <3>1, <3>2 DEF ListInv, SeenToCursor
  <2> QED BY <2>1, <2>2
<1>11. Matching' = Matching
  BY <1>1 DEF Matching
<1> HIDE DEF S
<1>12. CASE HasNext(P)
  <2>1. P # {}
    BY <1>12, RequestStoreAssumption, FS_EmptySet DEF HasNext
  <2>2. P \subseteq Row
    BY <1>4, <1>5 DEF S
  <2>3. /\ Earliest(P) \in Nat
        /\ \A p \in P : Earliest(P) <= p.at
        /\ \E p \in P : Earliest(P) = p.at
    BY <2>1, <2>2, EarliestIs
  <2>4. cursor' = Earliest(P) /\ reading' = "list"
    BY <1>2, <1>12
  <2>5. ClientTyped'
    BY <1>1, <1>2, <1>3, <1>5, <2>3, <2>4, RequestStoreAssumption DEF ClientTyped, S
  <2>6. AboveCursor'
    <3> SUFFICES ASSUME NEW Q \in pages \cup {P}, NEW q \in Q PROVE q.at >= Earliest(P)
      BY <1>2, <2>4 DEF AboveCursor
    <3>1. CASE Q = P
      BY <2>3, <3>1, <2>2 DEF Row
    <3>2. CASE Q \in pages
      <4>1. q.at \in Nat
        BY <1>6, <3>2 DEF Row
      <4>2. PICK p \in P : Earliest(P) = p.at
        BY <2>3
      <4> QED BY <1>7, <2>3, <3>2, <4>1, <4>2
    <3> QED BY <3>1, <3>2
  <2>7. SeenToCursor'
    <3> SUFFICES ASSUME NEW r \in Matching, r.at >= Earliest(P) PROVE Seen(r)'
      BY <1>11, <2>4 DEF SeenToCursor
    <3>1. CASE Seen(r)
      BY <3>1, <1>9
    <3>2. CASE r \in P
      BY <3>2, <1>2 DEF Seen
    <3>3. CASE r \in S \ P
      <4>1. PICK p \in P : Earliest(P) = p.at
        BY <2>3
      <4>2. p.at >= r.at /\ p.at \in Nat /\ r.at \in Nat
        BY <1>5, <1>10, <2>2, <3>3 DEF Row
      <4>3. r.at = Earliest(P)
        BY <4>1, <4>2
      <4> QED BY <1>2, <2>1, <4>3 DEF Seen, Earliest
    <3> QED BY <1>10, <3>1, <3>2, <3>3
  <2>8. ListInv'
    BY <1>8, <2>4, <2>6, <2>7 DEF ListInv
  <2>9. CountInv'
    BY <2>4 DEF CountInv
  <2> QED BY <2>5, <2>8, <2>9 DEF ClientInv
<1>13. CASE ~HasNext(P)
  <2>1. P = S /\ cursor' = NoCursor /\ reading' = "end"
    BY <1>2, <1>5, <1>13
  <2>2. ClientTyped'
    BY <1>1, <1>2, <1>3, <1>5, <2>1 DEF ClientTyped, S
  <2>3. \A r \in Matching : Seen(r)'
    <3> SUFFICES ASSUME NEW r \in Matching PROVE Seen(r)'
      OBVIOUS
    <3>1. CASE Seen(r)
      BY <3>1, <1>9
    <3>2. CASE r \in S
      BY <3>2, <1>2, <2>1 DEF Seen
    <3> QED BY <1>10, <3>1, <3>2
  <2>4. ListInv'
    BY <1>8, <1>11, <2>1, <2>3 DEF ListInv
  <2>5. CountInv'
    BY <1>1, <1>3, <2>1 DEF CountInv
  <2> QED BY <2>2, <2>4, <2>5 DEF ClientInv
<1> QED BY <1>12, <1>13

LEMMA ListFailsInv ==
    ASSUME RequestStoreInv, ListFails
    PROVE  ClientInv'
<1>1. /\ reading = "list" /\ reading' = "failed" /\ cursor # NoCursor
      /\ UNCHANGED <<rows, wanted, cursor, offset, pages, atStart>>
  BY DEF ListFails
<1>2. ClientTyped'
  BY <1>1 DEF RequestStoreInv, ClientInv, ClientTyped
<1>3. ListInv'
  BY <1>1 DEF RequestStoreInv, ClientInv, ListInv, Descending, Apart, AboveCursor, SeenToCursor,
              Matching, Seen, Earliest
<1>4. CountInv'
  BY <1>1 DEF CountInv
<1> QED BY <1>2, <1>3, <1>4 DEF ClientInv

(* A page behind as many rows as the client has counted.                   *)
LEMMA ListSessionInv ==
    ASSUME RequestStoreInv, ListSession
    PROVE  ClientInv'
<1> DEFINE S == OfSession(rows)
<1>1. /\ reading = "session" /\ offset' = offset + PageSize
      /\ UNCHANGED <<rows, wanted, cursor, atStart>>
  BY DEF ListSession, NextOffset
<1>2. PICK P \in PagesAfter(S, offset) :
        /\ pages' = pages \cup {P}
        /\ reading' = IF Cardinality(P) = PageSize THEN "session" ELSE "end"
  BY DEF ListSession, GetSessionRequests, OfSession
<1>3. ClientTyped /\ CountInv /\ offset \in Nat /\ PageSize \in Nat \ {0}
  BY RequestStoreAssumption DEF RequestStoreInv, ClientInv, ClientTyped
<1>4. rows \subseteq Row /\ S \subseteq rows /\ IsFiniteSet(S)
  BY RowsFinite, FS_Subset DEF RequestStoreInv, OfSession
<1>5. P \subseteq S
  <2>1. PICK Q : Top(P, S \ Q, PageSize)
    BY PageIsTop
  <2> QED BY <2>1 DEF Top
<1>6. offset' \in Nat /\ offset' > 0 /\ offset' # 0
  BY <1>1, <1>3
<1>7. ClientTyped'
  BY <1>1, <1>2, <1>3, <1>4, <1>5, <1>6 DEF ClientTyped
<1>8. ListInv'
  BY <1>6 DEF ListInv
<1>9. ASSUME Distinct'
      PROVE  CountInv'
  <2>1. Distinct /\ \A r \in S : r.at \in Nat
    BY <1>1, <1>4, <1>9 DEF Distinct, Row
  <2>2. \A r, q \in S : r # q => r.at # q.at
    BY <2>1, <1>4 DEF Distinct, OfSession
  <2>3. ASSUME NEW r \in OfSession(atStart),
               Cardinality(Above(r, S)) < offset' \/ Cardinality(P) # PageSize
        PROVE  r \in UNION (pages \cup {P})
    <3>1. r \in S
      BY <1>3 DEF ClientTyped, OfSession
    <3>2. Cardinality(Above(r, S)) \in Nat
      BY <1>4, FS_Subset, FS_CardinalityType DEF Above
    <3>3. CASE Cardinality(Above(r, S)) < offset
      BY <1>1, <1>3, <2>1, <3>3 DEF CountInv
    <3>4. CASE Cardinality(Above(r, S)) >= offset
      <4> HIDE DEF S
      <4>1. r \in P
        BY <1>1, <1>3, <1>4, <2>1, <2>2, <2>3, <3>1, <3>4, PageBehind
      <4> QED BY <4>1
    <3> QED BY <3>2, <3>3, <3>4, <1>3
  <2>4. \A r : Above(r, OfSession(rows))' = Above(r, S)
    BY <1>1 DEF Above, OfSession
  <2>5. OfSession(atStart)' = OfSession(atStart) /\ UNION pages' = UNION (pages \cup {P})
    BY <1>1, <1>2 DEF OfSession
  <2> QED BY <1>2, <2>3, <2>4, <2>5 DEF CountInv
<1> QED BY <1>7, <1>8, <1>9 DEF ClientInv, CountInv

LEMMA RequestStoreNextInv == RequestStoreInv /\ [RequestStoreNext]_tableVars => RequestStoreInv'
<1> SUFFICES ASSUME RequestStoreInv, [RequestStoreNext]_tableVars PROVE RequestStoreInv'
  OBVIOUS
<1>1. CASE UNCHANGED tableVars
  <2>1. TableInv'
    BY <1>1, TableKept DEF RequestStoreInv, TableInv, tableVars
  <2> QED BY <1>1, <2>1, RowsComeIn DEF RequestStoreInv, tableVars
<1>2. CASE Millisecond
  <2>1. TableInv'
    <3>1. TableInv /\ millis \in Nat
      BY DEF RequestStoreInv, TableInv
    <3> QED BY <1>2, <3>1, TableKept DEF Millisecond
  <2> QED BY <1>2, <2>1, RowsComeIn DEF RequestStoreInv, Millisecond
<1>3. ASSUME NEW f \in Finished, Stamp(f) PROVE RequestStoreInv'
  <2>1. TableInv' /\ rows' = rows
    BY <1>3, StampInv DEF RequestStoreInv
  <2> QED BY <1>3, <2>1, RowsComeIn DEF RequestStoreInv, Stamp
<1>4. ASSUME NEW r \in saving, SaveSQLite(r) \/ SavePostgres(r) PROVE RequestStoreInv'
  <2>1. TableInv' /\ rows \subseteq rows'
    BY <1>4, SaveInv DEF RequestStoreInv
  <2> QED BY <1>4, <2>1, RowsComeIn DEF RequestStoreInv, SaveSQLite, SavePostgres, Returns
<1>5. ASSUME Begin("list") \/ Begin("session") PROVE RequestStoreInv'
  <2>1. TableInv'
    <3>1. TableInv /\ millis \in Nat
      BY DEF RequestStoreInv, TableInv
    <3> QED BY <1>5, <3>1, TableKept DEF Begin
  <2> QED BY <1>5, <2>1, BeginInv DEF RequestStoreInv
<1>6. ASSUME ListRequests \/ ListFails \/ ListSession PROVE RequestStoreInv'
  <2>1. TableInv'
    <3>1. TableInv /\ millis \in Nat
      BY DEF RequestStoreInv, TableInv
    <3> QED BY <1>6, <3>1, TableKept DEF ListRequests, ListFails, ListSession
  <2> QED BY <1>6, <2>1, ListRequestsInv, ListFailsInv, ListSessionInv DEF RequestStoreInv
<1> QED BY <1>1, <1>2, <1>3, <1>4, <1>5, <1>6 DEF RequestStoreNext

LEMMA RequestStoreInvariant == RequestStoreSpec => []RequestStoreInv
<1> QED BY RequestStoreInitInv, RequestStoreNextInv, PTL DEF RequestStoreSpec

-----------------------------------------------------------------------------
(* For any page size and any rows that come in, late ones included: a      *)
(* client that has followed the cursors to the end has seen every row that *)
(* was there and matches, but for those of one millisecond with the last   *)
(* row of a page, and no row on two pages.                                 *)
THEOREM ListsAreComplete == RequestStoreSpec => []ListComplete
<1>1. RequestStoreInv => ListComplete
  <2> SUFFICES ASSUME RequestStoreInv PROVE ListComplete
    OBVIOUS
  <2>1. ListInv
    BY DEF RequestStoreInv, ClientInv
  <2>2. PagesDescend
    BY <2>1 DEF PagesDescend, ListInv, Descending, Apart
  <2> QED BY <2>1, <2>2 DEF ListComplete, ListInv, Matching, Seen
<1> QED BY <1>1, RequestStoreInvariant, PTL

(* A client that has counted its way through a session misses none of the  *)
(* rows that were there, unless two share a millisecond.                   *)
THEOREM SessionsAreComplete == RequestStoreSpec => []SessionComplete
<1>1. RequestStoreInv => SessionComplete
  <2> SUFFICES ASSUME RequestStoreInv, Distinct, reading = "end", offset > 0
               PROVE  {r \in atStart : r.session = wanted} \subseteq UNION pages
    BY DEF SessionComplete, Distinct
  <2> QED BY DEF RequestStoreInv, ClientInv, CountInv, OfSession
<1> QED BY <1>1, RequestStoreInvariant, PTL

(* On either engine, whatever the bodies: the list shows them right but    *)
(* for those that came compressed and stayed as they came, a session but   *)
(* for those that the store compressed, and only PostgreSQL loses any.     *)
THEOREM BodiesAreKept == RequestStoreSpec => []BodiesKept
<1>1. RequestStoreInv => BodiesKept
  <2> SUFFICES ASSUME RequestStoreInv PROVE BodiesKept
    OBVIOUS
  <2>1. rows \subseteq Row /\ compressing \in BOOLEAN /\ engine \in {"sqlite", "postgres"}
    BY RowsFinite DEF RequestStoreInv, TableInv
  <2>2. BodiesBack
    <3> SUFFICES ASSUME NEW r \in rows
                 PROVE  LET stored == CompressBody(r)
                        IN /\ DecompressBody(stored) = Layers(r) <=> ~r.gzip \/ (compressing /\ r.big)
                           /\ SessionBody(stored) = Layers(r) <=> ~(compressing /\ r.big)
      BY DEF BodiesBack
    <3>1. r \in Row
      BY <2>1
    <3>2. engine = "postgres" => ~r.gzip /\ ~(compressing /\ r.big)
      BY DEF RequestStoreInv, TableInv, Compressed
    <3> QED BY <2>1, <3>1, <3>2 DEF Row, CompressBody, DecompressBody, SessionBody, Layers
  <2>3. OnlyGzipIsLost
    BY DEF RequestStoreInv, TableInv, Compressed, OnlyGzipIsLost
  <2> QED BY <2>2, <2>3 DEF BodiesKept
<1> QED BY <1>1, RequestStoreInvariant, PTL

=============================================================================
