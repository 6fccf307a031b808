----------------------------- MODULE MemoryStore ----------------------------
(***************************************************************************)
(* state.MemoryBackend (internal/state/memory.go): a map of entries behind *)
(* one RWMutex, so every call is one step.  An entry whose deadline has    *)
(* passed stays in the map until a write call meets it or the janitor      *)
(* goroutine sweeps it; the readers must look through it meanwhile.        *)
(***************************************************************************)
EXTENDS Integers

CONSTANTS
    Keys, Deltas, TTLs, NoEntry,
    MaxTime,    \* bound on the clock
    MaxValue    \* bound on the value of one counter

Entry == [value : Int, expiry : Nat]

ASSUME StoreAssumption ==
    /\ Deltas \subseteq Int
    /\ TTLs \subseteq Nat
    /\ MaxTime \in Nat
    /\ MaxValue \in Int
    /\ NoEntry \notin Entry

VARIABLES
    counters,   \* MemoryBackend.counters: key -> entry, NoEntry when absent
    now,        \* time.Now().UnixMilli()
    janitor,    \* the goroutine of NewMemory is running (stopCh is open)
    reply       \* what the last call returned: a set of <<key, value>> pairs

vars == <<counters, now, janitor, reply>>

Init ==
    /\ counters = [k \in Keys |-> NoEntry]
    /\ now = 1
    /\ janitor = TRUE
    /\ reply = {}

\* Mutant: the deadline itself already counts as past.
ExpiredTooEarly(e, t) == e.expiry > 0 /\ t >= e.expiry

\* The test every method applies to the entry it finds.
Expired(e, t) == e.expiry > 0 /\ t > e.expiry

\* k has an entry and a caller may see it.
Held(k) == counters[k] # NoEntry /\ ~Expired(counters[k], now)

\* Mutant: a stale entry is taken for a live one.
StaleEntryFor(k, expiry) ==
    IF counters[k] # NoEntry THEN counters[k] ELSE [value |-> 0, expiry |-> expiry]

\* The entry a write call adds to: the one in the map, or a fresh one when
\* the key is absent or its deadline has passed.
EntryFor(k, expiry) ==
    IF Held(k) THEN counters[k] ELSE [value |-> 0, expiry |-> expiry]

\* entry.value += delta; return entry.value
AddTo(k, entry, d) ==
    /\ entry.value + d \in -MaxValue .. MaxValue
    /\ counters' = [counters EXCEPT ![k] = [entry EXCEPT !.value = @ + d]]
    /\ reply' = {<<k, entry.value + d>>}
    /\ UNCHANGED <<now, janitor>>

Increment(k, d) == AddTo(k, EntryFor(k, 0), d)

IncrementWithTTL(k, d, ttl) == AddTo(k, EntryFor(k, now + ttl), d)

Get(k) ==
    /\ reply' = {<<k, IF Held(k) THEN counters[k].value ELSE 0>>}
    /\ UNCHANGED <<counters, now, janitor>>

Reset(k) ==
    /\ counters' = [counters EXCEPT ![k] = NoEntry]
    /\ reply' = {}
    /\ UNCHANGED <<now, janitor>>

\* Absent and expired keys are left out of the result.
GetMany(ks) ==
    /\ reply' = {<<k, counters[k].value>> : k \in {j \in ks : Held(j)}}
    /\ UNCHANGED <<counters, now, janitor>>

\* The janitor's sweep, every five minutes until Close.
CleanExpired ==
    /\ janitor
    /\ counters' = [k \in Keys |-> IF Held(k) THEN counters[k] ELSE NoEntry]
    /\ UNCHANGED <<now, janitor, reply>>

\* Close stops the janitor; main calls it once, and the map stays usable.
Close ==
    /\ janitor
    /\ janitor' = FALSE
    /\ UNCHANGED <<counters, now, reply>>

Tick ==
    /\ now < MaxTime
    /\ now' = now + 1
    /\ UNCHANGED <<counters, janitor, reply>>

Next ==
    \/ Tick
    \/ CleanExpired
    \/ Close
    \/ \E k \in Keys : \/ Reset(k)
                       \/ Get(k)
                       \/ \E d \in Deltas : \/ Increment(k, d)
                                            \/ \E ttl \in TTLs : IncrementWithTTL(k, d, ttl)
    \/ \E ks \in SUBSET Keys : GetMany(ks)

Spec == Init /\ [][Next]_vars

-----------------------------------------------------------------------------
(* Type invariant: entries are well formed and a deadline is never zero by *)
(* accident (zero means "no deadline" in memoryEntry).                     *)
TypeOK ==
    /\ counters \in [Keys -> Entry \cup {NoEntry}]
    /\ now \in Nat \ {0}
    /\ janitor \in BOOLEAN
    /\ reply \subseteq Keys \X Int

(* The lazily cleaned map is indistinguishable, call by call, from the     *)
(* store whose counters vanish at their deadline: what Increment, Get and  *)
(* GetMany return never depends on when, or whether, cleanExpired ran.     *)
Visible == [k \in Keys |-> IF Held(k) THEN counters[k] ELSE NoEntry]

Eager == INSTANCE EagerStore WITH counters <- Visible

ActsEagerly == Eager!Spec

(* A live counter's deadline never moves: IncrementWithTTL gives an entry  *)
(* its deadline when it creates it and never again, which is what makes    *)
(* the rate limiter's minute a fixed window.                               *)
DeadlineFixed ==
    [][\A k \in Keys :
         Held(k) /\ counters'[k] # NoEntry /\ ~Expired(counters[k], now')
           => counters'[k].expiry = counters[k].expiry]_vars
=============================================================================
