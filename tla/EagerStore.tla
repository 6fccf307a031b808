----------------------------- MODULE EagerStore -----------------------------
(***************************************************************************)
(* What the callers of state.Backend are promised: a family of counters    *)
(* some of which carry a deadline, where a counter disappears at the very  *)
(* instant its deadline has passed.  Rate limits and budgets are written   *)
(* against this contract; nothing in it says how dead entries are found.   *)
(***************************************************************************)
EXTENDS Integers

CONSTANTS
    Keys,       \* counter names, e.g. "ratelimit:requests:global"
    Deltas,     \* the amounts callers add
    TTLs,       \* the lifetimes callers ask for, in clock ticks
    NoEntry     \* stands for a key the map does not hold

VARIABLES
    counters,   \* counters[k]: the entry of k, or NoEntry
    now,        \* the clock (Unix milliseconds in the code)
    reply       \* what the last call returned: a set of <<key, value>> pairs

vars == <<counters, now, reply>>

Over(e, t) == e.expiry > 0 /\ t > e.expiry

Init ==
    /\ counters = [k \in Keys |-> NoEntry]
    /\ now = 1
    /\ reply = {}

\* Time passes, and every counter whose deadline it passes is gone at once.
Tick ==
    /\ now' = now + 1
    /\ counters' = [k \in Keys |->
                      IF counters[k] # NoEntry /\ Over(counters[k], now + 1)
                      THEN NoEntry ELSE counters[k]]
    /\ UNCHANGED reply

\* Add d to k; a key that is not there starts from zero with deadline e.
AddFrom(k, d, e) ==
    LET old == IF counters[k] = NoEntry THEN [value |-> 0, expiry |-> e]
                                        ELSE counters[k]
    IN  /\ counters' = [counters EXCEPT ![k] = [old EXCEPT !.value = @ + d]]
        /\ reply' = {<<k, old.value + d>>}
        /\ UNCHANGED now

Add(k, d) == AddFrom(k, d, 0)

AddUntil(k, d, ttl) == AddFrom(k, d, now + ttl)

Forget(k) ==
    /\ counters' = [counters EXCEPT ![k] = NoEntry]
    /\ reply' = {}
    /\ UNCHANGED now

Read(k) ==
    /\ reply' = {<<k, IF counters[k] = NoEntry THEN 0 ELSE counters[k].value>>}
    /\ UNCHANGED <<counters, now>>

ReadAll(ks) ==
    /\ reply' = {<<k, counters[k].value>> : k \in {j \in ks : counters[j] # NoEntry}}
    /\ UNCHANGED <<counters, now>>

Next ==
    \/ Tick
    \/ \E k \in Keys : \/ Forget(k)
                       \/ Read(k)
                       \/ \E d \in Deltas : \/ Add(k, d)
                                            \/ \E ttl \in TTLs : AddUntil(k, d, ttl)
    \/ \E ks \in SUBSET Keys : ReadAll(ks)

Spec == Init /\ [][Next]_vars
=============================================================================
