----------------------------- MODULE CostPricing ----------------------------
(***************************************************************************)
(* The price table of the cost tracker (plugins/cost_tracker.go 40-150 and *)
(* 204-295, main.go 296-328).  A goroutine refreshes the table from an     *)
(* online catalogue every ten minutes and then applies the overrides       *)
(* again; the admin API adds overrides.  The table has a lock, the map of  *)
(* overrides has none, and neither routine is one critical section.        *)
(***************************************************************************)
EXTENDS Naturals, FiniteSets

CONSTANTS
    PricedModels,
    Prices,         \* price entries, one per model name and origin
    NoPrice,        \* absent: the model costs defaultPerM, or has no override
    Catalogues,     \* what pricingURL may answer: provider -> model -> price
    FileOverrides,  \* the prices of the configuration file
    Asks,           \* the tables that are PUT
    Reloaders       \* goroutines that serve PUT /config/cost-tracker

PriceTable == [PricedModels -> Prices \cup {NoPrice}]

ASSUME CostPricingAssumption ==
    /\ NoPrice \notin Prices
    /\ FileOverrides \in PriceTable
    /\ Asks \subseteq PriceTable

VARIABLES
    prices,         \* CostTracker.prices
    configPrices,   \* CostTracker.configPrices
    refresh,        \* the refresh goroutine: [pc, table, clean]
    reload,         \* reload[a]: a call of ReloadConfig: [pc, table, merged]
    asked,          \* history: the override of each model that was asked for last
    overlapped,     \* history: models whose last reload ran beside another one
    raced           \* history: models whose last reload ran beside a refresh

pricingVars == <<prices, configPrices, refresh, reload, asked, overlapped, raced>>

NoTable == [m \in PricedModels |-> NoPrice]
Priced(table) == {m \in PricedModels : table[m] # NoPrice}

MergePrices(table, additional) ==
    [m \in PricedModels |-> IF m \in Priced(additional) THEN additional[m] ELSE table[m]]

\* Entries without two positive prices are no entries; of several providers with
\* an entry for a model, the first wins, in the random order of Go's maps.
\* A catalogue without entries is an error.
FetchOnlinePricing(catalogue) ==
    {table \in PriceTable :
        /\ Priced(table) # {}
        /\ \A m \in PricedModels :
             LET offers == {catalogue[p][m] : p \in DOMAIN catalogue} \ {NoPrice}
             IN IF offers = {} THEN table[m] = NoPrice ELSE table[m] \in offers}

Fetched == UNION {FetchOnlinePricing(c) : c \in Catalogues}

\* main: fetch if possible, then the overrides of the file.
PricingInit ==
    /\ \E table \in Fetched \cup {NoTable} : prices = MergePrices(table, FileOverrides)
    /\ configPrices = FileOverrides
    /\ refresh = [pc |-> "idle", table |-> NoTable, clean |-> TRUE]
    /\ reload = [a \in Reloaders |-> [pc |-> "idle", table |-> NoTable, merged |-> NoTable]]
    /\ asked = FileOverrides
    /\ overlapped = {} /\ raced = {}

Reloading == {a \in Reloaders : reload[a].pc # "idle"}
BeingReloaded == UNION {Priced(reload[a].table) : a \in Reloading}

-----------------------------------------------------------------------------
(* The refresh goroutine; a failed fetch changes nothing                   *)

MergeFetched ==
    /\ refresh.pc = "idle"
    /\ \E table \in Fetched : prices' = MergePrices(prices, table)
    /\ refresh' = [refresh EXCEPT !.pc = "merged", !.clean = Reloading = {}]
    /\ raced' = raced \cup BeingReloaded
    /\ UNCHANGED <<configPrices, reload, asked, overlapped>>

\* The argument of the second MergePrices is read before its lock is taken.
ReadOverrides ==
    /\ refresh.pc = "merged"
    /\ refresh' = [refresh EXCEPT !.pc = "read", !.table = configPrices]
    /\ UNCHANGED <<prices, configPrices, reload, asked, overlapped, raced>>

\* Mutant: prices that the table has already are kept.
ReapplyMissing ==
    /\ refresh.pc = "read"
    /\ prices' = MergePrices(refresh.table, prices)
    /\ refresh' = [refresh EXCEPT !.pc = "idle", !.table = NoTable]
    /\ raced' = IF refresh.clean THEN {} ELSE raced
    /\ UNCHANGED <<configPrices, reload, asked, overlapped>>

Reapply ==
    /\ refresh.pc = "read"
    /\ prices' = MergePrices(prices, refresh.table)
    /\ refresh' = [refresh EXCEPT !.pc = "idle", !.table = NoTable]
    /\ raced' = IF refresh.clean THEN {} ELSE raced
    /\ UNCHANGED <<configPrices, reload, asked, overlapped>>

-----------------------------------------------------------------------------
(* ReloadConfig("cost-tracker", value)                                     *)

MergeAsked(a, table) ==
    /\ reload[a].pc = "idle"
    /\ Priced(table) # {}
    /\ prices' = MergePrices(prices, table)
    /\ reload' = [reload EXCEPT ![a] = [pc |-> "merged", table |-> table, merged |-> NoTable]]
    /\ asked' = MergePrices(asked, table)
    /\ overlapped' = IF Reloading = {} THEN overlapped \ Priced(table)
                     ELSE overlapped \cup Priced(table) \cup BeingReloaded
    /\ raced' = IF refresh.pc = "idle" THEN raced \ Priced(table) ELSE raced \cup Priced(table)
    /\ refresh' = [refresh EXCEPT !.clean = FALSE]
    /\ UNCHANGED configPrices

\* Mutant: the overrides so far are left out.
CopyNewOnly(a) ==
    /\ reload[a].pc = "merged"
    /\ reload' = [reload EXCEPT ![a].pc = "copied", ![a].merged = reload[a].table]
    /\ UNCHANGED <<prices, configPrices, refresh, asked, overlapped, raced>>

\* merged: the present overrides and the new ones
CopyOverrides(a) ==
    /\ reload[a].pc = "merged"
    /\ reload' = [reload EXCEPT ![a].pc = "copied",
                                ![a].merged = MergePrices(configPrices, reload[a].table)]
    /\ UNCHANGED <<prices, configPrices, refresh, asked, overlapped, raced>>

InstallOverrides(a) ==
    /\ reload[a].pc = "copied"
    /\ configPrices' = reload[a].merged
    /\ reload' = [reload EXCEPT ![a] = [pc |-> "idle", table |-> NoTable, merged |-> NoTable]]
    /\ UNCHANGED <<prices, refresh, asked, overlapped, raced>>

PricingNext ==
    \/ MergeFetched \/ ReadOverrides \/ Reapply
    \/ \E a \in Reloaders : \/ CopyOverrides(a) \/ InstallOverrides(a)
                            \/ \E table \in Asks : MergeAsked(a, table)

PricingSpec == PricingInit /\ [][PricingNext]_pricingVars

-----------------------------------------------------------------------------
(* Type invariant of the two tables and the routines that copy them.       *)
PricingTypeOK ==
    /\ prices \in PriceTable /\ configPrices \in PriceTable /\ asked \in PriceTable
    /\ refresh \in [pc : {"idle", "merged", "read"}, table : PriceTable, clean : BOOLEAN]
    /\ reload \in [Reloaders -> [pc : {"idle", "merged", "copied"},
                                 table : PriceTable, merged : PriceTable]]
    /\ overlapped \subseteq PricedModels /\ raced \subseteq PricedModels

(* cost_tracker.go:103: overrides are kept "so they survive pricing        *)
(* refreshes".  Whatever refreshes run meanwhile, an override is lost from *)
(* the map only when its reload overlapped another one.                    *)
OverrideKept ==
    \A m \in Priced(asked) \ (overlapped \cup BeingReloaded) : configPrices[m] = asked[m]

(* main.go:321: overrides "always win".  Outside of a refresh, requests    *)
(* are charged what was asked for last, unless that reload overlapped      *)
(* another one or a refresh; the next refresh without a reload beside it   *)
(* repairs the latter.                                                     *)
OverrideWins ==
    refresh.pc = "idle" =>
        \A m \in Priced(asked) \ (overlapped \cup raced \cup BeingReloaded) :
            prices[m] = asked[m]

(* What an admin asked for prevails, in the map of overrides and in the    *)
(* table that requests are charged by.                                     *)
OverridesPrevail == OverrideKept /\ OverrideWins
=============================================================================
