-------------------------------- MODULE Spend -------------------------------
(***************************************************************************)
(* The spending loop: BudgetPlugin.OnRequest reads the cost counters of    *)
(* the state backend and lets a request through or blocks it with 402;     *)
(* CostTracker.OnResponse later adds what the request cost.  Check and     *)
(* charge are separate store calls of concurrent handlers, with an         *)
(* upstream call of arbitrary length, midnight, admin changes of the       *)
(* limits and restarts in between.  Over Redis several gateways share the  *)
(* counters, which outlive them; the tracker's own map and the limits in   *)
(* force belong to one process.                                            *)
(***************************************************************************)
EXTENDS Integers, FiniteSets, Functions

CONSTANTS
    Gateways,       \* processes that share a state backend; over memory there is one
    Administered,   \* those whose admin API is used: a PUT reloads one process only
    Workers,        \* handler goroutines that may run at the same time, in whichever gateway
    Sessions,       \* values of the x-claude-code-session-id header
    Costs,          \* cost of a response, in 1/Scale of a microdollar
    Scale,          \* fractions per microdollar that int64(cost * 1e6) drops
    MaxCharge,      \* the largest charge, in microdollars
    Configs,        \* budgets an admin may PUT: [session, day], 0 = unlimited
    Startups,       \* budgets that a gateway may read when it starts
    LastDay,        \* bound on the UTC day
    MaxRequests,    \* bound on the number of requests served
    MaxRestarts,    \* bound on the number of restarts
    Unreliable      \* TRUE: store calls may fail (Redis); FALSE: memory

Micros(cost) == cost \div Scale

Config == [session : Nat, day : Nat]

ASSUME SpendAssumption ==
    /\ Administered \subseteq Gateways
    /\ IsFiniteSet(Gateways) /\ IsFiniteSet(Workers) /\ IsFiniteSet(Sessions)
    /\ Scale \in Nat \ {0}
    /\ MaxCharge \in Nat
    /\ Costs \subseteq Nat
    /\ \A c \in Costs \cup {0} : Micros(c) \in 0..MaxCharge
    /\ Configs \subseteq Config
    /\ Startups \subseteq Config
    /\ LastDay \in Nat /\ LastDay >= 1
    /\ MaxRequests \in Nat /\ MaxRestarts \in Nat
    /\ Unreliable \in BOOLEAN
    /\ Unreliable \/ \A g, h \in Gateways : g = h

Days == 1..LastDay

VARIABLES
    pc,             \* pc[w]: where the handler of w is
    gateway,        \* gateway[w]: the process that it runs in
    session,        \* session[w]: SessionID of its request
    today,          \* today[w]: the UTC date it last formatted
    cost,           \* cost[w]: what CalculateCost returned, 0 between requests
    sessionSpent,   \* state backend, "cost:session:<id>", microdollars
    dailySpent,     \* state backend, "cost:daily:<date>"
    totalSpent,     \* state backend, "cost:total"
    tracked,        \* tracked[g]: CostTracker.sessions of g, in the unit of Costs
    spent,          \* history: what the responses of each session have cost, exactly
    maxPerSession,  \* of each gateway, BudgetPlugin fields, written without a lock
    maxPerDay,
    reloading,      \* of each gateway, ReloadConfig calls between their two writes
    day,            \* the UTC date
    served,         \* requests taken so far
    restarts,       \* restarts so far
    failed          \* history: "check", "charge" if such a store call failed or never came

counters == <<sessionSpent, dailySpent, totalSpent, tracked, spent>>
limits == <<maxPerSession, maxPerDay, reloading>>
vars == <<pc, gateway, session, today, cost, counters, limits, day, served, restarts, failed>>

Init ==
    /\ pc = [w \in Workers |-> "idle"]
    /\ gateway \in [Workers -> Gateways]
    /\ session \in [Workers -> Sessions]
    /\ today = [w \in Workers |-> 1]
    /\ cost = [w \in Workers |-> 0]
    /\ sessionSpent = [s \in Sessions |-> 0]
    /\ dailySpent = [d \in Days |-> 0]
    /\ totalSpent = 0
    /\ tracked = [g \in Gateways |-> [s \in Sessions |-> 0]]
    /\ spent = [s \in Sessions |-> 0]
    /\ \E start \in [Gateways -> Startups] :
         /\ maxPerSession = [g \in Gateways |-> start[g].session]
         /\ maxPerDay = [g \in Gateways |-> start[g].day]
    /\ reloading = [g \in Gateways |-> {}]
    /\ day = 1
    /\ served = 0 /\ restarts = 0
    /\ failed = {}

Goto(w, from, to) == pc[w] = from /\ pc' = [pc EXCEPT ![w] = to]
Failing(call) == failed' = failed \cup {call}

-----------------------------------------------------------------------------
(* BudgetPlugin.OnRequest                                                  *)

\* A request of session s arrives at g and reads maxPerSession for the first time.
Arrive(w, g, s) ==
    /\ served < MaxRequests
    /\ Goto(w, "idle", IF maxPerSession[g] > 0 THEN "sessionCheck" ELSE "dayGate")
    /\ gateway' = [gateway EXCEPT ![w] = g]
    /\ session' = [session EXCEPT ![w] = s]
    /\ served' = served + 1
    /\ UNCHANGED <<today, cost, counters, limits, day, restarts, failed>>

\* Mutant: the session counter is not compared with the limit.
NeverOverSession(w) == FALSE

OverSession(w) == sessionSpent[session[w]] >= maxPerSession[gateway[w]]

\* Reads the session counter and the limit again; a failed read lets it pass.
CheckSession(w) ==
    /\ \/ OverSession(w) /\ Goto(w, "sessionCheck", "blocked") /\ UNCHANGED failed
       \/ ~OverSession(w) /\ Goto(w, "sessionCheck", "dayGate") /\ UNCHANGED failed
       \/ Unreliable /\ Goto(w, "sessionCheck", "dayGate") /\ Failing("check")
    /\ UNCHANGED <<gateway, session, today, cost, counters, limits, day, served, restarts>>

\* Reads maxPerDay for the first time and formats today's date.
EnterDay(w) ==
    /\ Goto(w, "dayGate", IF maxPerDay[gateway[w]] > 0 THEN "dayCheck" ELSE "upstream")
    /\ today' = [today EXCEPT ![w] = day]
    /\ UNCHANGED <<gateway, session, cost, counters, limits, day, served, restarts, failed>>

\* Mutant: the day's counter is not compared with the limit.
NeverOverDay(w) == FALSE

OverDay(w) == dailySpent[today[w]] >= maxPerDay[gateway[w]]

CheckDay(w) ==
    /\ \/ OverDay(w) /\ Goto(w, "dayCheck", "blocked") /\ UNCHANGED failed
       \/ ~OverDay(w) /\ Goto(w, "dayCheck", "upstream") /\ UNCHANGED failed
       \/ Unreliable /\ Goto(w, "dayCheck", "upstream") /\ Failing("check")
    /\ UNCHANGED <<gateway, session, today, cost, counters, limits, day, served, restarts>>

\* A blocked request is answered with 402 and never reaches OnResponse.
AnswerBlocked(w) ==
    /\ Goto(w, "blocked", "idle")
    /\ UNCHANGED <<gateway, session, today, cost, counters, limits, day, served, restarts, failed>>

-----------------------------------------------------------------------------
(* The upstream call, then CostTracker.OnResponse                          *)

\* The proxy returns an error: the handler ends without OnResponse.
UpstreamError(w) ==
    /\ Goto(w, "upstream", "idle")
    /\ UNCHANGED <<gateway, session, today, cost, counters, limits, day, served, restarts, failed>>

\* CalculateCost; a zero cost returns early.
UpstreamAnswer(w, c) ==
    /\ Goto(w, "upstream", IF c = 0 THEN "idle" ELSE "track")
    /\ cost' = [cost EXCEPT ![w] = c]
    /\ UNCHANGED <<gateway, session, today, counters, limits, day, served, restarts, failed>>

\* sessions[id] += cost under mu, then today's date is formatted.
Track(w) ==
    /\ Goto(w, "track", "chargeSession")
    /\ tracked' = [tracked EXCEPT ![gateway[w]][session[w]] = @ + cost[w]]
    /\ spent' = [spent EXCEPT ![session[w]] = @ + cost[w]]
    /\ today' = [today EXCEPT ![w] = day]
    /\ UNCHANGED <<gateway, session, cost, sessionSpent, dailySpent, totalSpent, limits, day, served, restarts, failed>>

\* One Increment with an ignored error: it happens, or, on Redis, is lost.
Charged(f, i, w) ==
    {[f EXCEPT ![i] = @ + Micros(cost[w])]} \cup (IF Unreliable THEN {f} ELSE {})

\* Whether the Increment of w was lost, seen at its unchanged counter.
NotingLoss(unchanged, w) ==
    IF unchanged /\ Micros(cost[w]) # 0 THEN Failing("charge") ELSE UNCHANGED failed

\* Mutant: the session counter is charged a second time (a retried call).
ChargeSessionAgain(w) ==
    /\ pc[w] = "chargeSession"
    /\ \E next \in {"chargeSession", "chargeDay"} : pc' = [pc EXCEPT ![w] = next]
    /\ sessionSpent' \in Charged(sessionSpent, session[w], w)
    /\ NotingLoss(sessionSpent' = sessionSpent, w)
    /\ UNCHANGED <<gateway, session, today, cost, dailySpent, totalSpent, tracked, spent, limits, day, served, restarts>>

ChargeSession(w) ==
    /\ Goto(w, "chargeSession", "chargeDay")
    /\ sessionSpent' \in Charged(sessionSpent, session[w], w)
    /\ NotingLoss(sessionSpent' = sessionSpent, w)
    /\ UNCHANGED <<gateway, session, today, cost, dailySpent, totalSpent, tracked, spent, limits, day, served, restarts>>

\* Mutant: a request that crossed midnight is charged to no day.
ChargeDayIfCurrent(w) ==
    /\ Goto(w, "chargeDay", "chargeTotal")
    /\ dailySpent' \in (IF today[w] = day THEN Charged(dailySpent, today[w], w)
                                          ELSE {dailySpent})
    /\ NotingLoss(today[w] = day /\ dailySpent' = dailySpent, w)
    /\ UNCHANGED <<gateway, session, today, cost, sessionSpent, totalSpent, tracked, spent, limits, day, served, restarts>>

ChargeDay(w) ==
    /\ Goto(w, "chargeDay", "chargeTotal")
    /\ dailySpent' \in Charged(dailySpent, today[w], w)
    /\ NotingLoss(dailySpent' = dailySpent, w)
    /\ UNCHANGED <<gateway, session, today, cost, sessionSpent, totalSpent, tracked, spent, limits, day, served, restarts>>

\* The last charge; the request and its cost are forgotten.
ChargeTotal(w) ==
    /\ Goto(w, "chargeTotal", "idle")
    /\ totalSpent' \in {totalSpent + Micros(cost[w])}
                         \cup (IF Unreliable THEN {totalSpent} ELSE {})
    /\ cost' = [cost EXCEPT ![w] = 0]
    /\ NotingLoss(totalSpent' = totalSpent, w)
    /\ UNCHANGED <<gateway, session, today, sessionSpent, dailySpent, tracked, spent, limits, day, served, restarts>>

-----------------------------------------------------------------------------
(* BudgetPlugin.ReloadConfig, one write at a time, and the clock           *)

ReloadSession(g, c) ==
    /\ c \notin reloading[g]
    /\ maxPerSession' = [maxPerSession EXCEPT ![g] = c.session]
    /\ reloading' = [reloading EXCEPT ![g] = @ \cup {c}]
    /\ UNCHANGED <<pc, gateway, session, today, cost, counters, maxPerDay, day, served, restarts, failed>>

ReloadDay(g, c) ==
    /\ c \in reloading[g]
    /\ maxPerDay' = [maxPerDay EXCEPT ![g] = c.day]
    /\ reloading' = [reloading EXCEPT ![g] = @ \ {c}]
    /\ UNCHANGED <<pc, gateway, session, today, cost, counters, maxPerSession, day, served, restarts, failed>>

Midnight ==
    /\ day < LastDay
    /\ day' = day + 1
    /\ UNCHANGED <<pc, gateway, session, today, cost, counters, limits, served, restarts, failed>>

-----------------------------------------------------------------------------
(* The process                                                             *)

Charging == {"chargeSession", "chargeDay", "chargeTotal"}

\* Whether w still has something to charge.
Owing(w) == pc[w] \in Charging /\ Micros(cost[w]) # 0

\* A gateway ends and starts again: its handlers, its map and its limits are gone.
\* Counters in memory go with it, those in Redis stay as they are.
Restart(g, c) ==
    /\ restarts < MaxRestarts
    /\ restarts' = restarts + 1
    /\ pc' = [w \in Workers |-> IF gateway[w] = g THEN "idle" ELSE pc[w]]
    /\ cost' = [w \in Workers |-> IF gateway[w] = g THEN 0 ELSE cost[w]]
    /\ tracked' = [tracked EXCEPT ![g] = [s \in Sessions |-> 0]]
    /\ maxPerSession' = [maxPerSession EXCEPT ![g] = c.session]
    /\ maxPerDay' = [maxPerDay EXCEPT ![g] = c.day]
    /\ reloading' = [reloading EXCEPT ![g] = {}]
    /\ IF Unreliable
       THEN UNCHANGED <<sessionSpent, dailySpent, totalSpent>>
       ELSE /\ sessionSpent' = [s \in Sessions |-> 0]
            /\ dailySpent' = [d \in Days |-> 0]
            /\ totalSpent' = 0
    /\ IF ~Unreliable \/ \E w \in Workers : gateway[w] = g /\ Owing(w)
       THEN Failing("charge") ELSE UNCHANGED failed
    /\ UNCHANGED <<gateway, session, today, spent, day, served>>

Handler(w) ==
    \/ CheckSession(w) \/ EnterDay(w) \/ CheckDay(w) \/ AnswerBlocked(w)
    \/ UpstreamError(w) \/ \E c \in Costs : UpstreamAnswer(w, c)
    \/ Track(w) \/ ChargeSession(w) \/ ChargeDay(w) \/ ChargeTotal(w)

Next ==
    \/ \E w \in Workers : Handler(w) \/ \E g \in Gateways, s \in Sessions : Arrive(w, g, s)
    \/ \E g \in Administered, c \in Configs : ReloadSession(g, c) \/ ReloadDay(g, c)
    \/ \E g \in Gateways, c \in Startups : Restart(g, c)
    \/ Midnight

Spec == Init /\ [][Next]_vars

-----------------------------------------------------------------------------
Places == {"idle", "sessionCheck", "dayGate", "dayCheck", "blocked", "upstream",
           "track", "chargeSession", "chargeDay", "chargeTotal"}

(* Type invariant of the handlers, the counters and the limits.            *)
TypeOK ==
    /\ pc \in [Workers -> Places]
    /\ gateway \in [Workers -> Gateways]
    /\ session \in [Workers -> Sessions]
    /\ today \in [Workers -> Days]
    /\ cost \in [Workers -> Costs \cup {0}]
    /\ sessionSpent \in [Sessions -> Nat]
    /\ dailySpent \in [Days -> Nat]
    /\ totalSpent \in Nat
    /\ tracked \in [Gateways -> [Sessions -> Nat]]
    /\ spent \in [Sessions -> Nat]
    /\ maxPerSession \in [Gateways -> Nat] /\ maxPerDay \in [Gateways -> Nat]
    /\ reloading \in [Gateways -> SUBSET Configs]
    /\ day \in Days
    /\ served \in 0..MaxRequests /\ restarts \in 0..MaxRestarts
    /\ failed \subseteq {"check", "charge"}

SessionLimits == {c.session : c \in Startups \cup Configs}
DayLimits == {c.day : c \in Startups \cup Configs}

\* Every session limit that is ever in force is a real limit, at most cap.
SessionCapped(cap) == \A l \in SessionLimits : 0 < l /\ l <= cap
DayCapped(cap) == \A l \in DayLimits : 0 < l /\ l <= cap

(* Budgets are checked before and charged after the upstream call, so they *)
(* can be overshot, but only by what the other handlers had in flight:     *)
(* unless a check fails, a session's counter stays below its limit plus    *)
(* one charge per concurrent handler (budget.go:63-74 against              *)
(* cost_tracker.go:189).                                                   *)
SessionOvershoot == "check" \notin failed =>
    \A cap \in SessionLimits : SessionCapped(cap) =>
        \A s \in Sessions :
            sessionSpent[s] < cap + MaxCharge * Cardinality(Workers)

(* The same for each UTC day, even for requests that were checked against  *)
(* one day's counter and charged to the next (budget.go:76, cost_tracker   *)
(* .go:186).                                                               *)
DailyOvershoot == "check" \notin failed =>
    \A cap \in DayLimits : DayCapped(cap) =>
        \A d \in Days : dailySpent[d] < cap + MaxCharge * Cardinality(Workers)

\* What the workers at place p have still to add.
Outstanding(p) == SumFunction([w \in Workers |-> IF pc[w] = p THEN Micros(cost[w]) ELSE 0])

\* What the trackers of all gateways show for a session.
Shown(s) == SumFunction([g \in Gateways |-> tracked[g][s]])

(* cost_tracker.go:176-191 and 213-214: what a session has cost covers its *)
(* counter and what the trackers show, through lost Increments, restarts   *)
(* and gateways that share the counters; the trackers forget nothing       *)
(* before a restart.                                                       *)
SpentCovers ==
    \A s \in Sessions :
        /\ Scale * sessionSpent[s] <= spent[s]
        /\ Shown(s) <= spent[s]
        /\ restarts = 0 => Shown(s) = spent[s]

(* The three Increments of a response never lose or double a charge unless *)
(* one fails or a restart comes between them: session counters lead the    *)
(* daily ones, which lead the total, by exactly the charges of the         *)
(* handlers between two of them, and cutting each charge to whole          *)
(* microdollars costs less than one for each request.                      *)
LedgersAgree ==
    /\ SpentCovers
    /\ "charge" \notin failed =>
         /\ SumFunction(sessionSpent) = SumFunction(dailySpent) + Outstanding("chargeDay")
         /\ SumFunction(dailySpent) = totalSpent + Outstanding("chargeTotal")
         /\ SumFunction(spent) <= Scale * (SumFunction(sessionSpent) + Outstanding("chargeSession"))
                                    + (Scale - 1) * served

=============================================================================
