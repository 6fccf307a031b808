----------------------------- MODULE Statistics -----------------------------
(***************************************************************************)
(* What the admin API computes from the stored requests and the counters   *)
(* of the cost tracker (handler.go 323-636): sessions, cost and latency,   *)
(* time series.  The counters hold whole microdollars at the price of      *)
(* their moment, under the UTC date, as far as the store took them; the    *)
(* views compute with the prices of now and the local date, from the rows  *)
(* that were saved, and round to cents.  Costs are in fractions of a       *)
(* microdollar, Micro to each; the sums of the code's floating point       *)
(* numbers are exact here.                                                 *)
(***************************************************************************)
EXTENDS Integers, SequencesExt

CONSTANTS
    Answers,    \* finished requests: [session, model, tokens, cached, duration, failed]
    TokenPrices,\* prices of one token, in fractions of a microdollar
    Micro,      \* fractions to the microdollar
    Cent,       \* fractions to the cent
    Zones,      \* time zones of the server: local time minus UTC, in hours
    DayLength,
    Window,     \* rows that costStats reads, 10000 in the code
    SessionWindow, \* rows that listSessions reads, 1000 in the code
    Limit,      \* rows that timeseriesStats reads, 100000 in the code
    MaxHour,    \* bound on the clock
    MaxAnswers  \* bound on the requests

ASSUME StatisticsAssumption ==
    /\ \A a \in Answers : a.tokens \in Nat /\ a.cached \in Nat
    /\ TokenPrices \subseteq Nat /\ Zones \subseteq Int
    /\ Micro \in Nat \ {0} /\ Cent \in Nat \ {0}
    /\ DayLength \in Nat \ {0} /\ MaxHour \in Nat /\ DayLength <= MaxHour
    /\ Window \in Nat /\ SessionWindow \in Nat /\ Limit \in Nat /\ MaxAnswers \in Nat

VARIABLES
    hour,       \* time.Now(), in UTC
    zone,       \* the zone of time.Now()
    durable,    \* the counters are in Redis
    tracking,   \* the cost tracker is enabled, CalculateCostFn is not nil
    price,      \* CostTracker.prices
    daily,      \* counters cost:daily:<date>, in microdollars
    total,      \* counter cost:total
    transit,    \* answers whose goroutine has yet to store them: when they came and (a
                \* history) the UTC day under which they were charged
    table,      \* the stored requests; known (a history) is the edge when they were stored
    edge,       \* a client asks for time series of adjoining ranges: where it has got to,
    edges,      \* every end it has asked for,
    polled,     \* the tokens of all points it was given,
    cut,        \* whether the limit of the query left rows of a range out
    repriced, restarted,    \* history
    forgotten,  \* an Increment failed, or counters in memory were lost
    unsaved     \* a SaveRequest failed, or its goroutine was lost

statisticsVars ==
    <<hour, zone, durable, tracking, price, daily, total, transit, table,
      edge, edges, polled, cut, repriced, restarted, forgotten, unsaved>>

UtcDay == hour \div DayLength
LocalDay == (hour + zone) \div DayLength

\* The dates for which there may be a counter: Get returns 0 for all others.
Days == {h \div DayLength : h \in DayLength .. MaxHour}

StatisticsInit ==
    /\ hour = DayLength
    /\ zone \in Zones /\ durable \in BOOLEAN /\ tracking \in BOOLEAN /\ price \in TokenPrices
    /\ daily = [d \in Days |-> 0] /\ total = 0
    /\ transit = <<>> /\ table = <<>>
    /\ edge = hour /\ edges = {hour} /\ polled = 0 /\ cut = FALSE
    /\ repriced = FALSE /\ restarted = FALSE /\ forgotten = FALSE /\ unsaved = FALSE

\* Without the tracker the views take two dollars for a million tokens.
Cost(a) == a.tokens * (IF tracking THEN price ELSE 2 * Micro)

\* What OnResponse counts: fractions of a microdollar are dropped.
CostMicro(a) == Cost(a) \div Micro

NextHour ==
    /\ hour < MaxHour
    /\ hour' = hour + 1
    /\ UNCHANGED <<zone, durable, tracking, price, daily, total, transit, table,
                   edge, edges, polled, cut, repriced, restarted, forgotten, unsaved>>

\* Mutant: the counter has the local date.
TrackLocally(a, onDay, inTotal) ==
    /\ daily' = IF onDay THEN [daily EXCEPT ![LocalDay] = @ + CostMicro(a)] ELSE daily
    /\ total' = IF inTotal THEN total + CostMicro(a) ELSE total

\* Mutant: the total is set, not incremented.
TrackAnew(a, onDay, inTotal) ==
    /\ daily' = IF onDay THEN [daily EXCEPT ![UtcDay] = @ + CostMicro(a)] ELSE daily
    /\ total' = IF inTotal THEN CostMicro(a) ELSE total

\* The increments that the store takes; errors of the others are ignored.
Track(a, onDay, inTotal) ==
    /\ daily' = IF onDay THEN [daily EXCEPT ![UtcDay] = @ + CostMicro(a)] ELSE daily
    /\ total' = IF inTotal THEN total + CostMicro(a) ELSE total

\* CostTracker.OnResponse, if there is one.  Increments fail over Redis only.  Bound:
\* for one answer.
Answer(a) ==
    /\ Len(transit) + Len(table) < MaxAnswers
    /\ \E onDay, inTotal \in (IF tracking /\ durable /\ ~forgotten THEN BOOLEAN ELSE {tracking}) :
         /\ Track(a, onDay, inTotal)
         /\ forgotten' = (forgotten \/ (tracking /\ ~(onDay /\ inTotal)))
    /\ transit' = Append(transit, [answer |-> a, spent |-> UtcDay, came |-> hour])
    /\ UNCHANGED <<hour, zone, durable, tracking, price, table,
                   edge, edges, polled, cut, repriced, restarted, unsaved>>

\* SaveRequest, in any order, with the time its goroutine took before; a failure is logged.
\* Bound: one failure.
Keep(i) ==
    /\ \/ /\ \E at \in transit[i].came .. hour :
               table' = Append(table, [answer |-> transit[i].answer, spent |-> transit[i].spent,
                                       at |-> at, known |-> edge])
          /\ UNCHANGED unsaved
       \/ ~unsaved /\ unsaved' = TRUE /\ UNCHANGED table
    /\ transit' = RemoveAt(transit, i)
    /\ UNCHANGED <<hour, zone, durable, tracking, price, daily, total,
                   edge, edges, polled, cut, repriced, restarted, forgotten>>

\* ReloadConfig or the daily fetch of the catalogue.  Bound: once.
Reprice(p) ==
    /\ tracking /\ ~repriced /\ p # price
    /\ price' = p
    /\ repriced' = TRUE
    /\ UNCHANGED <<hour, zone, durable, tracking, daily, total, transit, table,
                   edge, edges, polled, cut, restarted, forgotten, unsaved>>

\* The process ends and starts again.  Bound: once.
Restart ==
    /\ ~restarted
    /\ restarted' = TRUE
    /\ transit' = <<>> /\ unsaved' = (unsaved \/ transit # <<>>)
    /\ IF durable THEN UNCHANGED <<daily, total, forgotten>>
       ELSE daily' = [d \in DOMAIN daily |-> 0] /\ total' = 0 /\ forgotten' = TRUE
    /\ UNCHANGED <<hour, zone, durable, tracking, price, table, edge, edges, polled, cut, repriced>>

-----------------------------------------------------------------------------
(* The views                                                               *)

\* round2: half a cent is rounded up.
round2(cost) == ((2 * cost + Cent) \div (2 * Cent)) * Cent

\* Of a set of rows, given by their numbers
Tokens(rows) ==
    SumFunctionOnSet([i \in DOMAIN table |-> table[i].answer.tokens + table[i].answer.cached], rows)
Costs(rows) == SumFunctionOnSet([i \in DOMAIN table |-> Cost(table[i].answer)], rows)

Sums(rows) == [count |-> Cardinality(rows), tokens |-> Tokens(rows), cost |-> round2(Costs(rows)),
               errors |-> Cardinality({i \in rows : table[i].answer.failed})]

\* The rows a query with a limit returns: the last by created_at, then by the table.
Newest(rows, limit) ==
    LET Later(i, j) == table[i].at > table[j].at \/ (table[i].at = table[j].at /\ i > j)
    IN {i \in rows : Cardinality({j \in rows : Later(j, i)}) < limit}

\* Rows without a session are left out.
listSessions ==
    LET Recent == Newest(DOMAIN table, SessionWindow) IN
    [s \in {table[i].answer.session : i \in Recent} \ {""} |->
       LET mine == {i \in Recent : table[i].answer.session = s}
       IN [sums |-> Sums(mine), cost |-> Sums(mine).cost,
           models |-> {table[i].answer.model : i \in mine}]]

DailyCost(d) == IF d \in DOMAIN daily THEN daily[d] ELSE 0

\* The index (n - 1) * p, cut to an integer; 0 if there is no duration.
percentile(sorted, percent) ==
    IF sorted = <<>> THEN 0 ELSE sorted[((Len(sorted) - 1) * percent) \div 100 + 1]

Durations(rows) ==
    SortSeq(SelectSeq([i \in DOMAIN table |-> IF i \in rows THEN table[i].answer.duration ELSE 0],
                      LAMBDA d : d > 0), <)

costStats ==
    LET Recent == Newest(DOMAIN table, Window) IN
    [daily |-> Micro * DailyCost(LocalDay), total |-> Micro * total,
     requests |-> Cardinality(Recent), tokens |-> Tokens(Recent),
     models |-> [m \in {table[i].answer.model : i \in Recent} |->
                   Sums({i \in Recent : table[i].answer.model = m})],
     p50 |-> percentile(Durations(Recent), 50), p95 |-> percentile(Durations(Recent), 95)]

\* Mutant: the end of the range is exclusive.
InRangeHalfOpen(at, from, to) == from <= at /\ at < to

InRange(at, from, to) == from <= at /\ at <= to

RowsOf(from, to) == {i \in DOMAIN table : InRange(table[i].at, from, to)}

\* Buckets are aligned to the epoch, not to the range.
timeseriesStats(from, to, size) ==
    LET rows == Newest(RowsOf(from, to), Limit)
        Bucket(at) == (at \div size) * size
    IN [b \in {Bucket(table[i].at) : i \in rows} |-> Sums({i \in rows : Bucket(table[i].at) = b})]

\* A client asks for what has come since it last did, in points of an hour or a day.
Poll(size) ==
    LET points == timeseriesStats(edge, hour, size) IN
    /\ edge < hour
    /\ polled' = polled + SumFunction([b \in DOMAIN points |-> points[b].tokens])
    /\ cut' = (cut \/ Cardinality(RowsOf(edge, hour)) > Limit)
    /\ edge' = hour /\ edges' = edges \cup {hour}
    /\ UNCHANGED <<hour, zone, durable, tracking, price, daily, total, transit, table,
                   repriced, restarted, forgotten, unsaved>>

StatisticsNext ==
    \/ NextHour \/ Restart
    \/ \E a \in Answers : Answer(a)
    \/ \E i \in DOMAIN transit : Keep(i)
    \/ \E p \in TokenPrices : Reprice(p)
    \/ \E size \in {1, DayLength} : Poll(size)

StatisticsSpec == StatisticsInit /\ [][StatisticsNext]_statisticsVars

-----------------------------------------------------------------------------
\* The sum of worth[a] over the answers a that were charged on one of the days.
OnDays(charges, days) == {i \in DOMAIN charges : charges[i].spent \in days}
SumOf(charges, days, worth) ==
    SumFunctionOnSet([i \in DOMAIN charges |-> worth[charges[i].answer]], OnDays(charges, days))

\* The same, stored or on the way, for all that is known of.
Charged(days, worth) == SumOf(table, days, worth) + SumOf(transit, days, worth)

Spent == [a \in Answers |-> Cost(a)]
\* A charge falls short of the cost by less than a microdollar.
Shortfall == [a \in Answers |-> Micro - 1]

(* handler.go:410-414, cost_tracker.go:176-191: without a cost tracker the *)
(* daily cost is 0.  While the local date is ahead of the UTC date it is   *)
(* shown as 0 too, however much is spent; otherwise it is what was spent   *)
(* on the UTC day of the local date, also what is yet to be stored or was  *)
(* stored after midnight, but for less than a microdollar of each request, *)
(* and what a failure or a restart took from the counters or the rows.     *)
DailyShown ==
    /\ ~tracking \/ LocalDay > UtcDay => costStats.daily = 0
    /\ tracking /\ ~repriced =>
         /\ ~unsaved => costStats.daily <= Charged({LocalDay}, Spent)
         /\ ~forgotten => Charged({LocalDay}, Spent) <= costStats.daily + Charged({LocalDay}, Shortfall)

\* The costs of a view and of the rows it leaves out make up the total, but for half a
\* cent of each line and for what the counters drop.
AddsUp(view, rest) ==
    LET shown == SumFunction([k \in DOMAIN view |-> view[k].cost]) + rest
        rounding == Cent * Cardinality(DOMAIN view)
    IN /\ ~unsaved => 2 * costStats.total <= 2 * shown + rounding
       /\ ~forgotten => 2 * shown <= 2 * (costStats.total + Charged(Days, Shortfall)) + rounding

(* handler.go:407-467, 350-366: the total of the counters and the costs by *)
(* model and by session agree within their rounding once all rows are      *)
(* stored, but for price changes, which revalue the past in one of them    *)
(* only, lost increments and rows, and rows beyond a window.               *)
TotalsAgree ==
    tracking /\ ~repriced /\ transit = <<>> =>
      /\ Len(table) <= Window => AddsUp(costStats.models, 0)
      /\ Len(table) <= SessionWindow =>
           AddsUp(listSessions, Costs({i \in DOMAIN table : table[i].answer.session = ""}))

(* The two views of what was spent, counters and rows, meet in what the    *)
(* admin API shows.                                                        *)
CountersMatch == DailyShown /\ TotalsAgree

\* Rows that were stored before a range with them was asked for
Asked == {i \in DOMAIN table : table[i].known <= table[i].at /\ table[i].known < edge}
\* and those that came at the end of one range, where the next begins.
OnEdge == {i \in Asked : table[i].at \in edges \ {table[i].known, edge}}

(* handler.go:527-570, sqlite.go:246-253, main.go:594-623: a client that   *)
(* asks for one range after the other is told of every request once, of    *)
(* one on the edge of two ranges twice, of one that was stored after its   *)
(* range was asked for never, whatever the size of the points; of less     *)
(* only if a range had more rows than the limit of the query.              *)
RangesAdjoin ==
    /\ polled <= Tokens(Asked) + Tokens(OnEdge)
    /\ ~cut => polled = Tokens(Asked) + Tokens(OnEdge)
=============================================================================
