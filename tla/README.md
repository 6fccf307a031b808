# A verification project for llm-Interceptor

llm-Interceptor is a gateway written in Go that stands between LLM clients
(Claude Code and others) and the providers' APIs. It forwards chat requests,
enforces budgets, rate limits and a tool policy, stores what passed, and shows it
in a live view. This directory holds TLA+ models of its core, the TLC
configurations that check them, and proofs of their main properties. Line
numbers refer to the commit these modules were read from; `PROJECT.json` maps each
definition to its lines.

Contents: [inventory](#1-inventory), [what is hard](#2-what-is-hard-here),
[modules](#3-modules), [runs](#4-runs), [bounds](#5-bounds-and-why-they-are-enough),
[fairness](#6-fairness), [proofs](#7-proofs), [only model-checked](#8-what-is-only-model-checked),
[disagreements](#9-where-code-and-documentation-disagree),
[not modelled](#10-what-is-not-modelled), [plan](#11-plan),
[how to run](#12-running-it).

## 1. Inventory

| component | state | operations | correct when | module |
|---|---|---|---|---|
| request handler and shutdown, `cmd/llm-interceptor/main.go` 409-687 | WaitGroup, shutdown context, the listener, the open store | `llmHandler` with its early returns, the goroutine that reports a finished request, the signal goroutine, the deferred calls of `main` | every `wg.Add` is matched; the drain is complete when it says so; rows precede events; every admitted request ends | Gateway |
| plugin dispatcher, `internal/plugin` | list of plugins | `ExecuteOnRequest` (stops at the first verdict), `ExecuteOnResponse`, `ReloadConfig` | a blocked request reaches no later plugin and no upstream | Gateway (in part) |
| budget, `internal/plugins/budget.go` | two limits, shared with the admin API without a lock | `OnRequest`, `ReloadConfig` | overshoot is bounded by what is in flight; 0 never blocks | Spend |
| cost tracker, `internal/plugins/cost_tracker.go` | prices, overrides, cost per session since the start | `OnResponse`, price refresh, `ReloadConfig` | the session, daily and total ledgers agree with each other and with what was spent; overrides win | Spend, CostPricing |
| rate limit, `internal/plugins/ratelimit.go` | two limits, without a lock | `OnRequest`, `OnResponse`, `ReloadConfig` | what a minute lets through is bounded; clients are not refused for ever | RateLimit |
| state backend, `internal/state` | counters with a deadline, in memory or in Redis | `Increment`, `IncrementWithTTL`, `Get`, `GetMany`, `Reset`, `Close`, the janitor | an expired counter is never seen | EagerStore, MemoryStore; Redis in RateLimit and Spend |
| SSE broker, `internal/api/sse.go` | map of client channels under an RWMutex | `Subscribe`, `Unsubscribe`, `Publish`, `ServeHTTP` | no send on a closed channel; nobody waits for a slow reader; order is kept | SSEBroker |
| proxy, `internal/proxy` | none between calls | `HandleRequest`, `HandleRequestStream` with up to three follow-ups, `collectSSE`, `ExtractUsage` | no blocked tool reaches the client; a stream is passed on whole or not at all and is recorded like a plain answer, but for what section 9 lists | ToolPolicy, SSELines, StreamCollect |
| tool policy, `internal/plugins/toolpolicy.go` | two sets and a mode | `IsBlocked`, `ReloadConfig` | a reader sees one policy, never a mixture | ToolPolicy |
| router and keys, `internal/router`, `api_keys` | providers, the key table | `SelectProvider`, `Generate`, `Validate`, `DisableKey` | a key that was handed out works; no provider is sent the credential of another | ManagedKeys |
| runtime configuration, `internal/config`, `internal/api/handler.go` 759-902 | config table, audit log, the plugins' fields | put, delete, reload, overlay at startup | running and stored configuration agree | RuntimeConfig |
| request storage, `internal/storage` | rows, compressed bodies, schema version | `SaveRequest`, pages by cursor and by offset, compression, opening and migration | paging shows every row; bodies come back as they were; whoever serves has the whole schema | RequestStore, Schema |
| admin API and statistics, `internal/api/handler.go` 323-636 | none | sessions, costs, time series | views agree with rows and counters, and adjoining ranges tell of each request once | Statistics |
| alerting, `internal/alerting` | rules, notifiers, last firings | the rounds of the evaluator, `UpdateConfig` | a rule fires once per cooldown; removed rules stay quiet | Alerting |
| translation, `internal/translate` | the held-back event of a stream | requests, responses and streams in both directions | what the other protocol can hold arrives | Translate, SSELines |
| metrics, `internal/metrics` | Prometheus collectors | `RecordRequest` | gauges and counters count what they name | Gateway (the gauge) |
| OTel export, credentials and tokens, logging, web UI | little or none | see [section 10](#10-what-is-not-modelled) | | |

How they interact. One goroutine per connection runs `llmHandler`. It asks the
dispatcher, which calls the plugins in order; budget and rate limit read and write the
state backend, which several gateways may share when it is Redis. A request that passes
goes through the router to the proxy. After the answer, `ExecuteOnResponse` lets the cost
tracker and the rate limiter charge it, and a new goroutine writes the row, updates the
metrics and calls `Broker.Publish`, which puts the record into the channel of every live
view. The admin API changes plugin fields, from its own goroutines, while all this runs,
and reads rows and counters for its views. A signal starts a goroutine that shuts the server
down and waits for the WaitGroup.

## 2. What is hard here

- **Check, then act, with a network call in between.** Budget and token limits are
  checked before the upstream call and charged after it, by goroutines that do not
  exclude each other; the UTC day may change in between.
- **Unlocked fields.** `ReloadConfig` of budget, rate limit, tool policy and cost tracker
  writes fields one by one that handlers read more than once; the price refresh writes beside it.
- **Time.** Counters expire lazily; memory and Redis give them different lifetimes; bursts
  at window boundaries add up; a Redis pipeline may be executed by half; counters are kept
  under the UTC date and looked up under the local one.
- **A counter over many exits.** The WaitGroup is incremented at one place and decremented
  on every early return and in another goroutine.
- **Shutdown.** `main`, the signal goroutine, the handlers and the reporting goroutines
  race with a timeout.
- **A channel closed outside the lock** that protects the map it is in, with publishers
  that send under the read lock, and an RWMutex whose waiting writer stops new readers.
- **Reading while others write.** A client pages through a table whose rows arrive late and
  share timestamps; an alert round works with copies that `UpdateConfig` has replaced.
- **A migration in many commits**, by several instances at once, any of which may be killed or meet an error.
- **Streams.** What is recorded and checked is put together from events, which may be held
  back, nested, cut off, or of the other protocol.

`PROJECT.json` lists each hazard at its line with the properties that cover it.

## 3. Modules

**EagerStore** is the abstract promise of a state backend: counters that vanish at their
deadline. **MemoryStore** is `internal/state/memory.go`: the map, its lazy reads, the
janitor, `Close`. Time is a number of milliseconds advanced by `Tick`. Every method holds the mutex
throughout, so each is one action. `ActsEagerly == Eager!Spec` instantiates EagerStore
with the refinement mapping that hides expired entries.

**Spend** is the loop budget -> upstream -> cost tracker for several handlers (`Workers`),
each with a program counter, in one of several gateways. The counters are those of the shared backend; the tracker's map, the
limits and the reloads belong to one gateway and begin anew when it restarts (`Restart`), Redis goes on. Over memory there is
one gateway (`SpendAssumption`), and its counters go with it. One action is one access to shared state: first and second
read of each limit (`Arrive`/`CheckSession`, `EnterDay`/`CheckDay`), the locked update of
`sessions` (`Track`), each of the three `Increment`s, each of the two writes of
`ReloadConfig`, midnight. A cost is counted in `1/Scale` of a microdollar, and `Micros` is the
truncation of `int64(cost * 1e6)`. With `Unreliable` a store call may fail: reads let
the request pass, lost increments are ignored, as in the code; the history `failed` notes
whether a check or a charge was lost, by an error or by a restart before it, for the properties that hold only until then. The history
`spent` is what the responses of each session have cost, exactly.

**RateLimit** is the rate limiter over either backend (`backend`, chosen at startup among
`Backends`). The history `lifted` notes that the token limit was 0 at some moment. A counter is
`[count, left]`, `left` being the ticks it still lives; `passed[n]` counts the requests that
passed the request check in the last `n` ticks, so no clock grows. `LeftAfter` is the whole difference
between the backends: memory keeps the deadline, Redis sends `EXPIRE` each time. `HalfBumped`
is an `INCRBY` whose `EXPIRE` was lost.

**Gateway** is `llmHandler`, its goroutine, and shutdown. `pc[r]` walks through
`reading, hooks, route, upstream, respond` (the handler) and `save, record, publish` (the
goroutine). Every early return is an action: `BadBody` (before `wg.Add`), `Refuse`,
`RejectKey` (the one without `wg.Done`), `UpstreamFails`. `server` is `main`: serving, listener closed,
running its deferred calls, gone; `drain` is the signal goroutine. An upstream
status recorded by the stream branch is 200 whatever the client got
(`UpstreamAnswers`), and `Record` decrements the gauge as `recorder.go:32` does.

The statuses `Uncleared` are those in which `wg.Add` has not been matched yet.

**ToolPolicy** is the tool policy and the follow-up loop of `handleRequestStream`. A
handler asks the upstream, keeps the whole answer, and asks `IsBlocked` about its tools in
order (`scan`); at the first hit it asks about all of them again to build the follow-up
(`build`), which returns to the upstream with one follow-up less (`FollowUp`). `IsBlocked` is three actions,
`ReadAllowed`, `ReadBlocked`, `ReadMode`, one per field, and `ReloadConfig` six, one per
statement, the filling loops name by name; a full `PUT` of several admins may overlap. Requests are of three
kinds: streaming; streaming with a body that a follow-up cannot extend (`opaque`, for which
`buildFollowUpRequest` returns nil and the answer is forwarded); not streaming (`plain`, never checked). Go's
runtime stops a process that it catches using a map while it is being written: `Throw` is
that choice, wherever the accesses may meet. `steady` and `last` are histories of the properties.

**RuntimeConfig** is the life of a configuration section: `PUT` and `DELETE` step by step
(read the old row, save, audit, reload), every storage call fallible, a crash anywhere, and a startup that
lays the rows over the file and registers the plugins that have a limit. A value is its spelling and
one limit: `ReloadConfig` understands `max_cost_per_day` (`ByPlugin`), the overlay only the
names of the Go fields (`ByOverlay`), neither a value of another type. The unlocked field writes inside
a reload are Spend's, RateLimit's and ToolPolicy's subject; here a reload is one step.

**SSEBroker** is the broker over an explicit RWMutex (`readers`, `pending`): a waiting
writer admits no new reader, as Go documents. `Publish` visits a snapshot of the map in any
order and sends without blocking (`Send`, `Full`); `Leave` deletes under the write lock, and
`CloseChannel` closes after unlocking, a step of its own, as in the code.

**ManagedKeys** is the router: `Generate` with its upsert into a table
that has one row per `id` (the ID it leaves empty), `DisableKey`, and each managed request's way
through `Validate` (prefix, hash, `enabled`), `SelectProvider` and the two maps by provider name
from which `main` takes proxy and credential. The credential is put beside the headers of the client, which the map holds under their
canonical spelling, and the proxy sets both in the random order of the map: `Clash` is that choice, for `x-api-key` and
`Authorization` each. A key stands for its hash; prefixes may coincide.

**CostPricing** is the price table. The refresh goroutine merges a catalogue, reads
the overrides, and merges them (`MergeFetched`, `ReadOverrides`, `Reapply`: two
critical sections with an unlocked read between them); `ReloadConfig` merges what is asked for into the table, copies the
map of overrides with its own added, and installs the copy. Histories note which models had a reload
beside another reload (`overlapped`) or beside a refresh (`raced`). The catalogue is a function
provider -> model -> price, of which Go's map order picks one provider per model.

**Alerting** is the evaluator: a round copies rules, notifiers and last firings, then checks
one rule per step, and hands an alert to its notifiers while `UpdateConfig` and the clock may move.

**Statistics** is what the admin API computes: a request is charged to the counters when it finishes, in whole microdollars
(`CostMicro`) and as far as Redis takes the increments, and stored later, if `SaveRequest` succeeds. `listSessions`, `costStats` and `timeseriesStats` are
operators over the newest rows of the table (`Newest`: each query has a limit), the counters, the clock and the zone; costs are rounded to cents
(`round2`), and priced at two dollars for a million tokens when there is no tracker. `Poll` is a client that asks for one range after the other. The history
`spent` in each charge is the UTC day it went to, `known` in each row how far the client had got when it was stored. The price may
change and the gateway may restart; `forgotten` and `unsaved` note that a counter or a row was lost.

**SSELines** holds lines of both protocols and the collector of `streaming.go` as operators:
held-back event lines, usage, text, tool blocks. It is used by **StreamCollect**, one
streamed answer read line by line until its end, an oversized line, or a broken connection, and then
delivered and recorded, and by **Translate**, which translates a message's stream one line
per step in either direction, and requests and responses at once. A message is a sequence of blocks;
`AnthropicLines` and `OpenAILines` are the streams that providers make of it. Tools have an input, which comes with a plain answer
and in pieces with a stream, blocks may be thoughts, and tokens may be reported with the first event or be written to the cache: each of
these gets lost somewhere, and the properties say where.

**Schema** is the opening of the database by several instances: tables, the version, one `ALTER TABLE` per
column, indexes, the version mark; every statement commits by itself, and an instance may be
killed between any two, or a statement fails (`StatementFails`): then the start fails and `main` exits. A version that cannot be read
counts as 0 (`ReadFails`).

**RequestStore** is the table of requests. Rows are stamped, then saved, in any order; SQLite and
PostgreSQL treat compressed bodies differently; a client follows cursors through the list or counts its
way through a session while rows come in.

`MC*` modules hold the constants of the instances, `*Proofs` modules the theorems. **Aggregates** holds the
lemmas about least elements, sums and finite sets that several of them need. Definitions whose comment
starts with "Mutant" are plausible bugs; they are used nowhere, and substituting one for
the definition below it must make the property named in `PROJECT.json` fail.

Composition. The interfaces between components are narrow: Spend and RateLimit see a backend through
the contract that MemoryStore implements (counters, deadlines), Gateway sees the plugins
through a verdict and the broker through one call that SSEBroker shows to return, Statistics sees the
tracker's counters and the saved rows. Components that share no state are checked beside each other in one run
(`MCStores`, `MCToolPolicy`, `MCRuntimeConfig`): a variable `part`, chosen at the start and
never changed, says which of them moves, and the others stay in a single initial state. The run then
visits the sum of their state spaces instead of the product, and loses nothing, since no action of
one reads a variable of another.

## 4. Runs

| run | checks | shows |
|---|---|---|
| spend | SessionOvershoot, DailyOvershoot, LedgersAgree | while checks reach the store, a session or day stays below its limit plus one charge per handler, reloads, restarts and midnight included; while charges do and no restart cuts one short, the ledgers differ exactly by what is between two increments and cover what was spent but for less than a microdollar of each request; two gateways and a restart make neither a counter nor the trackers claim more than was spent |
| rate_limit | TwiceTheLimit, SlidingWindow, TokenOvershoot, MemoryRecovers | fixed windows of the memory backend: twice the largest limit per minute and no more, tokens overshoot by one response per client, retrying clients get through once the limits stay as they are; renewed windows of Redis: the limit per minute and no more, failures included |
| rate_limit_renewed | Recovers, violated | over Redis, clients that retry are refused for ever |
| gateway | TypeOK, OnlyRejectsLeak, DrainedIsDone, PublishedIsReadable, Finishes, DrainCompletes | the WaitGroup is never negative and counts the requests in flight and the rejected keys, nothing else; a completed drain is complete; events follow rows; admitted requests finish, and a drain ends by itself unless a rejected key holds it |
| gateway_leak | InFlightCounted, violated | a rejected key leaves the WaitGroup too high for ever |
| gateway_exit | ExitsDrained, violated | the process ends while requests run |
| tool_policy | Shielded, FollowUpExplains, ReloadExact, Ends | under a policy that stands still no blocked tool passes before the budget is exhausted, and the model is told exactly which tools are blocked; a reload by itself leaves exactly its policy, overlapping ones never an empty allowlist; the budget ends every request |
| | Verbatim, RecordsAgree | the client gets every line of a stream in order, or none; what is recorded of a stream is what a plain answer with the same message would have recorded, but for the input of its tools, tokens reported at its start and the tools of OpenAI streams |
| | StreamKept, RoundTrip | a translated stream yields the same text, stop reason and tools; requests and responses survive both translations but for thoughts, tokens written to the cache, one tool choice, and arguments, which make a response unreadable |
| tool_policy_reload | AlwaysBlockedNeverSeen, violated | a tool that both policies block passes during a reload |
| runtime_config | InForce, AuditExplains | settled, a plugin enforces what was last asked for, failures, crashes and restarts included, unless changes overlapped; so does the newest audit row tell what the last change replaced and wrote |
| | FirstKeyOnly, OwnCredential | the first key, and no other, is ever accepted; in each header a provider is sent its own key or what the client sent, never the key of another provider, providers of one name included |
| | OverridesPrevail | the price that was asked for last is kept and charged, but for models whose reload overlapped another reload or a refresh |
| | CountersMatch, RangesAdjoin | the daily cost shown is what was spent on the UTC day that the local date names, but for less than a microdollar of each request; counters and rows give one total within the rounding to cents, until prices change or something is lost; a client that asks for adjoining ranges is told of a request on an edge twice, of one stored late never, of all others once |
| | AlertsInOrder | a name keeps its cooldown across rounds, and what `UpdateConfig` has removed outlives the round under way by nothing |
| config_overlay | StoredOverridesFile, violated | a stored limit is gone after a restart |
| keys | AnnouncedWorks, violated | the second key that the admin API hands out is stored nowhere |
| stores | ActsEagerly | lazy cleaning cannot be observed: MemoryStore implements EagerStore |
| | NoSendOnClosed, Delivery, NeverStuck | live clients may join, lag and leave in any order without a panic, a reordering, a loss other than by a full channel, or a publisher that waits |
| | ListComplete, ListEnds, SessionComplete, BodiesKept | pages of the list descend, end, and miss only rows that share the millisecond of a page's last row; counting through a session repeats rows but misses none of different milliseconds; bodies come back as they were saved but for the cases named |
| | WholeSchema, MigrationFails, StartsServe | whoever serves has all columns; unless a statement fails, an instance gives up only on SQLite, beside or after another migration; only a kill or a failing statement cuts one short, and a migration of SQLite that was cut short is never finished; otherwise who starts serves in the end |

Deadlock is not checked where the system, or the part of it that the model keeps, may
stop: the bounded numbers of requests, events, rows, ticks, restarts and kills of Spend, Gateway, `stores` and
`runtime_config` run out, a stream ends (`tool_policy`), and there the Go runtime may stop the process.
RateLimit, RuntimeConfig alone (`config_overlay`) and ManagedKeys alone (`keys`) are checked for deadlock.

## 5. Bounds, and why they are enough

- spend: two gateways over one store whose calls may fail, two handlers that may be in either, two sessions (handlers and sessions are interchangeable:
  symmetry), two days, three requests in all, one restart. Two handlers show every race between check and charge, in one gateway or in two; the
  third request finds the counters the first two left, after a restart too. Costs 0, 1, 3 and 5 with `Scale = 2` are: nothing, a cost that
  truncation loses entirely, and charges of one and of two that lose a fraction; three charges of two would reach the bounds, which are six. The admin of one gateway raises the session limit and lowers the day limit; the other gateway keeps
  those of the file. The view `Seen` identifies states that differ only in what nothing reads again: the request of a handler
  that is idle or blocked, a date that is formatted anew before its next use, limits when no check is to come, and after the last restart which of the trackers shows a
  cost (their sum stays). It keeps all that the three invariants read, so they have one value on states that it identifies.
- rate_limit: two clients, both backends, a minute of two ticks, limits of two and one
  requests, one token and none, changed at any moment. `Saturation = 4` stops counters above every
  limit and above every bound that `TokenOvershoot` compares with. The violation run needs only
  one limit and saturates at 2.
- gateway: two requests, one success and one error status, all of it under fairness and hence
  without symmetry. Two requests share the counter, so any mistake of +-1 shows, and the second may be
  admitted between the end of the first and the drain. The safety part is proved for any number.
- tool_policy, tools: one handler, since handlers share nothing but the fields they read; two admins, so
  that reloads overlap; two tools, of which an answer uses none, one or both; a policy of each
  form and one that mixes them; two follow-ups instead of three, so that there is a first, a last and an exhausted one.
- tool_policy, streams: every sequence of up to three lines of nine sorts, an oversized one among them, and the
  streams of every message of up to three blocks in both protocols. Held-back events involve two neighbouring lines,
  and blocks interact pairwise (index, order). Translations: four messages that hold texts,
  tools, a text between tools and nothing, cut into pieces of which one is empty; five stop reasons, known to either table or to none; conversations of up to two
  messages, with tool results.
- runtime_config, settings: one section, since sections share nothing; two interchangeable admins, so that changes
  overlap; a file with a limit; rows that set a limit, lift it, or are understood by the overlay only or by nobody.
- runtime_config, keys: three keys, two of one prefix; three providers, two of one name, two that take one model.
  Prices: two reloaders and the refresh, two models of which the catalogue prices one twice. Alerts: a clock to 4,
  durations 0 to 2, rule sets with a name used twice, with a name that both sets have, and with none. Statistics: two requests out of three sorts,
  windows of two rows and a limit of one for time series, days of two hours and two of them, a price of a fraction of a microdollar and one above it (`Micro = 2`),
  cents of two microdollars; Redis east of UTC, memory west of it, and no tracker at all.
- stores, counters: two keys, lifetimes 1 and 2, time to 5: two windows of the longest lifetime
  after one another, with the janitor in any place. Events: two publishers, two clients, channels of one, three
  events; a channel of one fills at once, and three events let one publisher send twice while the other is in its loop.
- stores, requests: pages of one, three rows, two milliseconds: two rows may share one and a third stand apart, and a row may
  arrive behind a page. Schema: two instances, three columns (a first, a middle, a last), two kills, two failing statements.

`MaxTime`, `MaxValue`, `LastDay`, `MaxRequests`, `MaxRestarts`, `MaxEvents`, `Saturation`, `MaxRows`, `MaxMillis`, `MaxKills`, `MaxFaults`,
`MaxClock`, `MaxHour` and `MaxAnswers` are the only bounds; each is a guard of one action or the cap of one counter. In Statistics one increment, one save, one price
change and one restart may go wrong or happen, as their comments say.

## 6. Fairness

- RateLimit (`FairSpec`): time passes, handlers run, and clients keep sending requests. The last is the
  question itself: what happens to those who retry. `MemoryRecovers` supposes that the limits are left alone from some
  moment on: a limit that is lifted between the two reads of one request refuses it, so an admin who toggles it for ever could starve everybody.
- Gateway (`FairSpec`): each request's steps from the hooks on, `ShutdownReturns` and `WaitReturns`
  are weakly fair. Goroutines are scheduled; the upstream client has a timeout of 120 s
  (`proxy.go:69`); a client takes its answer or disconnects. Nothing is assumed of
  `Accept`, of the upload of a body (`Admit`, `BadBody`), of signals, of the
  expiry of the timeout or of the end of `main`.
- ToolPolicy: each handler's steps; the upstream answers or the call fails, within
  the same timeout. Nothing is assumed of admins or of new requests.
- SSEBroker: publishers in their loop and goroutines that wait for the lock run.
  Nothing is assumed of readers: `Receive` and `Disconnect` may never happen, and
  `NeverStuck` holds all the same.
- RequestStore: the client goes on reading its list (`ListEnds` is about such a client). Nothing
  is assumed of requests that finish or of their saving.
- Schema: statements return, with or without an error, and an instance that is down is started again
  (`docker-compose.yml:13`, `restart: unless-stopped`). Nothing is assumed of kills and errors; there are finitely many.

In the composed runs the conditions name the moving part, so that a part that stands still owes nothing.

## 7. Proofs

Each theorem holds for every value of the constants that satisfies the module's assumption.

**Aggregates.** The community modules define sums and extremes by folds, which are recursive functions. What is
proved about them (`Max` and `Min` bound a finite set, `SumFunction` changes with one argument, a sum of two functions is
the sum of the sums, the sum over a disjoint union) is proved by a least counterexample, since the library's
induction theorems take an operator as a parameter: the set of sizes at which the claim fails has a least element, and
removing an element of such a set gives a smaller one. The other modules use that form for lists as well.

**CostProofs.** `SpendTypeCorrect`, `SessionOvershootBounded` and `DailyOvershootBounded`, for a
reliable store and for one that fails: a lost charge only lowers a counter, and from the first lost
check on nothing is promised. The bound itself is not inductive: it
says nothing of handlers that have passed the check. The strengthening, for a given cap, is
`SessionInv(cap)`: the session's counter is below the cap plus one `MaxCharge` for each
handler that is not *exposed* to it, where exposed means that it has passed the check of that session
and not yet charged it. A handler that becomes exposed saw the counter below the limit, and
hence below the cap; one that charges leaves the exposed set and pays for its charge with its
own share. `DayInv` is the same per day, where every exposed handler may charge any day,
because midnight may pass before it does.
`LedgersAgreeAlways` (`LedgersAgree`), for any gateways and restarts, rests on `LedgerInv`: while nothing was lost the ledgers differ by the sum of
what is due between two increments (`LedgerSums`); what a session has cost covers its counter and what is still to be
added to it (`SpentCharged`), and what the trackers of all gateways show (`SpentShown`); and what the truncation has dropped is less than a microdollar for each
request served (`FractionsLost`). A charge moves its share from one sum to the other; a restart empties a tracker and, when it cuts no charge
short, moves no sum.
`PricingTypeCorrect` and `AskedPrevails` (`OverridesPrevail`), for any models, catalogues and any number of
reloads. A model is *certain* when its last reload overlapped no other; a reload that overlaps no other is the
last to have asked (`LastAsked`), so the map it installs keeps every certain override (`Kept`, `MergedKept`). The refresh
reads the map outside the lock: a model whose reload ran meanwhile is marked (`Racing`), and what an undisturbed
refresh has read is what was asked for (`Clean`, `ReadKept`).

**RateLimitProofs.** `TypeCorrect`, `AtMostTwice` (`TwiceTheLimit`), `WindowSlides` (`SlidingWindow`) and
`OvershootBounded` (`TokenOvershoot`), for any number of clients, any lifetime, limits and token counts. `RequestInv` ties
the history to the counter: spans only grow with their length (`SpansGrow`); over Redis, whatever passed within the last
minute is in the live counter (`RedisSpan`); over memory, what passed since the window opened is in the counter, and
what passed in the minute before that is at most one limit (`MemorySpan`), hence twice the limit. `TokenBudget` counts, as
`SessionInv` does, one response for each client that has passed the check and has no answer yet.

**StoresProofs.** MemoryStore: `StoreTypeCorrect` (the map holds well-formed entries), `WindowsAreFixed` (the deadline of
a live counter never moves) and `RefinesEager` (`Spec => Eager!Spec`): each step
of the map is mapped to a step or a stutter of EagerStore, the janitor to a stutter because what
it removes was hidden already. The type invariant is the only invariant needed.
Schema: `SchemaTypeCorrect`, `SchemaIsWhole` (`WholeSchema`) and `FailuresExplained` (`MigrationFails`), for any
number of instances, columns, kills and failing statements. Columns are added in order, so an instance at column `k` has those below `k` behind
it (`Added`); on SQLite columns are added by the one instance that added the first (`OneActive`, `OwnOnly`), since any other
fails at column 1, which exists from then on (`FirstIsFirst`). From these a cut-short migration has
nobody who could finish it, and an instance that gives up without an error of its own has added nothing, so it leaves none behind.
RequestStore: `ListsAreComplete` (`ListComplete`), `SessionsAreComplete` (`SessionComplete`) and `BodiesAreKept`
(`BodiesKept`), for any rows, sessions and page size. The invariant `ListInv` of a client that follows cursors is that whatever
matches at its cursor or above has been seen, on a page or beside the last row of one (`SeenToCursor`); that of one
that counts, `CountInv`, that it has seen whatever has fewer younger rows than it has counted, which new rows
cannot spoil, because they only push older ones on. `TableInv` says what the table makes of each body.

**AdminProofs.** RuntimeConfig: `ConfigTypeCorrect`, `LimitsInForce` (`InForce`) and
`AuditTellsLastChange` (`AuditExplains`), for any number of admins, sections and values, with failing
storage calls and crashes. Both properties are about settled sections, so neither is inductive; `Inv`
says what holds while a change is under way: what a change without competition has read is
what it will replace (`ReadIsCurrent`), its audit row is written or its handler is about to
(`AuditArrives`), its value is in force or its handler is on the way to reload
(`PutArrives`), and since a startup nobody has changed what that startup read (`SinceStartup`). All of them rest on
`Exclusive`: a change that began alone and is not marked since still has its section for itself.
ManagedKeys: `KeysTypeCorrect`, `OnlyTheFirstKeyPasses` (`FirstKeyOnly`) and `CredentialsStayApart` (`OwnCredential`), for any keys
and prefixes, and any providers, names shared or not. The table has no row but that of the empty ID (`LoneRow`), which holds the first key
ever announced (`FirstRow`), and what a call found in it, or was sent with, stays true of the call (`CallKept`).
Alerting: `AlertsComeInOrder` (`AlertsInOrder`), for any rules and replacements. An undisturbed round has a rest of the current
rules before it (`CurrentRound`), and the firings it copied are those of every name that has not fired since (`SeenKept`).
Statistics: `ViewsMatchCounters` (`CountersMatch`) and `RangesTellOnce` (`RangesAdjoin`), for any requests, prices, zone, limits and
size of points. The counter of a day is the sum of what was counted of the charges of that day, in flight and stored, from above unless a row was lost
and from below unless an increment was (`CountersHold`); what was counted is less than a microdollar short of the cost (`CostsAreNatural`), and a sum over rows parts
into sums over models or sessions of which each is rounded (`ViewAddsUp`). For the ranges, `PollsHold` says that what was stored before the last range was
asked for is not later than its end, so the next range meets only its edge again; the points of a range add up to its rows, whatever their size (`PointsAddUp`).

**AnswerProofs.** ToolPolicy: `PolicyTypeCorrect`, `ClientsAreShielded` (`Shielded`), `FollowUpsAreExact` (`FollowUpExplains`) and
`ReloadsAreExact` (`ReloadExact`), for any tools, answers, policies, budget, handlers and admins. A handler is *steady*
while no reload has taken a step since its answer came; `Undisturbed` says what a steady one knows: what it
has read of the tool at hand is still so (`HalfRead`), what is blocked in its answer is still ahead of it (`Scanned`), or
already told or ahead (`Explained`), told exactly (`Told`), or nothing (`Passed`). Of reloads, one that is alone has
installed a prefix of its statements (`Progress`), and an empty allowlist in force has some reload at the
statement that fills it (`NotEmpty`): that is why not even overlapping reloads lock every tool out.
StreamCollect: `StreamsAreVerbatim` (`Verbatim`), for lines in any order: what is in the buffer and the line held back are together the lines read
so far (`StreamInv`). `RecordsAgreeAlways` (`RecordsAgree`), for any messages: their number of blocks, and of pieces in which each
comes, is not bounded. The collector has read the lines behind it (`RecordInv`), where reading is stated without recursion, as a
path of records from the empty one to the present (`Reads`). A path parts at every concatenation (`ReadsParted`), so what is read of a
stream follows from what is read of a block, and that from what is read of a piece, each level by a least counterexample.
Translate: `RoundTripAlways` (`RoundTrip`), for any requests and messages that the protocols can express
(`TranslateAssumption`). Nothing moves that the property speaks of, so the work is in the operators: lists
that are put together from the parts of a list, `FlattenSeq`, are described by their prefixes (`PutTogether`).
`StreamKeptAlways` (`StreamKept`), in both directions, for messages of any number of blocks and pieces. A *view* is a
function from a line to what it shows: its text, its tool, its mark (stop reason and tokens), its piece of the arguments at an
index, or the lines it is translated to. What a list shows is gathered line by line (`Gathered`), hence parts at every
concatenation, and a view of a view is a view (`GatheredTwice`). The state enters by `TranslateInv` alone: the
output so far is what the target's view gives of the lines that are done, and the event name that is held is that of the data to
come. The rest is about lists: what one event of each sort is translated to (`OpenAIYields`, `AnthropicYields`),
then a block, a message (`MessageGives`), and its lines (`OpenAIStream`, `AnthropicStream`). `Collected` says that the collector finds what
the views gather, provided that one line at most bears a mark: a second one would
overwrite the first. Arguments are found by their index, so it must be shown that no two tools share one: to the OpenAI protocol it is the
position of the block, to the Anthropic protocol the number of tools before it (`NthApart`). `TranslateAssumption` asks that tools have an
id, as both protocols do: by it the client tells the line that opens a tool from the others.

**GatewayProofs.** `TypeCorrect` (with it: the WaitGroup never goes negative, which would
panic), `WaitGroupAccounted` (what the counter counts: `OnlyRejectsLeak`), `WaitGroupExact` (exactly the requests in flight, for `RouterMode = FALSE`), `DrainSound`,
`PublishAfterSave`. The invariant is `IInv`: the counter is the number of requests in
flight *or rejected*, since a rejected key never calls `Done`; without the router nobody is
rejected, so the counter is exact. `Drained` adds that a drain that waits without
having expired found no handler, and that none can start once the listener is closed; `Written` that
a request past `save` has a row or a logged failure.

**SSEBrokerProofs.** `TypeCorrect`, `SendsAreSafe` (`NoSendOnClosed`) and `EventsAreDelivered` (`Delivery`). A channel is closed outside the lock,
so that no send meets it must follow from where everybody is: the map holds exactly the
subscribers between `Join` and `Leave` (`MapExact`), closed channels belong to
subscribers that are past `CloseChannel` (`ClosedExact`), and a publisher in its loop holds the read lock
and has only members of the map still to visit (`LoopsLocked`), which `Leave` cannot change
while any reader holds the lock. For `Delivery` it is added that nothing has reached a channel that was not yet offered to
it (`NoneAhead`), so that the event a loop sends next is younger than all that arrived, and that a joining client finds no loop in progress.

## 8. What is only model-checked

Liveness alone (`MemoryRecovers`, `Finishes`, `DrainCompletes`, `Ends`, `NeverStuck`, `ListEnds`, `StartsServe`): properties under
fairness, which the prover does not treat. Every other property that a passing run checks, invariant, action property or
refinement, is a theorem. The violations are TLC's alone: a counterexample needs one instance.

## 9. Where code and documentation disagree

Shown by a run (`findings` in `PROJECT.json`):
- `redis.go:82`: refused requests renew the window, so it does not "naturally slide"
  (`ratelimit.go:64-65`; rate_limit_renewed).
- `main.go:495`: the return for an invalid managed key has no `wg.Done` (gateway_leak).
- `main.go:683`: `main` returns as soon as the listener is closed and does not wait for the drain
  of lines 657-677 (gateway_exit).
- `toolpolicy.go:66`: the blocked names are emptied and then filled again without a lock, and a tool that
  the old and the new policy both block is sent to the client, which "never sees" it
  (line 17; tool_policy_reload).
- `config.go:286`: the stored values, spelt as the admin API, the UI and `ReloadConfig` spell them, match no
  field of the structs the overlay fills (yaml tags only), so that a restart switches the section
  off; `website/guide/configuration.md:119` says they "override YAML at startup" (config_overlay).

- `keymanager.go:55`: `Generate` leaves the ID of a key empty and `api_keys` has one row per ID, so that the
  second key, which `Generate` says it "persists", is stored nowhere (keys); none can be disabled (handler.go:703 requires
  an ID).

Read off the code while modelling, certain without a run, or part of what a property says:
- budget.go:64-66 reads the limit twice: lifted to 0 in between, it blocks a request, though line 29
  says 0 means unlimited.
- budget.go:1-2 promises to block requests "that would exceed" a threshold; what is compared is
  the sum before the request, and Spend states the bound that does hold.
- ratelimit.go:1-2 and memory.go:102-103 speak of a sliding window and of extending the expiry; the
  memory backend has a fixed window. RateLimit states twice the limit instead.
- memory.go:52 says expired entries are cleaned on each write; only the janitor does it.
- redis.go:73-75 says the pipeline is atomic; it is a plain pipeline.
- recorder.go:32 decrements `active_requests`, and nothing outside tests increments it, so the
  gauge is minus the number of finished requests (metrics.go:59).
- main.go:535 records status 200 for a stream the upstream refused (proxy.go:313-323).
- toolpolicy.go:68 and 75 write maps that `IsBlocked` reads at the same time: Go's runtime may
  stop the whole process ("concurrent map read and map write"); `Throw` is that step.
- main.go:530: a request that does not stream is not checked for blocked tools, though `IsBlocked` is for "SSE
  streams and non-streaming responses" (toolpolicy.go:96-97).
- handler.go:865-902: `DELETE` reloads nothing, so a deleted limit is enforced until a restart; `InForce`
  therefore says nothing after a `DELETE`.
- handler.go:841-850: two `PUT`s of one section may save in one order and reload in the other;
  nothing repairs the difference before the next change. `InForce` excludes overlapping changes for that reason.
- proxy.go:336-348: a streaming body without a list of messages (OpenAI's responses API) cannot be
  extended, and the blocked tool is forwarded; and what intermediate rounds cost is not
  charged, since only the last round's usage is returned.
- budget and rate-limit plugins are registered only if a startup limit is positive, so a later
  PUT reaches nobody.
- The plugin order of website/guide/architecture.md:20-24 is not that of main.go:280-351.
- handler.go:111 calls the session filter of the list an "exact match"; it is a `LIKE` with wildcards on either side
  (sqlite.go:238), which `Containing` models.
- postgres.go:57 stores `created_at` as a timestamp and postgres.go:314 compares it with a number: the second page of a list fails
  (`ListFails`); `ListEnds` is about SQLite.
- postgres.go:178 writes compressed bodies to a `TEXT` column, which refuses them; the error is logged and the row lost.
  sqlite.go:208 returns the bodies of a session without decompressing them. `BodiesKept` names both.
- proxy.go:266 "relays directly"; the whole stream is collected first (`StreamCollect`), within one timeout of 120 s.
- main.go:444 forwards `Accept-Encoding`, so that the transport does not decompress, and a compressed answer is neither metered nor
  checked.
- main.go:503 says it injects the provider's key "so the proxy forwards it"; the client's own header is in the map too, under its canonical spelling
  (443-445), and `Header.Set` (proxy.go:90) makes one header of both in the random order of the map, so that the provider may be sent the managed key instead (`OwnCredential` says
  "either").
- website/guide/api-reference.md:9 has router mode authenticate by `Authorization: Bearer sk-lli-*`; only `x-api-key` is read (main.go:489).
- proxy/streaming.go:86-94, 111-126: the input of a tool is taken from the event that opens its block, where providers send an empty object, and the pieces that follow are
  ignored; a plain answer's is recorded (proxy.go:187-189, proxy_test.go:616). Logs and follow-ups of streams lack it (`RecordsAgree`, `WithoutInput`). Blocks of thoughts become empty blocks
  of text in a follow-up (100-106).
- proxy/streaming.go:146: usage is taken from the top level of an event, so tokens that are reported inside `message_start` are dropped from the collected usage, and tools
  of OpenAI streams are not collected, hence not checked; `RecordsAgree` excepts them.
- streaming.go (translate) 290-413: to the Anthropic protocol every text block has index 0, as has the first tool, and the closing
  "[DONE]" is sent as a quoted string; `StreamKept` collects in spite of both. anthropic.go:169 writes the
  arguments of a tool call as an object, openai.go:136 reads a string: a translated response with tools cannot be read back (`RoundTrip`).
- anthropic.go:139, 218-221: tokens written to the cache are read and not passed on. anthropic.go:155-173 drops blocks of thoughts, which website/guide/router-mode.md:42 says
  become `reasoning_content`. anthropic.go:14, 29-31: a request whose system is a list of blocks, as the Anthropic protocol allows, is refused.
- cost_tracker.go:243-270: a model that several providers price is charged at a price that depends on Go's map order.
- cost_tracker.go:104: of two reloads that overlap, one's overrides are lost; `OverridesPrevail` excepts them.
- alerting.go:166-185: two rules of one name both fire in one round, whatever their durations, since the times of last firings were copied
  before it; a webhook without a timeout stops the evaluator.
- handler.go:410 asks for the counter of the local date; the tracker counts under the UTC date (`CountersMatch` says when
  they meet). Costs that a counter drops for being less than a microdollar, failed increments and rounding to cents (handler.go:495) keep the two views of spending from agreeing exactly.
- handler.go:1016 cuts the index of a percentile off. handler.go:563-567 includes both ends of a range: adjoining ranges tell of a request on their edge twice (`RangesAdjoin`).
- cost_tracker.go:189-191: after a restart, or beside another gateway, the counters in Redis and the tracker's costs of a session differ for good; the comment at 213-214 says so of the
  restart. A process that ends between two increments leaves the counters apart.
- sqlite.go:86-103: an instance killed during the migration leaves a database that no later start can open (`MigrationFails`). So does one in which a statement fails, and a
  version that cannot be read (85-87) is taken for 0, so that a finished migration is begun again and the start fails.
- ratelimit.go:99 adds tokens with the request's context, which is cancelled when the client has gone: over Redis such tokens
  are not counted (RateLimit's failing increments).
- handler.go:289 looks for a single request among the newest 100 only.

## 10. What is not modelled

- SQL, HTTP, TLS, Prometheus and OpenTelemetry libraries: I/O. A call is what it may do to
  the state: succeed, fail, or be lost.
- `internal/plugins/otel.go`: each hook is a call into the exporter. One defect is plain from reading: a span is started in
  `OnRequest` and ended in `OnResponse`, which a blocked request never reaches.
- The copying of headers other than the two of a credential (`Clash`) and `Accept-Encoding`, the extraction of prompts, parameters and error messages in the proxy: data without
  influence on these properties.
- Statistics adds exactly where the code adds floating point numbers; the reads of one view are one moment; failed reads of `costStats`, which show 0 or answer 500, are left out. What is shown of
  a table that has outgrown a window is computed, and `CountersMatch` promises nothing of it.
- RequestStore has no failing `SaveRequest` but that of the `TEXT` column; a lost row is logged, and is on no page. Statistics has lost rows.
- Exempt from a property since the code does nothing about it, and listed as hazards for what the property does cover, or without one: changes and reloads of one section or one model that overlap
  (`InForce`, `AuditExplains`, `OverridesPrevail`), a policy that changes between scan and follow-up (`FollowUpExplains`), and a process that the Go runtime stops (`Ends`).
- Shutdown of the listener waits for every open connection, live views among them (sse.go:77); Gateway has
  requests only: with a live view open the drain takes until its timeout, and `DrainCompletes` speaks of servers without one.
- Startup in `main`, apart from the overlay (RuntimeConfig), the opening of the store (Schema) and the registration of
  plugins: sequential.
- The overlay of prices and providers at startup, the listing of configuration, audit rows and keys, `exportRequests`: reads without control.
- Translation of sampling parameters and tool schemas: a renaming of fields. `main` does not call `internal/translate`, nor start
  the evaluator of `internal/alerting`; both are modelled as their own tests and comments use them.
- `internal/auth`, logging, the web UI and deployment files: sequential, or presentation.
- Gateway leaves the OnResponse hooks to Spend and RateLimit, and panics of a plugin out.
- The two fields a handler reads while another goroutine writes them are data races in the Go memory
  model; they are words, and the models let every read see any written value at the time
  of the read.

## 11. Plan

1. **GatewaySpend**: Gateway composed with Spend, so that a drain's end implies that the
   ledgers agree. Theorem: it implements both components.
2. The overlay of prices at startup, beside CostPricing.

## 12. Running it

    tlc -workers 2 -config MCSpend.cfg MCSpend
    tlapm CostProofs.tla

`rate_limit` (1.8 million states, with liveness), `spend` (4.3 million) and `runtime_config` (2.6 million) are the longest runs, two to
three minutes each; `tool_policy` takes one, the others seconds. AnswerProofs is the longest
proof, six minutes or seven; nothing a proof uses is taken from a run.
