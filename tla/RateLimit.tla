------------------------------ MODULE RateLimit -----------------------------
(***************************************************************************)
(* RateLimitPlugin (internal/plugins/ratelimit.go) over the two backends   *)
(* of internal/state.  Memory gives a counter its lifetime when it creates *)
(* it; Redis renews the lifetime with every increment, refused requests    *)
(* included, and may fail halfway.  Time is kept as what is left of each   *)
(* lifetime and as the admissions of each recent span, so that runs need   *)
(* no bound on the clock.                                                  *)
(***************************************************************************)
EXTENDS Integers, FiniteSetsExt

CONSTANTS
    Clients,        \* clients, each with one request at a time
    Backends,       \* backends to start with: "memory", "redis"
    TTL,            \* one minute, in clock ticks
    Tokens,         \* token counts of responses
    Configs,        \* limits an admin may PUT: [req, tok], 0 = unlimited
    InitialConfig,  \* the limits read at startup
    Saturation      \* counters stop here; above every limit

Config == [req : Nat, tok : Nat]

Forever == -1       \* a Redis key whose EXPIRE was lost

ASSUME RateLimitAssumption ==
    /\ IsFiniteSet(Clients)
    /\ Backends \subseteq {"memory", "redis"}
    /\ TTL \in Nat \ {0}
    /\ Tokens \subseteq Nat /\ Tokens # {} /\ IsFiniteSet(Tokens)
    /\ InitialConfig \in Config
    /\ Configs \subseteq Config
    /\ Saturation \in Nat
    /\ \A c \in Configs \cup {InitialConfig} : Saturation > c.req /\ Saturation > c.tok

VARIABLES
    backend,    \* cfg.State.Type, chosen at startup
    pc,         \* pc[c]: where the request of c is
    requests,   \* "ratelimit:requests:global": [count, left], left = 0: no key
    tokens,     \* "ratelimit:tokens:global"
    reqPerMin,  \* RateLimitPlugin fields, written without a lock
    tokPerMin,
    reloading,  \* ReloadConfig calls between their two writes
    lifted,     \* history: the token limit was 0 at some time
    passed      \* history: passed[n] requests passed the request check in the last n ticks

windows == <<requests, tokens>>
limits == <<reqPerMin, tokPerMin, reloading, lifted>>
vars == <<backend, pc, windows, limits, passed>>

\* Store calls over the network may fail; the memory backend returns no error.
Unreliable == backend = "redis"

NoWindow == [count |-> 0, left |-> 0]

Init ==
    /\ backend \in Backends
    /\ pc = [c \in Clients |-> "idle"]
    /\ requests = NoWindow
    /\ tokens = NoWindow
    /\ reqPerMin = InitialConfig.req
    /\ tokPerMin = InitialConfig.tok
    /\ reloading = {}
    /\ lifted = (InitialConfig.tok = 0)
    /\ passed = [n \in 0..TTL + 1 |-> 0]

\* Memory drops an entry when now > expiry, Redis when its TTL has run out.
Lifetime == IF backend = "memory" THEN TTL + 1 ELSE TTL

Saturate(n) == IF n > Saturation THEN Saturation ELSE n

\* Mutant: the memory backend renews the expiry as well.
AlwaysRenewed(left) == Lifetime

\* Mutant: Redis sets a lifetime only on the first increment (EXPIRE NX).
NeverRenewed(left) == IF left # 0 THEN left ELSE Lifetime

\* What a live counter has left after an increment: memory.go:108-113 leaves
\* the expiry alone, redis.go:82 sends EXPIRE every time.
LeftAfter(left) == IF left # 0 /\ backend = "memory" THEN left ELSE Lifetime

\* IncrementWithTTL
Bumped(win, n) ==
    [count |-> Saturate((IF win.left = 0 THEN 0 ELSE win.count) + n),
     left  |-> LeftAfter(win.left)]

\* INCRBY was executed and EXPIRE was not: the pipeline is not a transaction.
HalfBumped(win, n) ==
    [count |-> Saturate((IF win.left = 0 THEN 0 ELSE win.count) + n),
     left  |-> IF win.left = 0 THEN Forever ELSE win.left]

\* What a failed IncrementWithTTL may have done to the counter.
AfterFailure(win, n) == {win, HalfBumped(win, n)}

Goto(c, from, to) == pc[c] \in from /\ pc' = [pc EXCEPT ![c] = to]

-----------------------------------------------------------------------------
(* OnRequest                                                               *)

\* A request arrives, a refused client tries again: reqPerMin is read once.
Arrive(c) ==
    /\ Goto(c, {"idle", "refused"}, IF reqPerMin > 0 THEN "count" ELSE "tokenGate")
    /\ UNCHANGED <<backend, windows, limits, passed>>

\* The current tick is the last of every span but the empty one.
OneMore == [n \in 0..TTL + 1 |-> IF n = 0 THEN 0 ELSE passed[n] + 1]

\* Mutant: the comparison lets one request more through.
CountLate(c) ==
    LET after == Bumped(requests, 1) IN
    /\ requests' = after
    /\ \/ /\ after.count > reqPerMin + 1
          /\ Goto(c, {"count"}, "refused")
          /\ UNCHANGED passed
       \/ /\ after.count <= reqPerMin + 1
          /\ Goto(c, {"count"}, "tokenGate")
          /\ passed' = OneMore
    /\ UNCHANGED <<backend, tokens, limits>>

\* Counts the request and compares the new value with the limit.
Count(c) ==
    LET after == Bumped(requests, 1) IN
    /\ requests' = after
    /\ \/ /\ after.count > reqPerMin
          /\ Goto(c, {"count"}, "refused")
          /\ UNCHANGED passed
       \/ /\ after.count <= reqPerMin
          /\ Goto(c, {"count"}, "tokenGate")
          /\ passed' = OneMore
    /\ UNCHANGED <<backend, tokens, limits>>

\* A store error lets the request through unchecked.
CountFails(c) ==
    /\ Unreliable
    /\ Goto(c, {"count"}, "tokenGate")
    /\ requests' \in AfterFailure(requests, 1)
    /\ UNCHANGED <<backend, tokens, limits, passed>>

\* tokPerMin is read for the first time.
EnterTokens(c) ==
    /\ Goto(c, {"tokenGate"}, IF tokPerMin > 0 THEN "tokenCheck" ELSE "upstream")
    /\ UNCHANGED <<backend, windows, limits, passed>>

\* Mutant: the token counter is never compared with the limit.
NeverOverTokens == FALSE

OverTokens == tokens.left # 0 /\ tokens.count > tokPerMin

CheckTokens(c) ==
    /\ \/ OverTokens /\ Goto(c, {"tokenCheck"}, "refused")
       \/ (~OverTokens \/ Unreliable) /\ Goto(c, {"tokenCheck"}, "upstream")
    /\ UNCHANGED <<backend, windows, limits, passed>>

-----------------------------------------------------------------------------
(* The upstream call and OnResponse                                        *)

UpstreamError(c) ==
    /\ Goto(c, {"upstream"}, "idle")
    /\ UNCHANGED <<backend, windows, limits, passed>>

\* The response's tokens are added to the token window, if there is a limit.
Respond(c, n) ==
    /\ Goto(c, {"upstream"}, "idle")
    /\ \/ tokPerMin > 0 /\ tokens' = Bumped(tokens, n)
       \/ tokPerMin = 0 /\ UNCHANGED tokens
       \/ tokPerMin > 0 /\ Unreliable /\ tokens' \in AfterFailure(tokens, n)
    /\ UNCHANGED <<backend, requests, limits, passed>>

-----------------------------------------------------------------------------
(* ReloadConfig, one write at a time, and the clock                        *)

ReloadReq(cf) ==
    /\ cf \notin reloading
    /\ reqPerMin' = cf.req
    /\ reloading' = reloading \cup {cf}
    /\ UNCHANGED <<backend, pc, windows, tokPerMin, lifted, passed>>

ReloadTok(cf) ==
    /\ cf \in reloading
    /\ tokPerMin' = cf.tok
    /\ lifted' = (lifted \/ cf.tok = 0)
    /\ reloading' = reloading \ {cf}
    /\ UNCHANGED <<backend, pc, windows, reqPerMin, passed>>

\* A counter one tick older.
Aged(win) ==
    IF win.left = Forever THEN win
    ELSE IF win.left <= 1 THEN NoWindow ELSE [win EXCEPT !.left = @ - 1]

Tick ==
    /\ requests' = Aged(requests)
    /\ tokens' = Aged(tokens)
    /\ passed' = [n \in 0..TTL + 1 |-> IF n = 0 THEN 0 ELSE passed[n - 1]]
    /\ UNCHANGED <<backend, pc, limits>>

Handler(c) ==
    \/ Count(c) \/ CountFails(c) \/ EnterTokens(c) \/ CheckTokens(c)
    \/ UpstreamError(c) \/ \E n \in Tokens : Respond(c, n)

Next ==
    \/ \E c \in Clients : Arrive(c) \/ Handler(c)
    \/ \E cf \in Configs : ReloadReq(cf) \/ ReloadTok(cf)
    \/ Tick

Spec == Init /\ [][Next]_vars

\* Time passes, handlers run, and clients keep sending requests.
FairSpec ==
    /\ Spec
    /\ WF_vars(Tick)
    /\ \A c \in Clients : WF_vars(Arrive(c)) /\ WF_vars(Handler(c))

-----------------------------------------------------------------------------
Window == [count : 0..Saturation, left : 0..Lifetime \cup {Forever}]

(* Type invariant; an expired counter holds nothing.                       *)
TypeOK ==
    /\ backend \in Backends
    /\ pc \in [Clients -> {"idle", "refused", "count", "tokenGate", "tokenCheck", "upstream"}]
    /\ requests \in Window /\ tokens \in Window
    /\ (requests.left = 0 => requests.count = 0) /\ (tokens.left = 0 => tokens.count = 0)
    /\ reqPerMin \in Nat /\ tokPerMin \in Nat
    /\ reloading \subseteq Configs
    /\ lifted \in BOOLEAN
    /\ passed \in [0..TTL + 1 -> Nat]

MaxReq == Max({InitialConfig.req} \cup {cf.req : cf \in Configs})
MaxTok == Max({InitialConfig.tok} \cup {cf.tok : cf \in Configs})

(* A burst at the end of one window and one at the start of the next add   *)
(* up: whatever limits an admin sets and lifts, within any minute at most  *)
(* twice the largest limit passes the check (ratelimit.go:66-67 over       *)
(* memory.go:104-114 and redis.go:73-88).                                  *)
TwiceTheLimit == passed[TTL + 1] <= 2 * MaxReq

(* Redis renews the window with every request, refused ones too, so within *)
(* any minute at most the limit passes the check (ratelimit.go:1-3:        *)
(* "sliding-window" limits).  Requests let through unchecked, by a store   *)
(* error or while there is no limit, do not count.                         *)
SlidingWindow == backend = "redis" => passed[TTL] <= MaxReq

(* Tokens are checked before and added after the upstream call: if no      *)
(* check fails, a window's token count exceeds its limit by at most one    *)
(* largest response per request in flight (ratelimit.go:79-80 against 99). *)
TokenOvershoot ==
    backend = "memory" /\ ~lifted =>
        tokens.count <= MaxTok + Max(Tokens) * Cardinality(Clients)

(* ratelimit.go:64-65: "the TTL ensures old entries expire, naturally      *)
(* sliding the window forward", so clients that keep sending requests are  *)
(* not refused for ever: again and again some request gets through.        *)
Recovers == []<>(\E c \in Clients : pc[c] = "upstream")

(* Over the memory backend they do get through, once an admin lets the     *)
(* limits be: a refused request does not lengthen the window               *)
(* (memory.go:108-113).                                                    *)
MemoryRecovers == backend = "memory" /\ <>[][FALSE]_limits => Recovers
=============================================================================
