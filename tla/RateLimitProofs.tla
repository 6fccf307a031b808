--------------------------- MODULE RateLimitProofs --------------------------
(* For any number of clients, any limits an admin sets and lifts, any      *)
(* window length and any answers: what a minute lets through is bounded by *)
(* the largest limit, once over Redis and twice over memory, and a token   *)
(* window overshoots by at most one largest answer per client.             *)
EXTENDS RateLimit, Aggregates

Places == {"idle", "refused", "count", "tokenGate", "tokenCheck", "upstream"}

(* MaxReq and MaxTok bound every configured limit.                         *)
LEMMA LimitBounds ==
    /\ MaxReq \in Nat /\ MaxTok \in Nat /\ Saturation \in Nat
    /\ MaxReq < Saturation
    /\ \A cf \in Configs \cup {InitialConfig} : cf.req \in 0..MaxReq /\ cf.tok \in 0..MaxTok
<1> USE RateLimitAssumption
<1> DEFINE All == Configs \cup {InitialConfig}
           Reqs == {InitialConfig.req} \cup {cf.req : cf \in Configs}
           Toks == {InitialConfig.tok} \cup {cf.tok : cf \in Configs}
<1>1. \A cf \in All : cf.req \in Nat /\ cf.tok \in Nat /\ cf.req < Saturation /\ cf.tok < Saturation
  BY DEF Config
<1>2. Reqs \in SUBSET Nat /\ Toks \in SUBSET Nat /\ Reqs # {} /\ Toks # {}
  BY <1>1
<1>3. (\A n \in Reqs : n < Saturation) /\ (\A n \in Toks : n < Saturation)
  BY <1>1
<1>4. (\A n \in Reqs : n <= Saturation) /\ (\A n \in Toks : n <= Saturation)
  BY <1>2, <1>3
<1> HIDE DEF Reqs, Toks
<1>5. Max(Reqs) \in Reqs /\ \A n \in Reqs : n <= Max(Reqs)
  BY <1>2, <1>4, MaxOfBounded
<1>6. Max(Toks) \in Toks /\ \A n \in Toks : n <= Max(Toks)
  BY <1>2, <1>4, MaxOfBounded
<1>7. MaxReq = Max(Reqs) /\ MaxTok = Max(Toks)
  BY DEF MaxReq, MaxTok, Reqs, Toks
<1>8. MaxReq \in Nat /\ MaxTok \in Nat /\ MaxReq < Saturation
  BY <1>2, <1>3, <1>5, <1>6, <1>7
<1>9. \A cf \in All : cf.req \in Reqs /\ cf.tok \in Toks
  BY DEF Reqs, Toks
<1> QED
  BY <1>1, <1>5, <1>6, <1>7, <1>8, <1>9

(* The largest answer.                                                     *)
LEMMA LargestAnswer ==
    Max(Tokens) \in Nat /\ \A n \in Tokens : n \in Nat /\ n <= Max(Tokens)
<1>1. Tokens \in SUBSET Int /\ Tokens # {} /\ IsFiniteSet(Tokens)
  BY RateLimitAssumption
<1>2. Max(Tokens) \in Tokens /\ \A n \in Tokens : n <= Max(Tokens)
  BY <1>1, MaxOfFinite
<1> QED
  BY <1>2, RateLimitAssumption

-----------------------------------------------------------------------------
(* Types                                                                   *)

LEMMA GotoType ==
    ASSUME TypeOK, NEW c \in Clients, NEW from, NEW to \in Places, Goto(c, from, to)
    PROVE  pc' \in [Clients -> Places]
BY DEF TypeOK, Goto, Places

(* What an increment, complete or not, leaves: a counter that is not       *)
(* empty, at most n above what was live before.                            *)
LEMMA Incremented ==
    ASSUME TypeOK, NEW win \in Window, win.left = 0 => win.count = 0, NEW n \in Nat,
           NEW after \in {Bumped(win, n), HalfBumped(win, n)}
    PROVE  /\ after \in Window /\ after.left # 0
           /\ win.count <= after.count /\ after.count <= win.count + n
           /\ after.count < Saturation => after.count = win.count + n
<1>1. win.count \in 0..Saturation /\ win.left \in 0..Lifetime \cup {Forever}
  BY DEF Window
<1>2. Lifetime \in Nat /\ Lifetime > 0
  BY RateLimitAssumption DEF Lifetime
<1>3. Saturate((IF win.left = 0 THEN 0 ELSE win.count) + n) = Saturate(win.count + n)
  OBVIOUS
<1>4. /\ Saturate(win.count + n) \in 0..Saturation
      /\ win.count <= Saturate(win.count + n) /\ Saturate(win.count + n) <= win.count + n
      /\ Saturate(win.count + n) < Saturation => Saturate(win.count + n) = win.count + n
  BY <1>1, LimitBounds DEF Saturate
<1>5. after.count = Saturate(win.count + n)
  BY <1>3 DEF Bumped, HalfBumped
<1>6. after.left \in 0..Lifetime \cup {Forever} /\ after.left # 0
  BY <1>1, <1>2 DEF Bumped, HalfBumped, LeftAfter, Forever
<1>7. after = [count |-> after.count, left |-> after.left]
  BY DEF Bumped, HalfBumped
<1> QED
  BY <1>4, <1>5, <1>6, <1>7 DEF Window

(* What a tick leaves of a counter.                                        *)
LEMMA AgedType ==
    ASSUME NEW win \in Window, win.left = 0 => win.count = 0
    PROVE  /\ Aged(win) \in Window /\ (Aged(win).left = 0 => Aged(win).count = 0)
           /\ Aged(win).count <= win.count
<1>1. win.count \in 0..Saturation /\ win.left \in 0..Lifetime \cup {Forever}
  BY DEF Window
<1>2. Lifetime \in Nat /\ Saturation \in Nat
  BY LimitBounds, RateLimitAssumption DEF Lifetime
<1>3. CASE win.left = Forever
  BY <1>1, <1>2, <1>3 DEF Aged, Forever
<1>4. CASE win.left # Forever /\ win.left <= 1
  BY <1>1, <1>2, <1>4 DEF Aged, NoWindow, Window
<1>5. CASE win.left # Forever /\ ~ (win.left <= 1)
  <2>1. Aged(win) = [count |-> win.count, left |-> win.left - 1]
    BY <1>5 DEF Aged, Window
  <2> QED
    BY <1>1, <1>2, <1>5, <2>1 DEF Window
<1> QED
  BY <1>3, <1>4, <1>5

(* A tick and a pass keep the spans typed.                                 *)
LEMMA SpansType ==
    ASSUME passed \in [0..TTL + 1 -> Nat]
    PROVE  /\ OneMore \in [0..TTL + 1 -> Nat]
           /\ [n \in 0..TTL + 1 |-> IF n = 0 THEN 0 ELSE passed[n - 1]] \in [0..TTL + 1 -> Nat]
<1>1. \A n \in 0..TTL + 1 : n # 0 => n - 1 \in 0..TTL + 1
  BY RateLimitAssumption
<1> QED
  BY <1>1 DEF OneMore

(* Every step of a client, an admin or the clock keeps the types.          *)
LEMMA TypeStep == TypeOK /\ [Next]_vars => TypeOK'
<1> SUFFICES ASSUME TypeOK, [Next]_vars PROVE TypeOK'
  OBVIOUS
<1> USE DEF Places
<1>1. ASSUME NEW c \in Clients, Arrive(c) \/ EnterTokens(c) \/ CheckTokens(c) \/ UpstreamError(c)
      PROVE  TypeOK'
  <2>1. pc' \in [Clients -> Places]
    BY <1>1, GotoType DEF Arrive, EnterTokens, CheckTokens, UpstreamError
  <2> QED
    BY <1>1, <2>1 DEF Arrive, EnterTokens, CheckTokens, UpstreamError, TypeOK, windows, limits,
                      Window, Lifetime
<1>2. ASSUME NEW c \in Clients, Count(c) PROVE TypeOK'
  <2>1. pc' \in [Clients -> Places]
    BY <1>2, GotoType DEF Count
  <2>2. requests' \in Window /\ requests'.left # 0
    BY <1>2, Incremented DEF Count, TypeOK
  <2>3. passed' \in [0..TTL + 1 -> Nat]
    BY <1>2, SpansType DEF Count, TypeOK
  <2> QED
    BY <1>2, <2>1, <2>2, <2>3 DEF Count, TypeOK, limits, Window, Lifetime
<1>3. ASSUME NEW c \in Clients, CountFails(c) PROVE TypeOK'
  <2>1. pc' \in [Clients -> Places]
    BY <1>3, GotoType DEF CountFails
  <2>2. requests' \in Window /\ (requests'.left = 0 => requests'.count = 0)
    BY <1>3, Incremented DEF CountFails, AfterFailure, TypeOK
  <2> QED
    BY <1>3, <2>1, <2>2 DEF CountFails, TypeOK, limits, Window, Lifetime
<1>4. ASSUME NEW c \in Clients, NEW n \in Tokens, Respond(c, n) PROVE TypeOK'
  <2>1. pc' \in [Clients -> Places]
    BY <1>4, GotoType DEF Respond
  <2>2. tokens' \in Window /\ (tokens'.left = 0 => tokens'.count = 0)
    BY <1>4, Incremented, LargestAnswer DEF Respond, AfterFailure, TypeOK
  <2> QED
    BY <1>4, <2>1, <2>2 DEF Respond, TypeOK, limits, Window, Lifetime
<1>5. ASSUME NEW cf \in Configs, ReloadReq(cf) \/ ReloadTok(cf) PROVE TypeOK'
  <2>1. cf.req \in Nat /\ cf.tok \in Nat
    BY RateLimitAssumption DEF Config
  <2>2. lifted' \in BOOLEAN
    BY <1>5 DEF ReloadReq, ReloadTok, TypeOK
  <2> QED
    BY <1>5, <2>1, <2>2 DEF ReloadReq, ReloadTok, TypeOK, windows, Window, Lifetime
<1>6. CASE Tick
  BY <1>6, AgedType, SpansType DEF Tick, TypeOK, limits, Window, Lifetime
<1>7. CASE UNCHANGED vars
  BY <1>7 DEF vars, TypeOK, windows, limits, Window, Lifetime
<1> QED
  BY <1>1, <1>2, <1>3, <1>4, <1>5, <1>6, <1>7 DEF Next, Handler

(* Type correctness of rate limiting.                                      *)
THEOREM TypeCorrect == Spec => []TypeOK
<1>1. Init => TypeOK
  BY RateLimitAssumption, LimitBounds
     DEF Init, TypeOK, NoWindow, Window, Lifetime, Config
<1> QED
  BY <1>1, TypeStep, PTL DEF Spec

-----------------------------------------------------------------------------
(* Requests.  The spans of the history only grow with their length; what a *)
(* live window has let through is no more than its counter, and a request  *)
(* passes only while the counter is within the limit.                      *)

SpansGrow ==
    /\ passed[0] = 0
    /\ \A m, n \in 0..TTL + 1 : m <= n => passed[m] <= passed[n]

(* Redis: the window has been alive for at least as long as the last pass  *)
(* is old, so whatever passed within a minute was counted by it; what is   *)
(* one tick older passed when it was within a minute.                      *)
RedisSpan ==
    backend = "redis" =>
        /\ passed[TTL] <= requests.count
        /\ requests.left # Forever => passed[TTL - requests.left] = 0
        /\ passed[TTL] <= MaxReq
        /\ passed[TTL + 1] <= passed[TTL] + MaxReq

(* Memory: a window that has `left` ticks to live began TTL + 1 - left     *)
(* ticks ago; what passed since then was counted by it, what passed before *)
(* by the window before it.                                                *)
MemorySpan ==
    backend = "memory" =>
        /\ requests.left # Forever /\ tokens.left # Forever
        /\ requests.left = 0 => passed[1] = 0 /\ passed[TTL + 1] <= MaxReq
        /\ requests.left # 0 =>
             /\ passed[TTL + 2 - requests.left] <= requests.count
             /\ passed[TTL + 2 - requests.left] <= MaxReq
             /\ passed[TTL + 1] <= passed[TTL + 2 - requests.left] + MaxReq

RequestInv == TypeOK /\ reqPerMin \in 0..MaxReq /\ SpansGrow /\ RedisSpan /\ MemorySpan

LEMMA RequestInit == Init => RequestInv
<1> SUFFICES ASSUME Init PROVE RequestInv
  OBVIOUS
<1>1. TypeOK
  BY RateLimitAssumption, LimitBounds
     DEF Init, TypeOK, NoWindow, Window, Lifetime, Config
<1>2. reqPerMin \in 0..MaxReq
  BY LimitBounds DEF Init
<1>3. \A n \in 0..TTL + 1 : passed[n] = 0
  BY DEF Init
<1>4. 0 \in 0..TTL + 1 /\ 1 \in 0..TTL + 1 /\ TTL \in 0..TTL + 1 /\ TTL + 1 \in 0..TTL + 1
  BY RateLimitAssumption
<1>5. requests = [count |-> 0, left |-> 0] /\ tokens = [count |-> 0, left |-> 0]
  BY DEF Init, NoWindow
<1> QED
  BY <1>1, <1>2, <1>3, <1>4, <1>5, LimitBounds
     DEF RequestInv, SpansGrow, RedisSpan, MemorySpan, Forever

(* A request passes.                                                       *)
LEMMA PassKeepsSpans ==
    ASSUME RequestInv, requests' = Bumped(requests, 1), requests'.count <= reqPerMin,
           passed' = OneMore, UNCHANGED <<backend, tokens>>
    PROVE  SpansGrow' /\ RedisSpan' /\ MemorySpan'
<1> USE DEF RequestInv
<1>1. \A n \in 0..TTL + 1 : passed'[n] = IF n = 0 THEN 0 ELSE passed[n] + 1
  BY DEF OneMore
<1>2. \A n \in 0..TTL + 1 : passed[n] \in Nat
  BY DEF TypeOK
<1>3. TTL \in Nat /\ TTL > 0
  BY RateLimitAssumption
<1>4. SpansGrow'
  BY <1>1, <1>2, <1>3 DEF SpansGrow
<1>5. requests'.count = requests.count + 1 /\ requests.count \in Nat /\ requests'.count <= MaxReq
  <2>1. requests \in Window /\ (requests.left = 0 => requests.count = 0)
    BY DEF TypeOK
  <2>2. /\ requests' \in Window
        /\ requests'.count < Saturation => requests'.count = requests.count + 1
    BY <2>1, Incremented
  <2>3. requests'.count \in Nat /\ requests.count \in Nat
    BY <2>1, <2>2 DEF Window
  <2> QED
    BY <2>2, <2>3, LimitBounds
<1>6. RedisSpan'
  <2> SUFFICES ASSUME backend = "redis" PROVE RedisSpan'
    BY DEF RedisSpan
  <2>1. requests'.left = TTL
    BY DEF Bumped, LeftAfter, Lifetime
  <2> QED
    BY <1>1, <1>2, <1>3, <1>5, <2>1, LimitBounds DEF RedisSpan
<1>7. MemorySpan'
  <2> SUFFICES ASSUME backend = "memory" PROVE MemorySpan'
    BY DEF MemorySpan
  <2>1. requests.left \in 0..TTL + 1
    BY DEF MemorySpan, TypeOK, Window, Lifetime
  <2>2. CASE requests.left = 0
    <3>1. requests'.left = TTL + 1
      BY <2>2 DEF Bumped, LeftAfter, Lifetime
    <3>2. TTL + 2 - requests'.left = 1
      BY <1>3, <3>1
    <3>3. passed[1] = 0 /\ passed[TTL + 1] <= MaxReq
      BY <2>2 DEF MemorySpan
    <3>4. passed'[1] = 1 /\ passed'[TTL + 1] = passed[TTL + 1] + 1
      BY <1>1, <1>3, <3>3
    <3>5. passed[TTL + 1] \in Nat
      BY <1>2, <1>3
    <3> QED
      BY <1>3, <1>5, <3>1, <3>2, <3>3, <3>4, <3>5, LimitBounds DEF MemorySpan, Forever
  <2>3. CASE requests.left # 0
    <3>1. requests'.left = requests.left
      BY <2>3 DEF Bumped, LeftAfter
    <3> DEFINE since == TTL + 2 - requests.left
    <3>2. since \in 1..TTL + 1 /\ TTL + 1 \in 0..TTL + 1
      BY <1>3, <2>1, <2>3
    <3>3. passed'[since] = passed[since] + 1 /\ passed'[TTL + 1] = passed[TTL + 1] + 1
      BY <1>1, <1>3, <3>2
    <3>4. passed[since] \in Nat /\ passed[TTL + 1] \in Nat
      BY <1>2, <3>2
    <3>5. passed[since] <= requests.count /\ passed[TTL + 1] <= passed[since] + MaxReq
      BY <2>3 DEF MemorySpan
    <3>6. TTL + 2 - requests'.left = since /\ requests'.left # 0
      BY <2>3, <3>1
    <3> HIDE DEF since
    <3>7. passed'[since] <= requests'.count /\ passed'[since] <= MaxReq
          /\ passed'[TTL + 1] <= passed'[since] + MaxReq
      BY <1>5, <3>3, <3>4, <3>5, LimitBounds
    <3> QED
      BY <3>1, <3>6, <3>7 DEF MemorySpan
  <2> QED
    BY <2>2, <2>3
<1> QED
  BY <1>4, <1>6, <1>7

(* The request counter grows and nobody passes.                            *)
LEMMA CountKeepsSpans ==
    ASSUME RequestInv,
           \/ requests' = Bumped(requests, 1)
           \/ Unreliable /\ requests' \in AfterFailure(requests, 1),
           UNCHANGED <<backend, tokens, passed>>
    PROVE  SpansGrow' /\ RedisSpan' /\ MemorySpan'
<1> USE DEF RequestInv
<1>1. \A n \in 0..TTL + 1 : passed[n] \in Nat
  BY DEF TypeOK
<1>2. TTL \in Nat /\ TTL > 0
  BY RateLimitAssumption
<1>3. requests.count \in Nat /\ requests'.count \in Nat /\ requests.count <= requests'.count
  <2>1. requests \in Window /\ (requests.left = 0 => requests.count = 0)
    BY DEF TypeOK
  <2>2. requests' \in Window /\ requests.count <= requests'.count
    <3>1. CASE requests' \in {Bumped(requests, 1), HalfBumped(requests, 1)}
      BY <2>1, <3>1, Incremented
    <3>2. CASE requests' = requests
      BY <2>1, <3>2, LimitBounds DEF Window
    <3> QED
      BY <3>1, <3>2 DEF AfterFailure
  <2> QED
    BY <2>1, <2>2 DEF Window
<1>4. SpansGrow'
  BY DEF SpansGrow
<1>5. passed[0] = 0 /\ passed[1] >= 0 /\ passed[1] \in Nat
  BY <1>1, <1>2 DEF SpansGrow
<1>6. RedisSpan'
  <2> SUFFICES ASSUME backend = "redis" PROVE RedisSpan'
    BY DEF RedisSpan
  <2>1. requests'.left \in {TTL, Forever, requests.left}
    BY DEF Bumped, LeftAfter, Lifetime, AfterFailure, HalfBumped
  <2>2. requests'.left = TTL => passed[TTL - requests'.left] = 0
    BY <1>2, <1>5
  <2>3. requests'.left # Forever => passed[TTL - requests'.left] = 0
    BY <2>1, <2>2 DEF RedisSpan
  <2> QED
    BY <1>1, <1>2, <1>3, <2>3 DEF RedisSpan
<1>7. MemorySpan'
  <2> SUFFICES ASSUME backend = "memory" PROVE MemorySpan'
    BY DEF MemorySpan
  <2>1. requests.left \in 0..TTL + 1 /\ requests' = Bumped(requests, 1)
    BY DEF MemorySpan, TypeOK, Window, Lifetime, Unreliable
  <2>2. CASE requests.left = 0
    <3>1. requests'.left = TTL + 1 /\ TTL + 2 - (TTL + 1) = 1
      BY <1>2, <2>1, <2>2 DEF Bumped, LeftAfter, Lifetime
    <3>2. passed[1] = 0 /\ passed[TTL + 1] <= MaxReq
      BY <2>2 DEF MemorySpan
    <3> QED
      BY <1>2, <1>3, <3>1, <3>2, LimitBounds DEF MemorySpan, Forever
  <2>3. CASE requests.left # 0
    <3>1. requests'.left = requests.left
      BY <2>1, <2>3 DEF Bumped, LeftAfter
    <3> DEFINE since == TTL + 2 - requests.left
    <3>2. since \in 0..TTL + 1
      BY <1>2, <2>1, <2>3
    <3> HIDE DEF since
    <3>3. passed[since] <= requests'.count
      <4>1. passed[since] <= requests.count
        BY <2>3 DEF MemorySpan, since
      <4> QED
        BY <1>1, <1>3, <3>2, <4>1
    <3> QED
      BY <2>3, <3>1, <3>3 DEF MemorySpan, since
  <2> QED
    BY <2>2, <2>3
<1> QED
  BY <1>4, <1>6, <1>7

(* A tick passes.                                                          *)
LEMMA TickKeepsSpans ==
    ASSUME RequestInv, Tick
    PROVE  SpansGrow' /\ RedisSpan' /\ MemorySpan'
<1> USE DEF RequestInv
<1>1. \A n \in 0..TTL + 1 : passed'[n] = IF n = 0 THEN 0 ELSE passed[n - 1]
  BY DEF Tick
<1>2. \A n \in 0..TTL + 1 : passed[n] \in Nat
  BY DEF TypeOK
<1>3. TTL \in Nat /\ TTL > 0 /\ backend' = backend
  BY RateLimitAssumption DEF Tick
<1>4. requests.left \in 0..Lifetime \cup {Forever} /\ requests.count \in Nat
  BY DEF TypeOK, Window
<1>5. SpansGrow'
  BY <1>1, <1>2, <1>3 DEF SpansGrow
<1>6. /\ passed'[TTL] = passed[TTL - 1] /\ passed'[TTL + 1] = passed[TTL] /\ passed'[1] = 0
      /\ passed[TTL - 1] <= passed[TTL] /\ passed[TTL] <= passed[TTL + 1]
  BY <1>1, <1>3 DEF SpansGrow
<1>7. passed[TTL - 1] \in Nat /\ passed[TTL] \in Nat /\ passed[TTL + 1] \in Nat
  BY <1>2, <1>3
<1>8. requests' = Aged(requests) /\ tokens' = Aged(tokens)
  BY DEF Tick
<1>9. /\ requests.left = Forever => requests' = requests
      /\ requests.left \in {0, 1} => requests' = NoWindow
      /\ requests.left > 1 => requests'.count = requests.count /\ requests'.left = requests.left - 1
  BY <1>4, <1>8 DEF Aged, Forever, TypeOK, Window
<1>10. RedisSpan'
  <2> SUFFICES ASSUME backend = "redis" PROVE RedisSpan'
    BY <1>3 DEF RedisSpan
  <2>1. requests.left \in 0..TTL \cup {Forever}
    BY <1>4 DEF Lifetime
  <2>2. CASE requests.left = Forever
    BY <1>4, <1>6, <1>7, <1>9, <2>2, LimitBounds DEF RedisSpan
  <2>3. CASE requests.left \in {0, 1}
    <3>1. passed[TTL - 1] = 0
      <4>1. CASE requests.left = 0
        <5>1. passed[TTL] <= requests.count /\ requests.count = 0
          BY <4>1 DEF RedisSpan, TypeOK
        <5> QED
          BY <1>6, <1>7, <5>1
      <4>2. CASE requests.left = 1
        BY <4>2 DEF RedisSpan, Forever
      <4> QED
        BY <2>3, <4>1, <4>2
    <3>2. requests'.left = 0 /\ requests'.count = 0
      BY <1>9, <2>3 DEF NoWindow
    <3> QED
      BY <1>3, <1>6, <1>7, <3>1, <3>2, LimitBounds DEF RedisSpan
  <2>4. CASE requests.left \notin {0, 1, Forever}
    <3>1. requests'.count = requests.count /\ requests'.left = requests.left - 1
      BY <1>9, <2>1, <2>4
    <3>2. TTL - requests.left \in 0..TTL /\ passed[TTL - requests.left] = 0
      BY <1>3, <2>1, <2>4 DEF RedisSpan
    <3>3. passed'[TTL - requests.left + 1] = 0
      BY <1>1, <1>3, <3>2
    <3>4. TTL - (requests.left - 1) = TTL - requests.left + 1
      BY <1>3, <2>1, <2>4
    <3> QED
      BY <1>4, <1>6, <1>7, <3>1, <3>3, <3>4, LimitBounds DEF RedisSpan
  <2> QED
    BY <2>1, <2>2, <2>3, <2>4
<1>11. MemorySpan'
  <2> SUFFICES ASSUME backend = "memory" PROVE MemorySpan'
    BY <1>3 DEF MemorySpan
  <2>1. requests.left \in 0..TTL + 1 /\ requests'.left # Forever
    <3>1. requests.left \in 0..TTL + 1
      BY <1>4 DEF MemorySpan, Lifetime
    <3> QED
      BY <1>3, <1>9, <3>1 DEF NoWindow, Forever
  <2>2. tokens'.left # Forever
    <3>1. tokens.left \in 0..TTL + 1
      BY DEF MemorySpan, TypeOK, Window, Lifetime
    <3>2. tokens'.left \in {0, tokens.left - 1}
      BY <1>8, <3>1 DEF Aged, NoWindow, MemorySpan, TypeOK, Window
    <3>3. tokens.left <= 1 => tokens'.left = 0
      BY <1>8, <3>1 DEF Aged, NoWindow, MemorySpan
    <3> QED
      BY <3>1, <3>2, <3>3 DEF Forever
  <2>3. CASE requests.left = 0
    <3>1. requests'.left = 0 /\ passed[TTL + 1] <= MaxReq
      BY <1>9, <2>3 DEF NoWindow, MemorySpan
    <3> QED
      BY <1>6, <1>7, <2>1, <2>2, <3>1, LimitBounds DEF MemorySpan
  <2>4. CASE requests.left = 1
    <3>1. requests'.left = 0 /\ passed[TTL + 2 - requests.left] <= MaxReq
      BY <1>9, <2>4 DEF NoWindow, MemorySpan
    <3>2. TTL + 2 - requests.left = TTL + 1
      BY <1>3, <2>4
    <3> QED
      BY <1>6, <1>7, <2>1, <2>2, <3>1, <3>2, LimitBounds DEF MemorySpan
  <2>5. CASE requests.left \notin {0, 1}
    <3>1. requests'.count = requests.count /\ requests'.left = requests.left - 1
      BY <1>9, <2>1, <2>5
    <3> DEFINE since == TTL + 2 - requests.left
    <3>2. since \in 1..TTL /\ since + 1 \in 0..TTL + 1 /\ TTL + 2 - requests'.left = since + 1
      BY <1>3, <2>1, <2>5, <3>1
    <3>3. passed'[since + 1] = passed[since] /\ passed[since] \in Nat
      BY <1>1, <1>2, <1>3, <3>2
    <3>4. /\ passed[since] <= requests.count /\ passed[since] <= MaxReq
          /\ passed[TTL + 1] <= passed[since] + MaxReq
      BY <2>5 DEF MemorySpan
    <3>5. requests'.left # 0
      BY <2>1, <2>5, <3>1
    <3> HIDE DEF since
    <3>6. /\ passed'[since + 1] <= requests'.count /\ passed'[since + 1] <= MaxReq
          /\ passed'[TTL + 1] <= passed'[since + 1] + MaxReq
      BY <1>6, <1>7, <3>1, <3>3, <3>4, LimitBounds
    <3> QED
      BY <2>1, <2>2, <3>2, <3>5, <3>6 DEF MemorySpan
  <2> QED
    BY <2>3, <2>4, <2>5
<1> QED
  BY <1>5, <1>10, <1>11

(* Every step keeps what is known of requests.                             *)
LEMMA RequestStep == RequestInv /\ [Next]_vars => RequestInv'
<1> SUFFICES ASSUME RequestInv, [Next]_vars PROVE RequestInv'
  OBVIOUS
<1>1. TypeOK'
  BY TypeStep DEF RequestInv
<1>2. reqPerMin' \in 0..MaxReq
  <2>1. \A cf \in Configs : ReloadReq(cf) => reqPerMin' \in 0..MaxReq
    BY LimitBounds DEF ReloadReq
  <2>2. \/ \E cf \in Configs : ReloadReq(cf)
        \/ reqPerMin' = reqPerMin
    BY DEF Next, Handler, Arrive, Count, CountFails, EnterTokens, CheckTokens, UpstreamError,
           Respond, ReloadTok, Tick, vars, limits
  <2> QED
    BY <2>1, <2>2 DEF RequestInv
<1>3. ASSUME UNCHANGED <<backend, requests, tokens, passed>>
      PROVE  SpansGrow' /\ RedisSpan' /\ MemorySpan'
  BY <1>3 DEF RequestInv, SpansGrow, RedisSpan, MemorySpan
<1>4. ASSUME NEW c \in Clients, Count(c) PROVE SpansGrow' /\ RedisSpan' /\ MemorySpan'
  <2>1. requests' = Bumped(requests, 1) /\ UNCHANGED <<backend, tokens>>
    BY <1>4 DEF Count
  <2>2. CASE requests'.count <= reqPerMin /\ passed' = OneMore
    BY <2>1, <2>2, PassKeepsSpans
  <2>3. CASE UNCHANGED passed
    BY <2>1, <2>3, CountKeepsSpans
  <2> QED
    BY <1>4, <2>2, <2>3 DEF Count
<1>5. ASSUME NEW c \in Clients, CountFails(c) PROVE SpansGrow' /\ RedisSpan' /\ MemorySpan'
  BY <1>5, CountKeepsSpans DEF CountFails
<1>6. ASSUME NEW c \in Clients, NEW n \in Tokens, Respond(c, n)
      PROVE  SpansGrow' /\ RedisSpan' /\ MemorySpan'
  <2>1. UNCHANGED <<backend, requests, passed>>
    BY <1>6 DEF Respond
  <2>2. backend = "memory" => tokens'.left # Forever
    <3> SUFFICES ASSUME backend = "memory" PROVE tokens'.left # Forever
      OBVIOUS
    <3>1. tokens.left # Forever
      BY DEF RequestInv, MemorySpan
    <3>2. tokens' = tokens \/ tokens' = Bumped(tokens, n)
      BY <1>6 DEF Respond, Unreliable
    <3> QED
      BY <3>1, <3>2, RateLimitAssumption DEF Bumped, LeftAfter, Lifetime, Forever
  <2> QED
    BY <2>1, <2>2 DEF RequestInv, SpansGrow, RedisSpan, MemorySpan
<1>7. SpansGrow' /\ RedisSpan' /\ MemorySpan'
  <2>1. \/ \E c \in Clients : Count(c) \/ CountFails(c) \/ \E n \in Tokens : Respond(c, n)
        \/ Tick
        \/ UNCHANGED <<backend, requests, tokens, passed>>
    BY DEF Next, Handler, Arrive, EnterTokens, CheckTokens, UpstreamError, ReloadReq, ReloadTok,
           vars, windows
  <2> QED
    BY <1>3, <1>4, <1>5, <1>6, <2>1, TickKeepsSpans
<1> QED
  BY <1>1, <1>2, <1>7 DEF RequestInv

(* Over either backend, at most twice the largest limit of requests passes *)
(* the check within a minute.                                              *)
THEOREM AtMostTwice == Spec => []TwiceTheLimit
<1>1. RequestInv => TwiceTheLimit
  <2> SUFFICES ASSUME RequestInv PROVE TwiceTheLimit
    OBVIOUS
  <2>1. /\ \A n \in 0..TTL + 1 : passed[n] \in Nat
        /\ TTL \in 0..TTL + 1 /\ TTL + 1 \in 0..TTL + 1
        /\ requests.left \in 0..Lifetime \cup {Forever}
    BY RateLimitAssumption DEF RequestInv, TypeOK, Window
  <2>2. CASE backend = "redis"
    BY <2>1, <2>2, LimitBounds DEF RequestInv, RedisSpan, TwiceTheLimit
  <2>3. CASE backend = "memory" /\ requests.left = 0
    BY <2>1, <2>3, LimitBounds DEF RequestInv, MemorySpan, TwiceTheLimit
  <2>4. CASE backend = "memory" /\ requests.left # 0
    <3>1. TTL + 2 - requests.left \in 0..TTL + 1
      BY <2>1, <2>4, RateLimitAssumption DEF RequestInv, MemorySpan, Lifetime
    <3>2. /\ passed[TTL + 2 - requests.left] <= MaxReq
          /\ passed[TTL + 1] <= passed[TTL + 2 - requests.left] + MaxReq
      BY <2>4 DEF RequestInv, MemorySpan
    <3> QED
      BY <2>1, <3>1, <3>2, LimitBounds DEF TwiceTheLimit
  <2> QED
    BY <2>2, <2>3, <2>4, RateLimitAssumption DEF RequestInv, TypeOK
<1> QED
  BY <1>1, RequestInit, RequestStep, PTL DEF Spec

(* Over Redis at most the largest limit passes the check within a minute.  *)
THEOREM WindowSlides == Spec => []SlidingWindow
<1>1. RequestInv => SlidingWindow
  BY DEF RequestInv, RedisSpan, SlidingWindow
<1> QED
  BY <1>1, RequestInit, RequestStep, PTL DEF Spec

-----------------------------------------------------------------------------
(* Tokens.  A request that waits for its answer may add one largest answer *)
(* to the window; what the window holds plus that exposure stays within    *)
(* the limit plus one largest answer per client.                           *)

Unanswered == {c \in Clients : pc[c] = "upstream"}

TokenBudget ==
    tokens.count + Max(Tokens) * Cardinality(Unanswered)
        <= MaxTok + Max(Tokens) * Cardinality(Clients)

TokenInv ==
    /\ TypeOK
    /\ backend = "memory" => tokens.left # Forever
    /\ tokPerMin \in 0..MaxTok
    /\ tokPerMin = 0 => lifted
    /\ backend = "memory" /\ ~lifted => TokenBudget

(* Sets of clients, weighted by the largest answer.                        *)
LEMMA WeighedClients ==
    ASSUME NEW S \in SUBSET Clients, NEW T \in SUBSET S
    PROVE  /\ Max(Tokens) * Cardinality(S) \in Nat /\ Max(Tokens) * Cardinality(T) \in Nat
           /\ Max(Tokens) * Cardinality(T) <= Max(Tokens) * Cardinality(S)
<1>1. IsFiniteSet(S) /\ Cardinality(T) <= Cardinality(S)
  <2>1. IsFiniteSet(S)
    BY RateLimitAssumption, FS_Subset
  <2> QED
    BY <2>1, FS_Subset
<1>2. Cardinality(S) \in Nat /\ Cardinality(T) \in Nat
  BY <1>1, FS_Subset, FS_CardinalityType
<1>3. \A m, i, j \in Nat : m * i \in Nat /\ m * j \in Nat /\ (i <= j => m * i <= m * j)
  OBVIOUS
<1> QED
  BY <1>1, <1>2, <1>3, LargestAnswer

LEMMA WeighedWithout ==
    ASSUME NEW S \in SUBSET Clients, NEW c \in S
    PROVE  Max(Tokens) * Cardinality(S \ {c}) + Max(Tokens) = Max(Tokens) * Cardinality(S)
<1>1. IsFiniteSet(S)
  BY RateLimitAssumption, FS_Subset
<1>2. Cardinality(S \ {c}) = Cardinality(S) - 1 /\ Cardinality(S) \in Nat
  BY <1>1, FS_RemoveElement, FS_CardinalityType
<1>3. \A m, i \in Nat : m * (i - 1) + m = m * i
  OBVIOUS
<1> QED
  BY <1>2, <1>3, LargestAnswer

(* A counter and an exposure that do not grow cannot break the budget.     *)
LEMMA BudgetShrinks ==
    ASSUME TypeOK, TypeOK', TokenBudget, tokens'.count <= tokens.count,
           Unanswered' \subseteq Unanswered
    PROVE  TokenBudget'
<1>1. tokens.count \in Nat /\ tokens'.count \in Nat
  BY DEF TypeOK, Window
<1>2. Unanswered \in SUBSET Clients
  BY DEF Unanswered
<1>3. /\ Max(Tokens) * Cardinality(Unanswered) \in Nat
      /\ Max(Tokens) * Cardinality(Unanswered') \in Nat
      /\ Max(Tokens) * Cardinality(Unanswered') <= Max(Tokens) * Cardinality(Unanswered)
  BY <1>2, WeighedClients
<1>4. Max(Tokens) * Cardinality(Clients) \in Nat
  BY WeighedClients
<1> QED
  BY <1>1, <1>3, <1>4, LimitBounds DEF TokenBudget

LEMMA TokenStep == TokenInv /\ [Next]_vars => TokenInv'
<1> SUFFICES ASSUME TokenInv, [Next]_vars PROVE TokenInv'
  OBVIOUS
<1>1. TypeOK /\ TypeOK'
  BY TypeStep DEF TokenInv
<1>2. tokPerMin' \in 0..MaxTok /\ (tokPerMin' = 0 => lifted') /\ (lifted => lifted')
  <2>1. \A cf \in Configs : cf.tok \in 0..MaxTok
    BY LimitBounds
  <2>2. \/ \E cf \in Configs : tokPerMin' = cf.tok /\ lifted' = (lifted \/ cf.tok = 0)
        \/ UNCHANGED <<tokPerMin, lifted>>
    BY DEF Next, Handler, Arrive, Count, CountFails, EnterTokens, CheckTokens, UpstreamError,
           Respond, ReloadReq, ReloadTok, Tick, vars, limits
  <2> QED
    BY <2>1, <2>2 DEF TokenInv
<1>3. backend' = backend
  BY DEF Next, Handler, Arrive, Count, CountFails, EnterTokens, CheckTokens, UpstreamError,
         Respond, ReloadReq, ReloadTok, Tick, vars
<1>4. SUFFICES ASSUME backend = "memory"
               PROVE  tokens'.left # Forever /\ (~lifted' => TokenBudget')
  BY <1>1, <1>2, <1>3 DEF TokenInv
<1>5. tokens.left # Forever /\ (~lifted' => TokenBudget)
  BY <1>2, <1>4 DEF TokenInv
<1>6. CASE UNCHANGED tokens /\ Unanswered' \subseteq Unanswered
  <2>1. tokens'.count <= tokens.count
    BY <1>1, <1>6, LimitBounds DEF TypeOK, Window
  <2> QED
    BY <1>1, <1>5, <1>6, <2>1, BudgetShrinks
<1>7. ASSUME NEW c \in Clients, EnterTokens(c) PROVE UNCHANGED tokens /\ (~lifted' => Unanswered' \subseteq Unanswered)
  <2>1. ~lifted' => tokPerMin > 0
    BY <1>2, LimitBounds DEF TokenInv
  <2> QED
    BY <1>1, <1>7, <2>1 DEF EnterTokens, Goto, Unanswered, TypeOK, windows
<1>8. ASSUME NEW c \in Clients, CheckTokens(c) PROVE tokens'.left # Forever /\ (~lifted' => TokenBudget')
  <2>1. UNCHANGED <<tokens, tokPerMin>>
    BY <1>8 DEF CheckTokens, windows, limits
  <2>2. CASE OverTokens
    <3>1. Unanswered' \subseteq Unanswered
      BY <1>1, <1>4, <1>8, <2>2 DEF CheckTokens, Unreliable, Goto, Unanswered, TypeOK
    <3> QED
      BY <1>6, <2>1, <3>1
  <2>3. CASE ~OverTokens
    <3>1. tokens.count <= MaxTok /\ tokens.count \in Nat
      <4>1. tokens.left # 0 => tokens.count <= tokPerMin
        BY <1>1, <2>3, LimitBounds DEF OverTokens, TypeOK, Window
      <4>2. tokens.left = 0 => tokens.count = 0
        BY <1>1 DEF TypeOK
      <4> QED
        BY <1>1, <4>1, <4>2, LimitBounds DEF TokenInv, TypeOK, Window
    <3>2. Unanswered' \in SUBSET Clients
      BY DEF Unanswered
    <3>3. /\ Max(Tokens) * Cardinality(Unanswered') \in Nat
          /\ Max(Tokens) * Cardinality(Clients) \in Nat
          /\ Max(Tokens) * Cardinality(Unanswered') <= Max(Tokens) * Cardinality(Clients)
      BY <3>2, WeighedClients
    <3> QED
      BY <1>5, <2>1, <3>1, <3>3, LimitBounds DEF TokenBudget
  <2> QED
    BY <2>2, <2>3
<1>9. ASSUME NEW c \in Clients, NEW n \in Tokens, Respond(c, n)
      PROVE  tokens'.left # Forever /\ (~lifted' => TokenBudget')
  <2>1. CASE UNCHANGED tokens
    <3>1. Unanswered' \subseteq Unanswered
      BY <1>1, <1>9 DEF Respond, Goto, Unanswered, TypeOK
    <3> QED
      BY <1>6, <2>1, <3>1
  <2>2. CASE tokens' = Bumped(tokens, n)
    <3>1. n \in Nat /\ n <= Max(Tokens) /\ Max(Tokens) \in Nat
      BY LargestAnswer
    <3>2. tokens \in Window /\ tokens' \in Window /\ tokens'.count <= tokens.count + n
      BY <1>1, <2>2, <3>1, Incremented DEF TypeOK
    <3>3. tokens.count \in Nat /\ tokens'.count \in Nat
      BY <3>2, LimitBounds DEF Window
    <3>4. Unanswered \in SUBSET Clients /\ c \in Unanswered /\ Unanswered' = Unanswered \ {c}
      BY <1>1, <1>9 DEF Respond, Goto, Unanswered, TypeOK
    <3>5. /\ Max(Tokens) * Cardinality(Unanswered') + Max(Tokens) = Max(Tokens) * Cardinality(Unanswered)
          /\ Max(Tokens) * Cardinality(Unanswered') \in Nat
          /\ Max(Tokens) * Cardinality(Unanswered) \in Nat
          /\ Max(Tokens) * Cardinality(Clients) \in Nat
      BY <3>4, WeighedWithout, WeighedClients
    <3>6. TokenBudget => TokenBudget'
      BY <3>1, <3>2, <3>3, <3>5, LimitBounds DEF TokenBudget
    <3>7. tokens'.left # Forever
      BY <1>4, <1>5, <2>2, RateLimitAssumption DEF Bumped, LeftAfter, Lifetime, Forever
    <3> QED
      BY <1>5, <3>6, <3>7
  <2> QED
    BY <1>4, <1>9, <2>1, <2>2 DEF Respond, Unreliable
<1>10. CASE Tick
  <2>1. tokens' = Aged(tokens) /\ UNCHANGED pc
    BY <1>10 DEF Tick
  <2>2. tokens'.count <= tokens.count
    BY <1>1, <2>1, AgedType DEF TypeOK
  <2>3. tokens'.left # Forever
    <3>1. tokens.left \in 0..TTL + 1
      BY <1>1, <1>4, <1>5 DEF TypeOK, Window, Lifetime
    <3>2. CASE tokens.left <= 1
      BY <2>1, <3>1, <3>2 DEF Aged, NoWindow, Forever
    <3>3. CASE ~ (tokens.left <= 1)
      <4>1. tokens'.left = tokens.left - 1
        BY <1>1, <1>5, <2>1, <3>3 DEF Aged, TypeOK, Window
      <4> QED
        BY <3>1, <3>3, <4>1, RateLimitAssumption DEF Forever
    <3> QED
      BY <3>2, <3>3
  <2>4. Unanswered' \subseteq Unanswered
    BY <2>1 DEF Unanswered
  <2> QED
    BY <1>1, <1>5, <2>2, <2>3, <2>4, BudgetShrinks
<1>11. \/ \E c \in Clients : EnterTokens(c) \/ CheckTokens(c) \/ \E n \in Tokens : Respond(c, n)
       \/ Tick
       \/ UNCHANGED tokens /\ Unanswered' \subseteq Unanswered
  <2>1. \A c \in Clients : Arrive(c) \/ Count(c) \/ CountFails(c) \/ UpstreamError(c) =>
          UNCHANGED tokens /\ Unanswered' \subseteq Unanswered
    BY <1>1 DEF Arrive, Count, CountFails, UpstreamError, Goto, Unanswered, TypeOK, windows
  <2>2. \A cf \in Configs : ReloadReq(cf) \/ ReloadTok(cf) =>
          UNCHANGED tokens /\ Unanswered' \subseteq Unanswered
    BY DEF ReloadReq, ReloadTok, Unanswered, windows
  <2>3. UNCHANGED vars => UNCHANGED tokens /\ Unanswered' \subseteq Unanswered
    BY DEF vars, Unanswered, windows
  <2> QED
    BY <2>1, <2>2, <2>3 DEF Next, Handler
<1> QED
  BY <1>5, <1>6, <1>7, <1>8, <1>9, <1>10, <1>11

(* A window's tokens exceed the largest limit by at most one largest       *)
(* answer per client.                                                      *)
THEOREM OvershootBounded == Spec => []TokenOvershoot
<1>1. Init => TokenInv
  <2> SUFFICES ASSUME Init PROVE TokenInv
    OBVIOUS
  <2>1. TypeOK
    BY RequestInit DEF RequestInv
  <2>2. tokens.count = 0 /\ tokens.left # Forever
    BY DEF Init, NoWindow, Forever
  <2>3. Unanswered \in SUBSET Clients
    BY DEF Unanswered
  <2>4. TokenBudget
    <3>1. /\ Max(Tokens) * Cardinality(Unanswered) \in Nat
          /\ Max(Tokens) * Cardinality(Clients) \in Nat
          /\ Max(Tokens) * Cardinality(Unanswered) <= Max(Tokens) * Cardinality(Clients)
      BY <2>3, WeighedClients
    <3> QED
      BY <2>2, <3>1, LimitBounds DEF TokenBudget
  <2>5. tokPerMin \in 0..MaxTok /\ (tokPerMin = 0 => lifted)
    BY LimitBounds DEF Init
  <2> QED
    BY <2>1, <2>2, <2>4, <2>5 DEF TokenInv
<1>2. TokenInv => TokenOvershoot
  <2> SUFFICES ASSUME TokenInv, backend = "memory", ~lifted
               PROVE  tokens.count <= MaxTok + Max(Tokens) * Cardinality(Clients)
    BY DEF TokenOvershoot
  <2>1. Unanswered \in SUBSET Clients /\ tokens.count \in Nat /\ TokenBudget
    BY LimitBounds DEF Unanswered, TokenInv, TypeOK, Window
  <2>2. /\ Max(Tokens) * Cardinality(Unanswered) \in Nat
        /\ Max(Tokens) * Cardinality(Clients) \in Nat
    BY <2>1, WeighedClients
  <2> QED
    BY <2>1, <2>2, LimitBounds DEF TokenBudget
<1> QED
  BY <1>1, <1>2, TokenStep, PTL DEF Spec
=============================================================================
