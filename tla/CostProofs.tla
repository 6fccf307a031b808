----------------------------- MODULE CostProofs -----------------------------
(***************************************************************************)
(* Proofs about what requests cost: the spending loop (Spend) and the      *)
(* price table that the cost tracker keeps for it (CostPricing).           *)
(***************************************************************************)
EXTENDS Spend, CostPricing, Aggregates

-----------------------------------------------------------------------------
(* For any number of handlers, sessions and days, any costs and any limits *)
(* an admin sets: the spending loop is well typed, and a budget is         *)
(* overshot by less than one charge per concurrent handler.                *)

(* What a handler has to charge is at most one MaxCharge.                  *)
LEMMA ChargeBound ==
    ASSUME TypeOK, NEW w \in Workers
    PROVE  Micros(cost[w]) \in Nat /\ Micros(cost[w]) <= MaxCharge
<1>1. cost[w] \in Costs \cup {0}
  BY DEF TypeOK
<1>2. Micros(cost[w]) \in 0..MaxCharge
  BY <1>1, SpendAssumption
<1> QED
  BY <1>2, SpendAssumption

(* Moving one handler from place to place keeps pc well typed.             *)
LEMMA GotoType ==
    ASSUME TypeOK, NEW w \in Workers, NEW from, NEW to \in Places, Goto(w, from, to)
    PROVE  pc' \in [Workers -> Places]
BY DEF TypeOK, Goto

(* A charged counter family is still a family of naturals.                 *)
LEMMA ChargedType ==
    ASSUME TypeOK, NEW w \in Workers, NEW I, NEW f \in [I -> Nat], NEW i \in I,
           NEW g \in Charged(f, i, w)
    PROVE  g \in [I -> Nat]
<1>1. [f EXCEPT ![i] = @ + Micros(cost[w])] \in [I -> Nat]
  BY ChargeBound
<1> QED
  BY <1>1 DEF Charged

(* Every step of a handler, an admin or the clock keeps the type invariant.*)
LEMMA TypeStep == TypeOK /\ [Next]_vars => TypeOK'
<1> SUFFICES ASSUME TypeOK, [Next]_vars PROVE TypeOK'
  OBVIOUS
<1> USE DEF Places
<1>1. ASSUME NEW w \in Workers, NEW g \in Gateways, NEW s \in Sessions, Arrive(w, g, s) PROVE TypeOK'
  <2>1. pc' \in [Workers -> Places]
    BY <1>1, GotoType DEF Arrive
  <2>2. served' \in 0..MaxRequests
    BY <1>1, SpendAssumption DEF Arrive, TypeOK
  <2> QED
    BY <1>1, <2>1, <2>2 DEF Arrive, TypeOK, counters, limits
<1>2. ASSUME NEW w \in Workers, CheckSession(w) PROVE TypeOK'
  <2>1. pc' \in [Workers -> Places]
    BY <1>2, GotoType DEF CheckSession
  <2> QED
    BY <1>2, <2>1 DEF CheckSession, Failing, TypeOK, counters, limits
<1>3. ASSUME NEW w \in Workers, EnterDay(w) PROVE TypeOK'
  <2>1. pc' \in [Workers -> Places]
    BY <1>3, GotoType DEF EnterDay
  <2> QED
    BY <1>3, <2>1 DEF EnterDay, TypeOK, counters, limits
<1>4. ASSUME NEW w \in Workers, CheckDay(w) PROVE TypeOK'
  <2>1. pc' \in [Workers -> Places]
    BY <1>4, GotoType DEF CheckDay
  <2> QED
    BY <1>4, <2>1 DEF CheckDay, Failing, TypeOK, counters, limits
<1>5. ASSUME NEW w \in Workers, AnswerBlocked(w) \/ UpstreamError(w) PROVE TypeOK'
  <2>1. pc' \in [Workers -> Places]
    BY <1>5, GotoType DEF AnswerBlocked, UpstreamError
  <2> QED
    BY <1>5, <2>1 DEF AnswerBlocked, UpstreamError, TypeOK, counters, limits
<1>6. ASSUME NEW w \in Workers, NEW c \in Costs, UpstreamAnswer(w, c) PROVE TypeOK'
  <2>1. pc' \in [Workers -> Places]
    BY <1>6, GotoType DEF UpstreamAnswer
  <2> QED
    BY <1>6, <2>1 DEF UpstreamAnswer, TypeOK, counters, limits
<1>7. ASSUME NEW w \in Workers, Track(w) PROVE TypeOK'
  <2>1. pc' \in [Workers -> Places]
    BY <1>7, GotoType DEF Track
  <2>2. cost[w] \in Nat
    <3>1. \A c \in Costs : c \in Nat
      BY SpendAssumption
    <3>2. cost[w] \in Costs \/ cost[w] = 0
      BY DEF TypeOK
    <3> QED
      BY <3>1, <3>2
  <2>3. spent' \in [Sessions -> Nat]
    BY <1>7, <2>2 DEF Track, TypeOK
  <2>4. tracked' \in [Gateways -> [Sessions -> Nat]]
    <3>1. gateway[w] \in Gateways /\ session[w] \in Sessions /\ tracked[gateway[w]] \in [Sessions -> Nat]
      BY DEF TypeOK
    <3>2. tracked[gateway[w]][session[w]] + cost[w] \in Nat
      BY <2>2, <3>1
    <3>3. [tracked[gateway[w]] EXCEPT ![session[w]] = tracked[gateway[w]][session[w]] + cost[w]]
             \in [Sessions -> Nat]
      BY <3>1, <3>2
    <3>4. tracked' = [tracked EXCEPT ![gateway[w]] =
                       [tracked[gateway[w]] EXCEPT ![session[w]] = tracked[gateway[w]][session[w]] + cost[w]]]
      BY <1>7 DEF Track
    <3> QED
      BY <3>1, <3>3, <3>4 DEF TypeOK
  <2> QED
    BY <1>7, <2>1, <2>3, <2>4 DEF Track, TypeOK, limits
<1>8. ASSUME NEW w \in Workers, ChargeSession(w) PROVE TypeOK'
  <2>1. pc' \in [Workers -> Places]
    BY <1>8, GotoType DEF ChargeSession
  <2>2. sessionSpent' \in [Sessions -> Nat]
    BY <1>8, ChargedType DEF ChargeSession, TypeOK
  <2> QED
    BY <1>8, <2>1, <2>2 DEF ChargeSession, NotingLoss, Failing, TypeOK, limits
<1>9. ASSUME NEW w \in Workers, ChargeDay(w) PROVE TypeOK'
  <2>1. pc' \in [Workers -> Places]
    BY <1>9, GotoType DEF ChargeDay
  <2>2. dailySpent' \in [Days -> Nat]
    BY <1>9, ChargedType DEF ChargeDay, TypeOK
  <2> QED
    BY <1>9, <2>1, <2>2 DEF ChargeDay, NotingLoss, Failing, TypeOK, limits
<1>10. ASSUME NEW w \in Workers, ChargeTotal(w) PROVE TypeOK'
  <2>1. pc' \in [Workers -> Places]
    BY <1>10, GotoType DEF ChargeTotal
  <2>2. totalSpent' \in Nat
    BY <1>10, ChargeBound DEF ChargeTotal, TypeOK
  <2> QED
    BY <1>10, <2>1, <2>2 DEF ChargeTotal, NotingLoss, Failing, TypeOK, limits
<1>11. ASSUME NEW g \in Administered, NEW c \in Configs, ReloadSession(g, c) \/ ReloadDay(g, c) PROVE TypeOK'
  <2>1. c.session \in Nat /\ c.day \in Nat
    BY SpendAssumption DEF Config
  <2>2. g \in Gateways
    BY SpendAssumption
  <2>3. reloading' \in [Gateways -> SUBSET Configs]
    <3>1. reloading[g] \cup {c} \in SUBSET Configs /\ reloading[g] \ {c} \in SUBSET Configs
      BY <2>2 DEF TypeOK
    <3> QED
      BY <1>11, <2>2, <3>1 DEF ReloadSession, ReloadDay, TypeOK
  <2>4. maxPerSession' \in [Gateways -> Nat] /\ maxPerDay' \in [Gateways -> Nat]
    BY <1>11, <2>1, <2>2 DEF ReloadSession, ReloadDay, TypeOK
  <2> QED
    BY <1>11, <2>3, <2>4 DEF ReloadSession, ReloadDay, TypeOK, counters
<1>12. CASE Midnight
  BY <1>12, SpendAssumption DEF Midnight, TypeOK, Days, counters, limits
<1>13. CASE UNCHANGED vars
  BY <1>13 DEF vars, TypeOK, counters, limits
<1>14. ASSUME NEW g \in Gateways, NEW c \in Startups, Restart(g, c) PROVE TypeOK'
  <2>1. c.session \in Nat /\ c.day \in Nat
    BY SpendAssumption DEF Config
  <2>2. pc' \in [Workers -> Places] /\ cost' \in [Workers -> Costs \cup {0}]
    BY <1>14 DEF Restart, TypeOK
  <2>3. /\ tracked' \in [Gateways -> [Sessions -> Nat]]
        /\ maxPerSession' \in [Gateways -> Nat] /\ maxPerDay' \in [Gateways -> Nat]
        /\ reloading' \in [Gateways -> SUBSET Configs]
    BY <1>14, <2>1 DEF Restart, TypeOK
  <2>4. /\ sessionSpent' \in [Sessions -> Nat] /\ dailySpent' \in [Days -> Nat] /\ totalSpent' \in Nat
    BY <1>14 DEF Restart, TypeOK
  <2>5. restarts' \in 0..MaxRestarts
    BY <1>14, SpendAssumption DEF Restart, TypeOK
  <2>6. failed' \subseteq {"check", "charge"}
    BY <1>14 DEF Restart, Failing, TypeOK
  <2> QED
    BY <1>14, <2>2, <2>3, <2>4, <2>5, <2>6 DEF Restart, TypeOK
<1> QED
  BY <1>1, <1>2, <1>3, <1>4, <1>5, <1>6, <1>7, <1>8, <1>9, <1>10, <1>11, <1>12, <1>13, <1>14
     DEF Next, Handler

LEMMA InitType == Init => TypeOK
<1> SUFFICES ASSUME Init PROVE TypeOK
  OBVIOUS
<1>1. PICK start \in [Gateways -> Startups] :
        /\ maxPerSession = [g \in Gateways |-> start[g].session]
        /\ maxPerDay = [g \in Gateways |-> start[g].day]
  BY DEF Init
<1>2. maxPerSession \in [Gateways -> Nat] /\ maxPerDay \in [Gateways -> Nat]
  <2>1. \A g \in Gateways : start[g] \in Config
    BY SpendAssumption
  <2> QED
    BY <1>1, <2>1 DEF Config
<1>3. 1 \in Days /\ 0 \in 0..MaxRequests /\ 0 \in 0..MaxRestarts
  BY SpendAssumption DEF Days
<1> QED
  BY <1>2, <1>3 DEF Init, TypeOK, Places

(* Type correctness of the spending loop.                                  *)
THEOREM SpendTypeCorrect == Spec => []TypeOK
<1>1. Init => TypeOK
  BY InitType
<1> QED
  BY <1>1, TypeStep, PTL DEF Spec

-----------------------------------------------------------------------------
(* Cardinalities of sets of handlers, weighted by the largest charge.      *)

LEMMA WeighedSubset ==
    ASSUME NEW S \in SUBSET Workers, NEW T \in SUBSET S
    PROVE  MaxCharge * Cardinality(T) <= MaxCharge * Cardinality(S)
<1>1. IsFiniteSet(S) /\ IsFiniteSet(T) /\ Cardinality(T) <= Cardinality(S)
  <2>1. IsFiniteSet(Workers)
    BY SpendAssumption
  <2>2. IsFiniteSet(S)
    BY <2>1, FS_Subset
  <2> QED
    BY <2>2, FS_Subset
<1>2. Cardinality(S) \in Nat /\ Cardinality(T) \in Nat
  BY <1>1, FS_CardinalityType
<1>3. \A m, i, j \in Nat : i <= j => m * i <= m * j
  OBVIOUS
<1>4. MaxCharge \in Nat
  BY SpendAssumption
<1> QED
  BY <1>1, <1>2, <1>3, <1>4

LEMMA WeighedType ==
    ASSUME NEW S \in SUBSET Workers
    PROVE  MaxCharge * Cardinality(S) \in Nat
<1>1. Cardinality(S) \in Nat
  BY SpendAssumption, FS_Subset, FS_CardinalityType
<1>2. MaxCharge \in Nat
  BY SpendAssumption
<1> QED
  BY <1>1, <1>2

LEMMA WeighedRemove ==
    ASSUME NEW S \in SUBSET Workers, NEW w \in S
    PROVE  MaxCharge * Cardinality(S \ {w}) + MaxCharge = MaxCharge * Cardinality(S)
<1>1. IsFiniteSet(S)
  BY SpendAssumption, FS_Subset
<1>2. Cardinality(S \ {w}) = Cardinality(S) - 1
  BY <1>1, FS_RemoveElement
<1>3. Cardinality(S) \in Nat
  BY <1>1, FS_CardinalityType
<1>4. \A m, i \in Int : m * (i - 1) + m = m * i
  OBVIOUS
<1>5. MaxCharge \in Int
  BY SpendAssumption
<1> QED
  BY <1>2, <1>3, <1>4, <1>5

-----------------------------------------------------------------------------
(* The session budget.  A handler is exposed to session s from the moment  *)
(* it may pass the check on s until it has charged s.  What the counter    *)
(* holds plus one largest charge per exposed handler stays below the cap   *)
(* plus one largest charge per handler: passing the check needs a counter  *)
(* below the cap, and charging trades exposure for counter.                *)

ExposedToSession(s) ==
    {w \in Workers : /\ session[w] = s
                     /\ pc[w] \in {"dayGate", "dayCheck", "upstream", "track", "chargeSession"}}

Budgeted(cap, used, exposed) ==
    used + MaxCharge * Cardinality(exposed) < cap + MaxCharge * Cardinality(Workers)

SessionInv(cap) ==
    /\ TypeOK
    /\ \A g \in Gateways : 0 < maxPerSession[g] /\ maxPerSession[g] <= cap
    /\ "check" \notin failed =>
         \A s \in Sessions : Budgeted(cap, sessionSpent[s], ExposedToSession(s))

(* Exposure that does not grow cannot break a budget.                      *)
LEMMA BudgetedShrink ==
    ASSUME NEW cap \in Nat, NEW used \in Nat,
           NEW S \in SUBSET Workers, NEW T \in SUBSET S, Budgeted(cap, used, S)
    PROVE  Budgeted(cap, used, T)
BY WeighedSubset, WeighedType DEF Budgeted

(* A handler that passed the check on a counter below the cap is safe to   *)
(* add, whoever else is exposed.                                           *)
LEMMA BudgetedAdmit ==
    ASSUME NEW cap \in Nat, NEW used \in Nat, used < cap,
           NEW S \in SUBSET Workers
    PROVE  Budgeted(cap, used, S)
BY WeighedSubset, WeighedType DEF Budgeted

(* A charge of at most MaxCharge by an exposed handler that leaves.        *)
LEMMA BudgetedCharge ==
    ASSUME NEW cap \in Nat, NEW used \in Nat, NEW S \in SUBSET Workers,
           NEW w \in S, NEW c \in Nat, c <= MaxCharge, Budgeted(cap, used, S)
    PROVE  Budgeted(cap, used + c, S \ {w}) /\ Budgeted(cap, used, S \ {w})
<1>1. MaxCharge * Cardinality(S \ {w}) + MaxCharge = MaxCharge * Cardinality(S)
  BY WeighedRemove
<1>2. /\ MaxCharge * Cardinality(S \ {w}) \in Nat
      /\ MaxCharge * Cardinality(Workers) \in Nat
      /\ MaxCharge \in Nat
  BY WeighedType, SpendAssumption
<1> QED
  BY <1>1, <1>2 DEF Budgeted

(* One handler charges one counter of a family: the budgets of all of them *)
(* hold afterwards if its exposure to the charged counter ended.           *)
LEMMA ChargeKeepsBudget ==
    ASSUME TypeOK, NEW cap \in Nat, NEW w \in Workers, NEW I, NEW i \in I,
           NEW f \in [I -> Nat], NEW g \in Charged(f, i, w),
           NEW S \in SUBSET Workers, w \in S, Budgeted(cap, f[i], S)
    PROVE  Budgeted(cap, g[i], S \ {w}) /\ \A j \in I \ {i} : g[j] = f[j]
<1>1. Micros(cost[w]) \in Nat /\ Micros(cost[w]) <= MaxCharge
  BY ChargeBound
<1>2. g[i] = f[i] + Micros(cost[w]) \/ g[i] = f[i]
  BY <1>1 DEF Charged
<1>3. \A j \in I \ {i} : g[j] = f[j]
  BY DEF Charged
<1>4. f[i] \in Nat
  OBVIOUS
<1>5. Budgeted(cap, f[i] + Micros(cost[w]), S \ {w}) /\ Budgeted(cap, f[i], S \ {w})
  BY <1>1, <1>4, BudgetedCharge
<1> QED
  BY <1>2, <1>3, <1>5

(* What has failed once has failed for good.                               *)
LEMMA FailedGrows == TypeOK /\ [Next]_vars => failed \subseteq failed'
BY DEF Next, vars, Handler, Arrive, CheckSession, EnterDay, CheckDay, AnswerBlocked,
   UpstreamError, UpstreamAnswer, Track, ChargeSession, ChargeDay, ChargeTotal,
   ReloadSession, ReloadDay, Midnight, Restart, Failing, NotingLoss

LEMMA SessionStep ==
    ASSUME NEW cap \in Nat, 0 < cap, SessionCapped(cap),
           SessionInv(cap), [Next]_vars
    PROVE  SessionInv(cap)'
<1> USE DEF SessionInv
<1>1. TypeOK'
  BY TypeStep
<1>2. \A c \in Startups \cup Configs : 0 < c.session /\ c.session <= cap
  BY DEF SessionCapped, SessionLimits
<1>3. ASSUME NEW g \in Gateways PROVE 0 < maxPerSession'[g] /\ maxPerSession'[g] <= cap
  <2>1. \/ maxPerSession' = maxPerSession
        \/ \E h \in Gateways, c \in Startups \cup Configs :
              maxPerSession' = [maxPerSession EXCEPT ![h] = c.session]
  BY SpendAssumption DEF Next, vars, limits, Handler, Arrive, CheckSession, EnterDay, CheckDay,
     AnswerBlocked, UpstreamError, UpstreamAnswer, Track, ChargeSession, ChargeDay,
     ChargeTotal, ReloadSession, ReloadDay, Midnight, Restart
  <2> QED
    BY <1>2, <2>1 DEF TypeOK
<1> SUFFICES ASSUME "check" \notin failed', NEW s \in Sessions
             PROVE  Budgeted(cap, sessionSpent'[s], ExposedToSession(s)')
  BY <1>1, <1>3 DEF Budgeted
<1>0. "check" \notin failed
  BY FailedGrows
<1>4. sessionSpent[s] \in Nat /\ ExposedToSession(s) \in SUBSET Workers
      /\ ExposedToSession(s)' \in SUBSET Workers
  BY DEF TypeOK, ExposedToSession
<1>5. ASSUME sessionSpent' = sessionSpent, ExposedToSession(s)' \subseteq ExposedToSession(s)
      PROVE  Budgeted(cap, sessionSpent'[s], ExposedToSession(s)')
  BY <1>0, <1>4, <1>5, BudgetedShrink
<1>6. ASSUME NEW w \in Workers, NEW g \in Gateways, NEW t \in Sessions, Arrive(w, g, t)
      PROVE  Budgeted(cap, sessionSpent'[s], ExposedToSession(s)')
  <2>1. sessionSpent' = sessionSpent
    BY <1>6 DEF Arrive, counters
  <2>2. ExposedToSession(s)' \subseteq ExposedToSession(s)
    BY <1>6 DEF Arrive, Goto, ExposedToSession, TypeOK
  <2> QED
    BY <1>5, <2>1, <2>2
<1>7. ASSUME NEW w \in Workers, CheckSession(w)
      PROVE  Budgeted(cap, sessionSpent'[s], ExposedToSession(s)')
  <2>1. sessionSpent' = sessionSpent
    BY <1>7 DEF CheckSession, counters
  <2>2. CASE s = session[w] /\ ~OverSession(w)
    <3>1. sessionSpent[s] < cap
      BY <1>4, <2>2 DEF OverSession, TypeOK
    <3> QED
      BY <1>4, <2>1, <3>1, BudgetedAdmit
  <2>3. CASE ~(s = session[w] /\ ~OverSession(w))
    <3>1. ExposedToSession(s)' \subseteq ExposedToSession(s)
      BY <1>7, <2>3 DEF CheckSession, Failing, Goto, ExposedToSession, TypeOK
    <3> QED
      BY <1>5, <2>1, <3>1
  <2> QED
    BY <2>2, <2>3
<1>8. ASSUME NEW w \in Workers,
             \/ EnterDay(w) \/ CheckDay(w) \/ AnswerBlocked(w) \/ UpstreamError(w)
             \/ \E c \in Costs : UpstreamAnswer(w, c)
             \/ Track(w) \/ ChargeDay(w) \/ ChargeTotal(w)
      PROVE  Budgeted(cap, sessionSpent'[s], ExposedToSession(s)')
  <2>1. sessionSpent' = sessionSpent /\ session' = session
    BY <1>8 DEF EnterDay, CheckDay, AnswerBlocked, UpstreamError, UpstreamAnswer, Track,
       ChargeDay, ChargeTotal, counters
  <2>2. \E from \in {"dayGate", "dayCheck", "blocked", "upstream", "track", "chargeDay", "chargeTotal"},
           to \in Places :
           Goto(w, from, to) /\ (from \in {"blocked", "chargeDay", "chargeTotal"} =>
                                   to \in {"idle", "chargeTotal"})
    BY <1>8 DEF EnterDay, CheckDay, AnswerBlocked, UpstreamError, UpstreamAnswer, Track,
       ChargeDay, ChargeTotal, Places
  <2>3. ExposedToSession(s)' \subseteq ExposedToSession(s)
    BY <2>1, <2>2 DEF Goto, ExposedToSession, TypeOK
  <2> QED
    BY <1>5, <2>1, <2>3
<1>9. ASSUME NEW w \in Workers, ChargeSession(w)
      PROVE  Budgeted(cap, sessionSpent'[s], ExposedToSession(s)')
  <2>1. sessionSpent \in [Sessions -> Nat] /\ session[w] \in Sessions
    BY DEF TypeOK
  <2>2. CASE s = session[w]
    <3>1. ExposedToSession(s)' = ExposedToSession(s) \ {w} /\ w \in ExposedToSession(s)
      BY <1>9, <2>2 DEF ChargeSession, Goto, ExposedToSession, TypeOK
    <3>2. Budgeted(cap, sessionSpent[s], ExposedToSession(s))
      BY <1>0
    <3>3. sessionSpent' \in Charged(sessionSpent, s, w)
      BY <1>9, <2>2 DEF ChargeSession
    <3> HIDE DEF SessionInv
    <3>4. TypeOK
      BY DEF SessionInv
    <3>5. Budgeted(cap, sessionSpent'[s], ExposedToSession(s) \ {w})
      BY <1>4, <3>1, <3>2, <2>1, <3>3, <3>4, ChargeKeepsBudget
    <3> QED
      BY <3>1, <3>5
  <2>3. CASE s # session[w]
    <3>1. ExposedToSession(s)' \subseteq ExposedToSession(s)
      BY <1>9 DEF ChargeSession, Goto, ExposedToSession, TypeOK
    <3>2. sessionSpent'[s] = sessionSpent[s]
      BY <1>9, <2>1, <2>3 DEF ChargeSession, Charged
    <3> QED
      BY <1>0, <1>4, <3>1, <3>2, BudgetedShrink
  <2> QED
    BY <2>2, <2>3
<1>10. CASE \/ \E g \in Administered, c \in Configs : ReloadSession(g, c) \/ ReloadDay(g, c)
            \/ Midnight \/ UNCHANGED vars
  <2>1. sessionSpent' = sessionSpent /\ session' = session /\ pc' = pc
    BY <1>10 DEF ReloadSession, ReloadDay, Midnight, Restart, vars, counters
  <2>2. ExposedToSession(s)' = ExposedToSession(s)
    BY <2>1 DEF ExposedToSession
  <2> QED
    BY <1>5, <2>1, <2>2
<1>11. ASSUME NEW g \in Gateways, NEW c \in Startups, Restart(g, c)
       PROVE  Budgeted(cap, sessionSpent'[s], ExposedToSession(s)')
  <2>1. ExposedToSession(s)' \subseteq ExposedToSession(s)
    BY <1>11 DEF Restart, ExposedToSession, TypeOK
  <2>2. CASE sessionSpent' = sessionSpent
    BY <1>5, <2>1, <2>2
  <2>3. CASE sessionSpent' = [t \in Sessions |-> 0]
    <3> QED
      BY <1>4, <2>3, BudgetedAdmit
  <2> QED
    BY <1>11, <2>2, <2>3 DEF Restart
<1> QED
  BY <1>6, <1>7, <1>8, <1>9, <1>10, <1>11 DEF Next, Handler

(* Unless a check fails, a session is charged less than its limit          *)
(* plus one charge per concurrent handler, for any number of handlers and  *)
(* however the admin moves the limit up to the cap.                        *)
THEOREM SessionOvershootBounded == Spec => []SessionOvershoot
<1>1. ASSUME NEW cap \in SessionLimits, SessionCapped(cap)
      PROVE  Spec => []("check" \notin failed => \A s \in Sessions :
                          sessionSpent[s] < cap + MaxCharge * Cardinality(Workers))
  <2>1. cap \in Nat
    BY <1>1, SpendAssumption DEF SessionLimits, Config
  <2>2. Init => SessionInv(cap)
    <3> SUFFICES ASSUME Init PROVE SessionInv(cap)
      OBVIOUS
    <3>1. TypeOK
      BY InitType
    <3>2. \A g \in Gateways : 0 < maxPerSession[g] /\ maxPerSession[g] <= cap
      BY <1>1 DEF Init, SessionCapped, SessionLimits
    <3>3. \A s \in Sessions : ExposedToSession(s) \in SUBSET Workers /\ sessionSpent[s] = 0
      BY DEF Init, ExposedToSession
    <3>4. 0 < cap
      BY <1>1 DEF SessionCapped
    <3> QED
      BY <2>1, <3>1, <3>2, <3>3, <3>4, BudgetedAdmit DEF SessionInv
  <2>3. SessionInv(cap) /\ [Next]_vars => SessionInv(cap)'
    BY <1>1, <2>1, SessionStep DEF SessionCapped
  <2>4. SessionInv(cap) /\ "check" \notin failed => \A s \in Sessions :
                             sessionSpent[s] < cap + MaxCharge * Cardinality(Workers)
    <3> SUFFICES ASSUME SessionInv(cap), "check" \notin failed, NEW s \in Sessions
                 PROVE  sessionSpent[s] < cap + MaxCharge * Cardinality(Workers)
      OBVIOUS
    <3>1. sessionSpent[s] \in Nat
      BY DEF SessionInv, TypeOK
    <3>2. MaxCharge * Cardinality(ExposedToSession(s)) \in Nat
      BY WeighedType DEF ExposedToSession
    <3>3. MaxCharge * Cardinality(Workers) \in Nat
      BY WeighedType
    <3> QED
      BY <2>1, <3>1, <3>2, <3>3 DEF SessionInv, Budgeted
  <2> QED
    BY <2>2, <2>3, <2>4, PTL DEF Spec
<1>2. CASE \E cap \in SessionLimits : SessionCapped(cap)
  <2>1. PICK cap \in SessionLimits : SessionCapped(cap)
    BY <1>2
  <2>2. \A c \in SessionLimits : SessionCapped(c) => c = cap
    <3>1. \A c \in SessionLimits : c \in Nat
      BY SpendAssumption DEF SessionLimits, Config
    <3> QED
      BY <2>1, <3>1 DEF SessionCapped
  <2>3. ("check" \notin failed => \A s \in Sessions : sessionSpent[s] < cap + MaxCharge * Cardinality(Workers))
          => SessionOvershoot
    BY <2>2 DEF SessionOvershoot
  <2>4. Spec => []("check" \notin failed => \A s \in Sessions :
                     sessionSpent[s] < cap + MaxCharge * Cardinality(Workers))
    BY <1>1, <2>1
  <2> QED
    BY <2>3, <2>4, PTL
<1>3. CASE ~\E cap \in SessionLimits : SessionCapped(cap)
  <2>1. SessionOvershoot
    BY <1>3 DEF SessionOvershoot
  <2> QED
    BY <2>1, PTL
<1> QED
  BY <1>2, <1>3

-----------------------------------------------------------------------------
(* The daily budget.  A handler is exposed to the current day while it is  *)
(* upstream, and also while it is about to pass a check against a day that *)
(* is over; once it has formatted the date it is exposed to that day only, *)
(* even after midnight.                                                    *)

ExposedToDay(d) ==
    {w \in Workers :
        \/ pc[w] \in {"chargeSession", "chargeDay"} /\ today[w] = d
        \/ d = day /\ \/ pc[w] \in {"upstream", "track"}
                      \/ pc[w] = "dayCheck" /\ today[w] # day}

DayInv(cap) ==
    /\ TypeOK
    /\ \A g \in Gateways : 0 < maxPerDay[g] /\ maxPerDay[g] <= cap
    /\ \A w \in Workers : today[w] <= day
    /\ \A d \in Days : d > day => dailySpent[d] = 0
    /\ "check" \notin failed =>
         \A d \in Days : Budgeted(cap, dailySpent[d], ExposedToDay(d))

(* Dates already formatted stay in the past, and no future day is charged. *)
LEMMA DatesStep ==
    ASSUME NEW cap \in Nat, DayInv(cap), [Next]_vars
    PROVE  /\ \A w \in Workers : today'[w] <= day'
           /\ \A d \in Days : d > day' => dailySpent'[d] = 0
<1> USE DEF DayInv
<1>1. day \in Nat /\ (day' = day \/ day' = day + 1) /\ day <= day'
  <2>1. day' = day \/ day' = day + 1
    BY DEF Next, vars, Handler, Arrive, CheckSession, EnterDay, CheckDay,
       AnswerBlocked, UpstreamError, UpstreamAnswer, Track, ChargeSession, ChargeDay,
       ChargeTotal, ReloadSession, ReloadDay, Midnight, Restart
  <2> QED
    BY <2>1 DEF TypeOK, Days
<1>2. \A v \in Workers : today[v] \in Nat
  BY DEF TypeOK, Days
<1>3. ASSUME NEW v \in Workers, today'[v] # today[v] PROVE today'[v] = day
  <2>1. today' = today \/ \E w \in Workers : today' = [today EXCEPT ![w] = day]
    BY DEF Next, vars, Handler, Arrive, CheckSession, EnterDay, CheckDay,
       AnswerBlocked, UpstreamError, UpstreamAnswer, Track, ChargeSession, ChargeDay,
       ChargeTotal, ReloadSession, ReloadDay, Midnight, Restart
  <2> QED
    BY <1>3, <2>1 DEF TypeOK
<1>4. \A v \in Workers : today'[v] <= day'
  <2> SUFFICES ASSUME NEW v \in Workers PROVE today'[v] <= day'
    OBVIOUS
  <2>1. today[v] <= day
    OBVIOUS
  <2>2. day' \in Nat
    BY <1>1
  <2> QED
    BY <1>1, <1>2, <1>3, <2>1, <2>2
<1>5. ASSUME NEW d \in Days, d > day' PROVE dailySpent'[d] = 0
  <2>1. d \in Nat /\ d > day
    BY <1>1, <1>5 DEF Days
  <2>2. dailySpent[d] = 0
    BY <2>1
  <2>3. CASE \E w \in Workers : ChargeDay(w)
    <3>1. PICK w \in Workers : ChargeDay(w)
      BY <2>3
    <3>2. today[w] # d
      <4>1. today[w] <= day
        OBVIOUS
      <4> QED
        BY <1>1, <1>2, <2>1, <4>1
    <3>3. dailySpent \in [Days -> Nat] /\ today[w] \in Days
      BY DEF TypeOK
    <3> QED
      BY <2>2, <3>1, <3>2, <3>3 DEF ChargeDay, Charged
  <2>4. CASE ~\E w \in Workers : ChargeDay(w)
    <3>1. dailySpent' = dailySpent \/ dailySpent' = [e \in Days |-> 0]
      BY <2>4 DEF Next, vars, counters, Handler, Arrive, CheckSession, EnterDay, CheckDay,
         AnswerBlocked, UpstreamError, UpstreamAnswer, Track, ChargeSession,
         ChargeTotal, ReloadSession, ReloadDay, Midnight, Restart
    <3> QED
      BY <2>2, <3>1
  <2> QED
    BY <2>3, <2>4
<1> QED
  BY <1>4, <1>5

LEMMA DayStep ==
    ASSUME NEW cap \in Nat, 0 < cap, DayCapped(cap),
           DayInv(cap), [Next]_vars
    PROVE  DayInv(cap)'
<1> USE DEF DayInv
<1>1. TypeOK'
  BY TypeStep
<1>2. \A c \in Startups \cup Configs : 0 < c.day /\ c.day <= cap
  BY DEF DayCapped, DayLimits
<1>3. ASSUME NEW g \in Gateways PROVE 0 < maxPerDay'[g] /\ maxPerDay'[g] <= cap
  <2>1. \/ maxPerDay' = maxPerDay
        \/ \E h \in Gateways, c \in Startups \cup Configs :
              maxPerDay' = [maxPerDay EXCEPT ![h] = c.day]
  BY SpendAssumption DEF Next, vars, limits, Handler, Arrive, CheckSession, EnterDay, CheckDay,
     AnswerBlocked, UpstreamError, UpstreamAnswer, Track, ChargeSession, ChargeDay,
     ChargeTotal, ReloadSession, ReloadDay, Midnight, Restart
  <2> QED
    BY <1>2, <2>1 DEF TypeOK
<1> SUFFICES ASSUME "check" \notin failed', NEW d \in Days
             PROVE  Budgeted(cap, dailySpent'[d], ExposedToDay(d)')
  BY <1>1, <1>3, DatesStep DEF Budgeted
<1>0. "check" \notin failed
  BY FailedGrows
<1>4. dailySpent[d] \in Nat /\ ExposedToDay(d) \in SUBSET Workers
      /\ ExposedToDay(d)' \in SUBSET Workers
  BY DEF TypeOK, ExposedToDay
<1>5. ASSUME dailySpent' = dailySpent, ExposedToDay(d)' \subseteq ExposedToDay(d)
      PROVE  Budgeted(cap, dailySpent'[d], ExposedToDay(d)')
  BY <1>0, <1>4, <1>5, BudgetedShrink
<1>6. ASSUME NEW w \in Workers,
             \/ \E g \in Gateways, s \in Sessions : Arrive(w, g, s)
             \/ CheckSession(w) \/ AnswerBlocked(w) \/ UpstreamError(w)
             \/ \E c \in Costs : UpstreamAnswer(w, c)
             \/ ChargeSession(w) \/ ChargeTotal(w)
      PROVE  Budgeted(cap, dailySpent'[d], ExposedToDay(d)')
  <2>1. dailySpent' = dailySpent /\ today' = today /\ day' = day
    BY <1>6 DEF Arrive, CheckSession, AnswerBlocked, UpstreamError, UpstreamAnswer,
       ChargeSession, ChargeTotal, counters
  <2>2. \/ \E from \in {"idle", "sessionCheck", "blocked", "chargeTotal"},
              to \in {"sessionCheck", "dayGate", "blocked", "idle"} : Goto(w, from, to)
        \/ \E to \in {"idle", "track"} : Goto(w, "upstream", to)
        \/ Goto(w, "chargeSession", "chargeDay")
    BY <1>6 DEF Arrive, CheckSession, AnswerBlocked, UpstreamError, UpstreamAnswer,
       ChargeSession, ChargeTotal
  <2>3. ExposedToDay(d)' \subseteq ExposedToDay(d)
    BY <2>1, <2>2 DEF Goto, ExposedToDay, TypeOK
  <2> QED
    BY <1>5, <2>1, <2>3
<1>7. ASSUME NEW w \in Workers, EnterDay(w)
      PROVE  Budgeted(cap, dailySpent'[d], ExposedToDay(d)')
  <2>1. dailySpent' = dailySpent
    BY <1>7 DEF EnterDay, counters
  <2>2. Goto(w, "dayGate", "dayCheck") /\ today' = [today EXCEPT ![w] = day] /\ day' = day
    BY <1>7 DEF EnterDay, TypeOK
  <2>3. ExposedToDay(d)' \subseteq ExposedToDay(d)
    BY <2>2 DEF Goto, ExposedToDay, TypeOK
  <2> QED
    BY <1>5, <2>1, <2>3
<1>8. ASSUME NEW w \in Workers, CheckDay(w)
      PROVE  Budgeted(cap, dailySpent'[d], ExposedToDay(d)')
  <2>1. dailySpent' = dailySpent /\ today' = today /\ day' = day
    BY <1>8 DEF CheckDay, counters
  <2>2. CASE d = day /\ today[w] = day /\ ~OverDay(w)
    <3>1. dailySpent[d] < cap
      BY <1>4, <2>2 DEF OverDay, TypeOK
    <3> QED
      BY <1>4, <2>1, <3>1, BudgetedAdmit
  <2>3. CASE ~(d = day /\ today[w] = day /\ ~OverDay(w))
    <3>1. ExposedToDay(d)' \subseteq ExposedToDay(d)
      BY <1>8, <2>1, <2>3 DEF CheckDay, Failing, Goto, ExposedToDay, TypeOK
    <3> QED
      BY <1>5, <2>1, <3>1
  <2> QED
    BY <2>2, <2>3
<1>9. ASSUME NEW w \in Workers, Track(w)
      PROVE  Budgeted(cap, dailySpent'[d], ExposedToDay(d)')
  <2>1. dailySpent' = dailySpent /\ day' = day
    BY <1>9 DEF Track
  <2>2. Goto(w, "track", "chargeSession") /\ today' = [today EXCEPT ![w] = day]
    BY <1>9 DEF Track
  <2>3. ExposedToDay(d)' \subseteq ExposedToDay(d)
    BY <2>1, <2>2 DEF Goto, ExposedToDay, TypeOK
  <2> QED
    BY <1>5, <2>1, <2>3
<1>10. ASSUME NEW w \in Workers, ChargeDay(w)
       PROVE  Budgeted(cap, dailySpent'[d], ExposedToDay(d)')
  <2>1. dailySpent \in [Days -> Nat] /\ today[w] \in Days
    BY DEF TypeOK
  <2>2. today' = today /\ day' = day
    BY <1>10 DEF ChargeDay
  <2>3. CASE d = today[w]
    <3>1. ExposedToDay(d)' = ExposedToDay(d) \ {w} /\ w \in ExposedToDay(d)
      BY <1>10, <2>2, <2>3 DEF ChargeDay, Goto, ExposedToDay, TypeOK
    <3>2. Budgeted(cap, dailySpent[d], ExposedToDay(d))
      BY <1>0
    <3>3. dailySpent' \in Charged(dailySpent, d, w)
      BY <1>10, <2>3 DEF ChargeDay
    <3> HIDE DEF DayInv
    <3>4. TypeOK
      BY DEF DayInv
    <3>5. Budgeted(cap, dailySpent'[d], ExposedToDay(d) \ {w})
      BY <1>4, <2>1, <3>1, <3>2, <3>3, <3>4, ChargeKeepsBudget
    <3> QED
      BY <3>1, <3>5
  <2>4. CASE d # today[w]
    <3>1. ExposedToDay(d)' \subseteq ExposedToDay(d)
      BY <1>10, <2>2 DEF ChargeDay, Goto, ExposedToDay, TypeOK
    <3>2. dailySpent'[d] = dailySpent[d]
      BY <1>10, <2>1, <2>4 DEF ChargeDay, Charged
    <3> QED
      BY <1>0, <1>4, <3>1, <3>2, BudgetedShrink
  <2> QED
    BY <2>3, <2>4
<1>11. CASE Midnight
  <2>1. dailySpent' = dailySpent /\ today' = today /\ pc' = pc /\ day' = day + 1
    BY <1>11 DEF Midnight, counters
  <2>2. CASE d = day + 1
    <3>1. d > day
      BY <2>2 DEF TypeOK, Days
    <3>2. dailySpent[d] = 0
      BY <3>1
    <3> QED
      BY <1>4, <2>1, <3>2, BudgetedAdmit
  <2>3. CASE d # day + 1
    <3>1. ExposedToDay(d)' \subseteq ExposedToDay(d)
      BY <2>1, <2>3 DEF ExposedToDay
    <3> QED
      BY <1>5, <2>1, <3>1
  <2> QED
    BY <2>2, <2>3
<1>12. CASE (\E g \in Administered, c \in Configs : ReloadSession(g, c) \/ ReloadDay(g, c)) \/ UNCHANGED vars
  <2>1. dailySpent' = dailySpent /\ today' = today /\ pc' = pc /\ day' = day
    BY <1>12 DEF ReloadSession, ReloadDay, vars, counters
  <2>2. ExposedToDay(d)' = ExposedToDay(d)
    BY <2>1 DEF ExposedToDay
  <2> QED
    BY <1>5, <2>1, <2>2
<1>13. ASSUME NEW g \in Gateways, NEW c \in Startups, Restart(g, c)
       PROVE  Budgeted(cap, dailySpent'[d], ExposedToDay(d)')
  <2>1. ExposedToDay(d)' \subseteq ExposedToDay(d)
    BY <1>13 DEF Restart, ExposedToDay, TypeOK
  <2>2. CASE dailySpent' = dailySpent
    BY <1>5, <2>1, <2>2
  <2>3. CASE dailySpent' = [e \in Days |-> 0]
    <3> QED
      BY <1>4, <2>3, BudgetedAdmit
  <2> QED
    BY <1>13, <2>2, <2>3 DEF Restart
<1> QED
  BY <1>6, <1>7, <1>8, <1>9, <1>10, <1>11, <1>12, <1>13 DEF Next, Handler

(* The same bound for every UTC day, wherever midnight falls between a     *)
(* check, the response and its charge.                                     *)
THEOREM DailyOvershootBounded == Spec => []DailyOvershoot
<1>1. ASSUME NEW cap \in DayLimits, DayCapped(cap)
      PROVE  Spec => []("check" \notin failed => \A d \in Days :
                          dailySpent[d] < cap + MaxCharge * Cardinality(Workers))
  <2>1. cap \in Nat
    BY <1>1, SpendAssumption DEF DayLimits, Config
  <2>2. Init => DayInv(cap)
    <3> SUFFICES ASSUME Init PROVE DayInv(cap)
      OBVIOUS
    <3>1. TypeOK
      BY InitType
    <3>2. \A g \in Gateways : 0 < maxPerDay[g] /\ maxPerDay[g] <= cap
      BY <1>1 DEF Init, DayCapped, DayLimits
    <3>3. \A d \in Days : ExposedToDay(d) \in SUBSET Workers /\ dailySpent[d] = 0
      BY DEF Init, ExposedToDay
    <3>4. 0 < cap
      BY <1>1 DEF DayCapped
    <3>5. \A w \in Workers : today[w] <= day
      BY DEF Init
    <3> QED
      BY <2>1, <3>1, <3>2, <3>3, <3>4, <3>5, BudgetedAdmit DEF DayInv
  <2>3. DayInv(cap) /\ [Next]_vars => DayInv(cap)'
    BY <1>1, <2>1, DayStep DEF DayCapped
  <2>4. DayInv(cap) /\ "check" \notin failed => \A d \in Days :
                         dailySpent[d] < cap + MaxCharge * Cardinality(Workers)
    <3> SUFFICES ASSUME DayInv(cap), "check" \notin failed, NEW d \in Days
                 PROVE  dailySpent[d] < cap + MaxCharge * Cardinality(Workers)
      OBVIOUS
    <3>1. dailySpent[d] \in Nat
      BY DEF DayInv, TypeOK
    <3>2. MaxCharge * Cardinality(ExposedToDay(d)) \in Nat
      BY WeighedType DEF ExposedToDay
    <3>3. MaxCharge * Cardinality(Workers) \in Nat
      BY WeighedType
    <3> QED
      BY <2>1, <3>1, <3>2, <3>3 DEF DayInv, Budgeted
  <2> QED
    BY <2>2, <2>3, <2>4, PTL DEF Spec
<1>2. CASE \E cap \in DayLimits : DayCapped(cap)
  <2>1. PICK cap \in DayLimits : DayCapped(cap)
    BY <1>2
  <2>2. \A c \in DayLimits : DayCapped(c) => c = cap
    <3>1. \A c \in DayLimits : c \in Nat
      BY SpendAssumption DEF DayLimits, Config
    <3> QED
      BY <2>1, <3>1 DEF DayCapped
  <2>3. ("check" \notin failed => \A d \in Days : dailySpent[d] < cap + MaxCharge * Cardinality(Workers))
          => DailyOvershoot
    BY <2>2 DEF DailyOvershoot
  <2>4. Spec => []("check" \notin failed => \A d \in Days :
                     dailySpent[d] < cap + MaxCharge * Cardinality(Workers))
    BY <1>1, <2>1
  <2> QED
    BY <2>3, <2>4, PTL
<1>3. CASE ~\E cap \in DayLimits : DayCapped(cap)
  <2>1. DailyOvershoot
    BY <1>3 DEF DailyOvershoot
  <2> QED
    BY <2>1, PTL
<1> QED
  BY <1>2, <1>3

-----------------------------------------------------------------------------
(* The ledgers.  Each sum over all counters of a family moves only with    *)
(* the counter that moves, and a handler carries its charge from one       *)
(* ledger to the next.                                                     *)

Due(p) == [w \in Workers |-> IF pc[w] = p THEN Micros(cost[w]) ELSE 0]

LedgerSums ==
    "charge" \notin failed =>
        /\ SumFunction(sessionSpent) = SumFunction(dailySpent) + Outstanding("chargeDay")
        /\ SumFunction(dailySpent) = totalSpent + Outstanding("chargeTotal")

(* What handlers may still charge to session s, in the unit of Costs.      *)
Pending(s) ==
    [w \in Workers |-> IF pc[w] = "chargeSession" /\ session[w] = s
                       THEN Scale * Micros(cost[w]) ELSE 0]

SpentCharged(s) == Scale * sessionSpent[s] + SumFunction(Pending(s)) <= spent[s]

ShownOf(s) == [g \in Gateways |-> tracked[g][s]]

SpentShown(s) == Shown(s) <= spent[s] /\ (restarts = 0 => Shown(s) = spent[s])

(* The fractions that requests under way may yet lose.                     *)
Uncut ==
    [w \in Workers |-> IF pc[w] \in {"sessionCheck", "dayGate", "dayCheck", "blocked", "upstream", "track"}
                       THEN Scale - 1 ELSE 0]

FractionsLost ==
    "charge" \notin failed =>
        SumFunction(spent) + SumFunction(Uncut)
          <= Scale * (SumFunction(sessionSpent) + Outstanding("chargeSession")) + (Scale - 1) * served

LedgerInv ==
    /\ TypeOK /\ LedgerSums /\ FractionsLost
    /\ \A s \in Sessions : SpentCharged(s) /\ SpentShown(s)

LEMMA DueType ==
    ASSUME TypeOK, NEW p
    PROVE  /\ \A w \in Workers : Due(p)[w] \in Nat
           /\ Outstanding(p) = SumFunctionOnSet(Due(p), Workers) /\ Outstanding(p) \in Int
<1>1. \A w \in Workers : Due(p)[w] \in Nat
  BY ChargeBound DEF Due
<1>2. Outstanding(p) = SumFunctionOnSet(Due(p), Workers)
  <2>1. Outstanding(p) = SumFunction(Due(p))
    BY DEF Outstanding, Due
  <2>2. DOMAIN Due(p) = Workers
    BY DEF Due
  <2> QED
    BY <2>1, <2>2, SumWhole
<1>3. \A w \in Workers : Due(p)[w] \in Int
  BY <1>1
<1> QED
  BY <1>1, <1>2, <1>3, SpendAssumption, SumType

LEMMA DueTypeAfter ==
    ASSUME TypeOK', NEW p
    PROVE  /\ \A w \in Workers : Due(p)'[w] \in Nat
           /\ Outstanding(p)' = SumFunctionOnSet(Due(p)', Workers) /\ Outstanding(p)' \in Int
<1>1. \A w \in Workers : Micros(cost'[w]) \in Nat
  <2> SUFFICES ASSUME NEW w \in Workers PROVE Micros(cost'[w]) \in Nat
    OBVIOUS
  <2>1. cost'[w] \in Costs \cup {0}
    BY DEF TypeOK
  <2>2. Micros(cost'[w]) \in 0..MaxCharge
    BY <2>1, SpendAssumption
  <2> QED
    BY <2>2, SpendAssumption
<1>2. \A w \in Workers : Due(p)'[w] \in Nat
  BY <1>1 DEF Due, Micros
<1>3. Outstanding(p)' = SumFunctionOnSet(Due(p)', Workers)
  <2>1. Outstanding(p)' = SumFunction(Due(p)')
    BY DEF Outstanding, Due
  <2>2. DOMAIN Due(p)' = Workers
    BY DEF Due
  <2> QED
    BY <2>1, <2>2, SumWhole
<1>4. \A w \in Workers : Due(p)'[w] \in Int
  BY <1>2
<1> QED
  BY <1>2, <1>3, <1>4, SpendAssumption, SumType

(* One handler moves: what is outstanding moves by what it has to charge.  *)
LEMMA OutstandingMoves ==
    ASSUME TypeOK, TypeOK', NEW p, NEW w \in Workers,
           \A v \in Workers \ {w} : pc'[v] = pc[v] /\ cost'[v] = cost[v]
    PROVE  Outstanding(p)' = Outstanding(p) + (Due(p)'[w] - Due(p)[w])
<1>1. \A v \in Workers \ {w} : Due(p)'[v] = Due(p)[v]
  BY DEF Due, Micros
<1>2. \A v \in Workers : Due(p)[v] \in Int
  BY DueType
<1>3. Due(p)'[w] \in Int
  BY DueTypeAfter
<1>4. SumFunctionOnSet(Due(p)', Workers) = SumFunctionOnSet(Due(p), Workers) + (Due(p)'[w] - Due(p)[w])
  BY <1>1, <1>2, <1>3, SpendAssumption, SumChange
<1> QED
  BY <1>4, DueType, DueTypeAfter

(* A restart that cuts no charge off leaves what is outstanding alone.     *)
LEMMA RestartOwes ==
    ASSUME NEW g \in Gateways, NEW c \in Startups, Restart(g, c), "charge" \notin failed',
           NEW p \in Charging
    PROVE  Outstanding(p)' = Outstanding(p)
<1>1. \A w \in Workers : gateway[w] = g => ~Owing(w)
  BY DEF Restart, Failing
<1>2. \A w \in Workers : pc'[w] = IF gateway[w] = g THEN "idle" ELSE pc[w]
  BY DEF Restart
<1>3. \A w \in Workers : gateway[w] # g => cost'[w] = cost[w]
  BY DEF Restart
<1>4. \A w \in Workers : (IF pc'[w] = p THEN Micros(cost'[w]) ELSE 0)
                            = (IF pc[w] = p THEN Micros(cost[w]) ELSE 0)
  BY <1>1, <1>2, <1>3 DEF Owing, Charging
<1> QED
  BY <1>4 DEF Outstanding, Micros

(* A charge that was not lost adds to the sum of its counters.             *)
LEMMA ChargeAdds ==
    ASSUME TypeOK, NEW w \in Workers, NEW I, IsFiniteSet(I), NEW i \in I,
           NEW f \in [I -> Nat], NEW g \in Charged(f, i, w), g = f => Micros(cost[w]) = 0
    PROVE  SumFunction(g) = SumFunction(f) + Micros(cost[w])
<1>1. Micros(cost[w]) \in Nat
  BY ChargeBound
<1>2. g \in [I -> Nat]
  BY ChargedType
<1>3. g[i] = f[i] + Micros(cost[w]) /\ \A j \in I \ {i} : g[j] = f[j]
  <2>1. CASE g = [f EXCEPT ![i] = @ + Micros(cost[w])]
    BY <2>1
  <2>2. CASE g = f
    BY <1>1, <2>2
  <2> QED
    BY <2>1, <2>2 DEF Charged
<1>4. f[i] \in Nat /\ (\A j \in I : f[j] \in Int) /\ g[i] \in Int
  BY <1>2
<1>5. SumFunctionOnSet(g, I) = SumFunctionOnSet(f, I) + (g[i] - f[i])
  BY <1>3, <1>4, SumChange
<1>6. SumFunction(f) = SumFunctionOnSet(f, I) /\ SumFunction(g) = SumFunctionOnSet(g, I)
  BY <1>2, SumWhole
<1>7. SumFunctionOnSet(f, I) \in Int
  BY <1>4, SumType
<1> QED
  BY <1>1, <1>3, <1>4, <1>5, <1>6, <1>7

LEMMA CounterSums ==
    ASSUME TypeOK
    PROVE  SumFunction(sessionSpent) \in Int /\ SumFunction(dailySpent) \in Int
<1>1. IsFiniteSet(Sessions) /\ IsFiniteSet(Days)
  BY SpendAssumption, FS_Interval DEF Days
<1>2. /\ SumFunction(sessionSpent) = SumFunctionOnSet(sessionSpent, Sessions)
      /\ SumFunction(dailySpent) = SumFunctionOnSet(dailySpent, Days)
  BY SumWhole DEF TypeOK
<1>3. (\A s \in Sessions : sessionSpent[s] \in Int) /\ (\A d \in Days : dailySpent[d] \in Int)
  BY DEF TypeOK
<1> QED
  BY <1>1, <1>2, <1>3, SumType

LEMMA SumsStep == LedgerInv /\ [Next]_vars => LedgerSums'
<1> SUFFICES ASSUME TypeOK, TypeOK', LedgerSums, [Next]_vars, "charge" \notin failed' PROVE LedgerSums'
  BY TypeStep DEF LedgerInv, LedgerSums
<1>1. "charge" \notin failed
  BY FailedGrows
<1>2. /\ SumFunction(sessionSpent) = SumFunction(dailySpent) + Outstanding("chargeDay")
      /\ SumFunction(dailySpent) = totalSpent + Outstanding("chargeTotal")
  BY <1>1 DEF LedgerSums
<1>3. ASSUME UNCHANGED <<sessionSpent, dailySpent, totalSpent>>,
             Outstanding("chargeDay")' = Outstanding("chargeDay"),
             Outstanding("chargeTotal")' = Outstanding("chargeTotal")
      PROVE  LedgerSums'
  BY <1>2, <1>3 DEF LedgerSums
<1>4. ASSUME NEW w \in Workers,
             \A v \in Workers \ {w} : pc'[v] = pc[v] /\ cost'[v] = cost[v],
             pc[w] \notin {"chargeDay", "chargeTotal"}, pc'[w] \notin {"chargeDay", "chargeTotal"},
             UNCHANGED <<sessionSpent, dailySpent, totalSpent>>
      PROVE  LedgerSums'
  <2>1. Due("chargeDay")'[w] = 0 /\ Due("chargeDay")[w] = 0
        /\ Due("chargeTotal")'[w] = 0 /\ Due("chargeTotal")[w] = 0
    BY <1>4 DEF Due
  <2>2. /\ Outstanding("chargeDay")' = Outstanding("chargeDay")
        /\ Outstanding("chargeTotal")' = Outstanding("chargeTotal")
    BY <1>4, <2>1, OutstandingMoves, DueType
  <2> QED
    BY <1>3, <1>4, <2>2
<1>5. ASSUME NEW w \in Workers,
             \/ \E g \in Gateways, s \in Sessions : Arrive(w, g, s)
             \/ CheckSession(w) \/ EnterDay(w) \/ CheckDay(w) \/ AnswerBlocked(w) \/ UpstreamError(w)
             \/ \E c \in Costs : UpstreamAnswer(w, c)
             \/ Track(w)
      PROVE  LedgerSums'
  <2>1. /\ \A v \in Workers \ {w} : pc'[v] = pc[v] /\ cost'[v] = cost[v]
        /\ pc[w] \notin {"chargeDay", "chargeTotal"} /\ pc'[w] \notin {"chargeDay", "chargeTotal"}
    BY <1>5 DEF Arrive, CheckSession, EnterDay, CheckDay, AnswerBlocked, UpstreamError,
         UpstreamAnswer, Track, Goto, TypeOK
  <2>2. UNCHANGED <<sessionSpent, dailySpent, totalSpent>>
    BY <1>5 DEF Arrive, CheckSession, EnterDay, CheckDay, AnswerBlocked, UpstreamError,
         UpstreamAnswer, Track, counters
  <2> QED
    BY <1>4, <2>1, <2>2
<1>6. ASSUME NEW w \in Workers, ChargeSession(w) PROVE LedgerSums'
  <2>1. /\ \A v \in Workers \ {w} : pc'[v] = pc[v] /\ cost'[v] = cost[v]
        /\ pc[w] = "chargeSession" /\ pc'[w] = "chargeDay" /\ cost'[w] = cost[w]
        /\ UNCHANGED <<dailySpent, totalSpent>>
    BY <1>6 DEF ChargeSession, Goto, TypeOK
  <2>2. sessionSpent' = sessionSpent => Micros(cost[w]) = 0
    BY <1>6 DEF ChargeSession, NotingLoss, Failing
  <2>3. SumFunction(sessionSpent') = SumFunction(sessionSpent) + Micros(cost[w])
    <3>1. session[w] \in Sessions /\ sessionSpent \in [Sessions -> Nat] /\ IsFiniteSet(Sessions)
      BY SpendAssumption DEF TypeOK
    <3>2. sessionSpent' \in Charged(sessionSpent, session[w], w)
      BY <1>6 DEF ChargeSession
    <3> QED
      BY <2>2, <3>1, <3>2, ChargeAdds
  <2>4. /\ Due("chargeDay")'[w] = Micros(cost[w]) /\ Due("chargeDay")[w] = 0
        /\ Due("chargeTotal")'[w] = 0 /\ Due("chargeTotal")[w] = 0
    BY <2>1 DEF Due, Micros
  <2>5. /\ Outstanding("chargeDay")' = Outstanding("chargeDay") + (Micros(cost[w]) - 0)
        /\ Outstanding("chargeTotal")' = Outstanding("chargeTotal") + (0 - 0)
    BY <2>1, <2>4, OutstandingMoves
  <2>6. Outstanding("chargeDay") \in Int /\ Outstanding("chargeTotal") \in Int /\ Micros(cost[w]) \in Int
    BY DueType, ChargeBound
  <2> QED
    BY <1>2, <2>1, <2>3, <2>5, <2>6, CounterSums DEF LedgerSums, TypeOK
<1>7. ASSUME NEW w \in Workers, ChargeDay(w) PROVE LedgerSums'
  <2>1. /\ \A v \in Workers \ {w} : pc'[v] = pc[v] /\ cost'[v] = cost[v]
        /\ pc[w] = "chargeDay" /\ pc'[w] = "chargeTotal" /\ cost'[w] = cost[w]
        /\ UNCHANGED <<sessionSpent, totalSpent>>
    BY <1>7 DEF ChargeDay, Goto, TypeOK
  <2>2. dailySpent' = dailySpent => Micros(cost[w]) = 0
    BY <1>7 DEF ChargeDay, NotingLoss, Failing
  <2>3. SumFunction(dailySpent') = SumFunction(dailySpent) + Micros(cost[w])
    <3>1. IsFiniteSet(Days)
      BY SpendAssumption, FS_Interval DEF Days
    <3>2. today[w] \in Days /\ dailySpent \in [Days -> Nat]
      BY DEF TypeOK
    <3> QED
      BY <1>7, <2>2, <3>1, <3>2, ChargeAdds DEF ChargeDay
  <2>4. /\ Due("chargeDay")'[w] = 0 /\ Due("chargeDay")[w] = Micros(cost[w])
        /\ Due("chargeTotal")'[w] = Micros(cost[w]) /\ Due("chargeTotal")[w] = 0
    BY <2>1 DEF Due, Micros
  <2>5. /\ Outstanding("chargeDay")' = Outstanding("chargeDay") + (0 - Micros(cost[w]))
        /\ Outstanding("chargeTotal")' = Outstanding("chargeTotal") + (Micros(cost[w]) - 0)
    BY <2>1, <2>4, OutstandingMoves
  <2>6. Outstanding("chargeDay") \in Int /\ Outstanding("chargeTotal") \in Int /\ Micros(cost[w]) \in Int
    BY DueType, ChargeBound
  <2> QED
    BY <1>2, <2>1, <2>3, <2>5, <2>6, CounterSums DEF LedgerSums, TypeOK
<1>8. ASSUME NEW w \in Workers, ChargeTotal(w) PROVE LedgerSums'
  <2>1. /\ \A v \in Workers \ {w} : pc'[v] = pc[v] /\ cost'[v] = cost[v]
        /\ pc[w] = "chargeTotal" /\ pc'[w] = "idle"
        /\ UNCHANGED <<sessionSpent, dailySpent>>
    BY <1>8 DEF ChargeTotal, Goto, TypeOK
  <2>2. totalSpent' = totalSpent => Micros(cost[w]) = 0
    BY <1>8 DEF ChargeTotal, NotingLoss, Failing
  <2>3. Micros(cost[w]) \in Nat /\ totalSpent \in Nat
    BY ChargeBound DEF TypeOK
  <2>4. totalSpent' = totalSpent + Micros(cost[w])
    BY <1>8, <2>2, <2>3 DEF ChargeTotal
  <2>5. /\ Due("chargeDay")'[w] = 0 /\ Due("chargeDay")[w] = 0
        /\ Due("chargeTotal")'[w] = 0 /\ Due("chargeTotal")[w] = Micros(cost[w])
    BY <2>1 DEF Due
  <2>6. /\ Outstanding("chargeDay")' = Outstanding("chargeDay") + (0 - 0)
        /\ Outstanding("chargeTotal")' = Outstanding("chargeTotal") + (0 - Micros(cost[w]))
    BY <2>1, <2>5, OutstandingMoves
  <2>7. Outstanding("chargeDay") \in Int /\ Outstanding("chargeTotal") \in Int
    BY DueType
  <2> QED
    BY <1>2, <2>1, <2>3, <2>4, <2>6, <2>7, CounterSums DEF LedgerSums
<1>9. CASE \/ \E g \in Administered, c \in Configs : ReloadSession(g, c) \/ ReloadDay(g, c)
           \/ Midnight \/ UNCHANGED vars
  <2>1. UNCHANGED <<pc, cost, sessionSpent, dailySpent, totalSpent>>
    BY <1>9 DEF ReloadSession, ReloadDay, Midnight, vars, counters
  <2>2. /\ Outstanding("chargeDay")' = Outstanding("chargeDay")
        /\ Outstanding("chargeTotal")' = Outstanding("chargeTotal")
    BY <2>1 DEF Outstanding, Micros
  <2> QED
    BY <1>3, <2>1, <2>2
<1>10. ASSUME NEW g \in Gateways, NEW c \in Startups, Restart(g, c) PROVE LedgerSums'
  <2>1. UNCHANGED <<sessionSpent, dailySpent, totalSpent>>
    BY <1>10 DEF Restart, Failing
  <2>2. /\ Outstanding("chargeDay")' = Outstanding("chargeDay")
        /\ Outstanding("chargeTotal")' = Outstanding("chargeTotal")
    BY <1>10, RestartOwes DEF Charging
  <2> QED
    BY <1>3, <2>1, <2>2
<1> QED
  BY <1>5, <1>6, <1>7, <1>8, <1>9, <1>10 DEF Next, Handler

LEMMA CostType ==
    ASSUME TypeOK, NEW w \in Workers
    PROVE  cost[w] \in Nat
<1>1. \A c \in Costs : c \in Nat
  BY SpendAssumption
<1>2. cost[w] \in Costs \/ cost[w] = 0
  BY DEF TypeOK
<1> QED
  BY <1>1, <1>2

(* Cutting the fraction of a microdollar never rounds up.                  *)
LEMMA MicrosRoundDown ==
    ASSUME TypeOK, NEW w \in Workers
    PROVE  Scale * Micros(cost[w]) \in Nat /\ Scale * Micros(cost[w]) <= cost[w]
<1>1. cost[w] \in Nat /\ Scale \in Nat \ {0}
  BY CostType, SpendAssumption
<1>2. \A k \in Nat \ {0}, c \in Nat : k * (c \div k) \in Nat /\ k * (c \div k) <= c
  OBVIOUS
<1> QED
  BY <1>1, <1>2 DEF Micros

LEMMA PendingMoves ==
    ASSUME TypeOK, NEW s, NEW w \in Workers,
           \A v \in Workers \ {w} : /\ pc'[v] = pc[v] /\ cost'[v] = cost[v]
                                    /\ session'[v] = session[v],
           Pending(s)'[w] \in Int
    PROVE  /\ SumFunction(Pending(s))' = SumFunction(Pending(s)) + (Pending(s)'[w] - Pending(s)[w])
           /\ SumFunction(Pending(s)) \in Int /\ Pending(s)[w] \in Nat
<1>1. \A v \in Workers \ {w} : Pending(s)'[v] = Pending(s)[v]
  BY DEF Pending, Micros
<1>2. \A v \in Workers : Pending(s)[v] \in Nat
  BY MicrosRoundDown DEF Pending
<1>3. \A v \in Workers : Pending(s)[v] \in Int
  BY <1>2
<1>4. SumFunctionOnSet(Pending(s)', Workers)
        = SumFunctionOnSet(Pending(s), Workers) + (Pending(s)'[w] - Pending(s)[w])
  BY <1>1, <1>3, SpendAssumption, SumChange
<1>5. DOMAIN Pending(s) = Workers /\ DOMAIN Pending(s)' = Workers
  BY DEF Pending
<1>6. /\ SumFunction(Pending(s)) = SumFunctionOnSet(Pending(s), Workers)
      /\ SumFunction(Pending(s)') = SumFunctionOnSet(Pending(s)', Workers)
  BY <1>5, SumWhole
<1> QED
  BY <1>2, <1>3, <1>4, <1>6, SpendAssumption, SumType

(* A function of the handlers moves with the one that moves.               *)
LEMMA HandlerMoves ==
    ASSUME NEW F, NEW G, NEW w \in Workers, DOMAIN F = Workers, DOMAIN G = Workers,
           \A v \in Workers : F[v] \in Int, G[w] \in Int, \A v \in Workers \ {w} : G[v] = F[v]
    PROVE  SumFunction(G) = SumFunction(F) + (G[w] - F[w])
BY SumChange, SumWhole, SpendAssumption

LEMMA PendingType ==
    ASSUME TypeOK, NEW s
    PROVE  /\ \A w \in Workers : Pending(s)[w] \in Nat
           /\ SumFunction(Pending(s)) = SumFunctionOnSet(Pending(s), Workers)
           /\ SumFunction(Pending(s)) \in Int
<1>1. \A w \in Workers : Pending(s)[w] \in Nat
  BY MicrosRoundDown DEF Pending
<1>2. DOMAIN Pending(s) = Workers
  BY DEF Pending
<1>3. \A w \in Workers : Pending(s)[w] \in Int
  BY <1>1
<1> QED
  BY <1>1, <1>2, <1>3, SumWhole, SumType, SpendAssumption

LEMMA CoverStep ==
    ASSUME TypeOK, [Next]_vars, NEW s \in Sessions, SpentCharged(s)
    PROVE  SpentCharged(s)'
<1>1. spent[s] \in Nat /\ sessionSpent[s] \in Nat /\ Scale \in Nat
  BY SpendAssumption DEF TypeOK
<1>2. SumFunction(Pending(s)) \in Int
  BY PendingType
<1>3. ASSUME NEW w \in Workers,
             \/ \E g \in Gateways, t \in Sessions : Arrive(w, g, t)
             \/ CheckSession(w) \/ EnterDay(w) \/ CheckDay(w) \/ AnswerBlocked(w) \/ UpstreamError(w)
             \/ \E c \in Costs : UpstreamAnswer(w, c)
             \/ ChargeDay(w) \/ ChargeTotal(w)
      PROVE  SpentCharged(s)'
  <2>1. /\ \A v \in Workers \ {w} : pc'[v] = pc[v] /\ cost'[v] = cost[v] /\ session'[v] = session[v]
        /\ pc[w] # "chargeSession" /\ pc'[w] # "chargeSession"
    BY <1>3 DEF Arrive, CheckSession, EnterDay, CheckDay, AnswerBlocked, UpstreamError,
         UpstreamAnswer, ChargeDay, ChargeTotal, Goto, TypeOK
  <2>2. UNCHANGED <<sessionSpent, spent>>
    BY <1>3 DEF Arrive, CheckSession, EnterDay, CheckDay, AnswerBlocked, UpstreamError,
         UpstreamAnswer, ChargeDay, ChargeTotal, counters
  <2>3. Pending(s)'[w] = 0 /\ Pending(s)[w] = 0
    BY <2>1 DEF Pending
  <2>4. SumFunction(Pending(s))' = SumFunction(Pending(s)) + (0 - 0)
    BY <2>1, <2>3, PendingMoves
  <2> QED
    BY <1>1, <1>2, <2>2, <2>4 DEF SpentCharged
<1>4. ASSUME NEW w \in Workers, Track(w) PROVE SpentCharged(s)'
  <2>1. /\ \A v \in Workers \ {w} : pc'[v] = pc[v] /\ cost'[v] = cost[v] /\ session'[v] = session[v]
        /\ pc[w] = "track" /\ pc'[w] = "chargeSession" /\ cost'[w] = cost[w] /\ session'[w] = session[w]
        /\ sessionSpent' = sessionSpent
    BY <1>4 DEF Track, Goto, TypeOK
  <2>2. Scale * Micros(cost[w]) \in Nat /\ Scale * Micros(cost[w]) <= cost[w] /\ cost[w] \in Nat
    BY MicrosRoundDown, CostType
  <2>3. Pending(s)[w] = 0 /\ Pending(s)'[w] = IF session[w] = s THEN Scale * Micros(cost[w]) ELSE 0
    BY <2>1 DEF Pending, Micros
  <2>4. spent'[s] = IF session[w] = s THEN spent[s] + cost[w] ELSE spent[s]
    BY <1>4 DEF Track, TypeOK
  <2>5. SumFunction(Pending(s))' = SumFunction(Pending(s)) + (Pending(s)'[w] - Pending(s)[w])
    BY <2>1, <2>2, <2>3, PendingMoves
  <2> QED
    BY <1>1, <1>2, <2>1, <2>2, <2>3, <2>4, <2>5 DEF SpentCharged
<1>5. ASSUME NEW w \in Workers, ChargeSession(w) PROVE SpentCharged(s)'
  <2>1. /\ \A v \in Workers \ {w} : pc'[v] = pc[v] /\ cost'[v] = cost[v] /\ session'[v] = session[v]
        /\ pc[w] = "chargeSession" /\ pc'[w] = "chargeDay"
        /\ spent' = spent
    BY <1>5 DEF ChargeSession, Goto, TypeOK
  <2>2. Scale * Micros(cost[w]) \in Nat /\ Micros(cost[w]) \in Nat
    BY MicrosRoundDown, ChargeBound
  <2>3. Pending(s)'[w] = 0 /\ Pending(s)[w] = IF session[w] = s THEN Scale * Micros(cost[w]) ELSE 0
    BY <2>1 DEF Pending
  <2>4. \/ sessionSpent'[s] = sessionSpent[s]
        \/ session[w] = s /\ sessionSpent'[s] = sessionSpent[s] + Micros(cost[w])
    <3>1. \/ sessionSpent' = [sessionSpent EXCEPT ![session[w]] = @ + Micros(cost[w])]
          \/ sessionSpent' = sessionSpent
      BY <1>5 DEF ChargeSession, Charged
    <3>2. sessionSpent \in [Sessions -> Nat]
      BY DEF TypeOK
    <3>3. CASE sessionSpent' = sessionSpent
      BY <3>3
    <3>4. CASE sessionSpent' = [sessionSpent EXCEPT ![session[w]] = @ + Micros(cost[w])]
      BY ONLY <3>2, <3>4, s \in Sessions
    <3> QED
      BY <3>1, <3>3, <3>4
  <2>5. SumFunction(Pending(s))' = SumFunction(Pending(s)) + (Pending(s)'[w] - Pending(s)[w])
    BY <2>1, <2>3, PendingMoves
  <2>6. Scale * (sessionSpent[s] + Micros(cost[w])) = Scale * sessionSpent[s] + Scale * Micros(cost[w])
    BY <1>1, <2>2
  <2>7. Scale * sessionSpent[s] \in Nat
    BY <1>1
  <2> QED
    BY <1>1, <1>2, <2>1, <2>2, <2>3, <2>4, <2>5, <2>6, <2>7 DEF SpentCharged
<1>6. CASE \/ \E g \in Administered, c \in Configs : ReloadSession(g, c) \/ ReloadDay(g, c)
           \/ Midnight \/ UNCHANGED vars
  <2>1. UNCHANGED <<pc, cost, session, sessionSpent, spent>>
    BY <1>6 DEF ReloadSession, ReloadDay, Midnight, vars, counters
  <2>2. Pending(s)' = Pending(s)
    BY <2>1 DEF Pending, Micros
  <2> QED
    BY <2>1, <2>2 DEF SpentCharged
<1>7. ASSUME NEW g \in Gateways, NEW c \in Startups, Restart(g, c) PROVE SpentCharged(s)'
  <2>1. \A w \in Workers : Pending(s)'[w] = IF gateway[w] = g THEN 0 ELSE Pending(s)[w]
    BY <1>7 DEF Restart, Pending, Micros
  <2>2. \A w \in Workers : /\ Pending(s)'[w] \in Int /\ Pending(s)[w] \in Int
                           /\ Pending(s)'[w] <= Pending(s)[w]
    BY <2>1, PendingType
  <2>3. SumFunctionOnSet(Pending(s)', Workers) <= SumFunctionOnSet(Pending(s), Workers)
    BY <2>2, SumAtMost, SpendAssumption
  <2>4. SumFunction(Pending(s)') = SumFunctionOnSet(Pending(s)', Workers)
    <3>1. DOMAIN Pending(s)' = Workers
      BY DEF Pending
    <3> QED
      BY <3>1, SumWhole
  <2>5. SumFunctionOnSet(Pending(s)', Workers) \in Int
    BY <2>2, SumType, SpendAssumption
  <2>6. sessionSpent'[s] = sessionSpent[s] \/ sessionSpent'[s] = 0
    BY <1>7 DEF Restart
  <2>7. spent' = spent /\ Scale * sessionSpent[s] \in Nat /\ Scale * 0 = 0
    BY <1>1, <1>7 DEF Restart
  <2> QED
    BY <1>1, <1>2, <2>3, <2>4, <2>5, <2>6, <2>7, PendingType DEF SpentCharged
<1> QED
  BY <1>3, <1>4, <1>5, <1>6, <1>7 DEF Next, Handler

(* What is shown for a session moves with the tracker that moves.          *)
LEMMA ShownMoves ==
    ASSUME TypeOK, TypeOK', NEW s \in Sessions, NEW g \in Gateways,
           \A h \in Gateways \ {g} : tracked'[h] = tracked[h]
    PROVE  /\ Shown(s)' = Shown(s) + (tracked'[g][s] - tracked[g][s])
           /\ Shown(s) \in Int
<1>1. \A h \in Gateways : ShownOf(s)[h] \in Int /\ ShownOf(s)'[h] \in Int
  BY DEF TypeOK, ShownOf
<1>2. /\ Shown(s) = SumFunction(ShownOf(s)) /\ Shown(s)' = SumFunction(ShownOf(s)')
      /\ DOMAIN ShownOf(s) = Gateways /\ DOMAIN ShownOf(s)' = Gateways
  BY DEF Shown, ShownOf
<1>3. \A h \in Gateways \ {g} : ShownOf(s)'[h] = ShownOf(s)[h]
  BY DEF ShownOf
<1>4. SumFunctionOnSet(ShownOf(s)', Gateways)
        = SumFunctionOnSet(ShownOf(s), Gateways) + (ShownOf(s)'[g] - ShownOf(s)[g])
  BY <1>1, <1>3, SumChange, SpendAssumption
<1>5. SumFunctionOnSet(ShownOf(s), Gateways) \in Int
  BY <1>1, SumType, SpendAssumption
<1> QED
  BY <1>2, <1>4, <1>5, SumWhole DEF ShownOf

LEMMA ShownStep ==
    ASSUME TypeOK, TypeOK', [Next]_vars, NEW s \in Sessions, SpentShown(s)
    PROVE  SpentShown(s)'
<1>1. ASSUME UNCHANGED <<tracked, spent, restarts>> PROVE SpentShown(s)'
  <2>1. Shown(s)' = Shown(s)
    BY <1>1 DEF Shown
  <2> QED
    BY <1>1, <2>1 DEF SpentShown
<1>2. ASSUME NEW w \in Workers, Track(w) PROVE SpentShown(s)'
  <2> DEFINE g == gateway[w]
  <2>1. g \in Gateways /\ session[w] \in Sessions /\ cost[w] \in Nat /\ spent[s] \in Nat
        /\ tracked[g] \in [Sessions -> Nat]
    BY CostType DEF TypeOK
  <2>2. /\ tracked' = [tracked EXCEPT ![g] = [tracked[g] EXCEPT ![session[w]] = tracked[g][session[w]] + cost[w]]]
        /\ spent' = [spent EXCEPT ![session[w]] = @ + cost[w]] /\ restarts' = restarts
    BY <1>2 DEF Track
  <2> HIDE DEF g
  <2>3. \A h \in Gateways \ {g} : tracked'[h] = tracked[h]
    BY <2>2 DEF TypeOK
  <2>4. tracked'[g] = [tracked[g] EXCEPT ![session[w]] = tracked[g][session[w]] + cost[w]]
    BY <2>1, <2>2 DEF TypeOK
  <2>5. tracked'[g][s] = IF session[w] = s THEN tracked[g][s] + cost[w] ELSE tracked[g][s]
    BY <2>1, <2>4
  <2>6. spent'[s] = IF session[w] = s THEN spent[s] + cost[w] ELSE spent[s]
    BY <2>2 DEF TypeOK
  <2>7. Shown(s)' = Shown(s) + (tracked'[g][s] - tracked[g][s]) /\ Shown(s) \in Int
    BY <2>1, <2>3, ShownMoves
  <2>8. tracked[g][s] \in Nat
    BY <2>1
  <2> QED
    BY <2>1, <2>2, <2>5, <2>6, <2>7, <2>8 DEF SpentShown
<1>3. ASSUME NEW g \in Gateways, NEW c \in Startups, Restart(g, c) PROVE SpentShown(s)'
  <2>1. /\ \A h \in Gateways \ {g} : tracked'[h] = tracked[h]
        /\ tracked'[g][s] = 0 /\ tracked[g][s] \in Nat /\ spent[s] \in Nat
        /\ spent' = spent /\ restarts' = restarts + 1 /\ restarts \in Nat
    BY <1>3 DEF Restart, TypeOK
  <2>2. Shown(s)' = Shown(s) + (tracked'[g][s] - tracked[g][s]) /\ Shown(s) \in Int
    BY <2>1, ShownMoves
  <2> QED
    BY <2>1, <2>2 DEF SpentShown
<1>4. \/ UNCHANGED <<tracked, spent, restarts>>
      \/ \E w \in Workers : Track(w)
      \/ \E g \in Gateways, c \in Startups : Restart(g, c)
  BY DEF Next, vars, counters, Handler, Arrive, CheckSession, EnterDay, CheckDay, AnswerBlocked,
     UpstreamError, UpstreamAnswer, ChargeSession, ChargeDay, ChargeTotal,
     ReloadSession, ReloadDay, Midnight
<1> QED
  BY <1>1, <1>2, <1>3, <1>4

-----------------------------------------------------------------------------
(* Fractions of a microdollar.                                             *)

LEMMA UncutType ==
    ASSUME TypeOK
    PROVE  /\ \A w \in Workers : Uncut[w] \in Nat
           /\ SumFunction(Uncut) = SumFunctionOnSet(Uncut, Workers) /\ SumFunction(Uncut) \in Nat
<1>1. \A w \in Workers : Uncut[w] \in Nat
  BY SpendAssumption DEF Uncut
<1>2. DOMAIN Uncut = Workers
  BY DEF Uncut
<1> QED
  BY <1>1, <1>2, SumWhole, SumNat, SpendAssumption

(* One handler moves: what may be lost to come moves by its part.          *)
LEMMA UncutMoves ==
    ASSUME TypeOK, NEW w \in Workers, \A v \in Workers \ {w} : pc'[v] = pc[v]
    PROVE  /\ SumFunction(Uncut)' = SumFunction(Uncut) + (Uncut'[w] - Uncut[w])
           /\ Uncut[w] \in Int /\ Uncut'[w] \in Int /\ SumFunction(Uncut) \in Int
<1>1. \A v \in Workers : Uncut[v] \in Int /\ Uncut'[v] \in Int
  BY SpendAssumption DEF Uncut
<1>2. DOMAIN Uncut = Workers /\ DOMAIN Uncut' = Workers
  BY DEF Uncut
<1>3. \A v \in Workers \ {w} : Uncut'[v] = Uncut[v]
  BY DEF Uncut
<1>4. SumFunction(Uncut') = SumFunction(Uncut) + (Uncut'[w] - Uncut[w])
  BY <1>1, <1>2, <1>3, HandlerMoves
<1> QED
  BY <1>1, <1>4, UncutType

LEMMA SpentType ==
    ASSUME TypeOK
    PROVE  SumFunction(spent) = SumFunctionOnSet(spent, Sessions) /\ SumFunction(spent) \in Int
<1>1. (\A s \in Sessions : spent[s] \in Int) /\ DOMAIN spent = Sessions
  BY DEF TypeOK
<1> QED
  BY <1>1, SumWhole, SumType, SpendAssumption

(* A fraction is less than a microdollar.                                  *)
LEMMA FractionSmall ==
    ASSUME TypeOK, NEW w \in Workers
    PROVE  cost[w] <= Scale * Micros(cost[w]) + (Scale - 1)
<1>1. cost[w] \in Nat /\ Scale \in Nat \ {0}
  BY CostType, SpendAssumption
<1>2. \A k \in Nat \ {0}, c \in Nat : c <= k * (c \div k) + (k - 1)
  OBVIOUS
<1> QED
  BY <1>1, <1>2 DEF Micros

LEMMA FractionsStep ==
    ASSUME TypeOK, TypeOK', [Next]_vars, FractionsLost
    PROVE  FractionsLost'
<1> SUFFICES ASSUME "charge" \notin failed' PROVE FractionsLost'
  BY DEF FractionsLost
<1> DEFINE A == SumFunction(spent)
           U == SumFunction(Uncut)
           B == SumFunction(sessionSpent)
           O == Outstanding("chargeSession")
<1>1. "charge" \notin failed
  BY FailedGrows
<1>2. A + U <= Scale * (B + O) + (Scale - 1) * served
  BY <1>1 DEF FractionsLost
<1>3. A \in Int /\ U \in Int /\ B \in Int /\ O \in Int /\ Scale \in Nat \ {0} /\ served \in Nat
  BY SpentType, UncutType, CounterSums, DueType, SpendAssumption DEF TypeOK
<1>4. ASSUME A' = A, B' = B, O' = O, U' <= U, U' \in Int, served' = served PROVE FractionsLost'
  <2>1. A' + U' <= Scale * (B' + O') + (Scale - 1) * served'
    <3>1. Scale * (B' + O') = Scale * (B + O) /\ (Scale - 1) * served' = (Scale - 1) * served
      BY <1>4
    <3>2. Scale * (B + O) \in Int /\ (Scale - 1) * served \in Int
      BY <1>3
    <3>3. A + U' <= Scale * (B + O) + (Scale - 1) * served
      <4>1. \A a, u, v, x, y \in Int : a + u <= x + y /\ v <= u => a + v <= x + y
        OBVIOUS
      <4> HIDE DEF A, U, B, O
      <4> QED BY <1>2, <1>3, <1>4, <3>2, <4>1
    <3> HIDE DEF A, U, B, O
    <3> QED BY <1>4, <3>1, <3>3
  <2> QED
    BY <2>1 DEF FractionsLost
<1>5. ASSUME NEW w \in Workers, NEW g \in Gateways, NEW s \in Sessions, Arrive(w, g, s)
      PROVE  FractionsLost'
  <2>1. /\ \A v \in Workers \ {w} : pc'[v] = pc[v] /\ cost'[v] = cost[v]
        /\ pc[w] = "idle" /\ pc'[w] \in {"sessionCheck", "dayGate"}
        /\ UNCHANGED <<spent, sessionSpent>> /\ served' = served + 1
    BY <1>5 DEF Arrive, Goto, TypeOK, counters
  <2>2. Uncut'[w] = Scale - 1 /\ Uncut[w] = 0 /\ Due("chargeSession")'[w] = 0 /\ Due("chargeSession")[w] = 0
    BY <2>1 DEF Uncut, Due
  <2>3. U' = U + ((Scale - 1) - 0) /\ O' = O + (0 - 0) /\ A' = A /\ B' = B
    BY <2>1, <2>2, UncutMoves, OutstandingMoves
  <2>4. (Scale - 1) * (served + 1) = (Scale - 1) * served + (Scale - 1)
    BY <1>3
  <2>5. A' + U' <= Scale * (B' + O') + (Scale - 1) * served'
    <3>1. O' = O
      BY <1>3, <2>3
    <3>2. Scale * (B + O) \in Int /\ (Scale - 1) * served \in Int
      BY <1>3
    <3>3. Scale * (B' + O') = Scale * (B + O)
      BY <2>3, <3>1
    <3>4. (Scale - 1) * served' = (Scale - 1) * served + (Scale - 1)
      BY <2>1, <2>4
    <3> HIDE DEF A, U, B, O
    <3> QED BY <1>2, <1>3, <2>3, <3>2, <3>3, <3>4
  <2> QED
    BY <2>5 DEF FractionsLost
<1>6. ASSUME NEW w \in Workers,
             \/ CheckSession(w) \/ EnterDay(w) \/ CheckDay(w) \/ AnswerBlocked(w) \/ UpstreamError(w)
             \/ \E c \in Costs : UpstreamAnswer(w, c)
             \/ ChargeDay(w) \/ ChargeTotal(w)
      PROVE  FractionsLost'
  <2>1. /\ \A v \in Workers \ {w} : pc'[v] = pc[v] /\ cost'[v] = cost[v]
        /\ pc[w] # "chargeSession" /\ pc'[w] # "chargeSession"
        /\ Uncut'[w] <= Uncut[w]
    BY <1>6, SpendAssumption DEF CheckSession, EnterDay, CheckDay, AnswerBlocked, UpstreamError,
         UpstreamAnswer, ChargeDay, ChargeTotal, Goto, TypeOK, Uncut
  <2>2. UNCHANGED <<sessionSpent, spent, served>>
    BY <1>6 DEF CheckSession, EnterDay, CheckDay, AnswerBlocked, UpstreamError,
         UpstreamAnswer, ChargeDay, ChargeTotal, counters
  <2>3. Due("chargeSession")'[w] = 0 /\ Due("chargeSession")[w] = 0
    BY <2>1 DEF Due
  <2>4. O' = O + (0 - 0)
    BY <2>1, <2>3, OutstandingMoves
  <2>5. U' = U + (Uncut'[w] - Uncut[w]) /\ Uncut[w] \in Int /\ Uncut'[w] \in Int
    BY <2>1, UncutMoves
  <2>6. O' = O /\ U' <= U /\ U' \in Int
    BY <1>3, <2>1, <2>4, <2>5
  <2> QED
    BY <1>4, <2>2, <2>6
<1>7. ASSUME NEW w \in Workers, Track(w) PROVE FractionsLost'
  <2>1. /\ \A v \in Workers \ {w} : pc'[v] = pc[v] /\ cost'[v] = cost[v]
        /\ pc[w] = "track" /\ pc'[w] = "chargeSession" /\ cost'[w] = cost[w]
        /\ UNCHANGED <<sessionSpent, served>>
        /\ spent' = [spent EXCEPT ![session[w]] = @ + cost[w]]
    BY <1>7 DEF Track, Goto, TypeOK
  <2>2. /\ Uncut'[w] = 0 /\ Uncut[w] = Scale - 1
        /\ Due("chargeSession")'[w] = Micros(cost[w]) /\ Due("chargeSession")[w] = 0
    BY <2>1 DEF Uncut, Due, Micros
  <2>3. U' = U + (0 - (Scale - 1)) /\ O' = O + (Micros(cost[w]) - 0) /\ B' = B
    BY <2>1, <2>2, UncutMoves, OutstandingMoves
  <2>4. cost[w] \in Nat /\ Micros(cost[w]) \in Nat /\ cost[w] <= Scale * Micros(cost[w]) + (Scale - 1)
    BY CostType, ChargeBound, FractionSmall
  <2>5. A' = A + cost[w]
    <3>1. session[w] \in Sessions /\ spent \in [Sessions -> Nat]
      BY DEF TypeOK
    <3>2. spent'[session[w]] = spent[session[w]] + cost[w]
          /\ \A s \in Sessions \ {session[w]} : spent'[s] = spent[s]
      BY <2>1, <3>1
    <3>3. spent'[session[w]] \in Int /\ spent[session[w]] \in Int /\ \A s \in Sessions : spent[s] \in Int
      BY <2>4, <3>1, <3>2
    <3>4. SumFunctionOnSet(spent', Sessions)
            = SumFunctionOnSet(spent, Sessions) + (spent'[session[w]] - spent[session[w]])
      BY <3>1, <3>2, <3>3, SumChange, SpendAssumption
    <3>5. A' = SumFunctionOnSet(spent', Sessions) /\ A = SumFunctionOnSet(spent, Sessions)
      BY <2>1, <3>1, SumWhole
    <3> HIDE DEF A
    <3> QED BY <1>3, <2>4, <3>2, <3>3, <3>4, <3>5
  <2>6. A' + U' <= Scale * (B' + O') + (Scale - 1) * served'
    <3>1. Scale * (B + (O + Micros(cost[w]))) = Scale * (B + O) + Scale * Micros(cost[w])
      BY <1>3, <2>4
    <3>2. Scale * (B + O) \in Int /\ Scale * Micros(cost[w]) \in Int /\ (Scale - 1) * served \in Int
      BY <1>3, <2>4
    <3>3. O' = O + Micros(cost[w])
      BY <1>3, <2>3, <2>4
    <3>4. Scale * (B' + O') = Scale * (B + O) + Scale * Micros(cost[w])
      BY <2>3, <3>1, <3>3
    <3>5. (Scale - 1) * served' = (Scale - 1) * served
      BY <2>1
    <3> HIDE DEF A, U, B, O
    <3> QED BY <1>2, <1>3, <2>3, <2>4, <2>5, <3>2, <3>4, <3>5
  <2> QED
    BY <2>6 DEF FractionsLost
<1>8. ASSUME NEW w \in Workers, ChargeSession(w) PROVE FractionsLost'
  <2>1. /\ \A v \in Workers \ {w} : pc'[v] = pc[v] /\ cost'[v] = cost[v]
        /\ pc[w] = "chargeSession" /\ pc'[w] = "chargeDay" /\ cost'[w] = cost[w]
        /\ UNCHANGED <<spent, served>>
    BY <1>8 DEF ChargeSession, Goto, TypeOK
  <2>2. sessionSpent' = sessionSpent => Micros(cost[w]) = 0
    BY <1>8 DEF ChargeSession, NotingLoss, Failing
  <2>3. B' = B + Micros(cost[w])
    <3>1. session[w] \in Sessions /\ sessionSpent \in [Sessions -> Nat] /\ IsFiniteSet(Sessions)
      BY SpendAssumption DEF TypeOK
    <3>2. sessionSpent' \in Charged(sessionSpent, session[w], w)
      BY <1>8 DEF ChargeSession
    <3> QED
      BY <2>2, <3>1, <3>2, ChargeAdds
  <2>4. Uncut'[w] = 0 /\ Uncut[w] = 0 /\ Due("chargeSession")'[w] = 0
        /\ Due("chargeSession")[w] = Micros(cost[w])
    BY <2>1 DEF Uncut, Due
  <2>5. U' = U + (0 - 0) /\ O' = O + (0 - Micros(cost[w])) /\ A' = A
    BY <2>1, <2>4, UncutMoves, OutstandingMoves
  <2>6. Micros(cost[w]) \in Int
    BY ChargeBound
  <2>7. A' + U' <= Scale * (B' + O') + (Scale - 1) * served'
    <3>1. B' + O' = B + O /\ U' = U
      BY <1>3, <2>3, <2>5, <2>6
    <3>2. Scale * (B' + O') = Scale * (B + O)
      BY <3>1
    <3> HIDE DEF A, U, B, O
    <3> QED BY <1>2, <2>1, <2>5, <3>1, <3>2
  <2> QED
    BY <2>7 DEF FractionsLost
<1>9. CASE \/ \E g \in Administered, c \in Configs : ReloadSession(g, c) \/ ReloadDay(g, c)
           \/ Midnight \/ UNCHANGED vars
  <2>1. UNCHANGED <<pc, cost, sessionSpent, spent, served>>
    BY <1>9 DEF ReloadSession, ReloadDay, Midnight, vars, counters
  <2>2. O' = O /\ U' = U
    BY <2>1 DEF Outstanding, Micros, Uncut
  <2> QED
    BY <1>3, <1>4, <2>1, <2>2
<1>10. ASSUME NEW g \in Gateways, NEW c \in Startups, Restart(g, c) PROVE FractionsLost'
  <2>1. UNCHANGED <<sessionSpent, spent, served>>
    BY <1>10 DEF Restart, Failing
  <2>2. O' = O
    BY <1>10, RestartOwes DEF Charging
  <2>3. U' <= U /\ U' \in Int
    <3>1. \A w \in Workers : Uncut'[w] \in Nat /\ Uncut[w] \in Nat /\ Uncut'[w] <= Uncut[w]
      BY <1>10, SpendAssumption DEF Restart, Uncut
    <3>2. \A w \in Workers : Uncut'[w] \in Int /\ Uncut[w] \in Int /\ Uncut'[w] <= Uncut[w]
      BY <3>1
    <3>3. DOMAIN Uncut' = Workers /\ DOMAIN Uncut = Workers
      BY DEF Uncut
    <3>4. SumFunctionOnSet(Uncut', Workers) <= SumFunctionOnSet(Uncut, Workers)
          /\ SumFunctionOnSet(Uncut', Workers) \in Int
      BY <3>2, SumAtMost, SumType, SpendAssumption
    <3> QED BY <3>3, <3>4, SumWhole
  <2> QED
    BY <1>4, <2>1, <2>2, <2>3
<1> QED
  BY <1>5, <1>6, <1>7, <1>8, <1>9, <1>10 DEF Next, Handler

(* The ledgers agree: a session counter runs ahead of its day's, and a     *)
(* day's ahead of the total, by exactly what is being charged; what was    *)
(* spent covers every counter and every tracker, whatever is lost and      *)
(* however often gateways restart; and each request loses less than one    *)
(* microdollar to truncation.                                              *)
THEOREM LedgersAgreeAlways == Spec => []LedgersAgree
<1>1. Init => LedgerInv
  <2> SUFFICES ASSUME Init PROVE LedgerInv
    OBVIOUS
  <2>1. TypeOK
    BY InitType
  <2>2. IsFiniteSet(Sessions) /\ IsFiniteSet(Days) /\ IsFiniteSet(Workers) /\ IsFiniteSet(Gateways)
    BY SpendAssumption, FS_Interval DEF Days
  <2>3. \A p \in Charging : Outstanding(p) = 0
    <3> SUFFICES ASSUME NEW p \in Charging PROVE Outstanding(p) = 0
      OBVIOUS
    <3>1. \A w \in Workers : Due(p)[w] = 0
      BY DEF Init, Due, Charging
    <3> QED
      BY <2>1, <2>2, <3>1, DueType, SumZero
  <2>4. SumFunction(sessionSpent) = 0 /\ SumFunction(dailySpent) = 0 /\ SumFunction(spent) = 0
    <3>1. /\ SumFunction(sessionSpent) = SumFunctionOnSet(sessionSpent, Sessions)
          /\ SumFunction(dailySpent) = SumFunctionOnSet(dailySpent, Days)
          /\ SumFunction(spent) = SumFunctionOnSet(spent, Sessions)
      BY SumWhole DEF Init
    <3>2. (\A s \in Sessions : sessionSpent[s] = 0 /\ spent[s] = 0) /\ (\A d \in Days : dailySpent[d] = 0)
      BY DEF Init
    <3> QED
      BY <2>2, <3>1, <3>2, SumZero
  <2>5. \A s \in Sessions : SpentCharged(s) /\ SpentShown(s)
    <3> SUFFICES ASSUME NEW s \in Sessions PROVE SpentCharged(s) /\ SpentShown(s)
      OBVIOUS
    <3>1. (\A w \in Workers : Pending(s)[w] = 0) /\ DOMAIN Pending(s) = Workers
      BY DEF Init, Pending
    <3>2. SumFunction(Pending(s)) = 0
      BY <2>2, <3>1, SumWhole, SumZero
    <3>3. spent[s] = 0 /\ sessionSpent[s] = 0
      BY DEF Init
    <3>4. (\A g \in Gateways : ShownOf(s)[g] = 0) /\ DOMAIN ShownOf(s) = Gateways
      BY DEF Init, ShownOf
    <3>5. Shown(s) = 0
      <4>1. Shown(s) = SumFunction(ShownOf(s))
        BY DEF Shown, ShownOf
      <4> QED BY <2>2, <3>4, <4>1, SumWhole, SumZero
    <3> QED
      BY <3>2, <3>3, <3>5, SpendAssumption DEF SpentCharged, SpentShown
  <2>6. FractionsLost
    <3>1. (\A w \in Workers : Uncut[w] = 0) /\ DOMAIN Uncut = Workers
      BY DEF Init, Uncut
    <3>2. SumFunction(Uncut) = 0
      BY <2>2, <3>1, SumWhole, SumZero
    <3>3. served = 0 /\ Outstanding("chargeSession") = 0
      BY <2>3 DEF Init, Charging
    <3> QED
      BY <2>4, <3>2, <3>3, SpendAssumption DEF FractionsLost
  <2> QED
    BY <2>1, <2>3, <2>4, <2>5, <2>6 DEF LedgerInv, LedgerSums, Init, Charging
<1>2. LedgerInv /\ [Next]_vars => LedgerInv'
  <2> SUFFICES ASSUME LedgerInv, [Next]_vars PROVE LedgerInv'
    OBVIOUS
  <2>1. TypeOK /\ TypeOK' /\ LedgerSums'
    BY TypeStep, SumsStep DEF LedgerInv
  <2>2. \A s \in Sessions : SpentCharged(s)' /\ SpentShown(s)'
    BY <2>1, CoverStep, ShownStep DEF LedgerInv
  <2>3. FractionsLost'
    BY <2>1, FractionsStep DEF LedgerInv
  <2> QED
    BY <2>1, <2>2, <2>3 DEF LedgerInv
<1>3. LedgerInv => LedgersAgree
  <2> SUFFICES ASSUME LedgerInv PROVE LedgersAgree
    OBVIOUS
  <2>1. ASSUME NEW s \in Sessions PROVE Scale * sessionSpent[s] <= spent[s]
    <3>1. (\A w \in Workers : Pending(s)[w] \in Nat) /\ DOMAIN Pending(s) = Workers
      BY MicrosRoundDown DEF Pending, LedgerInv
    <3>2. SumFunction(Pending(s)) \in Nat
      BY <3>1, SumWhole, SumNat, SpendAssumption
    <3>3. spent[s] \in Nat /\ Scale * sessionSpent[s] \in Nat
      BY SpendAssumption DEF LedgerInv, TypeOK
    <3> QED
      BY <3>2, <3>3 DEF LedgerInv, SpentCharged
  <2>2. SpentCovers
    BY <2>1 DEF SpentCovers, LedgerInv, SpentShown
  <2>3. ASSUME "charge" \notin failed
        PROVE  SumFunction(spent) <= Scale * (SumFunction(sessionSpent) + Outstanding("chargeSession"))
                                      + (Scale - 1) * served
    <3>1. SumFunction(spent) \in Int /\ SumFunction(Uncut) \in Nat
          /\ SumFunction(sessionSpent) \in Int /\ Outstanding("chargeSession") \in Int
          /\ Scale \in Nat \ {0} /\ served \in Nat
      BY SpentType, UncutType, CounterSums, DueType, SpendAssumption DEF LedgerInv, TypeOK
    <3>2. Scale * (SumFunction(sessionSpent) + Outstanding("chargeSession")) + (Scale - 1) * served \in Int
      BY <3>1
    <3> QED
      BY <2>3, <3>1, <3>2 DEF LedgerInv, FractionsLost
  <2> QED
    BY <2>2, <2>3 DEF LedgersAgree, LedgerInv, LedgerSums
<1> QED
  BY <1>1, <1>2, <1>3, PTL DEF Spec

-----------------------------------------------------------------------------
(***************************************************************************)
(* Proofs about CostPricing, for any models, prices, catalogues and any    *)
(* number of concurrent reloads.  A reload that overlaps no other one is   *)
(* the last to have asked for its models, so what it copies, and what the  *)
(* refresh reads while no reload of a model is under way, is what was      *)
(* asked for.                                                              *)
(***************************************************************************)

Busy(a) == reload[a].pc # "idle"
InReload(m, a) == Busy(a) /\ reload[a].table[m] # NoPrice
Certain == Priced(asked) \ overlapped

Kept == \A m \in Certain : (\A a \in Reloaders : ~InReload(m, a)) => configPrices[m] = asked[m]
LastAsked == \A m \in PricedModels \ overlapped, a \in Reloaders :
                InReload(m, a) => reload[a].table[m] = asked[m]
Overlap == \A a, b \in Reloaders : a # b /\ Busy(a) /\ Busy(b) =>
                \A m \in PricedModels : InReload(m, a) => m \in overlapped
MergedKept == \A a \in Reloaders : reload[a].pc = "copied" =>
                \A m \in Certain : reload[a].merged[m] = asked[m]
Racing == refresh.pc # "idle" => \A m \in PricedModels, a \in Reloaders : InReload(m, a) => m \in raced
Clean == refresh.pc # "idle" /\ refresh.clean => \A a \in Reloaders : ~Busy(a)
ReadKept == refresh.pc = "read" =>
                \A m \in Certain : m \notin raced \/ refresh.clean => refresh.table[m] = asked[m]
ChargedAsAsked == refresh.pc = "idle" => \A m \in Certain \ raced : prices[m] = asked[m]

MapInv == Kept /\ LastAsked /\ Overlap /\ MergedKept
TableInv == Racing /\ Clean /\ ReadKept /\ ChargedAsAsked
PricingInv == PricingTypeOK /\ MapInv /\ TableInv

-----------------------------------------------------------------------------
(* Merging                                                                 *)

\* Merged tables are tables, and every entry comes from one of the two.
LEMMA Merging ==
    ASSUME NEW t \in PriceTable, NEW u \in PriceTable
    PROVE  /\ MergePrices(t, u) \in PriceTable
           /\ \A m \in PricedModels :
                MergePrices(t, u)[m] = IF u[m] # NoPrice THEN u[m] ELSE t[m]
BY DEF MergePrices, PriceTable, Priced

\* A catalogue, the file and the empty table are tables.
LEMMA Tables == Fetched \subseteq PriceTable /\ NoTable \in PriceTable /\ FileOverrides \in PriceTable
BY CostPricingAssumption DEF Fetched, FetchOnlinePricing, NoTable, PriceTable

LEMMA BeingReloadedIs == BeingReloaded = {m \in PricedModels : \E a \in Reloaders : InReload(m, a)}
BY DEF BeingReloaded, Reloading, InReload, Busy, Priced

-----------------------------------------------------------------------------
\* At the start the table holds the overrides of the file.
LEMMA PricingInitInv == PricingInit => PricingInv
<1> SUFFICES ASSUME PricingInit PROVE PricingInv
  OBVIOUS
<1>1. PICK t \in Fetched \cup {NoTable} : prices = MergePrices(t, FileOverrides)
  BY DEF PricingInit
<1>2. t \in PriceTable /\ FileOverrides \in PriceTable /\ NoTable \in PriceTable
  BY Tables
<1>3. prices \in PriceTable /\ \A m \in Priced(FileOverrides) : prices[m] = FileOverrides[m]
  BY <1>1, <1>2, Merging DEF Priced
<1>4. PricingTypeOK
  BY <1>2, <1>3 DEF PricingInit, PricingTypeOK
<1>5. \A a \in Reloaders : ~Busy(a) /\ reload[a].pc = "idle"
  BY DEF PricingInit, Busy
<1>6. refresh.pc = "idle" /\ asked = FileOverrides /\ configPrices = FileOverrides
  BY DEF PricingInit
<1>7. MapInv
  BY <1>5, <1>6 DEF MapInv, Kept, LastAsked, Overlap, MergedKept, InReload
<1>8. TableInv
  BY <1>3, <1>5, <1>6 DEF TableInv, Racing, Clean, ReadKept, ChargedAsAsked, Certain
<1> QED BY <1>4, <1>7, <1>8 DEF PricingInv

\* Steps of the refresh leave the overrides and the reloads alone.
LEMMA RefreshKeepsMap ==
    ASSUME MapInv, UNCHANGED <<configPrices, reload, asked, overlapped>>
    PROVE  MapInv'
BY DEF MapInv, Kept, LastAsked, Overlap, MergedKept, InReload, Busy, Certain, Priced

LEMMA MergeFetchedInv == PricingInv /\ MergeFetched => PricingInv'
<1> SUFFICES ASSUME PricingInv, MergeFetched PROVE PricingInv'
  OBVIOUS
<1>1. PICK t \in Fetched : prices' = MergePrices(prices, t)
  BY DEF MergeFetched
<1>2. /\ refresh' = [refresh EXCEPT !.pc = "merged", !.clean = Reloading = {}]
      /\ raced' = raced \cup BeingReloaded
      /\ UNCHANGED <<configPrices, reload, asked, overlapped>>
  BY DEF MergeFetched
<1>3. refresh'.pc = "merged" /\ refresh'.clean = (Reloading = {}) /\ refresh'.table = refresh.table
  BY <1>2 DEF PricingInv, PricingTypeOK
<1>4. PricingTypeOK'
  <2>1. prices' \in PriceTable
    BY <1>1, Tables, Merging DEF PricingInv, PricingTypeOK
  <2>2. refresh' \in [pc : {"idle", "merged", "read"}, table : PriceTable, clean : BOOLEAN]
    BY <1>2 DEF PricingInv, PricingTypeOK
  <2>3. raced' \subseteq PricedModels
    BY <1>2, BeingReloadedIs DEF PricingInv, PricingTypeOK
  <2> QED BY <1>2, <2>1, <2>2, <2>3 DEF PricingInv, PricingTypeOK
<1>5. MapInv'
  BY <1>2, RefreshKeepsMap DEF PricingInv
<1>6. Racing'
  BY <1>2, BeingReloadedIs DEF Racing, InReload, Busy
<1>7. Clean'
  BY <1>2, <1>3 DEF Clean, Reloading, Busy
<1>8. ReadKept' /\ ChargedAsAsked'
  BY <1>3 DEF ReadKept, ChargedAsAsked
<1> QED BY <1>4, <1>5, <1>6, <1>7, <1>8 DEF PricingInv, TableInv

\* What the refresh reads is right for every model that it does not race for.
LEMMA ReadOverridesInv == PricingInv /\ ReadOverrides => PricingInv'
<1> SUFFICES ASSUME PricingInv, ReadOverrides PROVE PricingInv'
  OBVIOUS
<1>1. /\ refresh' = [refresh EXCEPT !.pc = "read", !.table = configPrices] /\ refresh.pc = "merged"
      /\ UNCHANGED <<prices, configPrices, reload, asked, overlapped, raced>>
  BY DEF ReadOverrides
<1>2. refresh'.pc = "read" /\ refresh'.clean = refresh.clean /\ refresh'.table = configPrices
  BY <1>1 DEF PricingInv, PricingTypeOK
<1>3. PricingTypeOK'
  BY <1>1 DEF PricingInv, PricingTypeOK
<1>4. MapInv'
  BY <1>1, RefreshKeepsMap DEF PricingInv
<1>5. Racing' /\ Clean' /\ ChargedAsAsked'
  BY <1>1, <1>2 DEF PricingInv, TableInv, Racing, Clean, ChargedAsAsked, InReload, Busy
<1>6. ASSUME NEW m \in Certain, m \notin raced \/ refresh.clean PROVE configPrices[m] = asked[m]
  <2>1. m \in PricedModels
    BY DEF Certain, Priced
  <2>2. \A a \in Reloaders : ~InReload(m, a)
    BY <1>1, <1>6, <2>1 DEF PricingInv, TableInv, Racing, Clean, InReload
  <2> QED BY <2>2 DEF PricingInv, MapInv, Kept
<1>7. ReadKept'
  BY <1>1, <1>2, <1>6 DEF ReadKept, Certain, Priced
<1> QED BY <1>3, <1>4, <1>5, <1>7 DEF PricingInv, TableInv

\* The overrides are back in the table.
LEMMA ReapplyInv == PricingInv /\ Reapply => PricingInv'
<1> SUFFICES ASSUME PricingInv, Reapply PROVE PricingInv'
  OBVIOUS
<1>1. /\ refresh' = [refresh EXCEPT !.pc = "idle", !.table = NoTable] /\ refresh.pc = "read"
      /\ prices' = MergePrices(prices, refresh.table)
      /\ raced' = IF refresh.clean THEN {} ELSE raced
      /\ UNCHANGED <<configPrices, reload, asked, overlapped>>
  BY DEF Reapply
<1>2. refresh'.pc = "idle"
  BY <1>1 DEF PricingInv, PricingTypeOK
<1>3. prices \in PriceTable /\ refresh.table \in PriceTable /\ asked \in PriceTable
  BY DEF PricingInv, PricingTypeOK
<1>4. PricingTypeOK'
  <2>1. prices' \in PriceTable
    BY <1>1, <1>3, Merging
  <2>2. refresh' \in [pc : {"idle", "merged", "read"}, table : PriceTable, clean : BOOLEAN]
    BY <1>1, Tables DEF PricingInv, PricingTypeOK
  <2>3. raced' \subseteq PricedModels
    BY <1>1 DEF PricingInv, PricingTypeOK
  <2> QED BY <1>1, <2>1, <2>2, <2>3 DEF PricingInv, PricingTypeOK
<1>5. MapInv'
  BY <1>1, RefreshKeepsMap DEF PricingInv
<1>6. Racing' /\ Clean' /\ ReadKept'
  BY <1>2 DEF Racing, Clean, ReadKept
<1>7. ASSUME NEW m \in Certain \ raced' PROVE prices'[m] = asked[m]
  <2>1. m \notin raced \/ refresh.clean
    BY <1>1
  <2>2. refresh.table[m] = asked[m]
    BY <1>1, <2>1 DEF PricingInv, TableInv, ReadKept
  <2>3. m \in PricedModels /\ asked[m] # NoPrice
    BY DEF Certain, Priced
  <2> QED BY <1>1, <1>3, <2>2, <2>3, Merging
<1>8. ChargedAsAsked'
  BY <1>1, <1>7 DEF ChargedAsAsked, Certain, Priced
<1> QED BY <1>4, <1>5, <1>6, <1>8 DEF PricingInv, TableInv

-----------------------------------------------------------------------------
\* A reload that begins alone is certain of its models; one that does not makes
\* every model that is being reloaded uncertain.
LEMMA MergeAskedInv ==
    ASSUME PricingInv, NEW a \in Reloaders, NEW t \in Asks, MergeAsked(a, t)
    PROVE  PricingInv'
<1>1. /\ reload[a].pc = "idle" /\ prices' = MergePrices(prices, t)
      /\ reload' = [reload EXCEPT ![a] = [pc |-> "merged", table |-> t, merged |-> NoTable]]
      /\ asked' = MergePrices(asked, t)
      /\ overlapped' = IF Reloading = {} THEN overlapped \ Priced(t)
                       ELSE overlapped \cup Priced(t) \cup BeingReloaded
      /\ raced' = IF refresh.pc = "idle" THEN raced \ Priced(t) ELSE raced \cup Priced(t)
      /\ refresh' = [refresh EXCEPT !.clean = FALSE]
      /\ UNCHANGED configPrices
  BY DEF MergeAsked
<1>2. t \in PriceTable /\ prices \in PriceTable /\ asked \in PriceTable /\ NoTable \in PriceTable
  BY CostPricingAssumption, Tables DEF PricingInv, PricingTypeOK
<1>3. /\ asked' \in PriceTable /\ prices' \in PriceTable
      /\ \A m \in PricedModels : /\ asked'[m] = IF t[m] # NoPrice THEN t[m] ELSE asked[m]
                                 /\ prices'[m] = IF t[m] # NoPrice THEN t[m] ELSE prices[m]
  BY <1>1, <1>2, Merging
<1>4. /\ reload'[a].pc = "merged" /\ reload'[a].table = t
      /\ \A b \in Reloaders \ {a} : reload'[b] = reload[b]
  BY <1>1 DEF PricingInv, PricingTypeOK
<1>5. refresh'.pc = refresh.pc /\ refresh'.table = refresh.table /\ ~refresh'.clean
  BY <1>1 DEF PricingInv, PricingTypeOK
<1>6. PricingTypeOK'
  <2>1. reload' \in [Reloaders -> [pc : {"idle", "merged", "copied"},
                                   table : PriceTable, merged : PriceTable]]
    BY <1>1, <1>2 DEF PricingInv, PricingTypeOK
  <2>2. overlapped' \subseteq PricedModels /\ raced' \subseteq PricedModels
    BY <1>1, BeingReloadedIs DEF PricingInv, PricingTypeOK, Priced
  <2>3. refresh' \in [pc : {"idle", "merged", "read"}, table : PriceTable, clean : BOOLEAN]
    BY <1>1 DEF PricingInv, PricingTypeOK
  <2> QED BY <1>1, <1>3, <2>1, <2>2, <2>3 DEF PricingInv, PricingTypeOK
\* The two ways to begin, model by model
<1>7. \A m \in PricedModels : t[m] = NoPrice => (m \notin overlapped' => m \notin overlapped)
  BY <1>1 DEF Priced
<1>8. \A m \in PricedModels : t[m] = NoPrice => (m \in Certain' => m \in Certain)
  BY <1>3, <1>7 DEF Certain, Priced
<1>9. (\E b \in Reloaders : Busy(b)) => \A m \in PricedModels :
         t[m] # NoPrice \/ (\E b \in Reloaders : InReload(m, b)) => m \in overlapped'
  BY <1>1, BeingReloadedIs DEF Reloading, Busy, Priced
<1>10. ~Busy(a) /\ Busy(a)' /\ \A b \in Reloaders \ {a} : Busy(b)' = Busy(b)
  BY <1>1, <1>4 DEF Busy
<1>11. \A m \in PricedModels : /\ InReload(m, a)' <=> t[m] # NoPrice
                              /\ \A b \in Reloaders \ {a} : InReload(m, b)' <=> InReload(m, b)
  BY <1>4, <1>10 DEF InReload
<1>12. Kept'
  <2> SUFFICES ASSUME NEW m \in Certain', \A b \in Reloaders : ~InReload(m, b)'
               PROVE  configPrices[m] = asked'[m]
    BY <1>1 DEF Kept
  <2>1. m \in PricedModels
    BY DEF Certain, Priced
  <2>2. t[m] = NoPrice /\ \A b \in Reloaders : ~InReload(m, b)
    BY <2>1, <1>10, <1>11 DEF InReload
  <2> QED BY <1>3, <1>8, <2>1, <2>2 DEF PricingInv, MapInv, Kept
<1>13. LastAsked'
  <2> SUFFICES ASSUME NEW m \in PricedModels, m \notin overlapped', NEW b \in Reloaders, InReload(m, b)'
               PROVE  reload'[b].table[m] = asked'[m]
    BY DEF LastAsked
  <2>1. CASE b = a
    BY <2>1, <1>3, <1>4, <1>11
  <2>2. CASE b # a
    BY <2>2, <1>9, <1>11 DEF InReload
  <2> QED BY <2>1, <2>2
<1>14. Overlap'
  <2> SUFFICES ASSUME NEW b \in Reloaders, NEW c \in Reloaders, b # c, Busy(b)', Busy(c)',
                      NEW m \in PricedModels, InReload(m, b)'
               PROVE  m \in overlapped'
    BY DEF Overlap
  <2>1. \E d \in Reloaders : Busy(d)
    BY <1>10
  <2> QED BY <2>1, <1>9, <1>11
<1>15. MergedKept'
  <2> SUFFICES ASSUME NEW b \in Reloaders, reload'[b].pc = "copied", NEW m \in Certain'
               PROVE  reload'[b].merged[m] = asked'[m]
    BY DEF MergedKept
  <2>1. b # a /\ reload'[b] = reload[b] /\ Busy(b)
    BY <1>4 DEF Busy
  <2>2. m \in PricedModels /\ m \notin overlapped'
    BY DEF Certain, Priced
  <2>3. t[m] = NoPrice
    BY <2>1, <2>2, <1>9
  <2> QED BY <2>1, <2>2, <2>3, <1>3, <1>8 DEF PricingInv, MapInv, MergedKept
<1>16. Racing'
  BY <1>1, <1>5, <1>11 DEF PricingInv, TableInv, Racing, Priced
<1>17. Clean'
  BY <1>5 DEF Clean
<1>18. ReadKept'
  <2> SUFFICES ASSUME refresh.pc = "read", NEW m \in Certain', m \notin raced'
               PROVE  refresh.table[m] = asked'[m]
    BY <1>5 DEF ReadKept
  <2>1. m \in PricedModels
    BY DEF Certain, Priced
  <2>2. t[m] = NoPrice /\ m \notin raced
    BY <1>1, <2>1 DEF Priced
  <2> QED BY <2>1, <2>2, <1>3, <1>8 DEF PricingInv, TableInv, ReadKept
<1>19. ChargedAsAsked'
  <2> SUFFICES ASSUME refresh.pc = "idle", NEW m \in Certain', m \notin raced'
               PROVE  prices'[m] = asked'[m]
    BY <1>5 DEF ChargedAsAsked
  <2>1. m \in PricedModels
    BY DEF Certain, Priced
  <2>2. CASE t[m] = NoPrice
    <3>1. m \notin raced
      BY <1>1, <2>1, <2>2 DEF Priced
    <3> QED BY <2>1, <2>2, <3>1, <1>3, <1>8 DEF PricingInv, TableInv, ChargedAsAsked
  <2>3. CASE t[m] # NoPrice
    BY <2>1, <2>3, <1>3
  <2> QED BY <2>2, <2>3
<1> QED BY <1>6, <1>12, <1>13, <1>14, <1>15, <1>16, <1>17, <1>18, <1>19
        DEF PricingInv, MapInv, TableInv

\* The copy is right for every model that is certain.
LEMMA CopyOverridesInv ==
    ASSUME PricingInv, NEW a \in Reloaders, CopyOverrides(a)
    PROVE  PricingInv'
<1>1. /\ reload[a].pc = "merged"
      /\ reload' = [reload EXCEPT ![a].pc = "copied",
                                  ![a].merged = MergePrices(configPrices, reload[a].table)]
      /\ UNCHANGED <<prices, configPrices, refresh, asked, overlapped, raced>>
  BY DEF CopyOverrides
<1>2. configPrices \in PriceTable /\ reload[a].table \in PriceTable
  BY DEF PricingInv, PricingTypeOK
<1>3. /\ reload'[a].pc = "copied" /\ reload'[a].table = reload[a].table
      /\ reload'[a].merged = MergePrices(configPrices, reload[a].table)
      /\ \A b \in Reloaders \ {a} : reload'[b] = reload[b]
  BY <1>1 DEF PricingInv, PricingTypeOK
<1>4. PricingTypeOK'
  <2>1. MergePrices(configPrices, reload[a].table) \in PriceTable
    BY <1>2, Merging
  <2> QED BY <1>1, <2>1 DEF PricingInv, PricingTypeOK
<1>5. \A b \in Reloaders : Busy(b)' = Busy(b) /\ reload'[b].table = reload[b].table
  BY <1>1, <1>3 DEF Busy
<1>6. (Kept /\ LastAsked /\ Overlap)'
  <2>1. \A m \in PricedModels, b \in Reloaders : InReload(m, b)' <=> InReload(m, b)
    BY <1>5 DEF InReload
  <2>2. Certain' = Certain /\ Certain \subseteq PricedModels
    BY <1>1 DEF Certain, Priced
  <2>3. Kept'
    BY <1>1, <2>1, <2>2 DEF PricingInv, MapInv, Kept
  <2>4. LastAsked'
    BY <1>1, <1>5, <2>1 DEF PricingInv, MapInv, LastAsked
  <2>5. Overlap'
    BY <1>1, <1>5, <2>1 DEF PricingInv, MapInv, Overlap
  <2> QED BY <2>3, <2>4, <2>5
<1>7. ASSUME NEW m \in Certain PROVE MergePrices(configPrices, reload[a].table)[m] = asked[m]
  <2>1. m \in PricedModels /\ m \notin overlapped /\ Busy(a)
    BY <1>1 DEF Certain, Priced, Busy
  <2>2. CASE reload[a].table[m] # NoPrice
    BY <2>1, <2>2, <1>2, Merging DEF PricingInv, MapInv, LastAsked, InReload
  <2>3. CASE reload[a].table[m] = NoPrice
    <3>1. \A b \in Reloaders : ~InReload(m, b)
      BY <2>1, <2>3 DEF PricingInv, MapInv, Overlap, InReload
    <3> QED BY <2>1, <2>3, <3>1, <1>2, Merging DEF PricingInv, MapInv, Kept
  <2> QED BY <2>2, <2>3
<1>8. MergedKept'
  <2> SUFFICES ASSUME NEW b \in Reloaders, reload'[b].pc = "copied", NEW m \in Certain
               PROVE  reload'[b].merged[m] = asked[m]
    BY <1>1 DEF MergedKept, Certain, Priced
  <2>1. CASE b = a
    BY <2>1, <1>3, <1>7
  <2>2. CASE b # a
    BY <2>2, <1>3 DEF PricingInv, MapInv, MergedKept
  <2> QED BY <2>1, <2>2
<1>9. TableInv'
  BY <1>1, <1>5 DEF PricingInv, TableInv, Racing, Clean, ReadKept, ChargedAsAsked, InReload, Certain, Priced
<1> QED BY <1>4, <1>6, <1>8, <1>9 DEF PricingInv, MapInv

LEMMA InstallOverridesInv ==
    ASSUME PricingInv, NEW a \in Reloaders, InstallOverrides(a)
    PROVE  PricingInv'
<1>1. /\ reload[a].pc = "copied" /\ configPrices' = reload[a].merged
      /\ reload' = [reload EXCEPT ![a] = [pc |-> "idle", table |-> NoTable, merged |-> NoTable]]
      /\ UNCHANGED <<prices, refresh, asked, overlapped, raced>>
  BY DEF InstallOverrides
<1>2. reload'[a].pc = "idle" /\ \A b \in Reloaders \ {a} : reload'[b] = reload[b]
  BY <1>1 DEF PricingInv, PricingTypeOK
<1>3. PricingTypeOK'
  BY <1>1, Tables DEF PricingInv, PricingTypeOK
<1>4. ~Busy(a)' /\ \A b \in Reloaders \ {a} : Busy(b)' = Busy(b)
  BY <1>2 DEF Busy
<1>5. Kept'
  BY <1>1 DEF PricingInv, MapInv, Kept, MergedKept, Certain, Priced
<1>6. (LastAsked /\ Overlap /\ MergedKept)'
  BY <1>1, <1>2, <1>4 DEF PricingInv, MapInv, LastAsked, Overlap, MergedKept, InReload, Certain, Priced
<1>7. TableInv'
  BY <1>1, <1>2, <1>4 DEF PricingInv, TableInv, Racing, Clean, ReadKept, ChargedAsAsked, InReload, Certain, Priced
<1> QED BY <1>3, <1>5, <1>6, <1>7 DEF PricingInv, MapInv

LEMMA PricingNextInv == PricingInv /\ [PricingNext]_pricingVars => PricingInv'
<1>1. PricingInv /\ UNCHANGED pricingVars => PricingInv'
  BY DEF pricingVars, PricingInv, PricingTypeOK, MapInv, Kept, LastAsked, Overlap, MergedKept,
         TableInv, Racing, Clean, ReadKept, ChargedAsAsked, InReload, Busy, Certain, Priced
<1> QED BY <1>1, MergeFetchedInv, ReadOverridesInv, ReapplyInv, MergeAskedInv, CopyOverridesInv,
           InstallOverridesInv DEF PricingNext

\* The invariant of the specification.
LEMMA PricingInvariant == PricingSpec => []PricingInv
BY PricingInitInv, PricingNextInv, PTL DEF PricingSpec

-----------------------------------------------------------------------------
(* Tables hold prices or nothing, whatever catalogues and admins send      *)
(* (cost_tracker.go:231-237).                                              *)
THEOREM PricingTypeCorrect == PricingSpec => []PricingTypeOK
<1>1. PricingInv => PricingTypeOK
  BY DEF PricingInv
<1> QED BY <1>1, PricingInvariant, PTL

(* What an admin asked for last is among the overrides and, outside of a   *)
(* refresh, in the table that requests are charged by, but for models      *)
(* whose reload overlapped another one or a refresh (cost_tracker.go       *)
(* 76-148).                                                                *)
THEOREM AskedPrevails == PricingSpec => []OverridesPrevail
<1>1. PricingInv => OverridesPrevail
  <2> SUFFICES ASSUME PricingInv PROVE OverridesPrevail
    OBVIOUS
  <2>1. OverrideKept
    BY BeingReloadedIs DEF PricingInv, MapInv, Kept, Certain, OverrideKept, Priced
  <2>2. OverrideWins
    BY DEF PricingInv, TableInv, ChargedAsAsked, Certain, OverrideWins
  <2> QED BY <2>1, <2>2 DEF OverridesPrevail
<1> QED BY <1>1, PricingInvariant, PTL

=============================================================================
