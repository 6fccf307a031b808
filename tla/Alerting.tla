------------------------------ MODULE Alerting ------------------------------
(***************************************************************************)
(* The alert evaluator (internal/alerting/alerting.go).  One goroutine     *)
(* works through rounds: it copies rules, notifiers and the times of the   *)
(* last firings under a read lock, and then checks, records and sends      *)
(* without it, while UpdateConfig may replace rules and notifiers.  main   *)
(* does not start it yet (main.go:27).                                     *)
(***************************************************************************)
EXTENDS Integers, Sequences

CONSTANTS
    AlertConfigs,   \* [rules, notifiers], rules a sequence of [name, duration]
    RuleNames, Notifiers,
    MaxClock        \* bound on the clock

Rule == [name : RuleNames, duration : Nat]

ASSUME AlertingAssumption ==
    /\ AlertConfigs \subseteq [rules : Seq(Rule), notifiers : SUBSET Notifiers]
    /\ MaxClock \in Nat

VARIABLES
    alerts,     \* Evaluator.rules and Evaluator.notifiers
    lastFired,  \* Evaluator.lastFired, 0 for the zero time
    clock,
    round,      \* the round under way: its rules to come, copies, open sends
    lastSent,   \* history: the time of the last alert of each name
    firedNow,   \* history: names that have fired in this round
    given,      \* history: what UpdateConfig was called with last
    outdated    \* history: UpdateConfig ran since the round began

alertVars == <<alerts, lastFired, clock, round, lastSent, firedNow, given, outdated>>

NoRound == [on |-> FALSE, todo |-> <<>>, seen |-> [n \in RuleNames |-> 0],
            notifiers |-> {}, sending |-> {}]

AlertInit ==
    /\ alerts \in AlertConfigs
    /\ lastFired = [n \in RuleNames |-> 0]
    /\ clock = 1
    /\ round = NoRound
    /\ lastSent = [n \in RuleNames |-> 0]
    /\ firedNow = {} /\ given = alerts /\ outdated = FALSE

\* Mutant: the notifiers are appended to those of before.
UpdateAppending ==
    /\ \E config \in AlertConfigs :
         /\ alerts' = [config EXCEPT !.notifiers = @ \cup alerts.notifiers]
         /\ given' = config
    /\ outdated' = TRUE
    /\ UNCHANGED <<lastFired, clock, round, lastSent, firedNow>>

\* Rules and notifiers are replaced; the times of the last firings stay.
UpdateAlerts ==
    /\ \E config \in AlertConfigs : alerts' = config /\ given' = config
    /\ outdated' = TRUE
    /\ UNCHANGED <<lastFired, clock, round, lastSent, firedNow>>

\* evaluateAll, up to RUnlock
StartRound ==
    /\ ~round.on
    /\ round' = [on |-> TRUE, todo |-> alerts.rules, seen |-> lastFired,
                 notifiers |-> alerts.notifiers, sending |-> {}]
    /\ firedNow' = {} /\ outdated' = FALSE
    /\ UNCHANGED <<alerts, lastFired, clock, lastSent, given>>

\* The loop goes on to its next rule: an error, a value that is not above the
\* threshold, or a rule that fired within its duration when the round began.
Waiting == round.on /\ round.todo # <<>> /\ round.sending = {}

SkipRule ==
    /\ Waiting
    /\ round' = [round EXCEPT !.todo = Tail(@)]
    /\ UNCHANGED <<alerts, lastFired, clock, lastSent, firedNow, given, outdated>>

\* Mutant: the last firing is compared the wrong way round.
CoolingReversed(r) ==
    round.seen[r.name] # 0 /\ r.duration > 0 /\ clock - round.seen[r.name] > r.duration

Cooling(r) ==
    round.seen[r.name] # 0 /\ r.duration > 0 /\ clock - round.seen[r.name] < r.duration

\* The time is recorded before anything is sent, whether or not a send succeeds.
Fire ==
    /\ Waiting
    /\ LET r == Head(round.todo) IN
         /\ ~Cooling(r)
         /\ lastFired' = [lastFired EXCEPT ![r.name] = clock]
         /\ lastSent' = [lastSent EXCEPT ![r.name] = clock]
         /\ firedNow' = firedNow \cup {r.name}
    /\ round' = [round EXCEPT !.todo = Tail(@), !.sending = round.notifiers]
    /\ UNCHANGED <<alerts, clock, given, outdated>>

\* A send has returned, with an error or without; it has no timeout.
Sent(n) ==
    /\ n \in round.sending
    /\ round' = [round EXCEPT !.sending = @ \ {n}]
    /\ UNCHANGED <<alerts, lastFired, clock, lastSent, firedNow, given, outdated>>

EndRound ==
    /\ round.on /\ round.todo = <<>> /\ round.sending = {}
    /\ round' = NoRound
    /\ UNCHANGED <<alerts, lastFired, clock, lastSent, firedNow, given, outdated>>

TimePasses ==
    /\ clock < MaxClock
    /\ clock' = clock + 1
    /\ UNCHANGED <<alerts, lastFired, round, lastSent, firedNow, given, outdated>>

AlertNext ==
    \/ UpdateAlerts \/ StartRound \/ SkipRule \/ Fire \/ EndRound \/ TimePasses
    \/ \E n \in Notifiers : Sent(n)

AlertSpec == AlertInit /\ [][AlertNext]_alertVars

-----------------------------------------------------------------------------
(* Dedup (alerting.go:166-173): a name that fires again, in a later round, *)
(* does so no sooner than the duration of its rule, though the time it is  *)
(* compared with was copied before the round's sends, and though rules     *)
(* with other durations may have taken the name over meanwhile.            *)
CooldownKept ==
    [][\A n \in RuleNames :
         lastSent'[n] # lastSent[n] /\ lastSent[n] # 0 /\ n \notin firedNow =>
             clock - lastSent[n] >= Head(round.todo).duration]_alertVars

(* UpdateConfig "replaces the current rule set": a rule that is gone, and  *)
(* a notifier that is gone, are used by the round under way and no later.  *)
NothingObsolete ==
    ~outdated /\ round.on =>
        /\ round.sending \subseteq given.notifiers
        /\ \E k \in 0 .. Len(given.rules) :
             round.todo = SubSeq(given.rules, k + 1, Len(given.rules))

(* Rounds of the evaluator beside UpdateConfig: neither too early nor by a *)
(* rule that is gone.                                                      *)
AlertsInOrder == []NothingObsolete /\ CooldownKept
=============================================================================
