-------------------------- MODULE MCRuntimeConfig ---------------------------
(* What administrators change while the gateway runs: settings, managed    *)
(* keys, prices and alert rules, and the statistics they look at.  The     *)
(* components do not share state; part says which of them moves.           *)
EXTENDS RuntimeConfig, ManagedKeys, CostPricing, Alerting, Statistics, TLC
VARIABLE part

E(form, limit) == [form |-> form, limit |-> limit]
\* A value in the documented spelling, one that only the overlay understands and
\* that switches the plugin's limit off, one that nothing understands.
Several == {E("snake", 2), E("go", 3), E("broken", 0)}
OneEach == [k \in Keys |-> 1]
Interchangeable == Permutations(Admins)

\* Two keys share a prefix.
Prefixed == [k \in ManagedKey |-> IF k = "k3" THEN "p2" ELSE "p1"]
\* A client may have a token of its own.
WithAndWithout == {Nobody, "token"}
Provider(name, url, key, glob) == [name |-> name, url |-> url, key |-> key, glob |-> glob]
\* Two providers share a name, two share a model, one model is nobody's.
ThreeProviders == <<Provider("a", "url a", "key a", {"m1"}),
                    Provider("b", "url b", "key b", {"m1", "m2"}),
                    Provider("a", "url c", "key c", {"m3"})>>

Table(first, second) == [m \in PricedModels |-> IF m = "m1" THEN first ELSE second]
\* Providers x and y both price m1, only y prices m2.
OneCatalogue ==
    {[p \in {"x", "y"} |-> IF p = "x" THEN Table("f", NoPrice) ELSE Table("f", "g")]}
OfTheFile == Table(NoPrice, "o2")
Tables == {Table("o1", NoPrice), Table(NoPrice, "o2"), Table("o2", "o1")}

R(name, duration) == [name |-> name, duration |-> duration]
\* Two rules, two rules of one name with different durations, none.
ThreeSets == {[rules |-> <<R("r", 2), R("q", 1)>>, notifiers |-> {"slack"}],
              [rules |-> <<R("r", 1), R("r", 0)>>, notifiers |-> {"slack", "hook"}],
              [rules |-> <<>>, notifiers |-> {}]}
NoAlerts == [rules |-> <<>>, notifiers |-> {}]

A(session, model, tokens, cached, duration, failed) ==
    [session |-> session, model |-> model, tokens |-> tokens, cached |-> cached,
     duration |-> duration, failed |-> failed]
\* Two of one session, one of which costs a fraction; one without a session.
ThreeAnswers == {A("s1", "m1", 1, 1, 2, FALSE), A("s1", "m2", 2, 0, 3, FALSE), A("", "m1", 1, 0, 1, TRUE)}
EastAndWest == {-1, 1}

Parts == {"settings", "keys", "prices", "alerts", "statistics"}

\* What does not move starts in one state only.  Of the kinds of server that statistics
\* are kept on, three: Redis east of UTC, memory west of it, and no cost tracker there.
ConfigInit ==
    /\ part \in Parts
    /\ Init /\ KeysInit
    /\ IF part = "prices" THEN TRUE ELSE prices = FileOverrides
    /\ IF part = "alerts" THEN TRUE ELSE alerts = NoAlerts
    /\ IF part = "statistics" THEN TRUE ELSE zone = 1 /\ price = 1 /\ tracking = TRUE
    /\ PricingInit /\ AlertInit /\ StatisticsInit
    /\ durable = (zone = 1) /\ (tracking \/ (~durable /\ price = 1))

ConfigNext ==
    \/ part = "settings" /\ Next /\ UNCHANGED <<part, keysVars, pricingVars, alertVars, statisticsVars>>
    \/ part = "keys" /\ KeysNext /\ UNCHANGED <<part, vars, pricingVars, alertVars, statisticsVars>>
    \/ part = "prices" /\ PricingNext /\ UNCHANGED <<part, vars, keysVars, alertVars, statisticsVars>>
    \/ part = "alerts" /\ AlertNext /\ UNCHANGED <<part, vars, keysVars, pricingVars, statisticsVars>>
    \/ part = "statistics" /\ StatisticsNext /\ UNCHANGED <<part, vars, keysVars, pricingVars, alertVars>>

ConfigSpec ==
    ConfigInit
    /\ [][ConfigNext]_<<part, vars, keysVars, pricingVars, alertVars, statisticsVars>>
=============================================================================
