------------------------------ MODULE MCSpend -------------------------------
(* A small instance of Spend.  Costs are halves of a microdollar: 1 is a   *)
(* response so small that its charge is cut to zero, 3 and 5 lose a        *)
(* fraction.  Three charges of two reach the bounds on the overshoot.      *)
EXTENDS Spend, TLC
Interchangeable == Permutations(Workers) \cup Permutations(Sessions)
Limited == [session |-> 1, day |-> 2]
OfTheFile == {Limited}
Raised == [session |-> 2, day |-> 1]
Raising == {Raised}

\* Two states are one if they differ only in what nothing reads again: what an idle or
\* blocked handler serves, a session that is charged, a date that is formatted anew before
\* it is used; limits when no check is to come, and the day when no date is; after the last
\* restart, which tracker shows a cost, and where a handler runs that has passed its checks.
Checking(w) == pc[w] \in {"sessionCheck", "dayGate", "dayCheck"}
Undated == {"sessionCheck", "dayGate", "dayCheck", "upstream", "track"}
If(condition, value) == IF condition THEN value ELSE ""
Handling(w) ==
    <<pc[w], cost[w],
      If(Checking(w) \/ (pc[w] # "idle" /\ restarts < MaxRestarts), gateway[w]),
      If(pc[w] \notin {"idle", "blocked", "chargeDay", "chargeTotal"}, session[w]),
      If(pc[w] \in {"dayCheck", "chargeSession", "chargeDay"}, today[w])>>
Trackers == IF restarts < MaxRestarts THEN tracked ELSE [s \in Sessions |-> Shown(s)]
Seen ==
    <<[w \in Workers |-> Handling(w)], sessionSpent, dailySpent, totalSpent, spent, Trackers,
      If(served < MaxRequests \/ \E w \in Workers : Checking(w), limits),
      If(served < MaxRequests \/ \E w \in Workers : pc[w] \in Undated, day),
      served, restarts, failed>>
=============================================================================
