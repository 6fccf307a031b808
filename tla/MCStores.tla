------------------------------ MODULE MCStores ------------------------------
(* What the gateway keeps and shows: counters, live events, stored         *)
(* requests and the schema they lie in.  The components do not share       *)
(* state; part says which of them moves.                                   *)
EXTENDS MemoryStore, SSEBroker, RequestStore, Schema
CONSTANTS Prod, ProdEU
VARIABLE part

MCDeltas == {0, 1}

Within == [s \in Sessions |-> IF s = Prod THEN {Prod, ProdEU} ELSE {s}]
R(s, b, g) == [session |-> s, big |-> b, gzip |-> g]
Three == {R(Prod, FALSE, FALSE), R(Prod, TRUE, FALSE), R(ProdEU, FALSE, TRUE)}

Parts == {"counters", "events", "requests", "schema"}

\* What does not move starts in one state only.
StoresInit ==
    /\ part \in Parts
    /\ Init /\ BrokerInit
    /\ IF part = "requests" THEN TRUE ELSE engine = "sqlite" /\ compressing = FALSE /\ wanted = Prod
    /\ IF part = "schema" THEN TRUE ELSE database = "sqlite"
    /\ RequestStoreInit /\ SchemaInit

StoresNext ==
    \/ part = "counters" /\ Next /\ UNCHANGED <<part, brokerVars, tableVars, schemaVars>>
    \/ part = "events" /\ BrokerNext /\ UNCHANGED <<part, vars, tableVars, schemaVars>>
    \/ part = "requests" /\ RequestStoreNext /\ UNCHANGED <<part, vars, brokerVars, schemaVars>>
    \/ part = "schema" /\ SchemaNext /\ UNCHANGED <<part, vars, brokerVars, tableVars>>

allVars == <<part, vars, brokerVars, tableVars, schemaVars>>

StoresSpec ==
    /\ StoresInit /\ [][StoresNext]_allVars
    /\ BrokerFairness /\ RequestStoreFairness
    /\ \A i \in Instances : WF_schemaVars(part = "schema" /\ (Open(i) \/ OpenStep(i)))
=============================================================================
