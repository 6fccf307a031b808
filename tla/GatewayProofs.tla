---------------------------- MODULE GatewayProofs ---------------------------
(* For any finite set of requests, any status codes, and with or without   *)
(* the router: the WaitGroup counts the requests in flight and the         *)
(* rejected keys, a drain that completes in time is complete, and what is  *)
(* published has been written.                                             *)
EXTENDS Gateway, FiniteSetTheorems, TLAPS

(* The inductive invariant: types, the exact value of the counter, which   *)
(* handlers can still run in each phase of the drain, and which requests   *)
(* have a status and a row.                                                *)
NoRejects == RouterMode = FALSE => Within({"rejected"}) = {}

Drained ==
    /\ drain # "idle" => server # "serving"
    /\ drain \in {"waiting", "completed"} /\ ~expired => Within(Handling) = {}
    /\ drain = "completed" /\ ~expired => Within(Reporting) = {}

Written ==
    \A r \in Requests :
        /\ pc[r] \in {"respond"} \cup Reporting => status[r] # 0
        /\ pc[r] \in {"record", "publish"} \/ r \in published
             => stored[r] # 0 \/ r \in lost

IInv == TypeOK /\ OnlyRejectsLeak /\ NoRejects /\ Drained /\ Written

-----------------------------------------------------------------------------
(* The requests at given places are finitely many.                         *)
LEMMA WithinFinite ==
    ASSUME NEW S
    PROVE  IsFiniteSet(Within(S)) /\ Cardinality(Within(S)) \in Nat
<1>1. IsFiniteSet(Requests)
  BY GatewayAssumption
<1>2. Within(S) \in SUBSET Requests
  BY DEF Within
<1> QED
  BY <1>1, <1>2, FS_Subset, FS_CardinalityType

(* wg.Add: the request was not counted before.                             *)
LEMMA Entering ==
    ASSUME TypeOK, OnlyRejectsLeak, NEW r \in Requests, NEW to,
           pc[r] \notin Uncleared, to \in Uncleared,
           pc' = [pc EXCEPT ![r] = to], wg' = wg + 1
    PROVE  OnlyRejectsLeak' /\ wg' \in Nat
<1>1. Within(Uncleared)' = Within(Uncleared) \cup {r}
  BY DEF Within, TypeOK
<1>2. r \notin Within(Uncleared)
  BY DEF Within
<1>3. Cardinality(Within(Uncleared) \cup {r}) = Cardinality(Within(Uncleared)) + 1
  BY <1>2, WithinFinite, FS_AddElement
<1>4. Cardinality(Within(Uncleared)') = Cardinality(Within(Uncleared) \cup {r})
  BY <1>1
<1> QED
  BY <1>3, <1>4, WithinFinite DEF OnlyRejectsLeak

(* wg.Done: the request was counted before, so the counter was positive.   *)
LEMMA Leaving ==
    ASSUME TypeOK, OnlyRejectsLeak, NEW r \in Requests, NEW to,
           pc[r] \in Uncleared, to \notin Uncleared,
           pc' = [pc EXCEPT ![r] = to], wg' = wg - 1
    PROVE  OnlyRejectsLeak' /\ wg' \in Nat
<1>1. Within(Uncleared)' = Within(Uncleared) \ {r}
  BY DEF Within, TypeOK
<1>2. r \in Within(Uncleared)
  BY DEF Within
<1>3. Cardinality(Within(Uncleared) \ {r}) = Cardinality(Within(Uncleared)) - 1
  BY <1>2, WithinFinite, FS_RemoveElement
<1>4. IsFiniteSet(Within(Uncleared) \ {r})
  BY WithinFinite, FS_RemoveElement
<1>5. Cardinality(Within(Uncleared) \ {r}) \in Nat
  BY <1>4, FS_CardinalityType
<1>6. Cardinality(Within(Uncleared)') = Cardinality(Within(Uncleared) \ {r})
  BY <1>1
<1> QED
  BY <1>3, <1>5, <1>6 DEF OnlyRejectsLeak

(* A step inside, or outside, the counted part.                            *)
LEMMA Staying ==
    ASSUME TypeOK, OnlyRejectsLeak, NEW r \in Requests, NEW to,
           pc[r] \in Uncleared <=> to \in Uncleared,
           pc' = [pc EXCEPT ![r] = to], wg' = wg
    PROVE  OnlyRejectsLeak' /\ wg' \in Nat
<1>1. Within(Uncleared)' = Within(Uncleared)
  BY DEF Within, TypeOK
<1>2. Cardinality(Within(Uncleared)') = Cardinality(Within(Uncleared))
  BY <1>1
<1> QED
  BY <1>2 DEF OnlyRejectsLeak, TypeOK

(* Every step of a request keeps the counter exact.                        *)
LEMMA RequestCounted ==
    ASSUME IInv, NEW r \in Requests, Accept(r) \/ BadBody(r) \/ Admit(r) \/ Serve(r)
    PROVE  OnlyRejectsLeak' /\ wg' \in Nat
<1> USE DEF IInv, Goto, Uncleared, InFlight, Handling, Reporting
<1>1. CASE Accept(r)
  BY <1>1, Staying DEF Accept
<1>2. CASE BadBody(r)
  BY <1>2, Staying DEF BadBody
<1>3. CASE Admit(r)
  BY <1>3, Entering DEF Admit
<1>4. ASSUME NEW code \in Verdicts, Refuse(r, code) PROVE OnlyRejectsLeak' /\ wg' \in Nat
  BY <1>4, Leaving DEF Refuse
<1>5. CASE PassHooks(r)
  BY <1>5, Staying DEF PassHooks
<1>6. CASE RejectKey(r)
  BY <1>6, Staying DEF RejectKey
<1>7. CASE Route(r)
  BY <1>7, Staying DEF Route
<1>8. CASE UpstreamFails(r)
  BY <1>8, Leaving DEF UpstreamFails
<1>9. ASSUME NEW code \in Statuses, UpstreamAnswers(r, code) PROVE OnlyRejectsLeak' /\ wg' \in Nat
  BY <1>9, Staying DEF UpstreamAnswers
<1>10. CASE Respond(r)
  BY <1>10, Staying DEF Respond
<1>11. CASE Save(r)
  BY <1>11, Staying DEF Save
<1>12. CASE Record(r)
  BY <1>12, Staying DEF Record
<1>13. CASE Publish(r)
  BY <1>13, Leaving DEF Publish
<1> QED
  BY <1>1, <1>2, <1>3, <1>4, <1>5, <1>6, <1>7, <1>8, <1>9, <1>10, <1>11, <1>12, <1>13
     DEF Serve

(* Every step of a request keeps the types.                                *)
LEMMA RequestTyped ==
    ASSUME IInv, NEW r \in Requests, wg' \in Nat,
           Accept(r) \/ BadBody(r) \/ Admit(r) \/ Serve(r)
    PROVE  TypeOK'
<1> USE GatewayAssumption DEF IInv, TypeOK, Codes, Goto, Answer, Handling, Reporting, sinks, shutdown
<1>1. CASE Accept(r)
  BY <1>1 DEF Accept
<1>2. CASE BadBody(r)
  BY <1>2 DEF BadBody
<1>3. CASE Admit(r)
  BY <1>3 DEF Admit
<1>4. ASSUME NEW code \in Verdicts, Refuse(r, code) PROVE TypeOK'
  BY <1>4 DEF Refuse
<1>5. CASE PassHooks(r)
  BY <1>5 DEF PassHooks
<1>6. CASE RejectKey(r)
  BY <1>6 DEF RejectKey
<1>7. CASE Route(r)
  BY <1>7 DEF Route
<1>8. CASE UpstreamFails(r)
  BY <1>8 DEF UpstreamFails
<1>9. ASSUME NEW code \in Statuses, UpstreamAnswers(r, code) PROVE TypeOK'
  BY <1>9 DEF UpstreamAnswers
<1>10. CASE Respond(r)
  BY <1>10 DEF Respond
<1>11. CASE Save(r)
  BY <1>11 DEF Save
<1>12. CASE Record(r)
  BY <1>12 DEF Record
<1>13. CASE Publish(r)
  BY <1>13 DEF Publish
<1> QED
  BY <1>1, <1>2, <1>3, <1>4, <1>5, <1>6, <1>7,
     <1>8, <1>9, <1>10, <1>11, <1>12, <1>13 DEF Serve

(* A request has its status before its goroutine starts, and is counted    *)
(* and published only after SaveRequest.                                   *)
LEMMA RequestWritten ==
    ASSUME IInv, NEW r \in Requests,
           Accept(r) \/ BadBody(r) \/ Admit(r) \/ Serve(r)
    PROVE  Written'
<1> USE GatewayAssumption DEF IInv, TypeOK, Written, Goto, Handling, Reporting, sinks, shutdown
<1>1. CASE Accept(r)
  BY <1>1 DEF Accept
<1>2. CASE BadBody(r)
  BY <1>2 DEF BadBody
<1>3. CASE Admit(r)
  BY <1>3 DEF Admit
<1>4. ASSUME NEW code \in Verdicts, Refuse(r, code) PROVE Written'
  BY <1>4 DEF Refuse
<1>5. CASE PassHooks(r)
  BY <1>5 DEF PassHooks
<1>6. CASE RejectKey(r)
  BY <1>6 DEF RejectKey
<1>7. CASE Route(r)
  BY <1>7 DEF Route
<1>8. CASE UpstreamFails(r)
  BY <1>8 DEF UpstreamFails
<1>9. ASSUME NEW code \in Statuses, UpstreamAnswers(r, code) PROVE Written'
  BY <1>9 DEF UpstreamAnswers
<1>10. CASE Respond(r)
  BY <1>10 DEF Respond
<1>11. CASE Save(r)
  BY <1>11 DEF Save
<1>12. CASE Record(r)
  BY <1>12 DEF Record
<1>13. CASE Publish(r)
  BY <1>13 DEF Publish
<1> QED
  BY <1>1, <1>2, <1>3, <1>4, <1>5, <1>6, <1>7,
     <1>8, <1>9, <1>10, <1>11, <1>12, <1>13 DEF Serve

(* Once the listener is closed no handler starts, and no goroutine without *)
(* a handler.                                                              *)
LEMMA RequestDrained ==
    ASSUME IInv, NEW r \in Requests,
           Accept(r) \/ BadBody(r) \/ Admit(r) \/ Serve(r)
    PROVE  Drained'
<1> USE DEF IInv, TypeOK, Drained, Within, Goto, Handling, Reporting, sinks, shutdown
<1>1. CASE Accept(r)
  BY <1>1 DEF Accept
<1>2. CASE BadBody(r)
  BY <1>2 DEF BadBody
<1>3. CASE Admit(r)
  BY <1>3 DEF Admit
<1>4. ASSUME NEW code \in Verdicts, Refuse(r, code) PROVE Drained'
  BY <1>4 DEF Refuse
<1>5. CASE PassHooks(r)
  BY <1>5 DEF PassHooks
<1>6. CASE RejectKey(r)
  BY <1>6 DEF RejectKey
<1>7. CASE Route(r)
  BY <1>7 DEF Route
<1>8. CASE UpstreamFails(r)
  BY <1>8 DEF UpstreamFails
<1>9. ASSUME NEW code \in Statuses, UpstreamAnswers(r, code) PROVE Drained'
  BY <1>9 DEF UpstreamAnswers
<1>10. CASE Respond(r)
  BY <1>10 DEF Respond
<1>11. CASE Save(r)
  BY <1>11 DEF Save
<1>12. CASE Record(r)
  BY <1>12 DEF Record
<1>13. CASE Publish(r)
  BY <1>13 DEF Publish
<1> QED
  BY <1>1, <1>2, <1>3, <1>4, <1>5, <1>6, <1>7,
     <1>8, <1>9, <1>10, <1>11, <1>12, <1>13 DEF Serve

(* Without the router no request is rejected for its key.                  *)
LEMMA RequestNoRejects ==
    ASSUME IInv, NEW r \in Requests,
           Accept(r) \/ BadBody(r) \/ Admit(r) \/ Serve(r)
    PROVE  NoRejects'
<1> USE DEF IInv, TypeOK, NoRejects, Within, Goto, Handling, Reporting, sinks, shutdown
<1>1. CASE Accept(r)
  BY <1>1 DEF Accept
<1>2. CASE BadBody(r)
  BY <1>2 DEF BadBody
<1>3. CASE Admit(r)
  BY <1>3 DEF Admit
<1>4. ASSUME NEW code \in Verdicts, Refuse(r, code) PROVE NoRejects'
  BY <1>4 DEF Refuse
<1>5. CASE PassHooks(r)
  BY <1>5 DEF PassHooks
<1>6. CASE RejectKey(r)
  BY <1>6 DEF RejectKey
<1>7. CASE Route(r)
  BY <1>7 DEF Route
<1>8. CASE UpstreamFails(r)
  BY <1>8 DEF UpstreamFails
<1>9. ASSUME NEW code \in Statuses, UpstreamAnswers(r, code) PROVE NoRejects'
  BY <1>9 DEF UpstreamAnswers
<1>10. CASE Respond(r)
  BY <1>10 DEF Respond
<1>11. CASE Save(r)
  BY <1>11 DEF Save
<1>12. CASE Record(r)
  BY <1>12 DEF Record
<1>13. CASE Publish(r)
  BY <1>13 DEF Publish
<1> QED
  BY <1>1, <1>2, <1>3, <1>4, <1>5, <1>6, <1>7,
     <1>8, <1>9, <1>10, <1>11, <1>12, <1>13 DEF Serve

(* The shutdown only moves its own variables; it leaves the waiting phase  *)
(* completed only when the counter, and so the set of requests, is empty.  *)
LEMMA ShutdownStep ==
    ASSUME IInv, Signal \/ Drain \/ CloseStore \/ Exit
    PROVE  IInv'
<1>1. pc' = pc /\ wg' = wg /\ status' = status
      /\ stored' = stored /\ lost' = lost /\ published' = published
  BY DEF Signal, Drain, Expire, ShutdownReturns, WaitReturns, CloseStore, Exit, request, sinks
<1>2. TypeOK'
  BY DEF IInv, TypeOK, Signal, Drain, Expire, ShutdownReturns, WaitReturns, CloseStore, Exit,
         request, sinks
<1>3. \A S : Within(S)' = Within(S)
  BY <1>1 DEF Within
<1>4. OnlyRejectsLeak' /\ NoRejects'
  BY <1>1, <1>3 DEF IInv, OnlyRejectsLeak, NoRejects
<1>5. Written'
  BY <1>1 DEF IInv, Written
<1>6. Drained'
  <2>1. CASE Signal
    BY <2>1, <1>3 DEF IInv, TypeOK, Drained, Signal
  <2>2. CASE Expire
    BY <2>2, <1>3 DEF IInv, TypeOK, Drained, Expire
  <2>3. CASE ShutdownReturns
    <3>1. ~expired => Within(Handling) = {}
      BY <2>3 DEF ShutdownReturns, Within
    <3> QED
      BY <2>3, <3>1, <1>3 DEF IInv, TypeOK, Drained, ShutdownReturns
  <2>4. CASE WaitReturns
    <3>1. wg = 0 => Within(Reporting) = {}
      <4>1. wg = 0 => Within(Uncleared) = {}
        BY WithinFinite, FS_EmptySet DEF IInv, OnlyRejectsLeak
      <4>2. Within(Reporting) \subseteq Within(Uncleared)
        BY DEF Within, Uncleared, InFlight
      <4> QED
        BY <4>1, <4>2
    <3> QED
      BY <2>4, <3>1, <1>3 DEF IInv, TypeOK, Drained, WaitReturns
  <2>5. CASE CloseStore
    BY <2>5, <1>3 DEF IInv, TypeOK, Drained, CloseStore
  <2>6. CASE Exit
    BY <2>6, <1>3 DEF IInv, TypeOK, Drained, Exit
  <2> QED
    BY <2>1, <2>2, <2>3, <2>4, <2>5, <2>6 DEF Drain
<1> QED
  BY <1>2, <1>4, <1>5, <1>6 DEF IInv

-----------------------------------------------------------------------------
(* Initially nothing is in flight.                                         *)
LEMMA Initially == Init => IInv
<1> SUFFICES ASSUME Init PROVE IInv
  OBVIOUS
<1>1. TypeOK
  <2>1. pc \in [Requests -> {"idle", "done", "rejected"} \cup Handling \cup Reporting]
    BY DEF Init
  <2>2. 0 \in Codes
    BY DEF Codes
  <2>3. answer \in [Requests -> Codes] /\ status \in [Requests -> Codes]
        /\ stored \in [Requests -> Codes]
    BY <2>2 DEF Init
  <2>4. wg \in Nat /\ active \in Int /\ lost \subseteq Requests /\ published \subseteq Requests
    BY DEF Init
  <2>5. /\ server \in {"serving", "stopped", "closing", "exited"}
        /\ storeOpen \in BOOLEAN /\ expired \in BOOLEAN
        /\ drain \in {"idle", "shutdown", "waiting", "completed", "gaveUp"}
    BY DEF Init
  <2> QED
    BY <2>1, <2>3, <2>4, <2>5 DEF TypeOK
<1>2. Within(Uncleared) = {} /\ Within({"rejected"}) = {}
  BY DEF Init, Within, Uncleared, InFlight, Handling, Reporting
<1>3. OnlyRejectsLeak /\ NoRejects
  BY <1>2, FS_EmptySet DEF Init, OnlyRejectsLeak, NoRejects
<1>4. Drained /\ Written
  BY DEF Init, Drained, Written, Reporting
<1> QED
  BY <1>1, <1>3, <1>4 DEF IInv

LEMMA Inductive == IInv /\ [Next]_vars => IInv'
<1> SUFFICES ASSUME IInv, [Next]_vars PROVE IInv'
  OBVIOUS
<1>1. ASSUME NEW r \in Requests, Accept(r) \/ BadBody(r) \/ Admit(r) \/ Serve(r)
      PROVE  IInv'
  <2>1. OnlyRejectsLeak' /\ wg' \in Nat
    BY <1>1, RequestCounted
  <2> QED
    BY <1>1, <2>1, RequestTyped, RequestWritten, RequestDrained, RequestNoRejects DEF IInv
<1>2. CASE Signal \/ Drain \/ CloseStore \/ Exit
  BY <1>2, ShutdownStep
<1>3. CASE UNCHANGED vars
  <2>1. \A S : Within(S)' = Within(S)
    BY <1>3 DEF Within, vars, request
  <2>2. TypeOK' /\ Written'
    BY <1>3 DEF IInv, TypeOK, Written, vars, request, sinks, shutdown
  <2>3. OnlyRejectsLeak' /\ NoRejects' /\ Drained'
    BY <1>3, <2>1 DEF IInv, OnlyRejectsLeak, NoRejects, Drained, vars, request, shutdown
  <2> QED
    BY <2>2, <2>3 DEF IInv
<1> QED
  BY <1>1, <1>2, <1>3 DEF Next

LEMMA Invariance == Spec => []IInv
BY Initially, Inductive, PTL DEF Spec

(* The handler, its goroutine and the shutdown are well typed; the         *)
(* WaitGroup never goes negative.                                          *)
THEOREM TypeCorrect == Spec => []TypeOK
<1>1. IInv => TypeOK
  BY DEF IInv
<1> QED
  BY <1>1, Invariance, PTL

(* With or without the router the counter is the number of requests        *)
(* between wg.Add and wg.Done plus the rejected keys.                      *)
THEOREM WaitGroupAccounted == Spec => []OnlyRejectsLeak
<1>1. IInv => OnlyRejectsLeak
  BY DEF IInv
<1> QED
  BY <1>1, Invariance, PTL

(* Without the router the counter is exact, over every early return.       *)
THEOREM WaitGroupExact ==
    ASSUME RouterMode = FALSE
    PROVE  Spec => []InFlightCounted
<1>1. IInv => InFlightCounted
  <2> SUFFICES ASSUME IInv PROVE InFlightCounted
    OBVIOUS
  <2>1. Within({"rejected"}) = {}
    BY DEF IInv, NoRejects
  <2>2. Within(InFlight) = Within(Uncleared)
    BY <2>1 DEF Within, Uncleared
  <2> QED
    BY <2>2 DEF IInv, OnlyRejectsLeak, InFlightCounted
<1> QED
  BY <1>1, Invariance, PTL

(* A drain that completes before its timeout leaves no handler running and *)
(* no row or event pending.                                                *)
THEOREM DrainSound == Spec => []DrainedIsDone
<1>1. IInv => DrainedIsDone
  BY DEF IInv, Drained, DrainedIsDone, Within
<1> QED
  BY <1>1, Invariance, PTL

(* A published request has been written, or its failure logged, before.    *)
THEOREM PublishAfterSave == Spec => []PublishedIsReadable
<1>1. IInv => PublishedIsReadable
  BY DEF IInv, TypeOK, Written, PublishedIsReadable
<1> QED
  BY <1>1, Invariance, PTL
=============================================================================
