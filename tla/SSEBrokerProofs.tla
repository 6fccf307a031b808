--------------------------- MODULE SSEBrokerProofs --------------------------
(* For any publishers, subscribers and channel capacity: the broker is     *)
(* well typed, Publish never sends on a closed channel, and served clients *)
(* miss only what found their own channel full.                            *)
EXTENDS SSEBroker, TLAPS

(* The inductive invariant: the client map holds the connections between   *)
(* their two map writes, closed channels have left it, and a loop in       *)
(* progress visits only clients, under the read lock.                      *)
MapExact == \A s \in Subscribers : s \in clients <=> sub[s] \in {"serving", "leaving"}

ClosedExact == \A s \in Subscribers : s \in closed <=> sub[s] = "gone"

LoopsLocked ==
    \A p \in Publishers :
        /\ todo[p] \subseteq clients
        /\ p \notin readers => todo[p] = {}

IInv == BrokerTypeOK /\ MapExact /\ ClosedExact /\ LoopsLocked

(* Channels and connections carry events of publishers.                    *)
LEMMA CurrentEvent ==
    ASSUME BrokerTypeOK, NEW p \in Publishers
    PROVE  <<p, count[p]>> \in Event
BY DEF BrokerTypeOK, Event

-----------------------------------------------------------------------------
(* The steps of a publisher keep the invariant.                            *)
LEMMA PublisherStep ==
    ASSUME IInv, NEW p \in Publishers, Publish(p) \/ PublishStep(p)
    PROVE  IInv'
<1> USE DEF IInv, lock, histories
<1>1. CASE Publish(p)
  <2>1. BrokerTypeOK'
    BY <1>1 DEF BrokerTypeOK, Publish, PubGoto
  <2> QED
    BY <1>1, <2>1 DEF Publish, MapExact, ClosedExact, LoopsLocked
<1>2. CASE RLock(p)
  <2>1. BrokerTypeOK'
    BY <1>2 DEF BrokerTypeOK, RLock, PubGoto
  <2>2. LoopsLocked'
    BY <1>2 DEF BrokerTypeOK, RLock, LoopsLocked
  <2> QED
    BY <1>2, <2>1, <2>2 DEF RLock, MapExact, ClosedExact
<1>3. CASE RUnlock(p)
  <2>1. BrokerTypeOK'
    BY <1>3 DEF BrokerTypeOK, RUnlock, PubGoto
  <2>2. LoopsLocked'
    BY <1>3 DEF BrokerTypeOK, RUnlock, LoopsLocked
  <2> QED
    BY <1>3, <2>1, <2>2 DEF RUnlock, MapExact, ClosedExact
<1>4. ASSUME NEW s \in Subscribers, Send(p, s) PROVE IInv'
  <2>1. /\ todo' = [todo EXCEPT ![p] = @ \ {s}]
        /\ UNCHANGED <<pub, count, sub, clients, readers, pending, closed, received, since>>
    BY <1>4 DEF Send
  <2>2. todo' \in [Publishers -> SUBSET Subscribers]
    BY <2>1 DEF BrokerTypeOK
  <2>3. buf' \in [Subscribers -> Seq(Event)] /\ \A c \in Subscribers : Len(buf'[c]) <= Cap
    <3>1. CASE Full(s)
      BY <1>4, <3>1 DEF Send, BrokerTypeOK
    <3>2. CASE ~Full(s)
      <4>1. buf' = [buf EXCEPT ![s] = Append(@, <<p, count[p]>>)]
        BY <1>4, <3>2 DEF Send
      <4>2. Append(buf[s], <<p, count[p]>>) \in Seq(Event)
            /\ Len(Append(buf[s], <<p, count[p]>>)) = Len(buf[s]) + 1
        BY CurrentEvent DEF BrokerTypeOK
      <4>3. Len(buf[s]) < Cap
        BY <3>2, BrokerAssumption DEF Full, BrokerTypeOK
      <4> QED
        BY <4>1, <4>2, <4>3, BrokerAssumption DEF BrokerTypeOK
    <3> QED
      BY <3>1, <3>2
  <2>4. dropped' \in [Subscribers -> SUBSET Event]
    <3>1. dropped[s] \cup {<<p, count[p]>>} \in SUBSET Event
      BY CurrentEvent DEF BrokerTypeOK
    <3>2. dropped \in [Subscribers -> SUBSET Event]
      BY DEF BrokerTypeOK
    <3>3. dropped' = dropped \/ dropped' = [dropped EXCEPT ![s] = dropped[s] \cup {<<p, count[p]>>}]
      BY <1>4 DEF Send
    <3> HIDE DEF IInv
    <3> QED
      BY <3>1, <3>2, <3>3
  <2>5. BrokerTypeOK'
    BY <2>1, <2>2, <2>3, <2>4 DEF BrokerTypeOK
  <2>6. LoopsLocked'
    BY <2>1 DEF BrokerTypeOK, LoopsLocked
  <2> QED
    BY <2>1, <2>5, <2>6 DEF MapExact, ClosedExact
<1> QED
  BY <1>1, <1>2, <1>3, <1>4 DEF PublishStep

(* So do the steps of a connection.  Leave, the one that shrinks the map,  *)
(* holds the write lock, so no loop is in progress.                        *)
LEMMA SubscriberStep ==
    ASSUME IInv, NEW s \in Subscribers,
           Subscribe(s) \/ LockStep(s) \/ Receive(s) \/ Disconnect(s)
    PROVE  IInv'
<1> USE DEF IInv, lock, histories
<1>1. CASE Subscribe(s)
  <2>1. BrokerTypeOK'
    BY <1>1 DEF BrokerTypeOK, Subscribe, SubGoto
  <2> QED
    BY <1>1, <2>1 DEF BrokerTypeOK, Subscribe, SubGoto, MapExact, ClosedExact, LoopsLocked
<1>2. CASE Announce(s)
  <2>1. BrokerTypeOK'
    BY <1>2 DEF BrokerTypeOK, Announce
  <2> QED
    BY <1>2, <2>1 DEF Announce, MapExact, ClosedExact, LoopsLocked
<1>3. CASE Join(s)
  <2>1. since' \in [Subscribers -> [Publishers -> Int]]
    BY <1>3 DEF BrokerTypeOK, Join
  <2>2. BrokerTypeOK'
    BY <1>3, <2>1 DEF BrokerTypeOK, Join, SubGoto, Locked
  <2> QED
    BY <1>3, <2>2 DEF BrokerTypeOK, Join, SubGoto, MapExact, ClosedExact, LoopsLocked
<1>4. CASE Receive(s)
  <2>1. buf[s] \in Seq(Event) /\ buf[s] # <<>>
    BY <1>4 DEF Receive, BrokerTypeOK
  <2>2. /\ Tail(buf[s]) \in Seq(Event) /\ Len(Tail(buf[s])) = Len(buf[s]) - 1
        /\ Append(received[s], Head(buf[s])) \in Seq(Event)
    BY <2>1 DEF BrokerTypeOK
  <2>3. Len(buf[s]) - 1 <= Cap
    BY <2>1, BrokerAssumption DEF BrokerTypeOK
  <2>4. BrokerTypeOK'
    BY <1>4, <2>2, <2>3 DEF BrokerTypeOK, Receive
  <2> QED
    BY <1>4, <2>4 DEF Receive, MapExact, ClosedExact, LoopsLocked
<1>5. CASE Disconnect(s)
  <2>1. BrokerTypeOK'
    BY <1>5 DEF BrokerTypeOK, Disconnect, SubGoto
  <2> QED
    BY <1>5, <2>1 DEF BrokerTypeOK, Disconnect, SubGoto, MapExact, ClosedExact, LoopsLocked
<1>6. CASE Leave(s)
  <2>1. BrokerTypeOK'
    BY <1>6 DEF BrokerTypeOK, Leave, SubGoto, Locked
  <2>2. \A p \in Publishers : todo[p] = {}
    BY <1>6 DEF Leave, Locked, LoopsLocked
  <2> QED
    BY <1>6, <2>1, <2>2 DEF BrokerTypeOK, Leave, SubGoto, MapExact, ClosedExact, LoopsLocked
<1>7. CASE CloseChannel(s)
  <2>1. BrokerTypeOK'
    BY <1>7 DEF BrokerTypeOK, CloseChannel, SubGoto
  <2> QED
    BY <1>7, <2>1 DEF BrokerTypeOK, CloseChannel, SubGoto, MapExact, ClosedExact, LoopsLocked
<1> QED
  BY <1>1, <1>2, <1>3, <1>4, <1>5, <1>6, <1>7 DEF LockStep

LEMMA Initially == BrokerInit => IInv
<1> SUFFICES ASSUME BrokerInit PROVE IInv
  OBVIOUS
<1>1. \A s \in Subscribers : Len(buf[s]) = 0
  BY DEF BrokerInit
<1>2. BrokerTypeOK
  BY <1>1, BrokerAssumption DEF BrokerInit, BrokerTypeOK
<1> QED
  BY <1>2 DEF BrokerInit, IInv, MapExact, ClosedExact, LoopsLocked

LEMMA Inductive == IInv /\ [BrokerNext]_brokerVars => IInv'
<1> SUFFICES ASSUME IInv, [BrokerNext]_brokerVars PROVE IInv'
  OBVIOUS
<1>1. CASE UNCHANGED brokerVars
  BY <1>1 DEF IInv, BrokerTypeOK, MapExact, ClosedExact, LoopsLocked, brokerVars, lock, histories
<1> QED
  BY <1>1, PublisherStep, SubscriberStep DEF BrokerNext

LEMMA Invariance == BrokerSpec => []IInv
BY Initially, Inductive, PTL DEF BrokerSpec

(* Publishers, connections and channels are well typed, and no channel     *)
(* ever holds more than its capacity.                                      *)
THEOREM TypeCorrect == BrokerSpec => []BrokerTypeOK
<1>1. IInv => BrokerTypeOK
  BY DEF IInv
<1> QED
  BY <1>1, Invariance, PTL

(* Although Unsubscribe closes the channel after releasing the lock, no    *)
(* publisher can be about to send on it.                                   *)
THEOREM SendsAreSafe == BrokerSpec => []NoSendOnClosed
<1>1. IInv => NoSendOnClosed
  BY DEF IInv, BrokerTypeOK, MapExact, ClosedExact, LoopsLocked, NoSendOnClosed
<1> QED
  BY <1>1, Invariance, PTL
-----------------------------------------------------------------------------
(* Delivery.  What has reached a channel has been offered to it, the read  *)
(* lock is held by the loops, and Delivery itself is inductive with these. *)
NoneAhead ==
    \A s \in Subscribers : \A i \in 1..Len(Arrived(s)) :
        Arrived(s)[i][2] <= Offered(Arrived(s)[i][1], s)

LoopsRead == \A p \in Publishers : p \in readers <=> pub[p] = "sending"

DInv == IInv /\ NoneAhead /\ LoopsRead /\ InOrder /\ OnlyFullMiss

LEMMA ArrivedIsSeq ==
    ASSUME BrokerTypeOK, NEW s \in Subscribers
    PROVE  /\ Arrived(s) \in Seq(Event) /\ Len(Arrived(s)) \in Nat
           /\ \A i \in 1..Len(Arrived(s)) : /\ Arrived(s)[i] \in Event
                                           /\ Arrived(s)[i][1] \in Publishers
                                           /\ Arrived(s)[i][2] \in Nat
<1>1. received[s] \in Seq(Event) /\ buf[s] \in Seq(Event)
  BY DEF BrokerTypeOK
<1>2. Arrived(s) \in Seq(Event)
  BY <1>1 DEF Arrived
<1>3. \A e \in Event : e[1] \in Publishers /\ e[2] \in Nat
  BY DEF Event
<1> QED
  BY <1>2, <1>3

LEMMA OfferedIsInt ==
    ASSUME BrokerTypeOK, NEW s \in Subscribers, NEW p \in Publishers
    PROVE  Offered(p, s) \in Int /\ Offered(p, s) <= count[p] /\ count[p] \in Nat
BY DEF BrokerTypeOK, Offered

LEMMA OfferedStaysInt ==
    ASSUME BrokerTypeOK', NEW s \in Subscribers, NEW p \in Publishers
    PROVE  Offered(p, s)' \in Int
<1>1. count'[p] \in Nat
  BY DEF BrokerTypeOK
<1> QED
  BY <1>1 DEF Offered

(* A send lengthens what has arrived by its event.                         *)
LEMMA SendArrives ==
    ASSUME NEW q \in Seq(Event), NEW b \in Seq(Event), NEW e \in Event
    PROVE  q \o Append(b, e) = Append(q \o b, e)
OBVIOUS

(* Reading moves an event from the channel to the connection.              *)
LEMMA ReceiveMoves ==
    ASSUME NEW q \in Seq(Event), NEW b \in Seq(Event), b # <<>>
    PROVE  Append(q, Head(b)) \o Tail(b) = q \o b
OBVIOUS

(* Steps that send nothing: what is newly offered to a connection is       *)
(* offered to one outside the map, or was offered before it joined.        *)
LEMMA NothingSent ==
    ASSUME DInv, IInv', LoopsRead',
           \A s \in Subscribers : Arrived(s)' = Arrived(s) /\ dropped'[s] = dropped[s],
           \A s \in Subscribers, p \in Publishers : Offered(p, s)' >= Offered(p, s),
           \A s \in clients', p \in Publishers :
              \/ s \in clients /\ Offered(p, s)' = Offered(p, s) /\ since'[s][p] = since[s][p]
              \/ since'[s][p] = Offered(p, s)'
    PROVE  DInv'
<1>0. BrokerTypeOK /\ BrokerTypeOK' /\ clients' \subseteq Subscribers
  BY DEF DInv, IInv, BrokerTypeOK
<1>1. NoneAhead'
  <2> SUFFICES ASSUME NEW s \in Subscribers, NEW i \in 1..Len(Arrived(s))
               PROVE  Arrived(s)[i][2] <= Offered(Arrived(s)[i][1], s)'
    BY DEF NoneAhead
  <2>1. Arrived(s)[i][1] \in Publishers /\ Arrived(s)[i][2] \in Nat
    BY <1>0, ArrivedIsSeq
  <2>2. \A p \in Publishers : Offered(p, s) \in Int /\ Offered(p, s)' \in Int
    BY <1>0, OfferedIsInt, OfferedStaysInt
  <2>3. Arrived(s)[i][2] <= Offered(Arrived(s)[i][1], s)
    BY DEF DInv, NoneAhead
  <2> QED
    BY <2>1, <2>2, <2>3
<1>2. InOrder'
  BY DEF DInv, InOrder
<1>3. OnlyFullMiss'
  <2> SUFFICES ASSUME NEW s \in clients', NEW p \in Publishers,
                      NEW n \in since'[s][p] + 1 .. Offered(p, s)'
               PROVE  \/ <<p, n>> \in dropped'[s]
                      \/ \E i \in 1..Len(Arrived(s)) : Arrived(s)[i] = <<p, n>>
    BY <1>0 DEF OnlyFullMiss
  <2>1. s \in Subscribers /\ since'[s][p] \in Int /\ Offered(p, s)' \in Int
    BY <1>0, OfferedStaysInt DEF BrokerTypeOK
  <2>2. s \in clients /\ n \in since[s][p] + 1 .. Offered(p, s)
    BY <2>1
  <2> QED
    BY <2>1, <2>2 DEF DInv, OnlyFullMiss
<1> QED
  BY <1>1, <1>2, <1>3 DEF DInv

LEMMA SendDelivers ==
    ASSUME DInv, IInv', NEW p \in Publishers, NEW s \in Subscribers, Send(p, s)
    PROVE  DInv'
<1> DEFINE e == <<p, count[p]>>
<1>0. /\ BrokerTypeOK /\ BrokerTypeOK'
      /\ e \in Event /\ count[p] \in Nat /\ clients \subseteq Subscribers
  BY CurrentEvent DEF DInv, IInv, BrokerTypeOK
<1>1. /\ UNCHANGED <<pub, count, readers, clients, received, since>>
      /\ pub[p] = "sending" /\ s \in todo[p]
      /\ todo' = [todo EXCEPT ![p] = @ \ {s}]
  BY DEF Send, lock
<1>2. Offered(p, s) = count[p] - 1 /\ Offered(p, s)' = count[p]
  BY <1>0, <1>1 DEF BrokerTypeOK, Offered
<1>3. \A c \in Subscribers, r \in Publishers : c # s \/ r # p => Offered(r, c)' = Offered(r, c)
  BY <1>0, <1>1 DEF BrokerTypeOK, Offered
<1>4. LoopsRead'
  BY <1>1 DEF DInv, LoopsRead
<1>5. CASE Full(s)
  <2>1. buf' = buf /\ dropped' = [dropped EXCEPT ![s] = @ \cup {e}]
    BY <1>5 DEF Send
  <2>2. \A c \in Subscribers : Arrived(c)' = Arrived(c)
    BY <1>1, <2>1 DEF Arrived
  <2>3. \A c \in Subscribers : dropped[c] \subseteq dropped'[c] /\ e \in dropped'[s]
    BY <1>0, <2>1 DEF BrokerTypeOK
  <2>4. NoneAhead'
    <3> SUFFICES ASSUME NEW c \in Subscribers, NEW i \in 1..Len(Arrived(c))
                 PROVE  Arrived(c)[i][2] <= Offered(Arrived(c)[i][1], c)'
      BY <2>2 DEF NoneAhead
    <3>1. Arrived(c)[i][1] \in Publishers /\ Arrived(c)[i][2] \in Nat
      BY <1>0, ArrivedIsSeq
    <3>2. Arrived(c)[i][2] <= Offered(Arrived(c)[i][1], c)
      BY DEF DInv, NoneAhead
    <3>3. CASE c = s /\ Arrived(c)[i][1] = p
      BY <1>0, <1>2, <2>2, <3>1, <3>2, <3>3
    <3>4. CASE ~(c = s /\ Arrived(c)[i][1] = p)
      BY <1>3, <2>2, <3>1, <3>2, <3>4
    <3> QED
      BY <3>3, <3>4
  <2>5. InOrder'
    BY <2>2 DEF DInv, InOrder
  <2>6. OnlyFullMiss'
    <3> SUFFICES ASSUME NEW c \in clients, NEW r \in Publishers,
                        NEW n \in since[c][r] + 1 .. Offered(r, c)'
                 PROVE  \/ <<r, n>> \in dropped'[c]
                        \/ \E i \in 1..Len(Arrived(c)') : Arrived(c)'[i] = <<r, n>>
      BY <1>1 DEF OnlyFullMiss
    <3>1. c \in Subscribers /\ since[c][r] \in Int
      BY <1>0 DEF BrokerTypeOK
    <3>2. CASE c = s /\ r = p /\ n = count[p]
      BY <2>3, <3>2
    <3>3. CASE ~(c = s /\ r = p /\ n = count[p])
      <4>1. Offered(r, c) \in Int
        BY <1>0, <3>1, OfferedIsInt
      <4>2. n \in since[c][r] + 1 .. Offered(r, c)
        BY <1>0, <1>2, <1>3, <3>1, <3>3, <4>1
      <4>3. \/ <<r, n>> \in dropped[c]
            \/ \E i \in 1..Len(Arrived(c)) : Arrived(c)[i] = <<r, n>>
        BY <3>1, <4>2 DEF DInv, OnlyFullMiss
      <4> QED
        BY <2>2, <2>3, <3>1, <4>3
    <3> QED
      BY <3>2, <3>3
  <2> QED
    BY <1>4, <2>4, <2>5, <2>6 DEF DInv
<1>6. CASE ~Full(s)
  <2>1. buf' = [buf EXCEPT ![s] = Append(@, e)] /\ dropped' = dropped
    BY <1>6 DEF Send
  <2>2. \A c \in Subscribers : c # s => Arrived(c)' = Arrived(c)
    BY <1>0, <1>1, <2>1 DEF Arrived, BrokerTypeOK
  <2>3. Arrived(s)' = Append(Arrived(s), e)
    <3>1. received[s] \in Seq(Event) /\ buf[s] \in Seq(Event) /\ buf'[s] = Append(buf[s], e)
      BY <1>0, <2>1 DEF BrokerTypeOK
    <3>2. received[s] \o Append(buf[s], e) = Append(received[s] \o buf[s], e)
      BY <1>0, <3>1, SendArrives
    <3> QED
      BY <1>1, <3>1, <3>2 DEF Arrived
  <2>4. /\ Arrived(s) \in Seq(Event) /\ Len(Arrived(s)) \in Nat
        /\ Len(Arrived(s)') = Len(Arrived(s)) + 1
        /\ \A i \in 1..Len(Arrived(s)) : Arrived(s)'[i] = Arrived(s)[i]
        /\ Arrived(s)'[Len(Arrived(s)) + 1] = e
    BY <1>0, <2>3, ArrivedIsSeq
  <2>5. \A i \in 1..Len(Arrived(s)) :
           /\ Arrived(s)[i][1] \in Publishers /\ Arrived(s)[i][2] \in Nat
           /\ Arrived(s)[i][2] <= Offered(Arrived(s)[i][1], s)
    BY <1>0, ArrivedIsSeq DEF DInv, NoneAhead
  <2>6. NoneAhead'
    <3> SUFFICES ASSUME NEW c \in Subscribers, NEW i \in 1..Len(Arrived(c)')
                 PROVE  (Arrived(c)[i][2] <= Offered(Arrived(c)[i][1], c))'
      BY DEF NoneAhead
    <3>1. CASE c # s
      <4>1. Arrived(c)[i][1] \in Publishers
        BY <1>0, <2>2, <3>1, ArrivedIsSeq
      <4> QED
        BY <1>3, <2>2, <3>1, <4>1 DEF DInv, NoneAhead
    <3>2. CASE c = s /\ i = Len(Arrived(s)) + 1
      BY <1>0, <1>2, <2>4, <3>2
    <3>3. CASE c = s /\ i # Len(Arrived(s)) + 1
      <4>1. i \in 1..Len(Arrived(s)) /\ Arrived(s)'[i] = Arrived(s)[i]
        BY <2>4, <3>3
      <4>2. CASE Arrived(s)[i][1] = p
        BY <1>0, <1>2, <2>5, <3>3, <4>1, <4>2
      <4>3. CASE Arrived(s)[i][1] # p
        BY <1>3, <2>5, <3>3, <4>1, <4>3
      <4> QED
        BY <4>2, <4>3
    <3> QED
      BY <3>1, <3>2, <3>3
  <2>7. InOrder'
    <3> SUFFICES ASSUME NEW c \in Subscribers, NEW i \in 1..Len(Arrived(c)'),
                        NEW j \in 1..Len(Arrived(c)'), i < j,
                        Arrived(c)'[i][1] = Arrived(c)'[j][1]
                 PROVE  Arrived(c)'[i][2] < Arrived(c)'[j][2]
      BY DEF InOrder
    <3>1. CASE c # s
      BY <2>2, <3>1 DEF DInv, InOrder
    <3>2. CASE c = s /\ j = Len(Arrived(s)) + 1
      <4>1. i \in 1..Len(Arrived(s)) /\ Arrived(s)'[i] = Arrived(s)[i] /\ Arrived(s)'[j] = e
        BY <2>4, <3>2
      <4> QED
        BY <1>0, <1>2, <2>5, <3>2, <4>1
    <3>3. CASE c = s /\ j # Len(Arrived(s)) + 1
      <4>1. /\ i \in 1..Len(Arrived(s)) /\ j \in 1..Len(Arrived(s))
            /\ Arrived(s)'[i] = Arrived(s)[i] /\ Arrived(s)'[j] = Arrived(s)[j]
        BY <2>4, <3>3
      <4> QED
        BY <3>3, <4>1 DEF DInv, InOrder
    <3> QED
      BY <3>1, <3>2, <3>3
  <2>8. OnlyFullMiss'
    <3> SUFFICES ASSUME NEW c \in clients, NEW r \in Publishers,
                        NEW n \in since[c][r] + 1 .. Offered(r, c)'
                 PROVE  \/ <<r, n>> \in dropped[c]
                        \/ \E i \in 1..Len(Arrived(c)') : Arrived(c)'[i] = <<r, n>>
      BY <1>1, <2>1 DEF OnlyFullMiss
    <3>1. c \in Subscribers /\ since[c][r] \in Int
      BY <1>0 DEF BrokerTypeOK
    <3>2. CASE c = s /\ r = p /\ n = count[p]
      BY <2>4, <3>2
    <3>3. CASE ~(c = s /\ r = p /\ n = count[p])
      <4>1. Offered(r, c) \in Int
        BY <1>0, <3>1, OfferedIsInt
      <4>2. n \in since[c][r] + 1 .. Offered(r, c)
        BY <1>0, <1>2, <1>3, <3>1, <3>3, <4>1
      <4>3. \/ <<r, n>> \in dropped[c]
            \/ \E i \in 1..Len(Arrived(c)) : Arrived(c)[i] = <<r, n>>
        BY <3>1, <4>2 DEF DInv, OnlyFullMiss
      <4> QED
        BY <2>2, <2>4, <3>1, <4>3
    <3> QED
      BY <3>2, <3>3
  <2> QED
    BY <1>4, <2>6, <2>7, <2>8 DEF DInv
<1> QED
  BY <1>5, <1>6

LEMMA PublisherDelivers ==
    ASSUME DInv, IInv', NEW p \in Publishers, Publish(p) \/ PublishStep(p)
    PROVE  DInv'
<1> USE DEF lock, histories
<1>0. BrokerTypeOK /\ LoopsLocked /\ LoopsRead
  BY DEF DInv, IInv
<1>1. CASE Publish(p)
  <2>1. LoopsRead' /\ todo[p] = {}
    BY <1>0, <1>1 DEF Publish, PubGoto, LoopsRead, LoopsLocked, BrokerTypeOK
  <2>2. \A s \in Subscribers, r \in Publishers : Offered(r, s)' = Offered(r, s) /\ Offered(r, s) \in Int
    BY <1>0, <1>1, <2>1 DEF Publish, PubGoto, Offered, BrokerTypeOK
  <2>3. \A s \in Subscribers : Arrived(s)' = Arrived(s)
    BY <1>1 DEF Publish, Arrived
  <2>4. UNCHANGED <<clients, since, dropped>> /\ clients \subseteq Subscribers
    BY <1>0, <1>1 DEF Publish, BrokerTypeOK
  <2> QED
    BY <2>1, <2>2, <2>3, <2>4, NothingSent
<1>2. CASE RLock(p)
  <2>1. LoopsRead'
    BY <1>0, <1>2 DEF RLock, PubGoto, LoopsRead, BrokerTypeOK
  <2>2. \A s \in Subscribers, r \in Publishers : Offered(r, s)' >= Offered(r, s)
    BY <1>0, <1>2 DEF RLock, PubGoto, Offered, BrokerTypeOK
  <2>3. \A s \in clients, r \in Publishers : Offered(r, s)' = Offered(r, s)
    BY <1>0, <1>2 DEF RLock, PubGoto, Offered, BrokerTypeOK
  <2>4. \A s \in Subscribers : Arrived(s)' = Arrived(s)
    BY <1>2 DEF RLock, Arrived
  <2>5. UNCHANGED <<clients, since, dropped>>
    BY <1>2 DEF RLock
  <2> QED
    BY <2>1, <2>2, <2>3, <2>4, <2>5, NothingSent
<1>3. CASE RUnlock(p)
  <2>1. LoopsRead'
    BY <1>0, <1>3 DEF RUnlock, PubGoto, LoopsRead, BrokerTypeOK
  <2>2. \A s \in Subscribers, r \in Publishers : Offered(r, s)' = Offered(r, s) /\ Offered(r, s) \in Int
    BY <1>0, <1>3 DEF RUnlock, PubGoto, Offered, BrokerTypeOK
  <2>3. \A s \in Subscribers : Arrived(s)' = Arrived(s)
    BY <1>3 DEF RUnlock, Arrived
  <2>4. UNCHANGED <<clients, since, dropped>> /\ clients \subseteq Subscribers
    BY <1>0, <1>3 DEF RUnlock, BrokerTypeOK
  <2> QED
    BY <2>1, <2>2, <2>3, <2>4, NothingSent
<1> QED
  BY <1>1, <1>2, <1>3, SendDelivers DEF PublishStep

LEMMA SubscriberDelivers ==
    ASSUME DInv, IInv', NEW s \in Subscribers,
           Subscribe(s) \/ LockStep(s) \/ Receive(s) \/ Disconnect(s)
    PROVE  DInv'
<1> USE DEF lock, histories
<1>0. BrokerTypeOK /\ LoopsLocked /\ LoopsRead
  BY DEF DInv, IInv
<1>1. UNCHANGED <<pub, count, todo, readers, dropped>>
  BY DEF Subscribe, LockStep, Announce, Join, Leave, CloseChannel, Receive, Disconnect
<1>2. LoopsRead' /\ \A c \in Subscribers, p \in Publishers : Offered(p, c)' = Offered(p, c) /\ Offered(p, c) \in Int
  BY <1>0, <1>1 DEF LoopsRead, Offered, BrokerTypeOK
<1>3. \A c \in Subscribers : Arrived(c)' = Arrived(c)
  <2>1. CASE Receive(s)
    <3>1. /\ received[s] \in Seq(Event) /\ buf[s] \in Seq(Event) /\ buf[s] # <<>>
          /\ received'[s] = Append(received[s], Head(buf[s])) /\ buf'[s] = Tail(buf[s])
          /\ \A c \in Subscribers : c # s => received'[c] = received[c] /\ buf'[c] = buf[c]
      BY <1>0, <2>1 DEF Receive, BrokerTypeOK
    <3>2. Append(received[s], Head(buf[s])) \o Tail(buf[s]) = received[s] \o buf[s]
      BY <3>1, ReceiveMoves
    <3> QED
      BY <3>1, <3>2 DEF Arrived
  <2>2. CASE ~Receive(s)
    <3>1. UNCHANGED <<buf, received>>
      BY <2>2 DEF Subscribe, LockStep, Announce, Join, Leave, CloseChannel, Disconnect
    <3> QED
      BY <3>1 DEF Arrived
  <2> QED
    BY <2>1, <2>2
<1>4. CASE Join(s)
  <2>1. clients' = clients \cup {s} /\ \A p \in Publishers : todo[p] = {}
    BY <1>0, <1>4 DEF Join, Locked, LoopsLocked
  <2>2. /\ \A p \in Publishers : since'[s][p] = Offered(p, s)
        /\ \A c \in Subscribers : c # s => since'[c] = since[c]
    BY <1>0, <1>4, <2>1 DEF Join, Offered, BrokerTypeOK
  <2>3. clients \subseteq Subscribers
    BY <1>0 DEF BrokerTypeOK
  <2> QED
    BY <1>1, <1>2, <1>3, <2>1, <2>2, <2>3, NothingSent
<1>5. CASE ~Join(s)
  <2>1. clients' \subseteq clients /\ clients \subseteq Subscribers /\ since' = since
    BY <1>0, <1>5 DEF Subscribe, LockStep, Announce, Leave, CloseChannel, Receive, Disconnect, BrokerTypeOK
  <2> QED
    BY <1>1, <1>2, <1>3, <2>1, NothingSent
<1> QED
  BY <1>4, <1>5

LEMMA DeliveryInductive == DInv /\ [BrokerNext]_brokerVars => DInv'
<1> SUFFICES ASSUME DInv, [BrokerNext]_brokerVars PROVE DInv'
  OBVIOUS
<1>1. IInv'
  BY Inductive DEF DInv
<1>2. CASE UNCHANGED brokerVars
  <2>1. UNCHANGED <<pub, count, todo, clients, readers, buf, received, dropped, since>>
    BY <1>2 DEF brokerVars, lock, histories
  <2>2. LoopsRead' /\ clients \subseteq Subscribers
    BY <2>1 DEF DInv, IInv, BrokerTypeOK, LoopsRead
  <2>3. \A s \in Subscribers : Arrived(s)' = Arrived(s)
    BY <2>1 DEF Arrived
  <2>4. \A s \in Subscribers, p \in Publishers : Offered(p, s)' = Offered(p, s) /\ Offered(p, s) \in Int
    BY <2>1, OfferedIsInt DEF DInv, IInv, Offered
  <2> QED
    BY <1>1, <2>1, <2>2, <2>3, <2>4, NothingSent
<1> QED
  BY <1>1, <1>2, PublisherDelivers, SubscriberDelivers DEF BrokerNext

LEMMA DeliveryInitially == BrokerInit => DInv
<1> SUFFICES ASSUME BrokerInit PROVE DInv
  OBVIOUS
<1>1. \A s \in Subscribers : Arrived(s) = <<>>
  BY DEF BrokerInit, Arrived
<1>2. clients = {} /\ LoopsRead
  BY DEF BrokerInit, LoopsRead
<1> QED
  BY <1>1, <1>2, Initially DEF DInv, NoneAhead, InOrder, OnlyFullMiss

(* While a client is served it gets every event of a publisher in order    *)
(* and once, but for those that found its own channel full (sse.go:45-58). *)
THEOREM EventsAreDelivered == BrokerSpec => []Delivery
<1>1. DInv => Delivery
  BY DEF DInv, Delivery
<1> QED
  BY <1>1, DeliveryInitially, DeliveryInductive, PTL DEF BrokerSpec
=============================================================================
