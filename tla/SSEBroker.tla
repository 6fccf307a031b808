------------------------------ MODULE SSEBroker -----------------------------
(***************************************************************************)
(* SSEBroker (internal/api/sse.go): the goroutine of every finished        *)
(* request publishes its record to all live-view clients, each of which    *)
(* owns a bounded channel.  Publish iterates over the client map and sends *)
(* without blocking under the read lock; Unsubscribe deletes under the     *)
(* write lock and closes the channel after unlocking.                      *)
(***************************************************************************)
EXTENDS Integers, Sequences, Functions

CONSTANTS
    Publishers,     \* goroutines that call Publish
    Subscribers,    \* SSE connections, each with one channel
    Cap,            \* capacity of a channel, 16 in the code
    MaxEvents,      \* bound on the number of events
    NoOne

ASSUME BrokerAssumption ==
    /\ Cap \in Nat \ {0}
    /\ MaxEvents \in Nat
    /\ NoOne \notin Subscribers

Event == Publishers \X Nat

VARIABLES
    pub,        \* pub[p]: "idle", "locking" (in RLock) or "sending"
    count,      \* count[p]: events of p so far; <<p, count[p]>> is the current one
    todo,       \* todo[p]: channels its loop over the map has still to visit
    sub,        \* sub[s]: where ServeHTTP of s is
    clients,    \* SSEBroker.clients
    readers,    \* publishers that hold the read lock
    pending,    \* the writer that waits for the readers, or NoOne
    buf,        \* buf[s]: the contents of its channel
    closed,     \* closed channels
    received,   \* history: what was written to the connection of s
    dropped,    \* history: events skipped because the channel of s was full
    since       \* history: since[s][p] is the last event of p before s joined

lock == <<readers, pending>>
histories == <<received, dropped, since>>
brokerVars == <<pub, count, todo, sub, clients, lock, buf, closed, histories>>

BrokerInit ==
    /\ pub = [p \in Publishers |-> "idle"]
    /\ count = [p \in Publishers |-> 0]
    /\ todo = [p \in Publishers |-> {}]
    /\ sub = [s \in Subscribers |-> "new"]
    /\ clients = {} /\ readers = {} /\ pending = NoOne
    /\ buf = [s \in Subscribers |-> <<>>]
    /\ closed = {}
    /\ received = [s \in Subscribers |-> <<>>]
    /\ dropped = [s \in Subscribers |-> {}]
    /\ since = [s \in Subscribers |-> [p \in Publishers |-> 0]]

PubGoto(p, from, to) == pub[p] = from /\ pub' = [pub EXCEPT ![p] = to]
SubGoto(s, from, to) == sub[s] = from /\ sub' = [sub EXCEPT ![s] = to]

-----------------------------------------------------------------------------
(* Publish                                                                 *)

\* The call, up to RLock.
Publish(p) ==
    /\ SumFunction(count) < MaxEvents
    /\ PubGoto(p, "idle", "locking")
    /\ count' = [count EXCEPT ![p] = @ + 1]
    /\ UNCHANGED <<todo, sub, clients, lock, buf, closed, histories>>

\* RLock succeeds unless a writer holds the lock or waits for it.
RLock(p) ==
    /\ PubGoto(p, "locking", "sending")
    /\ pending = NoOne
    /\ readers' = readers \cup {p}
    /\ todo' = [todo EXCEPT ![p] = clients]
    /\ UNCHANGED <<count, sub, clients, pending, buf, closed, histories>>

Full(s) == Len(buf[s]) >= Cap

\* Mutant: a blocking send.
BlockingSend(p, s) ==
    /\ pub[p] = "sending" /\ s \in todo[p]
    /\ todo' = [todo EXCEPT ![p] = @ \ {s}]
    /\ ~Full(s)
    /\ buf' = [buf EXCEPT ![s] = Append(@, <<p, count[p]>>)]
    /\ UNCHANGED <<pub, count, sub, clients, lock, closed, histories>>

\* Mutant: a full channel ends the loop (return for continue).
StopAtFull(p, s) ==
    /\ pub[p] = "sending" /\ s \in todo[p]
    /\ todo' = [todo EXCEPT ![p] = IF Full(s) THEN {} ELSE @ \ {s}]
    /\ buf' = IF Full(s) THEN buf ELSE [buf EXCEPT ![s] = Append(@, <<p, count[p]>>)]
    /\ dropped' = IF Full(s) THEN [dropped EXCEPT ![s] = @ \cup {<<p, count[p]>>}] ELSE dropped
    /\ UNCHANGED <<pub, count, sub, clients, lock, closed, received, since>>

\* Mutant: the event is sent, and may be sent once more.
SendAgain(p, s) ==
    /\ pub[p] = "sending" /\ s \in todo[p]
    /\ todo' \in {todo, [todo EXCEPT ![p] = @ \ {s}]}
    /\ ~Full(s) /\ buf' = [buf EXCEPT ![s] = Append(@, <<p, count[p]>>)]
    /\ UNCHANGED <<pub, count, sub, clients, lock, closed, histories>>

\* One turn of the loop, in any order of the map: a full channel is skipped.
Send(p, s) ==
    /\ pub[p] = "sending" /\ s \in todo[p]
    /\ todo' = [todo EXCEPT ![p] = @ \ {s}]
    /\ \/ /\ ~Full(s)
          /\ buf' = [buf EXCEPT ![s] = Append(@, <<p, count[p]>>)]
          /\ UNCHANGED dropped
       \/ /\ Full(s)
          /\ dropped' = [dropped EXCEPT ![s] = @ \cup {<<p, count[p]>>}]
          /\ UNCHANGED buf
    /\ UNCHANGED <<pub, count, sub, clients, lock, closed, received, since>>

\* The loop is over: RUnlock.
RUnlock(p) ==
    /\ todo[p] = {}
    /\ PubGoto(p, "sending", "idle")
    /\ readers' = readers \ {p}
    /\ UNCHANGED <<count, todo, sub, clients, pending, buf, closed, histories>>

-----------------------------------------------------------------------------
(* ServeHTTP: Subscribe, the select loop, the deferred Unsubscribe         *)

Subscribe(s) ==
    /\ SubGoto(s, "new", "joining")
    /\ UNCHANGED <<pub, count, todo, clients, lock, buf, closed, histories>>

\* Lock, first half: one writer at a time bars new readers.
Announce(s) ==
    /\ sub[s] \in {"joining", "leaving"}
    /\ pending = NoOne
    /\ pending' = s
    /\ UNCHANGED <<pub, count, todo, sub, clients, readers, buf, closed, histories>>

\* Lock, second half: the readers have left; the map is changed, Unlock.
Locked(s) == pending = s /\ readers = {} /\ pending' = NoOne

Join(s) ==
    /\ Locked(s)
    /\ SubGoto(s, "joining", "serving")
    /\ clients' = clients \cup {s}
    /\ since' = [since EXCEPT ![s] =
                   [p \in Publishers |-> IF pub[p] = "locking" THEN count[p] - 1 ELSE count[p]]]
    /\ UNCHANGED <<pub, count, todo, readers, buf, closed, received, dropped>>

\* An event is taken from the channel and written to the connection.
Receive(s) ==
    /\ sub[s] = "serving"
    /\ buf[s] # <<>>
    /\ buf' = [buf EXCEPT ![s] = Tail(@)]
    /\ received' = [received EXCEPT ![s] = Append(@, Head(buf[s]))]
    /\ UNCHANGED <<pub, count, todo, sub, clients, lock, closed, dropped, since>>

\* ctx.Done: the select may choose it even when events are waiting.
Disconnect(s) ==
    /\ SubGoto(s, "serving", "leaving")
    /\ UNCHANGED <<pub, count, todo, clients, lock, buf, closed, histories>>

\* Mutant: the map is changed without waiting for the readers.
LeaveUnderReadLock(s) ==
    /\ pending = s /\ pending' = NoOne
    /\ SubGoto(s, "leaving", "closing")
    /\ clients' = clients \ {s}
    /\ UNCHANGED <<pub, count, todo, readers, buf, closed, histories>>

Leave(s) ==
    /\ Locked(s)
    /\ SubGoto(s, "leaving", "closing")
    /\ clients' = clients \ {s}
    /\ UNCHANGED <<pub, count, todo, readers, buf, closed, histories>>

\* close(ch), after Unlock
CloseChannel(s) ==
    /\ SubGoto(s, "closing", "gone")
    /\ closed' = closed \cup {s}
    /\ UNCHANGED <<pub, count, todo, clients, lock, buf, histories>>

PublishStep(p) == RLock(p) \/ RUnlock(p) \/ \E s \in Subscribers : Send(p, s)

LockStep(s) == Announce(s) \/ Join(s) \/ Leave(s) \/ CloseChannel(s)

BrokerNext ==
    \/ \E p \in Publishers : Publish(p) \/ PublishStep(p)
    \/ \E s \in Subscribers : Subscribe(s) \/ LockStep(s) \/ Receive(s) \/ Disconnect(s)

BrokerSpec == BrokerInit /\ [][BrokerNext]_brokerVars

\* Goroutines run and the RWMutex is handed on; nothing makes a client read,
\* and nothing makes it leave.
BrokerFairness ==
    /\ \A p \in Publishers : WF_brokerVars(PublishStep(p))
    /\ \A s \in Subscribers : WF_brokerVars(LockStep(s))

BrokerFairSpec == BrokerSpec /\ BrokerFairness

-----------------------------------------------------------------------------
(* Type invariant; a channel never holds more than its capacity.           *)
BrokerTypeOK ==
    /\ pub \in [Publishers -> {"idle", "locking", "sending"}]
    /\ count \in [Publishers -> Nat]
    /\ todo \in [Publishers -> SUBSET Subscribers]
    /\ sub \in [Subscribers -> {"new", "joining", "serving", "leaving", "closing", "gone"}]
    /\ clients \subseteq Subscribers
    /\ readers \subseteq Publishers
    /\ pending \in Subscribers \cup {NoOne}
    /\ buf \in [Subscribers -> Seq(Event)]
    /\ \A s \in Subscribers : Len(buf[s]) <= Cap
    /\ closed \subseteq Subscribers
    /\ received \in [Subscribers -> Seq(Event)]
    /\ dropped \in [Subscribers -> SUBSET Event]
    /\ since \in [Subscribers -> [Publishers -> Int]]

(* sse.go:41 closes the channel outside the lock: no publisher may still   *)
(* have it ahead in its loop, or the send would panic the process.         *)
NoSendOnClosed == \A p \in Publishers : todo[p] \cap closed = {}

\* Everything that reached the channel of s, in order.
Arrived(s) == received[s] \o buf[s]

(* A client sees the events of one publisher in order and at most once,    *)
(* however its reads, other publishers and skipped events interleave.      *)
InOrder ==
    \A s \in Subscribers : \A i, j \in 1..Len(Arrived(s)) :
        i < j /\ Arrived(s)[i][1] = Arrived(s)[j][1] => Arrived(s)[i][2] < Arrived(s)[j][2]

\* The last event p has offered to s, or to every client.
Offered(p, s) ==
    IF pub[p] = "locking" \/ s \in todo[p] THEN count[p] - 1 ELSE count[p]

(* sse.go:45: only "clients with full buffers" miss an event: what was     *)
(* published while a client was in the map reached its channel or found it *)
(* full, slow neighbours and late joiners notwithstanding.                 *)
OnlyFullMiss ==
    \A s \in clients, p \in Publishers : \A n \in since[s][p] + 1 .. Offered(p, s) :
        \/ <<p, n>> \in dropped[s]
        \/ \E i \in 1..Len(Arrived(s)) : Arrived(s)[i] = <<p, n>>

(* What a client sees of each publisher while it is served: everything in  *)
(* order, once, but for what found its own channel full (sse.go:45-58).    *)
Delivery == InOrder /\ OnlyFullMiss

(* sse.go:45: slow consumers are skipped "to avoid blocking": Publish      *)
(* returns and a leaving client is released although no other client ever  *)
(* reads its channel.                                                      *)
NeverStuck ==
    /\ \A p \in Publishers : pub[p] = "locking" ~> pub[p] = "idle"
    /\ \A s \in Subscribers : sub[s] = "leaving" ~> sub[s] = "gone"
=============================================================================
