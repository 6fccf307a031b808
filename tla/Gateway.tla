------------------------------- MODULE Gateway ------------------------------
(***************************************************************************)
(* The chat handler of cmd/llm-interceptor/main.go and its shutdown: each  *)
(* request passes the plugins, the router and the upstream call, is        *)
(* answered, and is then saved, counted and published by a goroutine of    *)
(* its own that outlives the handler.  A WaitGroup counts requests; a      *)
(* signal starts the drain, while main itself returns as soon as the       *)
(* listener is closed.                                                     *)
(***************************************************************************)
EXTENDS Integers, FiniteSets

CONSTANTS
    Requests,       \* requests the clients send, one each
    Statuses,       \* status codes the upstream answers with, 200 among them
    Verdicts,       \* status codes of blocking or failing plugins
    RouterMode      \* cfg.Router.Enabled

ASSUME GatewayAssumption ==
    /\ IsFiniteSet(Requests)
    /\ Statuses \subseteq Nat \ {0} /\ 200 \in Statuses
    /\ Verdicts \subseteq Nat \ {0}
    /\ RouterMode \in BOOLEAN

VARIABLES
    pc,         \* pc[r]: where the handler, later the goroutine, of r is
    answer,     \* answer[r]: the status code the client got, 0 = none yet
    status,     \* status[r]: respCtx.StatusCode
    wg,         \* the WaitGroup's counter
    stored,     \* stored[r]: status column of its row, 0 = no row
    lost,       \* requests whose SaveRequest failed (an error line in the log)
    published,  \* requests sent to the SSE clients
    active,     \* the active_requests gauge
    server,     \* main: "serving", "stopped" (listener closed), "closing", "exited"
    storeOpen,  \* the store has not been closed
    drain,      \* the signal goroutine: "idle", "shutdown", "waiting", then how it ended
    expired     \* shutdownCtx has timed out

request == <<pc, answer, status, wg>>
sinks == <<stored, lost, published, active>>
shutdown == <<server, storeOpen, drain, expired>>
vars == <<request, sinks, shutdown>>

\* The handler holds the connection of r.
Handling == {"reading", "hooks", "route", "upstream", "respond"}
\* The goroutine started at the end of the handler.
Reporting == {"save", "record", "publish"}
\* Between wg.Add and wg.Done.
InFlight == (Handling \ {"reading"}) \cup Reporting
\* wg.Add without wg.Done so far: in flight, or returned by RejectKey.
Uncleared == InFlight \cup {"rejected"}

Init ==
    /\ pc = [r \in Requests |-> "idle"]
    /\ answer = [r \in Requests |-> 0]
    /\ status = [r \in Requests |-> 0]
    /\ wg = 0
    /\ stored = [r \in Requests |-> 0]
    /\ lost = {} /\ published = {}
    /\ active = 0
    /\ server = "serving" /\ storeOpen = TRUE
    /\ drain = "idle" /\ expired = FALSE

\* The process still exists.
Up == server # "exited"

Goto(r, from, to) == Up /\ pc[r] = from /\ pc' = [pc EXCEPT ![r] = to]
Answer(r, code) == answer' = [answer EXCEPT ![r] = code]

-----------------------------------------------------------------------------
(* The handler                                                             *)

\* A connection is accepted while the listener is open.
Accept(r) ==
    /\ server = "serving"
    /\ Goto(r, "idle", "reading")
    /\ UNCHANGED <<answer, status, wg, sinks, shutdown>>

\* The body cannot be read: 400, before wg.Add.
BadBody(r) ==
    /\ Goto(r, "reading", "done")
    /\ Answer(r, 400)
    /\ UNCHANGED <<status, wg, sinks, shutdown>>

Admit(r) ==
    /\ Goto(r, "reading", "hooks")
    /\ wg' = wg + 1
    /\ UNCHANGED <<answer, status, sinks, shutdown>>

\* Mutant: the early return of the blocked request forgets wg.Done.
RefuseWithoutDone(r, code) ==
    /\ Goto(r, "hooks", "done")
    /\ Answer(r, code)
    /\ UNCHANGED <<wg, status, sinks, shutdown>>

\* A plugin blocks the request, or fails (500): answered and done.
Refuse(r, code) ==
    /\ Goto(r, "hooks", "done")
    /\ Answer(r, code)
    /\ wg' = wg - 1
    /\ UNCHANGED <<status, sinks, shutdown>>

PassHooks(r) ==
    /\ Goto(r, "hooks", "route")
    /\ UNCHANGED <<answer, status, wg, sinks, shutdown>>

\* A managed key that is not valid: 401, and the handler returns.
RejectKey(r) ==
    /\ RouterMode
    /\ Goto(r, "route", "rejected")
    /\ Answer(r, 401)
    /\ UNCHANGED <<status, wg, sinks, shutdown>>

\* No router, a key that is not managed, or a valid one: a target is chosen.
Route(r) ==
    /\ Goto(r, "route", "upstream")
    /\ UNCHANGED <<answer, status, wg, sinks, shutdown>>

\* HandleRequest fails: 502.  HandleRequestStream fails: the handler writes
\* nothing, so the client gets the implicit 200 of net/http, or the status of
\* an error response whose body could not be read.
UpstreamFails(r) ==
    /\ Goto(r, "upstream", "done")
    /\ \E code \in {502} \cup Statuses : Answer(r, code)
    /\ wg' = wg - 1
    /\ UNCHANGED <<status, sinks, shutdown>>

\* The status of a stream is recorded as 200, whatever it was.
UpstreamAnswers(r, code) ==
    /\ Goto(r, "upstream", "respond")
    /\ Answer(r, code)
    /\ \E recorded \in {code, 200} : status' = [status EXCEPT ![r] = recorded]
    /\ UNCHANGED <<wg, sinks, shutdown>>

\* Mutant: the live event is sent before the row is written.
RespondAndPublish(r) ==
    /\ Goto(r, "respond", "save")
    /\ published' = published \cup {r}
    /\ UNCHANGED <<answer, status, wg, stored, lost, active, shutdown>>

\* The OnResponse hooks run, the goroutine is started, the handler returns.
Respond(r) ==
    /\ Goto(r, "respond", "save")
    /\ UNCHANGED <<answer, status, wg, sinks, shutdown>>

-----------------------------------------------------------------------------
(* The goroutine                                                           *)

\* Mutant: SaveRequest is repeated until it succeeds.
SaveWithRetry(r) ==
    /\ Goto(r, "save", "record")
    /\ storeOpen
    /\ stored' = [stored EXCEPT ![r] = status[r]]
    /\ UNCHANGED <<answer, status, wg, lost, published, active, shutdown>>

\* SaveRequest may fail, and does once the store is closed.
Save(r) ==
    /\ Goto(r, "save", "record")
    /\ \/ /\ storeOpen
          /\ stored' = [stored EXCEPT ![r] = status[r]]
          /\ UNCHANGED lost
       \/ /\ lost' = lost \cup {r}
          /\ UNCHANGED stored
    /\ UNCHANGED <<answer, status, wg, published, active, shutdown>>

\* RecordRequest; the gauge is decremented and nothing increments it.
Record(r) ==
    /\ Goto(r, "record", "publish")
    /\ active' = active - 1
    /\ UNCHANGED <<answer, status, wg, stored, lost, published, shutdown>>

\* Mutant: an explicit wg.Done beside the deferred one.
PublishDoneTwice(r) ==
    /\ Goto(r, "publish", "done")
    /\ published' = published \cup {r}
    /\ wg' = wg - 2
    /\ UNCHANGED <<answer, status, stored, lost, active, shutdown>>

\* broker.Publish and the deferred wg.Done
Publish(r) ==
    /\ Goto(r, "publish", "done")
    /\ published' = published \cup {r}
    /\ wg' = wg - 1
    /\ UNCHANGED <<answer, status, stored, lost, active, shutdown>>

-----------------------------------------------------------------------------
(* Shutdown                                                                *)

\* SIGTERM: server.Shutdown closes the listener.
Signal ==
    /\ server = "serving"
    /\ server' = "stopped"
    /\ drain' = "shutdown"
    /\ UNCHANGED <<request, sinks, storeOpen, expired>>

\* The shutdown timeout runs out.
Expire ==
    /\ Up /\ drain \in {"shutdown", "waiting"}
    /\ ~expired
    /\ expired' = TRUE
    /\ UNCHANGED <<request, sinks, server, storeOpen, drain>>

\* Mutant: Shutdown does not wait for the handlers.
ReturnAtOnce ==
    /\ Up /\ drain = "shutdown"
    /\ drain' = "waiting"
    /\ UNCHANGED <<request, sinks, server, storeOpen, expired>>

\* server.Shutdown returns when no handler holds a connection, or in time.
ShutdownReturns ==
    /\ Up /\ drain = "shutdown"
    /\ expired \/ \A r \in Requests : pc[r] \notin Handling
    /\ drain' = "waiting"
    /\ UNCHANGED <<request, sinks, server, storeOpen, expired>>

\* The select between wg.Wait and the timeout.
WaitReturns ==
    /\ Up /\ drain = "waiting"
    /\ \/ wg = 0 /\ drain' = "completed"
       \/ expired /\ drain' = "gaveUp"
    /\ UNCHANGED <<request, sinks, server, storeOpen, expired>>

\* ListenAndServe has returned ErrServerClosed: main runs its deferred calls.
CloseStore ==
    /\ server = "stopped"
    /\ server' = "closing"
    /\ storeOpen' = FALSE
    /\ UNCHANGED <<request, sinks, drain, expired>>

\* The process ends, and every goroutine with it.
Exit ==
    /\ server = "closing"
    /\ server' = "exited"
    /\ UNCHANGED <<request, sinks, storeOpen, drain, expired>>

\* What the gateway does for r without the client's help.
Serve(r) ==
    \/ \E code \in Verdicts : Refuse(r, code)
    \/ PassHooks(r) \/ RejectKey(r) \/ Route(r)
    \/ UpstreamFails(r) \/ \E code \in Statuses : UpstreamAnswers(r, code)
    \/ Respond(r) \/ Save(r) \/ Record(r) \/ Publish(r)

Drain == Expire \/ ShutdownReturns \/ WaitReturns

Next ==
    \/ \E r \in Requests : Accept(r) \/ BadBody(r) \/ Admit(r) \/ Serve(r)
    \/ Signal \/ Drain
    \/ CloseStore \/ Exit

Spec == Init /\ [][Next]_vars

\* Goroutines are scheduled, upstream calls time out (120 s), clients take
\* their answers or disconnect; nothing bounds the upload of a body, and
\* nothing makes a client, a signal or the end of main come.
FairSpec ==
    /\ Spec
    /\ \A r \in Requests : WF_vars(Serve(r))
    /\ WF_vars(ShutdownReturns) /\ WF_vars(WaitReturns)

-----------------------------------------------------------------------------
Codes == Statuses \cup Verdicts \cup {0, 400, 401, 502}

(* Type invariant of requests, sinks and shutdown; a WaitGroup whose       *)
(* counter is negative panics.                                             *)
TypeOK ==
    /\ pc \in [Requests -> {"idle", "done", "rejected"} \cup Handling \cup Reporting]
    /\ answer \in [Requests -> Codes]
    /\ status \in [Requests -> Codes]
    /\ wg \in Nat
    /\ stored \in [Requests -> Codes]
    /\ lost \subseteq Requests /\ published \subseteq Requests
    /\ active \in Int
    /\ server \in {"serving", "stopped", "closing", "exited"}
    /\ storeOpen \in BOOLEAN
    /\ drain \in {"idle", "shutdown", "waiting", "completed", "gaveUp"}
    /\ expired \in BOOLEAN

Within(places) == {r \in Requests : pc[r] \in places}

(* main.go:409: "WaitGroup to track in-flight requests": the counter is    *)
(* the number of requests between wg.Add and their last sink.              *)
InFlightCounted == wg = Cardinality(Within(InFlight))

(* A rejected key is the only leak: over every other return, and over the  *)
(* hand-over from the handler to its goroutine, the counter is exact, so   *)
(* wg.Wait never returns while a request is in flight.                     *)
OnlyRejectsLeak == wg = Cardinality(Within(Uncleared))

(* When the drain reports "all in-flight requests completed" in time, no   *)
(* handler runs and no row or event is pending, and none will be.          *)
DrainedIsDone ==
    drain = "completed" /\ ~expired => Within(Handling \cup Reporting) = {}

(* A request announced to the live view has been written before, unless    *)
(* writing it failed: the view never links to a row still to come.         *)
PublishedIsReadable == \A r \in published : stored[r] # 0 \/ r \in lost

(* A request that passed wg.Add reaches the end of its handler and of its  *)
(* goroutine, unless the process ends first.                               *)
Finishes == \A r \in Requests :
    pc[r] \in InFlight ~> pc[r] \in {"done", "rejected"} \/ ~Up

(* Without a timeout the drain ends by itself once the handlers are gone,  *)
(* unless a key was rejected: no other path leaves the counter above zero. *)
DrainCompletes == drain = "waiting" ~>
    drain = "completed" \/ expired \/ ~Up \/ Within({"rejected"}) # {}

(* main.go:657, 662: "drain existing ones", "Wait for in-flight requests   *)
(* to complete (with remaining timeout)": the process does not end after a *)
(* signal while a request is in flight and time remains.                   *)
ExitsDrained == ~Up /\ ~expired => Within(InFlight) = {}
=============================================================================
