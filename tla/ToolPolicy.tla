------------------------------ MODULE ToolPolicy ----------------------------
(***************************************************************************)
(* The tool policy (internal/plugins/toolpolicy.go) and the follow-up loop *)
(* of the proxy (internal/proxy/proxy.go).  An upstream answer that uses a *)
(* blocked tool is kept from the client: the proxy tells the model which   *)
(* tools are blocked and asks again, a bounded number of times.  IsBlocked *)
(* reads three fields one after the other; ReloadConfig rewrites them      *)
(* statement by statement, and neither holds a lock.                       *)
(***************************************************************************)
EXTENDS Integers, Sequences, Functions

CONSTANTS
    Handlers,       \* goroutines that serve chat requests
    Admins,         \* goroutines that serve PUT /config/tool-policy
    Tools,          \* lowercased tool names
    Answers,        \* the tool_use lists the upstream may answer with
    Kinds,          \* the kinds of request that arrive, see AllKinds
    Policies,       \* what admins install
    InitialPolicy,  \* the policy of the configuration file
    Budget          \* follow-ups per request, 3 in the code

\* "stream" asks for SSE; "opaque" does too, with a body that holds no list of
\* messages a follow-up could extend; "plain" asks for one JSON document.
AllKinds == {"stream", "opaque", "plain"}

Policy == [blocked : SUBSET Tools, allowed : SUBSET Tools]

ASSUME ToolPolicyAssumption ==
    /\ Answers \subseteq Seq(Tools)
    /\ Kinds \subseteq AllKinds
    /\ Policies \subseteq Policy /\ InitialPolicy \in Policy
    /\ Budget \in Nat

VARIABLES
    blockedTools, allowedTools, mode,   \* the fields of the plugin
    reload,     \* reload[a]: where a's ReloadConfig is, names still to insert
    req,        \* req[h]: where the handler is, and what it works on
    thrown,     \* the runtime has stopped the process
    steady,     \* history: handlers whose answer no reload step has disturbed
    last        \* history: the policy installed by itself, none after an overlap

fields == <<blockedTools, allowedTools, mode>>
vars == <<fields, reload, req, thrown, steady, last>>

ModeFor(p) == IF p.allowed # {} THEN "allowlist" ELSE "blocklist"

Init ==
    /\ blockedTools = InitialPolicy.blocked
    /\ allowedTools = InitialPolicy.allowed
    /\ mode = ModeFor(InitialPolicy)
    /\ reload = [a \in Admins |->
                    [at |-> "idle", blocked |-> {}, allowed |-> {}]]
    /\ req = [h \in Handlers |->
                    [at |-> "idle", kind |-> "stream", budget |-> 0,
                     answer |-> <<>>, todo |-> <<>>, read |-> "allowed",
                     told |-> {}, delivered |-> FALSE]]
    /\ thrown = FALSE
    /\ steady = {}
    /\ last = {InitialPolicy}

\* What IsBlocked(t) returns to a caller that is alone.
IsBlocked(t) ==
    t \notin allowedTools /\ (t \in blockedTools \/ mode = "allowlist")

-----------------------------------------------------------------------------
(* ReloadConfig                                                            *)

Running == ~thrown /\ UNCHANGED thrown
Reloading(a) == reload[a].at # "idle"

\* a goes on from one statement to another.
At(a, from, to) ==
    /\ reload[a].at = from
    /\ reload' = [reload EXCEPT ![a].at = to]
    /\ steady' = {}
    /\ Running /\ UNCHANGED req

\* A PUT arrives and its policy p is parsed.
Put(a, p) ==
    /\ ~Reloading(a)
    /\ reload' = [reload EXCEPT ![a] =
                    [at |-> "blocked", blocked |-> p.blocked, allowed |-> p.allowed]]
    /\ last' = IF \E b \in Admins : Reloading(b) THEN {} ELSE {p}
    /\ Running /\ UNCHANGED <<fields, req, steady>>

NewBlocked(a) ==
    /\ At(a, "blocked", "fill blocked")
    /\ blockedTools' = {}
    /\ UNCHANGED <<allowedTools, mode, last>>

FillBlocked(a) ==
    /\ reload[a].at = "fill blocked"
    /\ \E t \in reload[a].blocked :
          /\ reload' = [reload EXCEPT ![a].blocked = @ \ {t}]
          /\ blockedTools' = blockedTools \cup {t}
    /\ steady' = {}
    /\ Running /\ UNCHANGED <<allowedTools, mode, req, last>>

\* Mutant: the old allowed names are kept.
NewAllowedKeeping(a) ==
    /\ reload[a].blocked = {}
    /\ At(a, "fill blocked", "mode")
    /\ UNCHANGED <<fields, last>>

NewAllowed(a) ==
    /\ reload[a].blocked = {}
    /\ At(a, "fill blocked", "mode")
    /\ allowedTools' = {}
    /\ UNCHANGED <<blockedTools, mode, last>>

\* Mutant: the mode is only ever set, never reset.
ResetModeNever(a) ==
    /\ At(a, "mode", IF reload[a].allowed = {} THEN "idle" ELSE "allowlist")
    /\ UNCHANGED <<fields, last>>

ResetMode(a) ==
    /\ At(a, "mode", IF reload[a].allowed = {} THEN "idle" ELSE "allowlist")
    /\ mode' = "blocklist"
    /\ UNCHANGED <<blockedTools, allowedTools, last>>

SetAllowlist(a) ==
    /\ At(a, "allowlist", "fill allowed")
    /\ mode' = "allowlist"
    /\ UNCHANGED <<blockedTools, allowedTools, last>>

\* ReloadConfig returns with the last insertion.
FillAllowed(a) ==
    /\ reload[a].at = "fill allowed"
    /\ \E t \in reload[a].allowed :
          /\ reload' = [reload EXCEPT
                  ![a].at = IF reload[a].allowed = {t} THEN "idle" ELSE @,
                  ![a].allowed = @ \ {t}]
          /\ allowedTools' = allowedTools \cup {t}
    /\ steady' = {}
    /\ Running /\ UNCHANGED <<blockedTools, mode, req, last>>

Reload(a) ==
    \/ NewBlocked(a) \/ FillBlocked(a) \/ NewAllowed(a)
    \/ ResetMode(a) \/ SetAllowlist(a) \/ FillAllowed(a)

-----------------------------------------------------------------------------
(* handleRequestStream and buildFollowUpRequest                            *)

\* No reload step, in a process that is alive.
Quiet == Running /\ UNCHANGED <<fields, reload, last>>

\* A request of kind k reaches the proxy.
Receive(h, k) ==
    /\ req[h].at \in {"idle", "done"}
    /\ req' = [req EXCEPT ![h].at = "upstream", ![h].kind = k,
                          ![h].budget = Budget, ![h].answer = <<>>,
                          ![h].delivered = FALSE]
    /\ Quiet /\ UNCHANGED steady

\* The upstream fails or times out; its error, if any, is passed on.
UpstreamFails(h) ==
    /\ req[h].at = "upstream"
    /\ req' = [req EXCEPT ![h].at = "done", ![h].answer = <<>>, ![h].told = {}]
    /\ Quiet /\ UNCHANGED steady

\* HandleRequest never asks the policy, nor does an exhausted budget.
Unchecked(h) == req[h].kind = "plain" \/ req[h].budget = 0

\* The complete answer is buffered before anything is decided.
UpstreamAnswers(h, tools) ==
    /\ req[h].at = "upstream"
    /\ req' = [req EXCEPT ![h].at = IF Unchecked(h) THEN "forward" ELSE "scan",
                          ![h].told = {}, ![h].answer = tools, ![h].todo = tools,
                          ![h].read = "allowed"]
    /\ steady' = IF \E a \in Admins : Reloading(a)
                 THEN steady \ {h} ELSE steady \cup {h}
    /\ Quiet

\* Scanned through without a hit, or past checking.
Deliver(h) ==
    /\ \/ req[h].at = "forward"
       \/ req[h].at = "scan" /\ req[h].todo = <<>>
    /\ req' = [req EXCEPT ![h].at = "done", ![h].todo = <<>>, ![h].read = "allowed",
                          ![h].told = {}, ![h].delivered = TRUE]
    /\ Quiet /\ UNCHANGED steady

Deciding(h) == req[h].at \in {"scan", "build"} /\ req[h].todo # <<>>
Tool(h) == Head(req[h].todo)

\* The next tool of the list, from the first of the three reads.
Onward(h) == [req[h] EXCEPT !.todo = Tail(@), !.read = "allowed"]

\* Mutant: the follow-up explains nothing but the tool that stopped the scan.
VerdictOfOne(h, b) ==
    req' = [req EXCEPT ![h] =
              IF req[h].at = "scan" /\ b
              THEN [req[h] EXCEPT !.at = "build", !.todo = <<>>, !.told = {Tool(h)}]
              ELSE Onward(h)]

\* IsBlocked returns b: the scan stops at the first blocked tool and builds a
\* follow-up, which asks about every tool again.
Verdict(h, b) ==
    req' = [req EXCEPT ![h] =
              CASE req[h].at = "scan" /\ ~b -> Onward(h)
                [] req[h].at = "scan" /\ b ->
                     IF req[h].kind = "opaque"
                     THEN [req[h] EXCEPT !.at = "forward"]
                     ELSE [req[h] EXCEPT !.at = "build", !.todo = req[h].answer,
                                         !.read = "allowed"]
                [] req[h].at = "build" ->
                     [Onward(h) EXCEPT !.told = IF b THEN @ \cup {Tool(h)} ELSE @]]

\* One of the three reads of IsBlocked; a hit ends it with the verdict b.
Read(h, field, hit, b, next) ==
    /\ Deciding(h) /\ req[h].read = field
    /\ IF hit THEN Verdict(h, b)
       ELSE IF next = "" THEN Verdict(h, ~b)
       ELSE req' = [req EXCEPT ![h].read = next]
    /\ Quiet /\ UNCHANGED steady

\* Mutant: a tool that is not listed is not blocked, whatever the mode.
ReadBlockedOnly(h) == Read(h, "blocked", Tool(h) \in blockedTools, TRUE, "")

ReadAllowed(h) == Read(h, "allowed", Tool(h) \in allowedTools, FALSE, "blocked")
ReadBlocked(h) == Read(h, "blocked", Tool(h) \in blockedTools, TRUE, "mode")
ReadMode(h)    == Read(h, "mode", mode = "allowlist", TRUE, "")

\* Mutant: the follow-up gets the whole budget again.
FollowUpForFree(h) ==
    /\ req[h].at = "build" /\ req[h].todo = <<>>
    /\ req' = [req EXCEPT ![h].at = "upstream"]
    /\ Quiet /\ UNCHANGED steady

\* The recursive call, with the model told about the blocked tools.
FollowUp(h) ==
    /\ req[h].at = "build" /\ req[h].todo = <<>>
    /\ req' = [req EXCEPT ![h].at = "upstream", ![h].budget = @ - 1]
    /\ Quiet /\ UNCHANGED steady

-----------------------------------------------------------------------------
(* Go stops a process that it sees read a map, or write it, during a write *)

\* a is about to insert into the blocked or the allowed names.
Inserting(a, field) ==
    /\ reload[a].at = "fill " \o field
    /\ reload[a][field] # {}

Throw ==
    /\ \E a \in Admins, field \in {"blocked", "allowed"} :
          /\ Inserting(a, field)
          /\ \/ \E h \in Handlers : Deciding(h) /\ req[h].read = field
             \/ \E b \in Admins \ {a} : Inserting(b, field)
    /\ ~thrown /\ thrown' = TRUE
    /\ UNCHANGED <<fields, reload, req, steady, last>>

\* The steps of h that need nobody but the upstream.
Serve(h) ==
    \/ UpstreamFails(h) \/ \E tools \in Answers : UpstreamAnswers(h, tools)
    \/ ReadAllowed(h) \/ ReadBlocked(h) \/ ReadMode(h)
    \/ FollowUp(h) \/ Deliver(h)

Next ==
    \/ \E a \in Admins : Reload(a) \/ \E p \in Policies : Put(a, p)
    \/ \E h \in Handlers : Serve(h) \/ \E k \in Kinds : Receive(h, k)
    \/ Throw

Spec == Init /\ [][Next]_vars

\* Every goroutine that can run is run; the upstream answers within the
\* 120 seconds of the HTTP client or the call fails.
FairSpec == Spec /\ \A h \in Handlers : WF_vars(Serve(h))

-----------------------------------------------------------------------------
(* Properties                                                              *)

TypeOK ==
    /\ blockedTools \subseteq Tools /\ allowedTools \subseteq Tools
    /\ mode \in {"blocklist", "allowlist"}
    /\ reload \in [Admins -> [at : {"idle", "blocked", "fill blocked", "mode",
                                    "allowlist", "fill allowed"},
                              blocked : SUBSET Tools, allowed : SUBSET Tools]]
    /\ req \in [Handlers -> [at : {"idle", "upstream", "scan", "build", "forward", "done"},
                             kind : AllKinds, budget : 0 .. Budget,
                             answer : Seq(Tools), todo : Seq(Tools),
                             read : {"allowed", "blocked", "mode"},
                             told : SUBSET Tools, delivered : BOOLEAN]]
    /\ thrown \in BOOLEAN
    /\ steady \subseteq Handlers
    /\ last \subseteq Policy

\* An answer that a streaming request delivers under a policy that stood still
\* since it arrived uses no blocked tool, unless the budget is exhausted:
\* toolpolicy.go:17 "The client never sees the blocked tool_use."
Shielded ==
    \A h \in steady :
        (req[h].at = "done" /\ req[h].delivered /\ req[h].kind = "stream"
            /\ req[h].budget > 0)
        => \A t \in Range(req[h].answer) : ~IsBlocked(t)

\* A follow-up names every blocked tool of the answer it continues and no
\* other; in particular it is never sent without a reason (proxy.go:399-410).
FollowUpExplains ==
    \A h \in steady :
        (req[h].at = "upstream" /\ req[h].budget < Budget)
        => /\ req[h].told = {t \in Range(req[h].answer) : IsBlocked(t)}
           /\ req[h].told # {}

\* However reloads overlap, they never settle on an allowlist without names,
\* which would block every tool (toolpolicy.go:70-76).
NeverLockedOut ==
    (\A a \in Admins : ~Reloading(a)) =>
        (mode = "allowlist" => allowedTools # {})

\* Reloads that do not overlap leave exactly the last policy behind, whatever
\* was in force before, and those that do never settle on an empty allowlist
\* (toolpolicy.go:66-77).
ReloadExact ==
    NeverLockedOut /\ ((\A a \in Admins : ~Reloading(a)) =>
        \A p \in last : /\ blockedTools = p.blocked
                         /\ allowedTools = p.allowed
                         /\ mode = ModeFor(p))

\* A request is answered even if the model insists on blocked tools: the
\* budget bounds the follow-ups (proxy.go:274-275).
Ends == \A h \in Handlers :
            (req[h].at = "upstream") ~> (req[h].at = "done" \/ thrown)

\* toolpolicy.go:17 "The client never sees the blocked tool_use": a tool that
\* every policy blocks is not delivered while the budget lasts.  Violated when
\* IsBlocked reads the fields between two statements of ReloadConfig.
AlwaysBlockedNeverSeen ==
    \A h \in Handlers :
        (req[h].at = "done" /\ req[h].delivered /\ req[h].kind # "opaque"
            /\ req[h].budget > 0)
        => \A t \in Range(req[h].answer) :
              \E p \in Policies \cup {InitialPolicy} :
                  t \in p.allowed \/ (t \notin p.blocked /\ p.allowed = {})

=============================================================================
