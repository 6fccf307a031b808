---------------------------- MODULE AnswerProofs ----------------------------
(***************************************************************************)
(* Proofs about what becomes of an answer: which tools reach the client    *)
(* (ToolPolicy), how a stream is collected (StreamCollect), and how it is  *)
(* translated (Translate).                                                 *)
(***************************************************************************)
EXTENDS ToolPolicy, StreamCollect, Translate, Aggregates, SequenceTheorems

-----------------------------------------------------------------------------
(***************************************************************************)
(* Proofs about ToolPolicy, for any tools, answers, policies, budget and   *)
(* any number of handlers and admins.  While no reload disturbs a handler  *)
(* (it is steady), whatever it has read of the policy is still so, the     *)
(* tools it has passed are not blocked and those it has told the model     *)
(* about are.  A reload that is alone has done a prefix of its statements. *)
(***************************************************************************)

Req == [at : {"idle", "upstream", "scan", "build", "forward", "done"},
        kind : AllKinds, budget : 0 .. Budget, answer : Seq(Tools), todo : Seq(Tools),
        read : {"allowed", "blocked", "mode"}, told : SUBSET Tools, delivered : BOOLEAN]

BlockedOf(r) == {t \in Range(r.answer) : IsBlocked(t)}

\* What is checked has a budget; what is forwarded unchecked needs no check.
Budgeted(r) ==
    /\ r.at \in {"scan", "build"} => r.budget > 0
    /\ r.at = "forward" => r.kind # "stream" \/ r.budget = 0

\* The tool at hand is not where IsBlocked has looked for it.
HalfRead(r) ==
    r.at \in {"scan", "build"} /\ r.todo # <<>> =>
        /\ r.read # "allowed" => Head(r.todo) \notin allowedTools
        /\ r.read = "mode" => Head(r.todo) \notin blockedTools
Asked(r) == r.at \in {"scan", "build"} => Range(r.todo) \subseteq Range(r.answer)
Scanned(r) == r.at = "scan" => r.told = {} /\ BlockedOf(r) \subseteq Range(r.todo)
Explained(r) ==
    r.at = "build" => /\ r.told \subseteq BlockedOf(r) /\ BlockedOf(r) # {}
                      /\ BlockedOf(r) \subseteq r.told \cup Range(r.todo)
Told(r) == r.at = "upstream" /\ r.budget < Budget => r.told = BlockedOf(r) /\ r.told # {}
Passed(r) ==
    r.at = "done" /\ r.delivered /\ r.kind = "stream" /\ r.budget > 0 => BlockedOf(r) = {}

Undisturbed(r) ==
    HalfRead(r) /\ Asked(r) /\ Scanned(r) /\ Explained(r) /\ Told(r) /\ Passed(r)

AllBudgeted == \A h \in Handlers : Budgeted(req[h])
SteadyOnes == \A h \in steady : Undisturbed(req[h])
HandlerInv == AllBudgeted /\ SteadyOnes

\* How far a reload that is alone has come.
Progress(a, p) ==
    LET r == reload[a] IN
    /\ r.at = "blocked" => r.blocked = p.blocked
    /\ r.at \in {"blocked", "fill blocked", "mode", "allowlist"} => r.allowed = p.allowed
    /\ r.at = "fill blocked" => blockedTools \cup r.blocked = p.blocked
    /\ r.at \in {"mode", "allowlist", "fill allowed"} => blockedTools = p.blocked
    /\ r.at \in {"mode", "allowlist"} => allowedTools = {}
    /\ r.at = "fill allowed" => mode = "allowlist" /\ allowedTools \cup r.allowed = p.allowed
Installed(p) == blockedTools = p.blocked /\ allowedTools = p.allowed /\ mode = ModeFor(p)

Alone == last # {} => \A a, b \in Admins : Reloading(a) /\ Reloading(b) => a = b
Prefix == \A p \in last, a \in Admins : Reloading(a) => Progress(a, p)
Whole == (\A a \in Admins : ~Reloading(a)) => \A p \in last : Installed(p)
HasNames == \A a \in Admins : reload[a].at \in {"allowlist", "fill allowed"} => reload[a].allowed # {}
NotEmpty == mode = "allowlist" /\ allowedTools = {} =>
                \E a \in Admins : reload[a].at \in {"mode", "fill allowed"}
ReloadInv == Alone /\ Prefix /\ Whole /\ HasNames /\ NotEmpty

PolicyInv == TypeOK /\ HandlerInv /\ ReloadInv

-----------------------------------------------------------------------------
(* Lists of tools                                                          *)

LEMMA HeadAndTail ==
    ASSUME NEW s \in Seq(Tools), s # <<>>
    PROVE  /\ Head(s) \in Range(s) /\ Head(s) \in Tools /\ Tail(s) \in Seq(Tools)
           /\ Range(s) = Range(Tail(s)) \cup {Head(s)}
<1>1. Len(s) > 0 /\ Head(s) = s[1] /\ s[1] \in Tools /\ Tail(s) \in Seq(Tools)
  OBVIOUS
<1>2. Len(Tail(s)) = Len(s) - 1 /\ \A i \in 1 .. Len(s) - 1 : Tail(s)[i] = s[i + 1]
  OBVIOUS
<1>3. Head(s) \in Range(s)
  BY <1>1 DEF Range
<1>4. ASSUME NEW i \in 1 .. Len(s), i # 1 PROVE s[i] \in Range(Tail(s))
  <2>1. i - 1 \in 1 .. Len(s) - 1 /\ s[i] = Tail(s)[i - 1]
    BY <1>2, <1>4
  <2>2. i - 1 \in DOMAIN Tail(s)
    BY <1>1, <1>2, <2>1
  <2> QED BY <2>1, <2>2 DEF Range
<1>5. Range(Tail(s)) \subseteq Range(s)
  <2> SUFFICES ASSUME NEW i \in 1 .. Len(s) - 1 PROVE Tail(s)[i] \in Range(s)
    BY <1>1, <1>2 DEF Range
  <2>1. i + 1 \in 1 .. Len(s) /\ Tail(s)[i] = s[i + 1]
    BY <1>2
  <2> QED BY <2>1 DEF Range
<1>6. \A t \in Range(s) : t = Head(s) \/ t \in Range(Tail(s))
  BY <1>1, <1>4 DEF Range
<1> QED BY <1>1, <1>3, <1>5, <1>6

LEMMA EmptyList == Range(<<>>) = {} /\ <<>> \in Seq(Tools)
BY DEF Range

-----------------------------------------------------------------------------
(* The handlers                                                            *)

\* A step of h is right for all handlers if it is for h.
LEMMA HandlerStep ==
    ASSUME PolicyInv, NEW h \in Handlers, UNCHANGED <<fields, reload, thrown, last>>,
           NEW r \in Req, req' = [req EXCEPT ![h] = r],
           steady' \subseteq steady \cup {h}, Budgeted(r), h \in steady' => Undisturbed(r)
    PROVE  PolicyInv'
<1>1. req'[h] = r /\ \A g \in Handlers \ {h} : req'[g] = req[g]
  BY DEF PolicyInv, TypeOK
<1>2. TypeOK'
  BY DEF PolicyInv, TypeOK, Req, fields
<1>3. AllBudgeted'
  BY <1>1 DEF PolicyInv, HandlerInv, AllBudgeted, Budgeted
<1>4. \A q : Undisturbed(q) => Undisturbed(q)'
  BY DEF Undisturbed, HalfRead, Asked, Scanned, Explained, Told, Passed, BlockedOf, IsBlocked, fields
<1>6. SteadyOnes'
  <2> SUFFICES ASSUME NEW g \in steady' PROVE Undisturbed(req[g])'
    BY DEF SteadyOnes
  <2>1. PICK q : req'[g] = q /\ Undisturbed(q)
    <3>1. CASE g = h
      BY <3>1, <1>1
    <3>2. CASE g # h
      BY <3>2, <1>1 DEF PolicyInv, TypeOK, HandlerInv, SteadyOnes
    <3> QED BY <3>1, <3>2
  <2> QED BY <2>1, <1>4 DEF Undisturbed, HalfRead, Asked, Scanned, Explained, Told, Passed,
                            BlockedOf, IsBlocked, fields
<1>7. ReloadInv'
  BY DEF PolicyInv, ReloadInv, Alone, Prefix, Progress, Whole, Installed, HasNames, NotEmpty,
         Reloading, fields
<1> QED BY <1>2, <1>3, <1>6, <1>7 DEF PolicyInv, HandlerInv

\* Handlers as seen by the others: a record with some fields replaced.
LEMMA ReceiveInv ==
    ASSUME PolicyInv, NEW h \in Handlers, NEW k \in Kinds, Receive(h, k)
    PROVE  PolicyInv'
<1> DEFINE r == [req[h] EXCEPT !.at = "upstream", !.kind = k, !.budget = Budget,
                               !.answer = <<>>, !.delivered = FALSE]
<1>1. req[h] \in Req
  BY DEF PolicyInv, TypeOK, Req
<1>2. r \in Req /\ r.at = "upstream" /\ r.budget = Budget
  <2>1. Budget \in 0 .. Budget /\ k \in AllKinds
    BY ToolPolicyAssumption
  <2> QED BY <1>1, <2>1, EmptyList DEF Req
<1>3. req' = [req EXCEPT ![h] = r] /\ UNCHANGED <<fields, reload, thrown, last, steady>>
  BY <1>1 DEF Receive, Quiet, Running
<1>4. Budgeted(r) /\ Undisturbed(r)
  BY <1>2, ToolPolicyAssumption
     DEF Budgeted, Undisturbed, HalfRead, Asked, Scanned, Explained, Told, Passed
<1> HIDE DEF r
<1> QED BY <1>2, <1>3, <1>4, HandlerStep

LEMMA UpstreamFailsInv ==
    ASSUME PolicyInv, NEW h \in Handlers, UpstreamFails(h)
    PROVE  PolicyInv'
<1> DEFINE r == [req[h] EXCEPT !.at = "done", !.answer = <<>>, !.told = {}]
<1>1. req[h] \in Req
  BY DEF PolicyInv, TypeOK, Req
<1>2. r \in Req /\ r.at = "done" /\ r.answer = <<>>
  BY <1>1, EmptyList DEF Req
<1>3. req' = [req EXCEPT ![h] = r] /\ UNCHANGED <<fields, reload, thrown, last, steady>>
  BY <1>1 DEF UpstreamFails, Quiet, Running
<1>4. Budgeted(r) /\ Undisturbed(r)
  BY <1>2, EmptyList
     DEF Budgeted, Undisturbed, HalfRead, Asked, Scanned, Explained, Told, Passed, BlockedOf
<1> HIDE DEF r
<1> QED BY <1>2, <1>3, <1>4, HandlerStep

\* A scan begins with nothing read and every tool to come.
LEMMA UpstreamAnswersInv ==
    ASSUME PolicyInv, NEW h \in Handlers, NEW tools \in Answers, UpstreamAnswers(h, tools)
    PROVE  PolicyInv'
<1> DEFINE r == [req[h] EXCEPT !.at = IF Unchecked(h) THEN "forward" ELSE "scan",
                               !.told = {}, !.answer = tools, !.todo = tools, !.read = "allowed"]
<1>1. req[h] \in Req /\ tools \in Seq(Tools)
  BY ToolPolicyAssumption DEF PolicyInv, TypeOK, Req
<1>2. /\ r \in Req /\ r.at = (IF Unchecked(h) THEN "forward" ELSE "scan") /\ r.told = {}
      /\ r.answer = tools /\ r.todo = tools /\ r.read = "allowed"
      /\ r.kind = req[h].kind /\ r.budget = req[h].budget
  BY <1>1 DEF Req
<1>3. req' = [req EXCEPT ![h] = r] /\ UNCHANGED <<fields, reload, thrown, last>>
  BY <1>1 DEF UpstreamAnswers, Quiet, Running
<1>4. steady' \subseteq steady \cup {h}
  BY DEF UpstreamAnswers
<1>5. Budgeted(r)
  BY <1>1, <1>2, ToolPolicyAssumption DEF Budgeted, Unchecked, Req, AllKinds
<1>6. Undisturbed(r)
  BY <1>2 DEF Undisturbed, HalfRead, Asked, Scanned, Explained, Told, Passed, BlockedOf
<1> HIDE DEF r
<1> QED BY <1>2, <1>3, <1>4, <1>5, <1>6, HandlerStep

\* A stream that is delivered was scanned to its end, or its budget was exhausted.
LEMMA DeliverInv ==
    ASSUME PolicyInv, NEW h \in Handlers, Deliver(h)
    PROVE  PolicyInv'
<1> DEFINE r == [req[h] EXCEPT !.at = "done", !.todo = <<>>, !.read = "allowed", !.told = {},
                               !.delivered = TRUE]
<1>1. req[h] \in Req
  BY DEF PolicyInv, TypeOK, Req
<1>2. /\ r \in Req /\ r.at = "done" /\ r.answer = req[h].answer
      /\ r.kind = req[h].kind /\ r.budget = req[h].budget
  BY <1>1, EmptyList DEF Req
<1>3. req' = [req EXCEPT ![h] = r] /\ UNCHANGED <<fields, reload, thrown, last, steady>>
  BY <1>1 DEF Deliver, Quiet, Running
<1>4. ASSUME h \in steady, r.kind = "stream", r.budget > 0 PROVE BlockedOf(r) = {}
  <2>1. req[h].at = "scan" /\ req[h].todo = <<>>
    BY <1>1, <1>2, <1>4 DEF Deliver, PolicyInv, HandlerInv, AllBudgeted, Budgeted, Req
  <2>2. BlockedOf(req[h]) \subseteq Range(<<>>)
    BY <2>1, <1>4 DEF PolicyInv, HandlerInv, SteadyOnes, Undisturbed, Scanned
  <2> QED BY <2>2, <1>2, EmptyList DEF BlockedOf
<1>5. Budgeted(r) /\ (h \in steady' => Undisturbed(r))
  BY <1>2, <1>3, <1>4
     DEF Budgeted, Undisturbed, HalfRead, Asked, Scanned, Explained, Told, Passed
<1> HIDE DEF r
<1> QED BY <1>2, <1>3, <1>5, HandlerStep

\* The follow-up has told the model exactly what is blocked.
LEMMA FollowUpInv ==
    ASSUME PolicyInv, NEW h \in Handlers, FollowUp(h)
    PROVE  PolicyInv'
<1> DEFINE r == [req[h] EXCEPT !.at = "upstream", !.budget = @ - 1]
<1>1. req[h] \in Req /\ req[h].budget > 0
  BY DEF PolicyInv, TypeOK, Req, HandlerInv, AllBudgeted, Budgeted, FollowUp
<1>2. /\ r \in Req /\ r.at = "upstream" /\ r.answer = req[h].answer /\ r.told = req[h].told
  <2>1. req[h].budget - 1 \in 0 .. Budget
    BY <1>1, ToolPolicyAssumption DEF Req
  <2> QED BY <1>1, <2>1 DEF Req
<1>3. req' = [req EXCEPT ![h] = r] /\ UNCHANGED <<fields, reload, thrown, last, steady>>
  BY <1>1 DEF FollowUp, Quiet, Running
<1>4. ASSUME h \in steady PROVE r.told = BlockedOf(r) /\ r.told # {}
  <2>1. Explained(req[h]) /\ req[h].at = "build" /\ req[h].todo = <<>>
    BY <1>4 DEF FollowUp, PolicyInv, HandlerInv, SteadyOnes, Undisturbed
  <2>2. BlockedOf(r) = BlockedOf(req[h])
    BY <1>2 DEF BlockedOf
  <2>3. Range(req[h].todo) = {}
    BY <2>1, EmptyList
  <2>4. req[h].told = BlockedOf(req[h]) /\ BlockedOf(req[h]) # {}
    BY <2>1, <2>3 DEF Explained
  <2> QED BY <2>2, <2>4, <1>2
<1>5. Budgeted(r) /\ (h \in steady' => Undisturbed(r))
  BY <1>2, <1>3, <1>4
     DEF Budgeted, Undisturbed, HalfRead, Asked, Scanned, Explained, Told, Passed
<1> HIDE DEF r
<1> QED BY <1>2, <1>3, <1>5, HandlerStep

-----------------------------------------------------------------------------
(* IsBlocked                                                               *)

\* A verdict that agrees with the policy keeps a handler right.
LEMMA VerdictInv ==
    ASSUME PolicyInv, NEW h \in Handlers, NEW b \in BOOLEAN, Deciding(h), Verdict(h, b),
           UNCHANGED <<fields, reload, thrown, last, steady>>,
           h \in steady => (b <=> IsBlocked(Tool(h)))
    PROVE  PolicyInv'
<1> DEFINE q == req[h]
<1>1. q \in Req /\ q.todo # <<>> /\ q.todo \in Seq(Tools) /\ Tool(h) = Head(q.todo)
  BY DEF PolicyInv, TypeOK, Req, Deciding, Tool
<1>2. /\ Tool(h) \in Range(q.todo) /\ Tool(h) \in Tools /\ Tail(q.todo) \in Seq(Tools)
      /\ Range(q.todo) = Range(Tail(q.todo)) \cup {Tool(h)}
  BY <1>1, HeadAndTail
<1>3. Budgeted(q) /\ (h \in steady => Undisturbed(q))
  BY DEF PolicyInv, HandlerInv, AllBudgeted, SteadyOnes
<1> HIDE DEF q
<1>4. CASE q.at = "scan" /\ ~b
  <2> DEFINE r == [q EXCEPT !.todo = Tail(@), !.read = "allowed"]
  <2>1. /\ r \in Req /\ r.at = "scan" /\ r.todo = Tail(q.todo) /\ r.read = "allowed"
        /\ r.answer = q.answer /\ r.told = q.told /\ r.budget = q.budget
    BY <1>1, <1>2, <1>4 DEF Req
  <2>2. req' = [req EXCEPT ![h] = r]
    BY <1>4 DEF Verdict, Onward, q
  <2>3. Budgeted(r)
    BY <1>3, <1>4, <2>1 DEF Budgeted
  <2>4. BlockedOf(r) = BlockedOf(q)
    BY <2>1 DEF BlockedOf
  <2>5. h \in steady => Undisturbed(r)
    BY <1>2, <1>3, <1>4, <2>1, <2>4
       DEF Undisturbed, HalfRead, Asked, Scanned, Explained, Told, Passed, BlockedOf
  <2> HIDE DEF r
  <2> QED BY <2>1, <2>2, <2>3, <2>5, HandlerStep
<1>5. CASE q.at = "scan" /\ b /\ q.kind = "opaque"
  <2> DEFINE r == [q EXCEPT !.at = "forward"]
  <2>1. r \in Req /\ r.at = "forward" /\ r.kind = "opaque"
    BY <1>1, <1>5 DEF Req
  <2>2. req' = [req EXCEPT ![h] = r]
    BY <1>5 DEF Verdict, q
  <2>3. Budgeted(r) /\ Undisturbed(r)
    BY <2>1 DEF Budgeted, Undisturbed, HalfRead, Asked, Scanned, Explained, Told, Passed
  <2> HIDE DEF r
  <2> QED BY <2>1, <2>2, <2>3, HandlerStep
<1>6. CASE q.at = "scan" /\ b /\ q.kind # "opaque"
  <2> DEFINE r == [q EXCEPT !.at = "build", !.todo = q.answer, !.read = "allowed"]
  <2>1. /\ r \in Req /\ r.at = "build" /\ r.todo = q.answer /\ r.read = "allowed"
        /\ r.answer = q.answer /\ r.told = q.told /\ r.budget = q.budget
    BY <1>1, <1>6 DEF Req
  <2>2. req' = [req EXCEPT ![h] = r]
    BY <1>6 DEF Verdict, q
  <2>3. Budgeted(r)
    BY <1>3, <1>6, <2>1 DEF Budgeted
  <2>4. ASSUME h \in steady PROVE Tool(h) \in BlockedOf(r) /\ q.told = {}
    BY <1>2, <1>3, <1>6, <2>1, <2>4 DEF Undisturbed, Asked, Scanned, BlockedOf
  <2>5. h \in steady => Undisturbed(r)
    BY <2>1, <2>4
       DEF Undisturbed, HalfRead, Asked, Scanned, Explained, Told, Passed, BlockedOf
  <2> HIDE DEF r
  <2> QED BY <2>1, <2>2, <2>3, <2>5, HandlerStep
<1>7. CASE q.at = "build"
  <2> DEFINE named == IF b THEN q.told \cup {Tool(h)} ELSE q.told
  <2> DEFINE r == [[q EXCEPT !.todo = Tail(@), !.read = "allowed"] EXCEPT !.told = named]
  <2>1. /\ r \in Req /\ r.at = "build" /\ r.todo = Tail(q.todo) /\ r.read = "allowed"
        /\ r.answer = q.answer /\ r.told = named /\ r.budget = q.budget
    BY <1>1, <1>2, <1>7 DEF Req
  <2>2. req' = [req EXCEPT ![h] = r]
    BY <1>1, <1>7 DEF Verdict, Onward, q, Req
  <2>3. Budgeted(r)
    BY <1>3, <1>7, <2>1 DEF Budgeted
  <2>4. BlockedOf(r) = BlockedOf(q)
    BY <2>1 DEF BlockedOf
  <2>5. ASSUME h \in steady
        PROVE  /\ named \subseteq BlockedOf(q) /\ BlockedOf(q) # {}
               /\ BlockedOf(q) \subseteq named \cup Range(Tail(q.todo))
               /\ Range(Tail(q.todo)) \subseteq Range(q.answer)
    <3>1. Explained(q) /\ Asked(q) /\ (b <=> IsBlocked(Tool(h)))
      BY <1>3, <2>5 DEF Undisturbed
    <3>2. Tool(h) \in Range(q.answer)
      BY <3>1, <1>2, <1>7 DEF Asked
    <3>3. b <=> Tool(h) \in BlockedOf(q)
      BY <3>1, <3>2 DEF BlockedOf
    <3> QED BY <3>1, <3>2, <3>3, <1>2, <1>7 DEF Explained, Asked
  <2>6. h \in steady => Undisturbed(r)
    BY <2>1, <2>4, <2>5
       DEF Undisturbed, HalfRead, Asked, Scanned, Explained, Told, Passed
  <2> HIDE DEF r
  <2> QED BY <2>1, <2>2, <2>3, <2>6, HandlerStep
<1> QED BY <1>4, <1>5, <1>6, <1>7 DEF Deciding, q

\* One of the three reads; IsBlocked has not found the tool before this one.
LEMMA ReadInv ==
    ASSUME PolicyInv, NEW h \in Handlers, ReadAllowed(h) \/ ReadBlocked(h) \/ ReadMode(h)
    PROVE  PolicyInv'
<1> DEFINE q == req[h]
<1>1. q \in Req /\ Deciding(h) /\ q.at \in {"scan", "build"} /\ q.todo # <<>> /\ Tool(h) = Head(q.todo)
  BY DEF PolicyInv, TypeOK, Req, ReadAllowed, ReadBlocked, ReadMode, Read, Deciding, Tool
<1>2. UNCHANGED <<fields, reload, thrown, last, steady>>
  BY DEF ReadAllowed, ReadBlocked, ReadMode, Read, Quiet, Running
<1>3. Budgeted(q) /\ (h \in steady => Undisturbed(q))
  BY DEF PolicyInv, HandlerInv, AllBudgeted, SteadyOnes
<1>4. h \in steady => /\ q.read # "allowed" => Tool(h) \notin allowedTools
                      /\ q.read = "mode" => Tool(h) \notin blockedTools
  BY <1>1, <1>3 DEF Undisturbed, HalfRead
\* One more read that has not found the tool
<1>5. ASSUME NEW n \in {"blocked", "mode"}, req' = [req EXCEPT ![h].read = n],
             h \in steady => Tool(h) \notin allowedTools, n = "mode" => Tool(h) \notin blockedTools
      PROVE  PolicyInv'
  <2> DEFINE r == [q EXCEPT !.read = n]
  <2>1. /\ r \in Req /\ r.at = q.at /\ r.todo = q.todo /\ r.read = n /\ r.answer = q.answer
        /\ r.told = q.told /\ r.budget = q.budget /\ r.kind = q.kind /\ r.delivered = q.delivered
    BY <1>1 DEF Req
  <2>2. req' = [req EXCEPT ![h] = r]
    BY <1>5
  <2>3. Budgeted(r)
    BY <1>3, <2>1 DEF Budgeted
  <2>4. BlockedOf(r) = BlockedOf(q)
    BY <2>1 DEF BlockedOf
  <2>5. h \in steady => Undisturbed(r)
    BY <1>1, <1>3, <1>5, <2>1, <2>4
       DEF Undisturbed, HalfRead, Asked, Scanned, Explained, Told, Passed
  <2> HIDE DEF r
  <2> QED BY <1>2, <2>1, <2>2, <2>3, <2>5, HandlerStep
\* A read that ends IsBlocked
<1>6. ASSUME NEW b \in BOOLEAN, Verdict(h, b), h \in steady => (b <=> IsBlocked(Tool(h)))
      PROVE  PolicyInv'
  BY <1>1, <1>2, <1>6, VerdictInv
<1> HIDE DEF q
<1>7. CASE ReadAllowed(h)
  <2>1. CASE Tool(h) \in allowedTools
    <3>1. Verdict(h, FALSE) /\ ~IsBlocked(Tool(h))
      BY <1>7, <2>1 DEF ReadAllowed, Read, IsBlocked
    <3> QED BY <3>1, <1>6
  <2>2. CASE Tool(h) \notin allowedTools
    <3>1. req' = [req EXCEPT ![h].read = "blocked"]
      BY <1>7, <2>2 DEF ReadAllowed, Read
    <3> QED BY <3>1, <2>2, <1>5
  <2> QED BY <2>1, <2>2
<1>8. CASE ReadBlocked(h)
  <2>1. CASE Tool(h) \in blockedTools
    <3>1. Verdict(h, TRUE) /\ q.read = "blocked"
      BY <1>8, <2>1 DEF ReadBlocked, Read, q
    <3>2. h \in steady => IsBlocked(Tool(h))
      BY <3>1, <2>1, <1>4 DEF IsBlocked
    <3> QED BY <3>1, <3>2, <1>6
  <2>2. CASE Tool(h) \notin blockedTools
    <3>1. req' = [req EXCEPT ![h].read = "mode"] /\ q.read = "blocked"
      BY <1>8, <2>2 DEF ReadBlocked, Read, q
    <3>2. h \in steady => Tool(h) \notin allowedTools
      BY <3>1, <1>4
    <3> QED BY <3>1, <3>2, <2>2, <1>5
  <2> QED BY <2>1, <2>2
<1>9. CASE ReadMode(h)
  <2>1. q.read = "mode" /\ Verdict(h, mode = "allowlist")
    BY <1>9 DEF ReadMode, Read, q
  <2>2. h \in steady => ((mode = "allowlist") <=> IsBlocked(Tool(h)))
    BY <2>1, <1>4 DEF IsBlocked
  <2> QED BY <2>1, <2>2, <1>6
<1> QED BY <1>7, <1>8, <1>9

-----------------------------------------------------------------------------
(* Reloads                                                                 *)

ReloadRecord == [at : {"idle", "blocked", "fill blocked", "mode", "allowlist", "fill allowed"},
                 blocked : SUBSET Tools, allowed : SUBSET Tools]

\* A statement of a reload leaves no handler steady.
LEMMA StatementKeepsHandlers ==
    ASSUME PolicyInv, NEW a \in Admins, Reload(a)
    PROVE  HandlerInv' /\ UNCHANGED <<req, thrown, last>> /\ steady' = {}
<1>1. UNCHANGED <<req, thrown, last>> /\ steady' = {}
  BY DEF Reload, NewBlocked, FillBlocked, NewAllowed, ResetMode, SetAllowlist, FillAllowed, At, Running
<1>2. AllBudgeted'
  BY <1>1 DEF PolicyInv, HandlerInv, AllBudgeted, Budgeted
<1>3. SteadyOnes'
  BY <1>1 DEF SteadyOnes
<1> QED BY <1>1, <1>2, <1>3 DEF HandlerInv

\* What a statement of a has to show, with r its record afterwards.
LEMMA StatementStep ==
    ASSUME PolicyInv, NEW a \in Admins, Reload(a), Reloading(a), NEW r \in ReloadRecord,
           reload' = [reload EXCEPT ![a] = r],
           blockedTools' \subseteq Tools, allowedTools' \subseteq Tools,
           mode' \in {"blocklist", "allowlist"},
           r.at \in {"allowlist", "fill allowed"} => r.allowed # {},
           \A p \in last : r.at # "idle" => Progress(a, p)',
           \A p \in last : r.at = "idle" => Installed(p)',
           NotEmpty'
    PROVE  PolicyInv'
<1>1. reload'[a] = r /\ \A b \in Admins \ {a} : reload'[b] = reload[b]
  BY DEF PolicyInv, TypeOK
<1>2. HandlerInv' /\ UNCHANGED <<req, thrown, last>> /\ steady' = {}
  BY StatementKeepsHandlers
<1>3. TypeOK'
  BY <1>2 DEF PolicyInv, TypeOK, ReloadRecord
<1>4. \A b \in Admins \ {a} : Reloading(b)' = Reloading(b)
  BY <1>1 DEF Reloading
<1>5. Alone'
  BY <1>2, <1>4 DEF PolicyInv, ReloadInv, Alone
<1>6. \A p \in last, b \in Admins : Reloading(b) => b = a
  BY DEF PolicyInv, ReloadInv, Alone
<1>7. Prefix'
  BY <1>1, <1>2, <1>4, <1>6 DEF Prefix, Reloading
<1>8. Whole'
  BY <1>1, <1>2 DEF Whole, Reloading
<1>9. HasNames'
  BY <1>1 DEF PolicyInv, ReloadInv, HasNames
<1> QED BY <1>2, <1>3, <1>5, <1>7, <1>8, <1>9 DEF PolicyInv, ReloadInv

LEMMA NewBlockedInv ==
    ASSUME PolicyInv, NEW a \in Admins, NewBlocked(a)
    PROVE  PolicyInv'
<1> DEFINE r == [reload[a] EXCEPT !.at = "fill blocked"]
<1>1. reload[a] \in ReloadRecord /\ reload[a].at = "blocked" /\ Reloading(a) /\ Reload(a)
  BY DEF PolicyInv, TypeOK, ReloadRecord, NewBlocked, At, Reloading, Reload
<1>2. /\ r \in ReloadRecord /\ r.at = "fill blocked"
      /\ r.blocked = reload[a].blocked /\ r.allowed = reload[a].allowed
  BY <1>1 DEF ReloadRecord
<1>3. /\ reload' = [reload EXCEPT ![a] = r] /\ blockedTools' = {}
      /\ UNCHANGED <<allowedTools, mode>>
  BY <1>1 DEF NewBlocked, At
<1>4. reload'[a] = r /\ \A b \in Admins \ {a} : reload'[b] = reload[b]
  BY <1>3 DEF PolicyInv, TypeOK
<1>5. \A p \in last : Progress(a, p)'
  BY <1>1, <1>2, <1>3, <1>4 DEF PolicyInv, ReloadInv, Prefix, Progress
<1>6. NotEmpty'
  BY <1>1, <1>2, <1>3, <1>4 DEF PolicyInv, ReloadInv, NotEmpty
<1>7. blockedTools' \subseteq Tools /\ allowedTools' \subseteq Tools /\ mode' \in {"blocklist", "allowlist"}
  BY <1>3 DEF PolicyInv, TypeOK
<1> HIDE DEF r
<1> QED BY <1>1, <1>2, <1>3, <1>5, <1>6, <1>7, StatementStep

LEMMA FillBlockedInv ==
    ASSUME PolicyInv, NEW a \in Admins, FillBlocked(a)
    PROVE  PolicyInv'
<1>1. PICK t \in reload[a].blocked : /\ reload' = [reload EXCEPT ![a].blocked = @ \ {t}]
                                     /\ blockedTools' = blockedTools \cup {t}
  BY DEF FillBlocked
<1> DEFINE r == [reload[a] EXCEPT !.blocked = @ \ {t}]
<1>2. /\ reload[a] \in ReloadRecord /\ reload[a].at = "fill blocked" /\ Reloading(a) /\ Reload(a)
      /\ t \in Tools
  BY <1>1 DEF PolicyInv, TypeOK, ReloadRecord, FillBlocked, Reloading, Reload
<1>3. /\ r \in ReloadRecord /\ r.at = "fill blocked"
      /\ r.blocked = reload[a].blocked \ {t} /\ r.allowed = reload[a].allowed
  BY <1>2 DEF ReloadRecord
<1>4. reload' = [reload EXCEPT ![a] = r] /\ UNCHANGED <<allowedTools, mode>>
  BY <1>1, <1>2 DEF FillBlocked
<1>5. reload'[a] = r /\ \A b \in Admins \ {a} : reload'[b] = reload[b]
  BY <1>4 DEF PolicyInv, TypeOK
<1>6. ASSUME NEW p \in last PROVE Progress(a, p)'
  <2>1. blockedTools \cup reload[a].blocked = p.blocked /\ reload[a].allowed = p.allowed
    BY <1>2 DEF PolicyInv, ReloadInv, Prefix, Progress
  <2>2. blockedTools' \cup r.blocked = p.blocked
    BY <2>1, <1>1, <1>3
  <2> QED BY <2>1, <2>2, <1>3, <1>5 DEF Progress
<1>7. NotEmpty'
  BY <1>2, <1>3, <1>4, <1>5 DEF PolicyInv, ReloadInv, NotEmpty
<1>8. blockedTools' \subseteq Tools /\ allowedTools' \subseteq Tools /\ mode' \in {"blocklist", "allowlist"}
  BY <1>1, <1>2, <1>4 DEF PolicyInv, TypeOK
<1> HIDE DEF r
<1> QED BY <1>2, <1>3, <1>4, <1>6, <1>7, <1>8, StatementStep

LEMMA NewAllowedInv ==
    ASSUME PolicyInv, NEW a \in Admins, NewAllowed(a)
    PROVE  PolicyInv'
<1> DEFINE r == [reload[a] EXCEPT !.at = "mode"]
<1>1. /\ reload[a] \in ReloadRecord /\ reload[a].at = "fill blocked" /\ reload[a].blocked = {}
      /\ Reloading(a) /\ Reload(a)
  BY DEF PolicyInv, TypeOK, ReloadRecord, NewAllowed, At, Reloading, Reload
<1>2. /\ r \in ReloadRecord /\ r.at = "mode" /\ r.allowed = reload[a].allowed
  BY <1>1 DEF ReloadRecord
<1>3. /\ reload' = [reload EXCEPT ![a] = r] /\ allowedTools' = {}
      /\ UNCHANGED <<blockedTools, mode>>
  BY <1>1 DEF NewAllowed, At
<1>4. reload'[a] = r /\ \A b \in Admins \ {a} : reload'[b] = reload[b]
  BY <1>3 DEF PolicyInv, TypeOK
<1>5. ASSUME NEW p \in last PROVE Progress(a, p)'
  <2>1. blockedTools \cup reload[a].blocked = p.blocked /\ reload[a].allowed = p.allowed
    BY <1>1 DEF PolicyInv, ReloadInv, Prefix, Progress
  <2>2. blockedTools = p.blocked
    BY <2>1, <1>1
  <2> QED BY <2>1, <2>2, <1>2, <1>3, <1>4 DEF Progress
<1>6. NotEmpty'
  BY <1>2, <1>4 DEF NotEmpty
<1>7. blockedTools' \subseteq Tools /\ allowedTools' \subseteq Tools /\ mode' \in {"blocklist", "allowlist"}
  BY <1>3 DEF PolicyInv, TypeOK
<1> HIDE DEF r
<1> QED BY <1>1, <1>2, <1>3, <1>5, <1>6, <1>7, StatementStep

\* With nothing to allow the reload ends here, in a blocklist.
LEMMA ResetModeInv ==
    ASSUME PolicyInv, NEW a \in Admins, ResetMode(a)
    PROVE  PolicyInv'
<1> DEFINE next == IF reload[a].allowed = {} THEN "idle" ELSE "allowlist"
<1> DEFINE r == [reload[a] EXCEPT !.at = next]
<1>1. reload[a] \in ReloadRecord /\ reload[a].at = "mode" /\ Reloading(a) /\ Reload(a)
  BY DEF PolicyInv, TypeOK, ReloadRecord, ResetMode, At, Reloading, Reload
<1>2. r \in ReloadRecord /\ r.at = next /\ r.allowed = reload[a].allowed
  BY <1>1 DEF ReloadRecord
<1>3. /\ reload' = [reload EXCEPT ![a] = r] /\ mode' = "blocklist"
      /\ UNCHANGED <<blockedTools, allowedTools>>
  BY <1>1 DEF ResetMode, At
<1>4. reload'[a] = r
  BY <1>3 DEF PolicyInv, TypeOK
<1>5. \A p \in last : /\ blockedTools = p.blocked /\ allowedTools = {}
                      /\ reload[a].allowed = p.allowed
  BY <1>1 DEF PolicyInv, ReloadInv, Prefix, Progress
<1>6. ASSUME NEW p \in last, r.at # "idle" PROVE Progress(a, p)'
  <2>1. r.at = "allowlist"
    BY <1>2, <1>6
  <2> HIDE DEF r
  <2> QED BY <1>2, <1>3, <1>4, <1>5, <2>1 DEF Progress
<1>7. ASSUME NEW p \in last, r.at = "idle" PROVE Installed(p)'
  <2>1. reload[a].allowed = {}
    BY <1>2, <1>7
  <2>2. p.allowed = {} /\ p.blocked = blockedTools /\ allowedTools = {}
    BY <2>1, <1>5
  <2> QED BY <2>2, <1>3 DEF Installed, ModeFor
<1>8. NotEmpty'
  BY <1>3 DEF NotEmpty
<1>9. blockedTools' \subseteq Tools /\ allowedTools' \subseteq Tools /\ mode' \in {"blocklist", "allowlist"}
  BY <1>3 DEF PolicyInv, TypeOK
<1>10. r.at \in {"allowlist", "fill allowed"} => r.allowed # {}
  BY <1>2
<1> HIDE DEF r
<1> QED BY <1>1, <1>2, <1>3, <1>6, <1>7, <1>8, <1>9, <1>10, StatementStep

LEMMA SetAllowlistInv ==
    ASSUME PolicyInv, NEW a \in Admins, SetAllowlist(a)
    PROVE  PolicyInv'
<1> DEFINE r == [reload[a] EXCEPT !.at = "fill allowed"]
<1>1. /\ reload[a] \in ReloadRecord /\ reload[a].at = "allowlist" /\ reload[a].allowed # {}
      /\ Reloading(a) /\ Reload(a)
  BY DEF PolicyInv, TypeOK, ReloadInv, HasNames, ReloadRecord, SetAllowlist, At, Reloading, Reload
<1>2. r \in ReloadRecord /\ r.at = "fill allowed" /\ r.allowed = reload[a].allowed
  BY <1>1 DEF ReloadRecord
<1>3. /\ reload' = [reload EXCEPT ![a] = r] /\ mode' = "allowlist"
      /\ UNCHANGED <<blockedTools, allowedTools>>
  BY <1>1 DEF SetAllowlist, At
<1>4. reload'[a] = r
  BY <1>3 DEF PolicyInv, TypeOK
<1>5. \A p \in last : Progress(a, p)'
  BY <1>1, <1>2, <1>3, <1>4 DEF PolicyInv, ReloadInv, Prefix, Progress
<1>6. NotEmpty'
  BY <1>2, <1>4 DEF NotEmpty
<1>7. blockedTools' \subseteq Tools /\ allowedTools' \subseteq Tools /\ mode' \in {"blocklist", "allowlist"}
  BY <1>3 DEF PolicyInv, TypeOK
<1> HIDE DEF r
<1> QED BY <1>1, <1>2, <1>3, <1>5, <1>6, <1>7, StatementStep

LEMMA FillAllowedInv ==
    ASSUME PolicyInv, NEW a \in Admins, FillAllowed(a)
    PROVE  PolicyInv'
<1>1. PICK t \in reload[a].allowed :
          /\ reload' = [reload EXCEPT ![a].at = IF reload[a].allowed = {t} THEN "idle" ELSE @,
                                      ![a].allowed = @ \ {t}]
          /\ allowedTools' = allowedTools \cup {t}
  BY DEF FillAllowed
<1> DEFINE next == IF reload[a].allowed = {t} THEN "idle" ELSE "fill allowed"
<1> DEFINE r == [reload[a] EXCEPT !.at = next, !.allowed = @ \ {t}]
<1>2. /\ reload[a] \in ReloadRecord /\ reload[a].at = "fill allowed" /\ Reloading(a) /\ Reload(a)
      /\ t \in Tools
  BY <1>1 DEF PolicyInv, TypeOK, ReloadRecord, FillAllowed, Reloading, Reload
<1>3. r \in ReloadRecord /\ r.at = next /\ r.allowed = reload[a].allowed \ {t}
  BY <1>2 DEF ReloadRecord
<1>4. reload' = [reload EXCEPT ![a] = r] /\ UNCHANGED <<blockedTools, mode>>
  BY <1>1, <1>2 DEF FillAllowed
<1>5. reload'[a] = r
  BY <1>4 DEF PolicyInv, TypeOK
<1>6. \A p \in last : /\ blockedTools = p.blocked /\ mode = "allowlist"
                      /\ allowedTools \cup reload[a].allowed = p.allowed
  BY <1>2 DEF PolicyInv, ReloadInv, Prefix, Progress
<1>7. \A p \in last : allowedTools' \cup r.allowed = p.allowed
  BY <1>1, <1>3, <1>6
<1>8. ASSUME NEW p \in last, r.at # "idle" PROVE Progress(a, p)'
  <2>1. r.at = "fill allowed"
    BY <1>3, <1>8
  <2>2. /\ blockedTools' = p.blocked /\ mode' = "allowlist" /\ allowedTools' \cup r.allowed = p.allowed
    BY <1>4, <1>6, <1>7
  <2> HIDE DEF r
  <2> QED BY <1>5, <2>1, <2>2 DEF Progress
<1>9. \A p \in last : r.at = "idle" => Installed(p)'
  BY <1>1, <1>3, <1>4, <1>6, <1>7 DEF Installed, ModeFor
<1>10. NotEmpty'
  BY <1>1 DEF NotEmpty
<1>11. blockedTools' \subseteq Tools /\ allowedTools' \subseteq Tools /\ mode' \in {"blocklist", "allowlist"}
  BY <1>1, <1>2, <1>4 DEF PolicyInv, TypeOK
<1>12. r.at \in {"allowlist", "fill allowed"} => r.allowed # {}
  BY <1>1, <1>3
<1> HIDE DEF r
<1> QED BY <1>2, <1>3, <1>4, <1>8, <1>9, <1>10, <1>11, <1>12, StatementStep

\* A reload that begins while another runs leaves nothing to be promised.
LEMMA PutInv ==
    ASSUME PolicyInv, NEW a \in Admins, NEW p \in Policies, Put(a, p)
    PROVE  PolicyInv'
<1>1. /\ reload' = [reload EXCEPT ![a] =
                      [at |-> "blocked", blocked |-> p.blocked, allowed |-> p.allowed]]
      /\ last' = IF \E b \in Admins : Reloading(b) THEN {} ELSE {p}
      /\ ~Reloading(a) /\ UNCHANGED <<blockedTools, allowedTools, mode, thrown, req, steady>>
  BY DEF Put, Running, fields
<1>2. p \in Policy /\ p.blocked \subseteq Tools /\ p.allowed \subseteq Tools
  BY ToolPolicyAssumption DEF Policy
<1>3. /\ reload'[a] = [at |-> "blocked", blocked |-> p.blocked, allowed |-> p.allowed]
      /\ \A b \in Admins \ {a} : reload'[b] = reload[b]
  BY <1>1 DEF PolicyInv, TypeOK
<1>4. TypeOK'
  BY <1>1, <1>2 DEF PolicyInv, TypeOK
<1>5. HandlerInv'
  BY <1>1 DEF PolicyInv, HandlerInv, AllBudgeted, Budgeted, SteadyOnes, Undisturbed, HalfRead,
              Asked, Scanned, Explained, Told, Passed, BlockedOf, IsBlocked
<1>6. Reloading(a)' /\ \A b \in Admins \ {a} : Reloading(b)' = Reloading(b)
  BY <1>3 DEF Reloading
<1>7. Alone' /\ Whole'
  BY <1>1, <1>6 DEF Alone, Whole
<1>8. Prefix'
  <2> SUFFICES ASSUME NEW q \in last', NEW b \in Admins, Reloading(b)' PROVE Progress(b, q)'
    BY DEF Prefix
  <2>1. q = p /\ b = a
    BY <1>1, <1>6
  <2> QED BY <2>1, <1>3 DEF Progress
<1>9. HasNames'
  <2>1. reload'[a].at = "blocked"
    BY <1>3
  <2> QED BY <1>3, <2>1 DEF PolicyInv, ReloadInv, HasNames
<1>10. NotEmpty'
  BY <1>1, <1>3 DEF PolicyInv, ReloadInv, NotEmpty, Reloading
<1> QED BY <1>4, <1>5, <1>7, <1>8, <1>9, <1>10 DEF PolicyInv, ReloadInv

-----------------------------------------------------------------------------
\* At the start the policy of the file is installed and nobody is at work.
LEMMA PolicyInitInv == Init => PolicyInv
<1> SUFFICES ASSUME Init PROVE PolicyInv
  OBVIOUS
<1>1. InitialPolicy.blocked \subseteq Tools /\ InitialPolicy.allowed \subseteq Tools
  BY ToolPolicyAssumption DEF Policy
<1>2. TypeOK
  <2>1. 0 \in 0 .. Budget /\ "stream" \in AllKinds
    BY ToolPolicyAssumption DEF AllKinds
  <2>2. mode \in {"blocklist", "allowlist"}
    BY DEF Init, ModeFor
  <2> QED BY <1>1, <2>1, <2>2, EmptyList, ToolPolicyAssumption DEF Init, TypeOK
<1>3. HandlerInv
  BY DEF Init, HandlerInv, AllBudgeted, Budgeted, SteadyOnes
<1>4. \A a \in Admins : ~Reloading(a) /\ reload[a].at = "idle"
  BY DEF Init, Reloading
<1>5. \A p \in last : Installed(p)
  BY DEF Init, Installed
<1>6. NotEmpty
  BY DEF Init, NotEmpty, ModeFor
<1> QED BY <1>2, <1>3, <1>4, <1>5, <1>6
        DEF PolicyInv, ReloadInv, Alone, Prefix, Whole, HasNames

LEMMA PolicyNextInv == PolicyInv /\ [Next]_vars => PolicyInv'
<1>1. ASSUME PolicyInv, UNCHANGED <<fields, reload, req, steady, last>>, thrown' \in BOOLEAN
      PROVE  PolicyInv'
  <2>1. TypeOK'
    BY <1>1 DEF fields, PolicyInv, TypeOK
  <2>2. HandlerInv'
    BY <1>1 DEF fields, PolicyInv, HandlerInv, AllBudgeted, Budgeted, SteadyOnes, Undisturbed, HalfRead,
                Asked, Scanned, Explained, Told, Passed, BlockedOf, IsBlocked
  <2>3. ReloadInv'
    BY <1>1 DEF fields, PolicyInv, ReloadInv, Alone, Prefix, Progress, Whole, Installed, HasNames,
                NotEmpty, Reloading
  <2> QED BY <2>1, <2>2, <2>3 DEF PolicyInv
<1>2. PolicyInv /\ UNCHANGED vars => PolicyInv'
  BY <1>1 DEF vars, PolicyInv, TypeOK
<1>3. PolicyInv /\ Throw => PolicyInv'
  BY <1>1 DEF Throw
<1>4. ASSUME PolicyInv, NEW a \in Admins, Reload(a) PROVE PolicyInv'
  BY <1>4, NewBlockedInv, FillBlockedInv, NewAllowedInv, ResetModeInv, SetAllowlistInv, FillAllowedInv
     DEF Reload
<1>5. ASSUME PolicyInv, NEW h \in Handlers, Serve(h) PROVE PolicyInv'
  BY <1>5, UpstreamFailsInv, UpstreamAnswersInv, ReadInv, FollowUpInv, DeliverInv DEF Serve
<1> QED BY <1>2, <1>3, <1>4, <1>5, PutInv, ReceiveInv DEF Next

\* The invariant of the specification.
LEMMA PolicyInvariant == Spec => []PolicyInv
BY PolicyInitInv, PolicyNextInv, PTL DEF Spec

-----------------------------------------------------------------------------
(* Requests, reloads and the three fields are well typed; the budget never *)
(* goes below zero (proxy.go:336-345).                                     *)
THEOREM PolicyTypeCorrect == Spec => []TypeOK
<1>1. PolicyInv => TypeOK
  BY DEF PolicyInv
<1> QED BY <1>1, PolicyInvariant, PTL

(* What a stream delivers under a policy that stood still uses no blocked  *)
(* tool, unless the budget is exhausted (toolpolicy.go:17).                *)
THEOREM ClientsAreShielded == Spec => []Shielded
<1>1. PolicyInv => Shielded
  BY DEF PolicyInv, TypeOK, HandlerInv, SteadyOnes, Undisturbed, Passed, BlockedOf, Shielded
<1> QED BY <1>1, PolicyInvariant, PTL

(* A follow-up names every blocked tool, no other, and at least one        *)
(* (proxy.go:399-410).                                                     *)
THEOREM FollowUpsAreExact == Spec => []FollowUpExplains
<1>1. PolicyInv => FollowUpExplains
  BY DEF PolicyInv, TypeOK, HandlerInv, SteadyOnes, Undisturbed, Told, BlockedOf, FollowUpExplains
<1> QED BY <1>1, PolicyInvariant, PTL

(* A reload that is alone leaves exactly its policy behind, and those that *)
(* overlap never an empty allowlist (toolpolicy.go:66-77).                 *)
THEOREM ReloadsAreExact == Spec => []ReloadExact
<1>1. PolicyInv => ReloadExact
  <2> SUFFICES ASSUME PolicyInv, \A a \in Admins : ~Reloading(a)
               PROVE  /\ mode = "allowlist" => allowedTools # {}
                      /\ \A p \in last : Installed(p)
    BY DEF ReloadExact, NeverLockedOut, Installed
  <2>1. \A a \in Admins : reload[a].at = "idle"
    BY DEF Reloading
  <2> QED BY <2>1 DEF PolicyInv, ReloadInv, NotEmpty, Whole
<1> QED BY <1>1, PolicyInvariant, PTL

-----------------------------------------------------------------------------
(***************************************************************************)
(* Proofs about StreamCollect, for any lines in any order.                 *)
(***************************************************************************)

LinesOf(f) == {f[i] : i \in DOMAIN f}

CollectorFields == {"pending", "buf", "text", "blocks", "tools", "stop", "usage"}

\* What holding lines back has to do with, whatever else is collected.
Holds(c, lines) ==
    /\ c = [x \in CollectorFields |-> c[x]]
    /\ c.buf \in Seq(LinesOf(feed)) /\ c.pending \in Seq(LinesOf(feed))
    /\ c.buf \o c.pending = lines

StreamInv ==
    /\ feed \in Feeds /\ at \in 0 .. Len(feed)
    /\ Holds(col, SubSeq(feed, 1, at))
    /\ ending \in {"open", "eof", "broken"}
    /\ delivered = IF ending = "eof" THEN feed ELSE <<>>

(* Whatever is read from a line, only its relaying moves lines.            *)
LEMMA DigestHolds ==
    ASSUME NEW c, NEW line, NEW lines, Holds(c, lines)
    PROVE  Holds(Digest(c, line), lines)
<1>1. Holds(StartBlock(c, line), lines)
  BY DEF Holds, StartBlock, CollectorFields
<1>2. Holds(TextDelta(c, line), lines)
  BY DEF Holds, TextDelta, CollectorFields
<1>3. Holds(MessageDelta(c, line), lines)
  BY DEF Holds, MessageDelta, WithUsage, CollectorFields
<1>4. Holds(Chunk(c, line), lines)
  BY DEF Holds, Chunk, WithUsage, CollectorFields
<1> QED BY <1>1, <1>2, <1>3, <1>4 DEF Digest

(* Sequences put together.                                                 *)
LEMMA Together ==
    ASSUME NEW S, NEW a \in Seq(S), NEW b \in Seq(S)
    PROVE  /\ a \o b \in Seq(S) /\ <<>> \in Seq(S) /\ (a \o b) \o <<>> = a \o b
           /\ \A x \in S : /\ <<x>> \in Seq(S) /\ (a \o b) \o <<x>> \in Seq(S)
                          /\ (a \o b) \o <<x>> = Append(a \o b, x)
                          /\ ((a \o b) \o <<x>>) \o <<>> = Append(a \o b, x)
<1>1. a \o b \in Seq(S) /\ <<>> \in Seq(S)
  OBVIOUS
<1>2. \A c \in Seq(S) : c \o <<>> = c
  OBVIOUS
<1>3. \A c \in Seq(S), x \in S : <<x>> \in Seq(S) /\ c \o <<x>> \in Seq(S)
  OBVIOUS
<1>4. \A c \in Seq(S), x \in S : c \o <<x>> = Append(c, x)
  OBVIOUS
<1> QED BY <1>1, <1>2, <1>3, <1>4

(* A line that is held back is written before the next one.                *)
LEMMA RelayHolds ==
    ASSUME NEW c, NEW line \in LinesOf(feed), NEW lines, Holds(c, lines)
    PROVE  Holds(Relay(c, line), Append(lines, line))
<1>1. c = [x \in CollectorFields |-> c[x]]
  BY DEF Holds
<1>2. /\ c.buf \in Seq(LinesOf(feed)) /\ c.pending \in Seq(LinesOf(feed))
      /\ c.buf \o c.pending = lines
  BY DEF Holds
<1> DEFINE L == LinesOf(feed)
<1>3. /\ c.buf \o c.pending \in Seq(L) /\ <<line>> \in Seq(L)
      /\ (c.buf \o c.pending) \o <<line>> = Append(c.buf \o c.pending, line)
      /\ (c.buf \o c.pending) \o <<line>> \in Seq(L) /\ <<>> \in Seq(L)
      /\ ((c.buf \o c.pending) \o <<line>>) \o <<>> = Append(c.buf \o c.pending, line)
  <2> DEFINE a == c.buf
             b == c.pending
  <2>1. a \in Seq(L) /\ b \in Seq(L) /\ line \in L
    BY <1>2
  <2> HIDE DEF a, b, L
  <2>2. /\ a \o b \in Seq(L) /\ <<line>> \in Seq(L)
        /\ (a \o b) \o <<line>> = Append(a \o b, line)
        /\ (a \o b) \o <<line>> \in Seq(L) /\ <<>> \in Seq(L)
        /\ ((a \o b) \o <<line>>) \o <<>> = Append(a \o b, line)
    BY <2>1, Together
  <2> QED BY <2>2 DEF a, b
<1>4. CASE line.kind = "event"
  <2> DEFINE r == [c EXCEPT !.buf = @ \o c.pending, !.pending = <<line>>]
  <2>1. r = [x \in CollectorFields |-> r[x]] /\ r.buf = c.buf \o c.pending /\ r.pending = <<line>>
    BY <1>1 DEF CollectorFields
  <2> HIDE DEF r
  <2>2. r.buf \in Seq(LinesOf(feed)) /\ r.pending \in Seq(LinesOf(feed))
    BY <1>2, <1>3, <2>1
  <2>3. r.buf \o r.pending = Append(lines, line)
    BY <1>2, <1>3, <2>1
  <2>4. Holds(r, Append(lines, line))
    BY <2>1, <2>2, <2>3 DEF Holds
  <2> QED BY <1>4, <2>4 DEF Relay, r
<1>5. CASE line.kind # "event"
  <2> DEFINE r == [c EXCEPT !.buf = @ \o c.pending \o <<line>>, !.pending = <<>>]
  <2>1. /\ r = [x \in CollectorFields |-> r[x]]
        /\ r.buf = c.buf \o c.pending \o <<line>> /\ r.pending = <<>>
    BY <1>1 DEF CollectorFields
  <2> HIDE DEF r
  <2>2. r.buf \in Seq(LinesOf(feed)) /\ r.pending \in Seq(LinesOf(feed))
    BY <1>2, <1>3, <2>1
  <2>3. r.buf \o r.pending = Append(lines, line)
    BY <1>2, <1>3, <2>1
  <2>4. Holds(r, Append(lines, line))
    BY <2>1, <2>2, <2>3 DEF Holds
  <2> QED BY <1>5, <2>4 DEF Relay, r
<1> QED BY <1>4, <1>5

(* At the end nothing is held back any more.                               *)
LEMMA FlushedHolds ==
    ASSUME NEW c, NEW lines, Holds(c, lines)
    PROVE  Holds(Flushed(c), lines) /\ Flushed(c).buf = lines
<1>1. c = [x \in CollectorFields |-> c[x]]
  BY DEF Holds
<1>2. /\ c.buf \in Seq(LinesOf(feed)) /\ c.pending \in Seq(LinesOf(feed))
      /\ c.buf \o c.pending = lines
  BY DEF Holds
<1>3. /\ c.buf \o c.pending \in Seq(LinesOf(feed)) /\ <<>> \in Seq(LinesOf(feed))
      /\ (c.buf \o c.pending) \o <<>> = c.buf \o c.pending
  <2> DEFINE a == c.buf
             b == c.pending
             L == LinesOf(feed)
  <2>1. a \in Seq(L) /\ b \in Seq(L)
    BY <1>2
  <2> HIDE DEF a, b, L
  <2>2. a \o b \in Seq(L) /\ <<>> \in Seq(L) /\ (a \o b) \o <<>> = a \o b
    BY <2>1, Together
  <2> QED BY <2>2 DEF a, b, L
<1> DEFINE r == Flushed(c)
<1>4. r = [x \in CollectorFields |-> r[x]] /\ r.buf = c.buf \o c.pending /\ r.pending = <<>>
  BY <1>1 DEF CollectorFields, Flushed
<1> HIDE DEF r
<1>5. r.buf \in Seq(LinesOf(feed)) /\ r.pending \in Seq(LinesOf(feed)) /\ r.buf \o r.pending = lines
  BY <1>2, <1>3, <1>4
<1> QED BY <1>2, <1>4, <1>5 DEF Holds, r

LEMMA FeedsAreSequences == \A f \in Feeds : f \in Seq(LinesOf(f))
BY StreamAssumption DEF LinesOf

LEMMA StreamInitInv == StreamInit => StreamInv
<1> SUFFICES ASSUME StreamInit PROVE StreamInv
  OBVIOUS
<1>1. feed \in Seq(LinesOf(feed)) /\ SubSeq(feed, 1, 0) = <<>>
  BY FeedsAreSequences DEF StreamInit
<1>2. Holds(NewCollector, <<>>)
  <2>1. NewCollector.buf = <<>> /\ NewCollector.pending = <<>>
    BY DEF NewCollector
  <2>2. NewCollector = [x \in CollectorFields |-> NewCollector[x]]
    BY DEF NewCollector, CollectorFields
  <2> QED BY <2>1, <2>2 DEF Holds
<1>3. Len(feed) \in Nat
  BY <1>1
<1>4. Holds(col, SubSeq(feed, 1, at))
  BY <1>1, <1>2 DEF StreamInit
<1> QED BY <1>3, <1>4 DEF StreamInit, StreamInv

LEMMA ScanInv == StreamInv /\ Scan => StreamInv'
<1> SUFFICES ASSUME StreamInv, Scan PROVE StreamInv'
  OBVIOUS
<1> DEFINE line == feed[at + 1]
<1>1. feed \in Seq(LinesOf(feed)) /\ at \in Nat /\ at < Len(feed)
  BY FeedsAreSequences DEF StreamInv, Scan
<1>2. at + 1 \in 1 .. Len(feed) /\ line \in LinesOf(feed)
  BY <1>1
<1>3. SubSeq(feed, 1, at + 1) = Append(SubSeq(feed, 1, at), line)
  BY <1>1
<1>4. Holds(Relay(col, line), SubSeq(feed, 1, at + 1))
  BY <1>2, <1>3, RelayHolds DEF StreamInv
<1>5. Holds(ReadLine(col, line), SubSeq(feed, 1, at + 1))
  BY <1>4, DigestHolds DEF ReadLine
<1>6. Holds(col, SubSeq(feed, 1, at))'
  BY <1>5 DEF Scan, Holds, LinesOf
<1> QED BY <1>1, <1>2, <1>6 DEF StreamInv, Scan

LEMMA BreakInv == StreamInv /\ Break => StreamInv'
BY DEF StreamInv, Break, Holds, LinesOf

LEMMA EndOfStreamInv == StreamInv /\ EndOfStream => StreamInv'
<1> SUFFICES ASSUME StreamInv, EndOfStream PROVE StreamInv'
  OBVIOUS
<1>1. feed \in Seq(LinesOf(feed)) /\ at = Len(feed)
  BY FeedsAreSequences DEF StreamInv, EndOfStream
<1>2. SubSeq(feed, 1, at) = feed
  BY <1>1
<1>3. Holds(Flushed(col), SubSeq(feed, 1, at)) /\ Flushed(col).buf = feed
  BY <1>2, FlushedHolds DEF StreamInv
<1>4. Holds(col, SubSeq(feed, 1, at))'
  BY <1>3 DEF EndOfStream, Holds, LinesOf
<1>5. delivered' = feed
  BY <1>3 DEF EndOfStream
<1> QED BY <1>4, <1>5 DEF StreamInv, EndOfStream

(* Whatever the lines are and wherever reading ends: what is held back and *)
(* what is written are the lines that were read, and the client gets all   *)
(* of them or none.                                                        *)
THEOREM StreamsAreVerbatim == StreamSpec => []Verbatim
<1>1. StreamInv /\ [StreamNext]_streamVars => StreamInv'
  <2>1. StreamInv /\ UNCHANGED streamVars => StreamInv'
    BY DEF StreamInv, streamVars, Holds, LinesOf
  <2> QED BY <2>1, ScanInv, BreakInv, EndOfStreamInv DEF StreamNext
<1>2. StreamInv => Verbatim
  BY DEF StreamInv, Holds, Verbatim
<1> QED BY <1>1, <1>2, StreamInitInv, PTL DEF StreamSpec

-----------------------------------------------------------------------------
(***************************************************************************)
(* Sequences of sequences.  FlattenSeq is defined by recursion; its proofs *)
(* speak of the prefixes it is made of.                                    *)
(***************************************************************************)

\* f puts the first n of ss together, as FlattenSeq does.
Flattens(f, ss, n) == f = [i \in 1 .. n |-> IF i = 1 THEN ss[i] ELSE f[i - 1] \o ss[i]]

LEMMA FlattensAt ==
    ASSUME NEW ss, NEW n, NEW f, Flattens(f, ss, n), NEW i \in 1 .. n
    PROVE  f[i] = IF i = 1 THEN ss[i] ELSE f[i - 1] \o ss[i]
BY DEF Flattens

LEMMA FlatteningExists ==
    ASSUME NEW ss, NEW n \in Nat, n # 0
    PROVE  \E f : Flattens(f, ss, n)
<1> DEFINE S == {k \in Nat : k # 0 /\ ~ \E f : Flattens(f, ss, k)}
<1>1. ASSUME S # {} PROVE FALSE
  <2>1. PICK k \in S : \A j \in S : k <= j
    <3>1. S \in SUBSET Nat
      OBVIOUS
    <3> HIDE DEF S
    <3> QED
      BY <1>1, <3>1, LeastNatural
  <2>2. CASE k = 1
    <3>1. Flattens([i \in 1 .. 1 |-> ss[1]], ss, 1)
      BY DEF Flattens
    <3> QED
      BY <2>2, <3>1
  <2>3. CASE k # 1
    <3>1. k - 1 \in Nat /\ k - 1 # 0 /\ k - 1 \notin S /\ k \in Nat
      BY <2>1, <2>3
    <3>2. PICK f : Flattens(f, ss, k - 1)
      BY <3>1
    <3> DEFINE g == [i \in 1 .. k |-> IF i = k THEN f[k - 1] \o ss[k] ELSE f[i]]
    <3>3. \A i \in 1 .. k - 1 : f[i] = IF i = 1 THEN ss[i] ELSE f[i - 1] \o ss[i]
      BY <3>2, FlattensAt
    <3>4. \A i \in 1 .. k : g[i] = IF i = 1 THEN ss[i] ELSE g[i - 1] \o ss[i]
      <4> SUFFICES ASSUME NEW i \in 1 .. k
                   PROVE  g[i] = IF i = 1 THEN ss[i] ELSE g[i - 1] \o ss[i]
        OBVIOUS
      <4>1. CASE i = k
        <5>1. k \in 1 .. k /\ k - 1 \in 1 .. k /\ k - 1 # k
          BY <3>1
        <5>2. g[k] = f[k - 1] \o ss[k]
          BY <5>1
        <5>3. g[k - 1] = f[k - 1]
          BY <5>1
        <5> QED
          BY <4>1, <5>2, <5>3, <2>3
      <4>2. CASE i # k
        <5>1. i \in 1 .. k - 1 /\ g[i] = f[i]
          BY <3>1, <4>2
        <5>2. i # 1 => g[i - 1] = f[i - 1]
          BY <3>1, <4>2
        <5> QED
          BY <3>3, <5>1, <5>2
      <4> QED
        BY <4>1, <4>2
    <3>5. Flattens(g, ss, k)
      <4>1. DOMAIN g = 1 .. k /\ g = [i \in 1 .. k |-> g[i]]
        OBVIOUS
      <4> HIDE DEF g
      <4> QED
        BY <3>4, <4>1 DEF Flattens
    <3> QED
      BY <3>5
  <2> QED
    BY <2>2, <2>3
<1>2. n \notin S
  <2> HIDE DEF S
  <2> QED
    BY <1>1
<1> QED
  BY <1>2

\* pre[i] is what the first i of ss are put together.
PutTogether(pre, ss) ==
    /\ pre[0] = <<>>
    /\ \A i \in 1 .. Len(ss) : pre[i] = pre[i - 1] \o ss[i]

LEMMA PrefixesAreSequences ==
    ASSUME NEW R, NEW ss \in Seq(Seq(R)), NEW pre, PutTogether(pre, ss)
    PROVE  \A i \in 0 .. Len(ss) : pre[i] \in Seq(R)
<1> DEFINE S == {i \in 0 .. Len(ss) : pre[i] \notin Seq(R)}
<1>1. ASSUME S # {} PROVE FALSE
  <2>1. PICK k \in S : \A j \in S : k <= j
    <3>1. S \in SUBSET Nat
      OBVIOUS
    <3> HIDE DEF S
    <3> QED
      BY <1>1, <3>1, LeastNatural
  <2>2. k # 0
    <3>1. pre[0] = <<>> /\ <<>> \in Seq(R)
      BY DEF PutTogether
    <3> QED
      BY <3>1
  <2>3. k \in 1 .. Len(ss) /\ k - 1 \in 0 .. Len(ss) /\ k - 1 \notin S
    BY <2>1, <2>2
  <2>4. pre[k - 1] \in Seq(R) /\ ss[k] \in Seq(R)
    BY <2>3
  <2>5. pre[k] = pre[k - 1] \o ss[k]
    BY <2>3 DEF PutTogether
  <2>6. pre[k] \in Seq(R)
    BY <2>4, <2>5, ConcatProperties
  <2> QED
    BY <2>6
<1> QED
  BY <1>1

LEMMA PrefixesAreUnique ==
    ASSUME NEW ss, Len(ss) \in Nat, NEW p, NEW q, PutTogether(p, ss), PutTogether(q, ss)
    PROVE  \A i \in 0 .. Len(ss) : p[i] = q[i]
<1> DEFINE S == {i \in 0 .. Len(ss) : p[i] # q[i]}
<1>1. ASSUME S # {} PROVE FALSE
  <2>1. PICK k \in S : \A j \in S : k <= j
    <3>1. S \in SUBSET Nat
      OBVIOUS
    <3> HIDE DEF S
    <3> QED
      BY <1>1, <3>1, LeastNatural
  <2>2. k # 0
    BY DEF PutTogether
  <2>3. k \in 1 .. Len(ss) /\ k - 1 \in 0 .. Len(ss) /\ k - 1 \notin S
    BY <2>1, <2>2
  <2>4. p[k - 1] = q[k - 1] /\ p[k] = p[k - 1] \o ss[k] /\ q[k] = q[k - 1] \o ss[k]
    BY <2>3 DEF PutTogether
  <2> QED
    BY <2>4
<1> QED
  BY <1>1

LEMMA FlattenByPrefixes ==
    ASSUME NEW R, NEW ss \in Seq(Seq(R))
    PROVE  \E pre : PutTogether(pre, ss) /\ FlattenSeq(ss) = pre[Len(ss)]
<1>1. Len(ss) \in Nat
  OBVIOUS
<1>2. CASE Len(ss) = 0
  <2>1. ss = <<>>
    BY <1>2
  <2>2. PutTogether([i \in {0} |-> <<>>], ss)
    BY <1>2 DEF PutTogether
  <2>3. FlattenSeq(ss) = <<>>
    BY <1>2, <2>1 DEF FlattenSeq
  <2> QED
    BY <1>2, <2>2, <2>3
<1>3. CASE Len(ss) # 0
  <2> DEFINE f == CHOOSE f : Flattens(f, ss, Len(ss))
             pre == [i \in 0 .. Len(ss) |-> IF i = 0 THEN <<>> ELSE f[i]]
  <2>1. Flattens(f, ss, Len(ss))
    BY <1>1, <1>3, FlatteningExists
  <2>2. FlattenSeq(ss) = f[Len(ss)]
    BY <1>3 DEF FlattenSeq, Flattens
  <2> HIDE DEF f
  <2>3. \A i \in 1 .. Len(ss) : f[i] = IF i = 1 THEN ss[i] ELSE f[i - 1] \o ss[i]
    BY <2>1, FlattensAt
  <2>4. ASSUME NEW i \in 1 .. Len(ss) PROVE pre[i] = pre[i - 1] \o ss[i]
    <3>1. ss[i] \in Seq(R) /\ pre[i] = f[i]
      BY <1>1
    <3>2. CASE i = 1
      <4>1. pre[i - 1] = <<>> /\ f[i] = ss[i]
        BY <1>1, <2>3, <3>2
      <4>2. <<>> \o ss[i] = ss[i]
        BY <3>1, ConcatEmptySeq
      <4> QED
        BY <3>1, <4>1, <4>2
    <3>3. CASE i # 1
      <4>1. f[i] = f[i - 1] \o ss[i]
        BY <2>3, <3>3
      <4>2. i - 1 \in 0 .. Len(ss) /\ i - 1 # 0
        BY <1>1, <3>3
      <4>3. pre[i - 1] = f[i - 1]
        BY <4>2
      <4> QED
        BY <3>1, <4>1, <4>3
    <3> QED
      BY <3>2, <3>3
  <2>5. pre[0] = <<>> /\ pre[Len(ss)] = f[Len(ss)]
    BY <1>1, <1>3
  <2> HIDE DEF pre
  <2>6. PutTogether(pre, ss)
    BY <2>4, <2>5 DEF PutTogether
  <2> QED
    BY <2>2, <2>5, <2>6
<1> QED
  BY <1>2, <1>3

LEMMA FlattenInSeq ==
    ASSUME NEW R, NEW ss \in Seq(Seq(R))
    PROVE  FlattenSeq(ss) \in Seq(R)
<1>1. PICK pre : PutTogether(pre, ss) /\ FlattenSeq(ss) = pre[Len(ss)]
  BY FlattenByPrefixes
<1>2. Len(ss) \in Nat
  OBVIOUS
<1> QED
  BY <1>1, <1>2, PrefixesAreSequences

LEMMA FlattenIs ==
    ASSUME NEW R, NEW ss \in Seq(Seq(R)), NEW pre, PutTogether(pre, ss)
    PROVE  FlattenSeq(ss) = pre[Len(ss)]
<1>1. Len(ss) \in Nat
  OBVIOUS
<1>2. PICK q : PutTogether(q, ss) /\ FlattenSeq(ss) = q[Len(ss)]
  BY FlattenByPrefixes
<1> QED
  BY <1>1, <1>2, PrefixesAreUnique

-----------------------------------------------------------------------------
(***************************************************************************)
(* What a line does to what has been collected, apart from the buffers.    *)
(***************************************************************************)

IsCollector(c) == c = [x \in CollectorFields |-> c[x]]

\* The record of what has been read.
Record(t, b, u, s, g) == [text |-> t, blocks |-> b, tools |-> u, stop |-> s, usage |-> g]
RecordOf(c) == Record(c.text, c.blocks, c.tools, c.stop, c.usage)

LEMMA RelayRecord ==
    ASSUME NEW c, NEW line, IsCollector(c)
    PROVE  /\ IsCollector(Relay(c, line)) /\ IsCollector(Flushed(c))
           /\ RecordOf(Relay(c, line)) = RecordOf(c) /\ RecordOf(Flushed(c)) = RecordOf(c)
BY DEF IsCollector, RecordOf, Record, Relay, Flushed, CollectorFields

\* One field of what has been read, changed in the collector and in the record.
LEMMA StopRecord ==
    ASSUME NEW c, NEW s, IsCollector(c)
    PROVE  /\ IsCollector([c EXCEPT !.stop = s])
           /\ RecordOf([c EXCEPT !.stop = s]) = [RecordOf(c) EXCEPT !.stop = s]
           /\ [c EXCEPT !.stop = s].usage = c.usage
BY DEF IsCollector, RecordOf, Record, CollectorFields

LEMMA UsageRecord ==
    ASSUME NEW c, NEW g, IsCollector(c)
    PROVE  /\ IsCollector([c EXCEPT !.usage = g])
           /\ RecordOf([c EXCEPT !.usage = g]) = [RecordOf(c) EXCEPT !.usage = g]
BY DEF IsCollector, RecordOf, Record, CollectorFields

Counted(line, g) ==
    [input |-> Taken(line.input, g.input), output |-> Taken(line.output, g.output),
     cached |-> Taken(line.cached, g.cached), created |-> Taken(line.created, g.created)]
LastStop(line, s) == IF line.stop = "" THEN s ELSE line.stop

LEMMA WithUsageRecord ==
    ASSUME NEW c, NEW line, IsCollector(c)
    PROVE  /\ IsCollector(WithUsage(c, line))
           /\ RecordOf(WithUsage(c, line)) = [RecordOf(c) EXCEPT !.usage = Counted(line, c.usage)]
<1>1. "usage" \in DOMAIN c
  BY DEF IsCollector, CollectorFields
<1>2. WithUsage(c, line) = [c EXCEPT !.usage = Counted(line, c.usage)]
  BY <1>1 DEF WithUsage, Counted
<1> QED
  BY <1>2, UsageRecord

LEMMA MessageDeltaRecord ==
    ASSUME NEW c, NEW line, IsCollector(c)
    PROVE  /\ IsCollector(MessageDelta(c, line))
           /\ RecordOf(MessageDelta(c, line))
                = Record(c.text, c.blocks, c.tools, LastStop(line, c.stop), Counted(line, c.usage))
<1> DEFINE s == LastStop(line, c.stop)
           d == [c EXCEPT !.stop = s]
<1>1. MessageDelta(c, line) = WithUsage(d, line)
  <2>1. "stop" \in DOMAIN c
    BY DEF IsCollector, CollectorFields
  <2> QED
    BY <2>1 DEF MessageDelta, LastStop
<1> HIDE DEF s
<1>2. IsCollector(d) /\ RecordOf(d) = [RecordOf(c) EXCEPT !.stop = s] /\ d.usage = c.usage
  BY StopRecord
<1> HIDE DEF d
<1>3. IsCollector(WithUsage(d, line))
      /\ RecordOf(WithUsage(d, line)) = [RecordOf(d) EXCEPT !.usage = Counted(line, c.usage)]
  BY <1>2, WithUsageRecord
<1>4. RecordOf(WithUsage(d, line)) = Record(c.text, c.blocks, c.tools, s, Counted(line, c.usage))
  BY <1>2, <1>3 DEF RecordOf, Record
<1> QED
  BY <1>1, <1>3, <1>4 DEF s

LEMMA ChunkRecord ==
    ASSUME NEW c, NEW line, IsCollector(c)
    PROVE  /\ IsCollector(Chunk(c, line))
           /\ RecordOf(Chunk(c, line))
                = Record(c.text \o Piece(line.text), c.blocks, c.tools,
                         LastStop(line, c.stop), Counted(line, c.usage))
<1> DEFINE t == c.text \o Piece(line.text)
           d == [c EXCEPT !.text = t]
<1>1. Chunk(c, line) = MessageDelta(d, line)
  BY DEF Chunk, MessageDelta, IsCollector, CollectorFields
<1> HIDE DEF t
<1>2. IsCollector(d) /\ RecordOf(d) = Record(t, c.blocks, c.tools, c.stop, c.usage)
  BY DEF IsCollector, RecordOf, Record, CollectorFields
<1>3. d.text = t /\ d.blocks = c.blocks /\ d.tools = c.tools /\ d.stop = c.stop /\ d.usage = c.usage
  BY <1>2 DEF RecordOf, Record
<1> HIDE DEF d
<1> QED
  BY <1>1, <1>2, <1>3, MessageDeltaRecord DEF t

Longer(b, line) == [b EXCEPT !.text = @ \o Piece(line.text)]
Lengthened(blocks, line) ==
    IF Len(blocks) > 0 /\ blocks[Len(blocks)].type = "text"
    THEN [blocks EXCEPT ![Len(blocks)] = Longer(blocks[Len(blocks)], line)] ELSE blocks

LEMMA TextDeltaRecord ==
    ASSUME NEW c, NEW line, IsCollector(c)
    PROVE  /\ IsCollector(TextDelta(c, line))
           /\ RecordOf(TextDelta(c, line))
                = Record(c.text \o Piece(line.text), Lengthened(c.blocks, line), c.tools, c.stop, c.usage)
<1> DEFINE t == c.text \o Piece(line.text)
           b == Lengthened(c.blocks, line)
<1>1. TextDelta(c, line) = [c EXCEPT !.text = t, !.blocks = b]
  BY DEF TextDelta, Lengthened, Longer, IsCollector, CollectorFields
<1> HIDE DEF t, b
<1>2. IsCollector([c EXCEPT !.text = t, !.blocks = b])
      /\ RecordOf([c EXCEPT !.text = t, !.blocks = b]) = Record(t, b, c.tools, c.stop, c.usage)
  BY DEF IsCollector, RecordOf, Record, CollectorFields
<1> QED
  BY <1>1, <1>2 DEF t, b

Opened(line) ==
    IF line.block = "tool_use"
    THEN [type |-> "tool_use", id |-> line.id, name |-> line.name, text |-> Piece(line.args)]
    ELSE [type |-> "text", id |-> "", name |-> "", text |-> <<>>]
Called(line, tools) ==
    IF line.block = "tool_use"
    THEN Append(tools, [id |-> line.id, name |-> line.name, input |-> Piece(line.args)]) ELSE tools

LEMMA StartBlockRecord ==
    ASSUME NEW c, NEW line, IsCollector(c)
    PROVE  /\ IsCollector(StartBlock(c, line))
           /\ RecordOf(StartBlock(c, line))
                = Record(c.text, Append(c.blocks, Opened(line)), Called(line, c.tools), c.stop, c.usage)
BY DEF IsCollector, RecordOf, Record, CollectorFields, StartBlock, Opened, Called

\* What a line does to the record.
Reading(v, line) ==
    IF line.kind # "data" THEN v
    ELSE CASE line.type = "content_block_start" ->
                Record(v.text, Append(v.blocks, Opened(line)), Called(line, v.tools), v.stop, v.usage)
           [] line.type = "content_block_delta" ->
                IF line.delta # "text_delta" THEN v
                ELSE Record(v.text \o Piece(line.text), Lengthened(v.blocks, line),
                            v.tools, v.stop, v.usage)
           [] line.type \in {"content_block_stop", "message_start"} -> v
           [] line.type = "message_delta" ->
                Record(v.text, v.blocks, v.tools, LastStop(line, v.stop), Counted(line, v.usage))
           [] OTHER ->
                Record(v.text \o Piece(line.text), v.blocks, v.tools,
                       LastStop(line, v.stop), Counted(line, v.usage))

LEMMA ReadLineRecord ==
    ASSUME NEW c, NEW line, IsCollector(c)
    PROVE  IsCollector(ReadLine(c, line)) /\ RecordOf(ReadLine(c, line)) = Reading(RecordOf(c), line)
<1> DEFINE d == Relay(c, line)
           v == RecordOf(c)
<1>1. IsCollector(d) /\ RecordOf(d) = v
  BY RelayRecord
<1> HIDE DEF d
<1>2. d.text = v.text /\ d.blocks = v.blocks /\ d.tools = v.tools /\ d.stop = v.stop /\ d.usage = v.usage
  BY <1>1 DEF RecordOf, Record
<1> HIDE DEF v
<1>3. IsCollector(Digest(d, line)) /\ (line.kind = "data" => RecordOf(Digest(d, line)) = Reading(v, line))
  <2>1. CASE line.type = "content_block_start"
    BY <1>1, <1>2, <2>1, StartBlockRecord DEF Digest, Reading
  <2>2. CASE line.type = "content_block_delta"
    BY <1>1, <1>2, <2>2, TextDeltaRecord DEF Digest, Reading
  <2>3. CASE line.type \in {"content_block_stop", "message_start"}
    BY <1>1, <1>2, <2>3 DEF Digest, Reading
  <2>4. CASE line.type = "message_delta"
    BY <1>1, <1>2, <2>4, MessageDeltaRecord DEF Digest, Reading
  <2>5. CASE line.type \notin {"content_block_start", "content_block_delta", "content_block_stop",
                               "message_start", "message_delta"}
    <3>1. Digest(d, line) = Chunk(d, line)
      BY <2>5 DEF Digest
    <3> QED
      BY <1>1, <1>2, <2>5, <3>1, ChunkRecord DEF Reading
  <2> QED
    BY <2>1, <2>2, <2>3, <2>4, <2>5
<1> QED
  BY <1>1, <1>3 DEF ReadLine, Reading, d, v

-----------------------------------------------------------------------------
(***************************************************************************)
(* Reading line after line, without recursion: through is what there is    *)
(* after each line.                                                        *)
(***************************************************************************)

Through(r, v, lines, w) ==
    /\ r[0] = v /\ r[Len(lines)] = w
    /\ \A k \in 1 .. Len(lines) : r[k] = Reading(r[k - 1], lines[k])
Reads(v, lines, w) == \E r : Through(r, v, lines, w)

LEMMA ReadsNothing == ASSUME NEW v, NEW w, Reads(v, <<>>, w) PROVE w = v
BY DEF Reads, Through

LEMMA ReadsOne ==
    ASSUME NEW v, NEW e, NEW w, Reads(v, <<e>>, w) PROVE w = Reading(v, e)
BY DEF Reads, Through

LEMMA ReadsTwo ==
    ASSUME NEW v, NEW e, NEW f, NEW w, Reads(v, <<e, f>>, w)
    PROVE  w = Reading(Reading(v, e), f)
<1>1. PICK r : Through(r, v, <<e, f>>, w)
  BY DEF Reads
<1>2. r[0] = v /\ r[2] = w
  BY <1>1 DEF Through
<1>3. \A k \in 1 .. 2 : r[k] = Reading(r[k - 1], <<e, f>>[k])
  BY <1>1 DEF Through
<1>4. r[1] = Reading(r[0], e) /\ r[2] = Reading(r[1], f)
  BY <1>3
<1> QED
  BY <1>2, <1>4

LEMMA ReadsParted ==
    ASSUME NEW R, NEW a \in Seq(R), NEW b \in Seq(R), NEW v, NEW w, Reads(v, a \o b, w)
    PROVE  \E u : Reads(v, a, u) /\ Reads(u, b, w)
<1>1. PICK r : Through(r, v, a \o b, w)
  BY DEF Reads
<1> DEFINE m == Len(a)
           n == Len(b)
           z == a \o b
           q == [k \in 0 .. n |-> r[m + k]]
<1>2. m \in Nat /\ n \in Nat /\ Len(z) = m + n
  BY ConcatProperties
<1>3. \A k \in 1 .. m : z[k] = a[k]
  BY ConcatProperties
<1>4. \A k \in 1 .. n : z[m + k] = b[k]
  BY ConcatProperties
<1>5. r[0] = v /\ r[m + n] = w /\ \A k \in 1 .. m + n : r[k] = Reading(r[k - 1], z[k])
  BY <1>1, <1>2 DEF Through
<1>6. Through(r, v, a, r[m])
  <2>1. \A k \in 1 .. m : r[k] = Reading(r[k - 1], a[k])
    BY <1>2, <1>3, <1>5
  <2> QED
    BY <2>1, <1>5 DEF Through
<1>7. Through(q, r[m], b, w)
  <2>1. \A k \in 1 .. n : q[k] = Reading(q[k - 1], b[k])
    <3> SUFFICES ASSUME NEW k \in 1 .. n PROVE q[k] = Reading(q[k - 1], b[k])
      OBVIOUS
    <3>1. m + k \in 1 .. m + n /\ (m + k) - 1 = m + (k - 1) /\ k - 1 \in 0 .. n /\ k \in 0 .. n
      BY <1>2
    <3>2. q[k] = r[m + k] /\ q[k - 1] = r[(m + k) - 1]
      BY <3>1
    <3>3. r[m + k] = Reading(r[(m + k) - 1], z[m + k])
      BY <3>1, <1>5
    <3> QED
      BY <3>2, <3>3, <1>4
  <2>2. q[0] = r[m] /\ q[n] = w
    BY <1>2, <1>5
  <2> QED
    BY <2>1, <2>2 DEF Through
<1> QED
  BY <1>6, <1>7 DEF Reads

LEMMA ReadsLonger ==
    ASSUME NEW R, NEW a \in Seq(R), NEW e \in R, NEW v, NEW w, Reads(v, a, w)
    PROVE  Reads(v, Append(a, e), Reading(w, e))
<1>1. PICK r : Through(r, v, a, w)
  BY DEF Reads
<1> DEFINE n == Len(a)
           z == Append(a, e)
           q == [k \in 0 .. n + 1 |-> IF k = n + 1 THEN Reading(w, e) ELSE r[k]]
<1>2. n \in Nat /\ Len(z) = n + 1 /\ z[n + 1] = e /\ \A k \in 1 .. n : z[k] = a[k]
  OBVIOUS
<1>3. r[0] = v /\ r[n] = w /\ \A k \in 1 .. n : r[k] = Reading(r[k - 1], a[k])
  BY <1>1 DEF Through
<1>4. \A k \in 1 .. n + 1 : q[k] = Reading(q[k - 1], z[k])
  <2> SUFFICES ASSUME NEW k \in 1 .. n + 1 PROVE q[k] = Reading(q[k - 1], z[k])
    OBVIOUS
  <2>1. q[k - 1] = r[k - 1]
    BY <1>2
  <2>2. CASE k = n + 1
    <3>1. q[k] = Reading(w, e) /\ k - 1 = n /\ z[k] = e
      BY <2>2, <1>2
    <3> QED
      BY <2>1, <3>1, <1>3
  <2>3. CASE k # n + 1
    <3>1. k \in 1 .. n /\ q[k] = r[k]
      BY <2>3, <1>2
    <3> QED
      BY <2>1, <3>1, <1>2, <1>3
  <2> QED
    BY <2>2, <2>3
<1>5. q[0] = v /\ q[Len(z)] = Reading(w, e)
  BY <1>2, <1>3
<1>6. Through(q, v, z, Reading(w, e))
  BY <1>2, <1>4, <1>5 DEF Through
<1> QED
  BY <1>6 DEF Reads

-----------------------------------------------------------------------------
(***************************************************************************)
(* The lines of a message.  What is around the data changes nothing.       *)
(***************************************************************************)

\* The provers do not know that a literal is in STRING.
Word == STRING \cup {"", "data", "event", "done", "quoted", "other", "assistant", "text", "tool_use",
                     "stop", "length", "tool_calls", "content_filter",
                     "end_turn", "max_tokens", "refusal", "message_start", "content_block_start", "content_block_delta",
                     "content_block_stop", "message_delta", "message_stop", "thinking",
                     "text_delta", "input_json_delta", "thinking_delta"}
Line == [kind : Word, type : Word, index : Int, role : Word, block : Word, id : Word,
         name : Word, delta : Word, text : Word, args : Word, stop : Word,
         input : Int, output : Int, cached : Int, created : Int]

LEMMA BlankLine == Blank \in Line
<1>1. NotGiven \in Int
  BY DEF NotGiven
<1> QED
  BY <1>1 DEF Blank, Line, Word

LEMMA FramedRead ==
    ASSUME NEW a, NEW e, NEW z, a.kind # "data", z.kind # "data", NEW v, NEW w,
           Reads(v, <<a, e, z>>, w)
    PROVE  w = Reading(v, e)
<1>1. PICK r : Through(r, v, <<a, e, z>>, w)
  BY DEF Reads
<1>2. r[0] = v /\ r[3] = w
  BY <1>1 DEF Through
<1>3. \A k \in 1 .. 3 : r[k] = Reading(r[k - 1], <<a, e, z>>[k])
  BY <1>1 DEF Through
<1>4. r[1] = Reading(r[0], a) /\ r[2] = Reading(r[1], e) /\ r[3] = Reading(r[2], z)
  BY <1>3
<1> QED
  BY <1>2, <1>4 DEF Reading

LEMMA FollowedRead ==
    ASSUME NEW e, NEW z, z.kind # "data", NEW v, NEW w, Reads(v, <<e, z>>, w)
    PROVE  w = Reading(v, e)
<1>1. PICK r : Through(r, v, <<e, z>>, w)
  BY DEF Reads
<1>2. r[0] = v /\ r[2] = w
  BY <1>1 DEF Through
<1>3. \A k \in 1 .. 2 : r[k] = Reading(r[k - 1], <<e, z>>[k])
  BY <1>1 DEF Through
<1>4. r[1] = Reading(r[0], e) /\ r[2] = Reading(r[1], z)
  BY <1>3
<1> QED
  BY <1>2, <1>4 DEF Reading

\* ss[i] are the lines of event e[i].
Frames(ss, e) ==
    /\ Len(ss) = Len(e)
    /\ \A i \in 1 .. Len(e) : \A v, w : Reads(v, ss[i], w) => w = Reading(v, e[i])

LEMMA EventsRead ==
    ASSUME NEW e \in Seq(Line), NEW ss \in Seq(Seq(Line)), Frames(ss, e), NEW v, NEW x,
           Reads(v, FlattenSeq(ss), x)
    PROVE  Reads(v, e, x)
<1>1. PICK pre : PutTogether(pre, ss) /\ FlattenSeq(ss) = pre[Len(ss)]
  BY FlattenByPrefixes
<1> DEFINE n == Len(e)
           ReadTo(k) == \A w : Reads(v, pre[k], w) => Reads(v, SubSeq(e, 1, k), w)
           S == {k \in 0 .. n : ~ ReadTo(k)}
<1>2. n \in Nat /\ n = Len(ss)
  BY DEF Frames
<1>3. \A k \in 0 .. n : pre[k] \in Seq(Line)
  BY <1>1, <1>2, PrefixesAreSequences
<1>4. ASSUME S # {} PROVE FALSE
  <2>1. PICK k \in S : \A j \in S : k <= j
    <3>1. S \in SUBSET Nat
      BY <1>2
    <3> HIDE DEF S
    <3> QED
      BY <1>4, <3>1, LeastNatural
  <2>2. PICK w : Reads(v, pre[k], w) /\ ~ Reads(v, SubSeq(e, 1, k), w)
    BY <2>1
  <2>3. k # 0
    <3>1. ASSUME k = 0 PROVE FALSE
      <4>1. w = v
        BY <1>1, <2>2, <3>1, ReadsNothing DEF PutTogether
      <4>2. SubSeq(e, 1, 0) = <<>>
        OBVIOUS
      <4>3. Reads(v, <<>>, v)
        <5>1. Through([i \in {0} |-> v], v, <<>>, v)
          BY DEF Through
        <5> QED
          BY <5>1 DEF Reads
      <4> QED
        BY <4>1, <4>2, <4>3, <2>2, <3>1
    <3> QED
      BY <3>1
  <2>4. k \in 1 .. n /\ k - 1 \in 0 .. n /\ k - 1 \notin S
    <3>1. k \in 0 .. n
      BY <2>1
    <3>2. k \in 1 .. n /\ k - 1 \in 0 .. n /\ ~(k <= k - 1)
      BY <3>1, <2>3, <1>2
    <3> HIDE DEF S
    <3> QED
      BY <2>1, <3>2
  <2>5. pre[k] = pre[k - 1] \o ss[k] /\ pre[k - 1] \in Seq(Line) /\ ss[k] \in Seq(Line)
    <3>1. k \in 1 .. Len(ss) /\ ss[k] \in Seq(Line)
      BY <1>2, <2>4
    <3>2. pre[k - 1] \in Seq(Line)
      BY <1>3, <2>4
    <3>3. pre[k] = pre[k - 1] \o ss[k]
      BY <1>1, <3>1 DEF PutTogether
    <3> QED
      BY <3>1, <3>2, <3>3
  <2>6. PICK u : Reads(v, pre[k - 1], u) /\ Reads(u, ss[k], w)
    BY <2>2, <2>5, ReadsParted
  <2>7. w = Reading(u, e[k])
    BY <2>4, <2>6 DEF Frames
  <2>8. Reads(v, SubSeq(e, 1, k - 1), u)
    BY <2>4, <2>6
  <2>9. /\ SubSeq(e, 1, k - 1) \in Seq(Line) /\ e[k] \in Line
        /\ SubSeq(e, 1, k) = Append(SubSeq(e, 1, k - 1), e[k])
    BY <1>2, <2>4
  <2> QED
    BY <2>2, <2>7, <2>8, <2>9, ReadsLonger
<1>5. ReadTo(n)
  <2> HIDE DEF ReadTo
  <2> QED
    BY <1>2, <1>4
<1>6. SubSeq(e, 1, n) = e
  BY <1>2
<1> QED
  BY <1>1, <1>2, <1>5, <1>6

-----------------------------------------------------------------------------
(***************************************************************************)
(* The events of a block.                                                  *)
(***************************************************************************)

TextBlock(p) == [type |-> "text", id |-> "", name |-> "", text |-> p]

LEMMA ReplacedLast ==
    ASSUME NEW T, NEW b \in Seq(T), NEW x, NEW y
    PROVE  [Append(b, x) EXCEPT ![Len(b) + 1] = y] = Append(b, y)
<1> DEFINE X == T \cup {x, y}
<1>1. b \in Seq(X) /\ x \in X /\ y \in X
  OBVIOUS
<1> HIDE DEF X
<1>2. Append(b, x) \in Seq(X) /\ Append(b, y) \in Seq(X) /\ Len(b) \in Nat
  BY <1>1
<1>3. DOMAIN Append(b, x) = 1 .. Len(b) + 1 /\ DOMAIN Append(b, y) = 1 .. Len(b) + 1
  BY <1>1
<1>4. Append(b, y) = [i \in 1 .. Len(b) + 1 |-> Append(b, y)[i]]
  <2>1. \A z \in Seq(X) : z = [i \in DOMAIN z |-> z[i]]
    OBVIOUS
  <2> QED
    BY <1>2, <1>3, <2>1
<1>5. \A i \in 1 .. Len(b) + 1 : Append(b, y)[i] = IF i = Len(b) + 1 THEN y ELSE Append(b, x)[i]
  BY <1>1
<1> QED
  BY <1>3, <1>4, <1>5

LEMMA LengthenedLast ==
    ASSUME NEW T, NEW b \in Seq(T), NEW x, x.type = "text", NEW line
    PROVE  Lengthened(Append(b, x), line) = Append(b, Longer(x, line))
<1> DEFINE n == Len(b) + 1
           z == Append(b, x)
<1>1. n \in Nat /\ n > 0 /\ Len(z) = n /\ z[n] = x
  <2>1. b \in Seq(T \cup {x})
    OBVIOUS
  <2> QED
    BY <2>1
<1>2. [z EXCEPT ![n] = Longer(x, line)] = Append(b, Longer(x, line))
  BY ReplacedLast
<1> HIDE DEF n, z
<1>3. Lengthened(z, line) = [z EXCEPT ![n] = Longer(x, line)]
  BY <1>1 DEF Lengthened
<1> QED
  BY <1>2, <1>3 DEF z

LEMMA OnePieceMore ==
    ASSUME NEW W, NEW p \in Seq(W), NEW t \in Seq(W), NEW k \in 1 .. Len(p)
    PROVE  /\ SubSeq(p, 1, k - 1) \o <<p[k]>> = SubSeq(p, 1, k)
           /\ (t \o SubSeq(p, 1, k - 1)) \o <<p[k]>> = t \o SubSeq(p, 1, k)
<1> DEFINE q == SubSeq(p, 1, k - 1)
<1>1. q \in Seq(W) /\ <<p[k]>> \in Seq(W)
  OBVIOUS
<1>2. q \o <<p[k]>> = SubSeq(p, 1, k)
  <2>1. Append(q, p[k]) = SubSeq(p, 1, k)
    OBVIOUS
  <2>2. q \o <<p[k]>> = Append(q, p[k])
    BY <1>1
  <2> QED
    BY <2>1, <2>2
<1> HIDE DEF q
<1>3. (t \o q) \o <<p[k]>> = t \o (q \o <<p[k]>>)
  BY <1>1, ConcatAssociative, SMTT(30)
<1> QED
  BY <1>2, <1>3 DEF q

NoneEmpty(p) == \A k \in 1 .. Len(p) : p[k] # ""
Delta(line, piece) ==
    /\ line.kind = "data" /\ line.type = "content_block_delta"
    /\ line.delta = "text_delta" /\ line.text = piece
Deltas(ls, p) == Len(ls) = Len(p) /\ \A k \in 1 .. Len(p) : Delta(ls[k], p[k])
Recorded(v, t, b, u, s, g) == v = Record(t, b, u, s, g)

LEMMA TextRead ==
    ASSUME NEW W, NEW p \in Seq(W), NoneEmpty(p), NEW ls, Deltas(ls, p),
           NEW t \in Seq(W), NEW T, NEW b \in Seq(T), NEW u, NEW s, NEW g, NEW w,
           NEW v, Recorded(v, t, Append(b, TextBlock(<<>>)), u, s, g), Reads(v, ls, w)
    PROVE  Recorded(w, t \o p, Append(b, TextBlock(p)), u, s, g)
<1> DEFINE n == Len(p)
           q(k) == SubSeq(p, 1, k)
           After(k) == Record(t \o q(k), Append(b, TextBlock(q(k))), u, s, g)
<1>1. PICK r : Through(r, v, ls, w)
  BY DEF Reads
<1>2. n \in Nat /\ q(n) = p /\ q(0) = <<>> /\ t \o <<>> = t
  BY SubSeqFull, SubSeqEmpty, ConcatEmptySeq
<1>3. r[0] = After(0) /\ r[n] = w /\ \A k \in 1 .. n : r[k] = Reading(r[k - 1], ls[k])
  BY <1>1, <1>2 DEF Through, Recorded, Deltas
<1>4. ASSUME NEW k \in 1 .. n, r[k - 1] = After(k - 1)
      PROVE  r[k] = After(k)
  <2> DEFINE x == After(k - 1)
             l == ls[k]
             old == TextBlock(q(k - 1))
  <2>1. /\ l.kind = "data" /\ l.type = "content_block_delta" /\ l.delta = "text_delta"
        /\ l.text = p[k] /\ p[k] # ""
    BY DEF Delta, Deltas, NoneEmpty
  <2>2. Piece(l.text) = <<p[k]>>
    BY <2>1 DEF Piece
  <2>3. old.type = "text" /\ Longer(old, l) = TextBlock(q(k - 1) \o <<p[k]>>)
    <3>1. Longer(old, l) = [old EXCEPT !.text = q(k - 1) \o <<p[k]>>]
      BY <2>2 DEF TextBlock, Longer
    <3> QED
      BY <3>1 DEF TextBlock
  <2>4. /\ x.text = t \o q(k - 1) /\ x.blocks = Append(b, old)
        /\ x.tools = u /\ x.stop = s /\ x.usage = g
    BY DEF Record
  <2>5. r[k] = Reading(x, l)
    BY <1>3, <1>4
  <2> HIDE DEF x, l, old
  <2>6. Lengthened(x.blocks, l) = Append(b, Longer(old, l))
    BY <2>3, <2>4, LengthenedLast
  <2>7. r[k] = Record((t \o q(k - 1)) \o <<p[k]>>, Append(b, Longer(old, l)), u, s, g)
    BY <2>1, <2>2, <2>4, <2>5, <2>6 DEF Reading
  <2>8. q(k - 1) \o <<p[k]>> = q(k) /\ (t \o q(k - 1)) \o <<p[k]>> = t \o q(k)
    BY OnePieceMore
  <2> QED
    BY <2>3, <2>7, <2>8
<1> DEFINE S == {k \in 0 .. n : r[k] # After(k)}
<1> HIDE DEF After, n
<1>5. ASSUME S # {} PROVE FALSE
  <2>1. PICK k \in S : \A j \in S : k <= j
    <3>1. S \in SUBSET Nat
      BY <1>2
    <3> HIDE DEF S
    <3> QED
      BY <1>5, <3>1, LeastNatural
  <2>2. k \in 1 .. n /\ k - 1 \in 0 .. n /\ ~(k <= k - 1)
    BY <1>2, <1>3, <2>1
  <2>3. k - 1 \notin S
    <3> HIDE DEF S
    <3> QED
      BY <2>1, <2>2
  <2> QED
    BY <1>4, <2>1, <2>2, <2>3
<1>6. r[n] = After(n)
  BY <1>2, <1>5
<1> QED
  BY <1>2, <1>3, <1>6 DEF After, Recorded

-----------------------------------------------------------------------------

LEMMA StillRead ==
    ASSUME NEW ls, Len(ls) \in Nat, NEW v, \A k \in 1 .. Len(ls) : Reading(v, ls[k]) = v,
           NEW w, Reads(v, ls, w)
    PROVE  w = v
<1> DEFINE n == Len(ls)
<1>1. PICK r : Through(r, v, ls, w)
  BY DEF Reads
<1>2. r[0] = v /\ r[n] = w /\ \A k \in 1 .. n : r[k] = Reading(r[k - 1], ls[k])
  BY <1>1 DEF Through
<1> DEFINE S == {k \in 0 .. n : r[k] # v}
<1>3. n \in Nat /\ \A k \in 1 .. n : Reading(v, ls[k]) = v
  OBVIOUS
<1> HIDE DEF n
<1>4. ASSUME S # {} PROVE FALSE
  <2>1. PICK k \in S : \A j \in S : k <= j
    <3>1. S \in SUBSET Nat
      BY <1>3
    <3> HIDE DEF S
    <3> QED
      BY <1>4, <3>1, LeastNatural
  <2>2. k \in 1 .. n /\ k - 1 \in 0 .. n /\ ~(k <= k - 1)
    BY <1>2, <1>3, <2>1
  <2>3. k - 1 \notin S
    <3> HIDE DEF S
    <3> QED
      BY <2>1, <2>2
  <2>4. r[k] = Reading(r[k - 1], ls[k]) /\ r[k - 1] = v
    BY <1>2, <2>2, <2>3
  <2> QED
    BY <1>3, <2>1, <2>2, <2>4
<1> QED
  BY <1>2, <1>3, <1>4

\* Deltas of anything but text.
OtherDeltas(ls) ==
    Len(ls) \in Nat /\ \A k \in 1 .. Len(ls) :
        ls[k].kind = "data" /\ ls[k].type = "content_block_delta" /\ ls[k].delta # "text_delta"

LEMMA OtherDeltasRead ==
    ASSUME NEW ls, OtherDeltas(ls), NEW v, NEW w, Reads(v, ls, w)
    PROVE  w = v
<1>1. ASSUME NEW k \in 1 .. Len(ls) PROVE Reading(v, ls[k]) = v
  BY DEF OtherDeltas, Reading
<1> QED
  BY <1>1, StillRead DEF OtherDeltas

\* What a block adds to the text, the blocks and the tools.
SaidIn(bl) == IF bl.type = "text" THEN bl.text ELSE <<>>
Named(bl) == [id |-> bl.id, name |-> bl.name, input |-> <<>>]
AskedIn(bl) == IF bl.type = "tool_use" THEN <<Named(bl)>> ELSE <<>>
Repeated(bl) ==
    IF bl.type = "tool_use"
    THEN [type |-> "tool_use", id |-> bl.id, name |-> bl.name, text |-> <<>>]
    ELSE TextBlock(SaidIn(bl))

Block == [type : {"text", "tool_use", "thinking"}, id : Word, name : Word, text : Seq(Word)]

In(i, type) == [Data(type) EXCEPT !.index = i - 1]
Opening(i, bl) ==
    [In(i, "content_block_start") EXCEPT !.block = bl.type, !.id = bl.id, !.name = bl.name]
Middle(i, bl) ==
    [k \in DOMAIN bl.text |->
       IF bl.type = "tool_use"
       THEN [In(i, "content_block_delta") EXCEPT !.delta = "input_json_delta", !.args = bl.text[k]]
       ELSE [In(i, "content_block_delta") EXCEPT !.delta = IF bl.type = "text" THEN "text_delta"
                                                           ELSE "thinking_delta",
                                                 !.text = bl.text[k]]]
Closing(i) == In(i, "content_block_stop")

LEMMA BlockEventsAre ==
    ASSUME NEW i, NEW bl
    PROVE  BlockEvents(i, bl) = <<Opening(i, bl)>> \o Middle(i, bl) \o <<Closing(i)>>
BY DEF BlockEvents, Opening, Middle, Closing, In

LEMMA InIs ==
    ASSUME NEW i, NEW type
    PROVE  In(i, type) = [Blank EXCEPT !.type = type, !.index = i - 1]
BY DEF In, Data, Blank

LEMMA InLine == ASSUME NEW i \in Nat, NEW type \in Word PROVE In(i, type) \in Line
<1>1. i - 1 \in Int
  OBVIOUS
<1>2. Data(type) \in Line
  BY BlankLine DEF Data, Line
<1> QED
  BY <1>1, <1>2 DEF In, Line

-----------------------------------------------------------------------------

LEMMA BlockLines ==
    ASSUME NEW i \in Nat, NEW bl \in Block
    PROVE  /\ Opening(i, bl) \in Line /\ Closing(i) \in Line
           /\ Middle(i, bl) \in Seq(Line) /\ Len(Middle(i, bl)) = Len(bl.text)
<1>1. /\ bl.id \in Word /\ bl.name \in Word
      /\ bl.text \in Seq(Word)
  BY DEF Block
<1>2a. bl.type \in Word
  BY DEF Block, Word
<1>2. \A type \in {"content_block_start", "content_block_delta", "content_block_stop"} :
        In(i, type) \in Line
  BY InLine DEF Word
<1>3. Opening(i, bl) \in Line /\ Closing(i) \in Line
  BY <1>1, <1>2, <1>2a DEF Opening, Closing, Line
<1>4. \A k \in DOMAIN bl.text : bl.text[k] \in Word
  BY <1>1
<1> DEFINE d == In(i, "content_block_delta")
           p == bl.text
<1>5. d \in Line
  BY <1>2
<1> HIDE DEF d
<1> DEFINE kd == IF bl.type = "text" THEN "text_delta" ELSE "thinking_delta"
           A(x) == [d EXCEPT !.delta = "input_json_delta", !.args = x]
           T(x) == [d EXCEPT !.delta = kd, !.text = x]
<1>6. \A x \in Word : A(x) \in Line /\ T(x) \in Line
  <2>1. kd \in Word /\ "input_json_delta" \in Word
    BY DEF Word
  <2> HIDE DEF kd
  <2>2. \A x, y \in Word : /\ [d EXCEPT !.delta = y, !.text = x] \in Line
                            /\ [d EXCEPT !.delta = y, !.args = x] \in Line
    BY <1>5 DEF Line
  <2> QED
    BY <2>1, <2>2
<1>7. Middle(i, bl) = [k \in DOMAIN p |-> IF bl.type = "tool_use" THEN A(p[k]) ELSE T(p[k])]
  BY DEF Middle, d
<1> HIDE DEF A, T
<1>8. DOMAIN p = 1 .. Len(p) /\ Len(p) \in Nat
  BY <1>1
<1> HIDE DEF p
<1>9. \A k \in 1 .. Len(p) : Middle(i, bl)[k] \in Line
  BY <1>4, <1>6, <1>7, <1>8 DEF p
<1>10. Middle(i, bl) = [k \in 1 .. Len(p) |-> Middle(i, bl)[k]]
  BY <1>7, <1>8
<1>11. Middle(i, bl) \in Seq(Line) /\ Len(Middle(i, bl)) = Len(p)
  <2> DEFINE M == Middle(i, bl)
  <2> HIDE DEF M
  <2>1. M = [k \in 1 .. Len(p) |-> M[k]] /\ \A k \in 1 .. Len(p) : M[k] \in Line
    BY <1>9, <1>10 DEF M
  <2>2. M \in Seq(Line) /\ Len(M) = Len(p)
    BY <1>8, <2>1
  <2> QED
    BY <2>2 DEF M
<1> QED
  BY <1>3, <1>11 DEF p

LEMMA MiddleDeltas ==
    ASSUME NEW i \in Nat, NEW bl \in Block
    PROVE  /\ bl.type = "text" => Deltas(Middle(i, bl), bl.text)
           /\ bl.type # "text" => OtherDeltas(Middle(i, bl))
<1> DEFINE d == In(i, "content_block_delta")
           p == bl.text
           M == Middle(i, bl)
           y == IF bl.type = "text" THEN "text_delta" ELSE "thinking_delta"
           A(x) == [d EXCEPT !.delta = "input_json_delta", !.args = x]
           T(x) == [d EXCEPT !.delta = y, !.text = x]
<1>1. \A x, z : /\ [d EXCEPT !.delta = z, !.text = x].kind = "data"
                /\ [d EXCEPT !.delta = z, !.text = x].type = "content_block_delta"
                /\ [d EXCEPT !.delta = z, !.text = x].delta = z
                /\ [d EXCEPT !.delta = z, !.text = x].text = x
                /\ [d EXCEPT !.delta = z, !.args = x].kind = "data"
                /\ [d EXCEPT !.delta = z, !.args = x].type = "content_block_delta"
                /\ [d EXCEPT !.delta = z, !.args = x].delta = z
  BY InIs DEF Blank
<1>2. DOMAIN p = 1 .. Len(p) /\ Len(M) = Len(p) /\ Len(p) \in Nat
  BY BlockLines DEF Block
<1>3. M = [k \in DOMAIN p |-> IF bl.type = "tool_use" THEN A(p[k]) ELSE T(p[k])]
  BY DEF Middle
<1>4. \A x : /\ A(x).kind = "data" /\ A(x).type = "content_block_delta"
             /\ A(x).delta # "text_delta"
             /\ T(x).kind = "data" /\ T(x).type = "content_block_delta" /\ T(x).text = x
             /\ bl.type = "text" => T(x).delta = "text_delta"
             /\ bl.type # "text" => T(x).delta # "text_delta"
  <2>1. /\ bl.type = "text" => y = "text_delta"
        /\ bl.type # "text" => y # "text_delta"
    OBVIOUS
  <2> HIDE DEF d, y
  <2> QED
    BY <1>1, <2>1
<1> HIDE DEF d, p, M, y, A, T
<1>5. CASE bl.type = "text"
  <2>1. \A k \in 1 .. Len(p) : Delta(M[k], p[k])
    BY <1>2, <1>3, <1>4, <1>5 DEF Delta
  <2> QED
    BY <1>2, <1>5, <2>1 DEF Deltas, M, p
<1>6. CASE bl.type # "text"
  <2>1. \A k \in 1 .. Len(p) :
          M[k].kind = "data" /\ M[k].type = "content_block_delta" /\ M[k].delta # "text_delta"
    BY <1>2, <1>3, <1>4, <1>6
  <2> QED
    BY <1>2, <1>6, <2>1 DEF M, OtherDeltas
<1> QED
  BY <1>5, <1>6

LEMMA OpeningRead ==
    ASSUME NEW i \in Nat, NEW bl \in Block, NEW t, NEW b, NEW u, NEW s, NEW g,
           NEW v, Recorded(v, t, b, u, s, g)
    PROVE  Recorded(Reading(v, Opening(i, bl)), t,
                    Append(b, IF bl.type = "text" THEN TextBlock(<<>>) ELSE Repeated(bl)),
                    IF bl.type = "tool_use" THEN Append(u, Named(bl)) ELSE u, s, g)
<1> DEFINE l == Opening(i, bl)
<1>1. /\ l.kind = "data" /\ l.type = "content_block_start" /\ l.block = bl.type
      /\ l.id = bl.id /\ l.name = bl.name /\ l.args = ""
  BY InIs DEF Opening, Blank
<1>2. v.text = t /\ v.blocks = b /\ v.tools = u /\ v.stop = s /\ v.usage = g
  BY DEF Recorded, Record
<1> HIDE DEF l
<1>3. Reading(v, l) = Record(t, Append(b, Opened(l)), Called(l, u), s, g)
  BY <1>1, <1>2 DEF Reading
<1>4. Piece(l.args) = <<>>
  BY <1>1 DEF Piece
<1>5. Opened(l) = IF bl.type = "text" THEN TextBlock(<<>>) ELSE Repeated(bl)
  BY <1>1, <1>4 DEF Opened, TextBlock, Repeated, SaidIn
<1>6. Called(l, u) = IF bl.type = "tool_use" THEN Append(u, Named(bl)) ELSE u
  BY <1>1, <1>4 DEF Called, Named
<1> QED
  BY <1>3, <1>5, <1>6 DEF Recorded, l

LEMMA ClosingRead ==
    ASSUME NEW i \in Nat, NEW v
    PROVE  Reading(v, Closing(i)) = v
<1> DEFINE l == Closing(i)
<1>1. l.kind = "data" /\ l.type = "content_block_stop"
  <2>1. l = [Blank EXCEPT !.type = "content_block_stop", !.index = i - 1]
    BY InIs DEF Closing
  <2> QED
    BY <2>1 DEF Blank
<1> HIDE DEF l
<1> QED
  BY <1>1 DEF Reading, l

CalledTool == [id : Word, name : Word, input : Seq(Word)]

LEMMA NamedCalled == ASSUME NEW bl \in Block PROVE Named(bl) \in CalledTool
<1>1. <<>> \in Seq(Word)
  OBVIOUS
<1> QED
  BY <1>1 DEF Named, CalledTool, Block

LEMMA BlockRead ==
    ASSUME NEW i \in Nat, NEW bl \in Block, NoneEmpty(bl.text),
           NEW t \in Seq(Word), NEW T, NEW b \in Seq(T), NEW u \in Seq(CalledTool), NEW s, NEW g, NEW w,
           NEW v, Recorded(v, t, b, u, s, g), Reads(v, BlockEvents(i, bl), w)
    PROVE  Recorded(w, t \o SaidIn(bl), Append(b, Repeated(bl)), u \o AskedIn(bl), s, g)
<1> DEFINE o == Opening(i, bl)
           m == Middle(i, bl)
           c == Closing(i)
           x == IF bl.type = "text" THEN TextBlock(<<>>) ELSE Repeated(bl)
           z == IF bl.type = "tool_use" THEN Append(u, Named(bl)) ELSE u
<1>1. o \in Line /\ c \in Line /\ m \in Seq(Line) /\ Len(m) = Len(bl.text)
  BY BlockLines
<1>2. BlockEvents(i, bl) = <<o>> \o m \o <<c>>
  BY BlockEventsAre
<1>3. Recorded(Reading(v, o), t, Append(b, x), z, s, g)
  BY OpeningRead
<1>4. \A y : Reading(y, c) = y
  BY ClosingRead
<1>5. /\ bl.type = "text" => Deltas(m, bl.text)
      /\ bl.type # "text" => OtherDeltas(m)
  BY MiddleDeltas
<1> HIDE DEF o, m, c
<1>6. <<o>> \in Seq(Line) /\ <<c>> \in Seq(Line) /\ <<o>> \o m \in Seq(Line)
  BY <1>1, ConcatProperties
<1>7. PICK q : Reads(v, <<o>> \o m, q) /\ Reads(q, <<c>>, w)
  BY <1>1, <1>2, <1>6, ReadsParted
<1>8. w = q
  BY <1>4, <1>7, ReadsOne
<1>9. PICK y : Reads(v, <<o>>, y) /\ Reads(y, m, q)
  BY <1>1, <1>6, <1>7, ReadsParted
<1>10. y = Reading(v, o)
  BY <1>9, ReadsOne
<1> HIDE DEF x, z
<1>11. Recorded(y, t, Append(b, x), z, s, g) /\ Reads(y, m, w)
  BY <1>3, <1>8, <1>9, <1>10
<1>12. CASE bl.type = "text"
  <2>1. x = TextBlock(<<>>) /\ z = u
    BY <1>12 DEF x, z
  <2>2. bl.text \in Seq(Word) /\ Deltas(m, bl.text)
    BY <1>5, <1>12 DEF Block
  <2>3. Recorded(w, t \o bl.text, Append(b, TextBlock(bl.text)), u, s, g)
    BY <1>11, <2>1, <2>2, TextRead
  <2>4. u \o <<>> = u
    BY ConcatEmptySeq
  <2>5. SaidIn(bl) = bl.text /\ Repeated(bl) = TextBlock(bl.text) /\ AskedIn(bl) = <<>>
    BY <1>12 DEF SaidIn, Repeated, AskedIn
  <2> QED
    BY <2>3, <2>4, <2>5
<1>13. CASE bl.type # "text"
  <2>1. x = Repeated(bl) /\ SaidIn(bl) = <<>>
    BY <1>13 DEF x, SaidIn
  <2>2. w = y
    BY <1>5, <1>11, <1>13, OtherDeltasRead
  <2>3. t \o <<>> = t /\ u \o <<>> = u
    BY ConcatEmptySeq
  <2>4. Named(bl) \in CalledTool
    BY NamedCalled
  <2>5. u \o <<Named(bl)>> = Append(u, Named(bl))
    BY <2>4, AppendIsConcat
  <2>6. u \o AskedIn(bl) = z
    BY <2>3, <2>5 DEF AskedIn, z
  <2> QED
    BY <1>11, <2>1, <2>2, <2>3, <2>6
<1> QED
  BY <1>12, <1>13

-----------------------------------------------------------------------------
(***************************************************************************)
(* All blocks of a message.                                                *)
(***************************************************************************)

EventsOf(B) == [i \in DOMAIN B |-> BlockEvents(i, B[i])]
SaidParts(B) == [i \in DOMAIN B |-> SaidIn(B[i])]
AskedParts(B) == [i \in DOMAIN B |-> AskedIn(B[i])]
RepeatedTo(B, k) == [j \in 1 .. k |-> Repeated(B[j])]
WholeBlocks(B) == \A i \in DOMAIN B : NoneEmpty(B[i].text)

LEMMA BlockEventsLines ==
    ASSUME NEW i \in Nat, NEW bl \in Block
    PROVE  BlockEvents(i, bl) \in Seq(Line)
<1> DEFINE o == Opening(i, bl)
           m == Middle(i, bl)
           c == Closing(i)
<1>1. o \in Line /\ c \in Line /\ m \in Seq(Line)
  BY BlockLines
<1>2. BlockEvents(i, bl) = <<o>> \o m \o <<c>>
  BY BlockEventsAre
<1> HIDE DEF o, m, c
<1>3. <<o>> \in Seq(Line) /\ <<c>> \in Seq(Line)
  BY <1>1
<1>4. <<o>> \o m \in Seq(Line)
  BY <1>1, <1>3, ConcatProperties
<1> QED
  BY <1>2, <1>3, <1>4, ConcatProperties

LEMMA PartsAreSequences ==
    ASSUME NEW B \in Seq(Block)
    PROVE  /\ EventsOf(B) \in Seq(Seq(Line)) /\ SaidParts(B) \in Seq(Seq(Word))
           /\ AskedParts(B) \in Seq(Seq(CalledTool))
           /\ Len(EventsOf(B)) = Len(B) /\ Len(SaidParts(B)) = Len(B) /\ Len(AskedParts(B)) = Len(B)
<1> DEFINE n == Len(B)
<1>1. DOMAIN B = 1 .. n /\ n \in Nat /\ \A i \in 1 .. n : B[i] \in Block
  OBVIOUS
<1>2. ASSUME NEW S, NEW f, DOMAIN f = 1 .. n, f = [i \in 1 .. n |-> f[i]], \A i \in 1 .. n : f[i] \in S
      PROVE  f \in Seq(S) /\ Len(f) = n
  BY <1>1, <1>2
<1> HIDE DEF n
<1>3. \A i \in 1 .. n : BlockEvents(i, B[i]) \in Seq(Line)
  BY <1>1, BlockEventsLines
<1>4. \A i \in 1 .. n : SaidIn(B[i]) \in Seq(Word)
  <2> SUFFICES ASSUME NEW i \in 1 .. n PROVE SaidIn(B[i]) \in Seq(Word)
    OBVIOUS
  <2>1. B[i].text \in Seq(Word) /\ <<>> \in Seq(Word)
    BY <1>1 DEF Block
  <2> QED
    BY <2>1 DEF SaidIn
<1>5. \A i \in 1 .. n : AskedIn(B[i]) \in Seq(CalledTool)
  <2> SUFFICES ASSUME NEW i \in 1 .. n PROVE AskedIn(B[i]) \in Seq(CalledTool)
    OBVIOUS
  <2>1. Named(B[i]) \in CalledTool
    BY <1>1, NamedCalled
  <2>2. \A x \in CalledTool : <<x>> \in Seq(CalledTool)
    OBVIOUS
  <2>3. <<>> \in Seq(CalledTool)
    OBVIOUS
  <2> QED
    BY <2>1, <2>2, <2>3 DEF AskedIn
<1>6. EventsOf(B) \in Seq(Seq(Line)) /\ Len(EventsOf(B)) = n
  BY <1>1, <1>2, <1>3 DEF EventsOf
<1>7. SaidParts(B) \in Seq(Seq(Word)) /\ Len(SaidParts(B)) = n
  BY <1>1, <1>2, <1>4 DEF SaidParts
<1>8. AskedParts(B) \in Seq(Seq(CalledTool)) /\ Len(AskedParts(B)) = n
  BY <1>1, <1>2, <1>5 DEF AskedParts
<1> QED
  BY <1>6, <1>7, <1>8 DEF n

LEMMA RepeatedMore ==
    ASSUME NEW B, NEW k \in Nat, k # 0
    PROVE  /\ RepeatedTo(B, k - 1) \in Seq({Repeated(B[j]) : j \in 1 .. k - 1})
           /\ Append(RepeatedTo(B, k - 1), Repeated(B[k])) = RepeatedTo(B, k)
<1> DEFINE R == {Repeated(B[j]) : j \in 1 .. k - 1}
           a == RepeatedTo(B, k - 1)
           x == Repeated(B[k])
<1>1. a \in Seq(R) /\ Len(a) = k - 1
  <2>1. a = [j \in 1 .. k - 1 |-> Repeated(B[j])] /\ \A j \in 1 .. k - 1 : Repeated(B[j]) \in R
    BY DEF RepeatedTo
  <2> HIDE DEF R
  <2> QED
    BY <2>1
<1>2. \A j \in 1 .. k - 1 : a[j] = Repeated(B[j])
  BY DEF RepeatedTo
<1> HIDE DEF R, a, x
<1>3. /\ DOMAIN Append(a, x) = 1 .. k /\ Append(a, x)[k] = x
      /\ \A j \in 1 .. k - 1 : Append(a, x)[j] = a[j]
      /\ Append(a, x) = [j \in 1 .. k |-> Append(a, x)[j]]
  <2>1. a \in Seq(R \cup {x}) /\ x \in R \cup {x}
    BY <1>1
  <2>2. Append(a, x) \in Seq(R \cup {x}) /\ Len(Append(a, x)) = k
    BY <1>1, <2>1
  <2>3. \A z \in Seq(R \cup {x}) : z = [j \in 1 .. Len(z) |-> z[j]] /\ DOMAIN z = 1 .. Len(z)
    OBVIOUS
  <2>4. Append(a, x)[k] = x /\ \A j \in 1 .. k - 1 : Append(a, x)[j] = a[j]
    BY <1>1, <2>1
  <2> QED
    BY <2>2, <2>3, <2>4
<1>4. \A j \in 1 .. k : Append(a, x)[j] = Repeated(B[j])
  BY <1>2, <1>3 DEF x
<1>5. Append(a, x) = RepeatedTo(B, k)
  BY <1>3, <1>4 DEF RepeatedTo
<1> QED
  BY <1>1, <1>5 DEF a, x, R

LEMMA BlocksRead ==
    ASSUME NEW B \in Seq(Block), WholeBlocks(B), NEW s, NEW g, NEW x,
           NEW v, Recorded(v, <<>>, <<>>, <<>>, s, g), Reads(v, FlattenSeq(EventsOf(B)), x)
    PROVE  Recorded(x, FlattenSeq(SaidParts(B)), RepeatedTo(B, Len(B)), FlattenSeq(AskedParts(B)), s, g)
<1> DEFINE n == Len(B)
<1>1. n \in Nat /\ DOMAIN B = 1 .. n /\ \A i \in 1 .. n : B[i] \in Block
  OBVIOUS
<1>2. PICK pre : PutTogether(pre, EventsOf(B)) /\ FlattenSeq(EventsOf(B)) = pre[n]
  BY PartsAreSequences, FlattenByPrefixes
<1>3. PICK T : PutTogether(T, SaidParts(B)) /\ FlattenSeq(SaidParts(B)) = T[n]
  BY PartsAreSequences, FlattenByPrefixes
<1>4. PICK U : PutTogether(U, AskedParts(B)) /\ FlattenSeq(AskedParts(B)) = U[n]
  BY PartsAreSequences, FlattenByPrefixes
<1>5. /\ pre[0] = <<>> /\ \A k \in 1 .. n : pre[k] = pre[k - 1] \o BlockEvents(k, B[k])
      /\ T[0] = <<>> /\ \A k \in 1 .. n : T[k] = T[k - 1] \o SaidIn(B[k])
      /\ U[0] = <<>> /\ \A k \in 1 .. n : U[k] = U[k - 1] \o AskedIn(B[k])
  BY <1>1, <1>2, <1>3, <1>4, PartsAreSequences DEF PutTogether, EventsOf, SaidParts, AskedParts
<1>6. \A k \in 0 .. n : pre[k] \in Seq(Line) /\ T[k] \in Seq(Word) /\ U[k] \in Seq(CalledTool)
  BY <1>2, <1>3, <1>4, PartsAreSequences, PrefixesAreSequences
<1> DEFINE ReadTo(k) == \A w : Reads(v, pre[k], w) => Recorded(w, T[k], RepeatedTo(B, k), U[k], s, g)
           S == {k \in 0 .. n : ~ ReadTo(k)}
<1> HIDE DEF n
<1>7. ReadTo(0)
  <2>1. RepeatedTo(B, 0) = <<>>
    BY DEF RepeatedTo
  <2> SUFFICES ASSUME NEW w, Reads(v, pre[0], w) PROVE Recorded(w, T[0], RepeatedTo(B, 0), U[0], s, g)
    OBVIOUS
  <2>2. w = v
    BY <1>5, ReadsNothing
  <2> QED
    BY <1>5, <2>1, <2>2
<1>8. ASSUME NEW k \in 1 .. n, ReadTo(k - 1) PROVE ReadTo(k)
  <2> SUFFICES ASSUME NEW w, Reads(v, pre[k], w) PROVE Recorded(w, T[k], RepeatedTo(B, k), U[k], s, g)
    OBVIOUS
  <2>1. B[k] \in Block /\ NoneEmpty(B[k].text) /\ k \in Nat /\ k # 0 /\ k - 1 \in 0 .. n
    BY <1>1 DEF WholeBlocks
  <2>2. BlockEvents(k, B[k]) \in Seq(Line)
    BY <2>1, BlockEventsLines
  <2>3. pre[k] = pre[k - 1] \o BlockEvents(k, B[k]) /\ pre[k - 1] \in Seq(Line)
    BY <1>5, <1>6, <2>1
  <2>4. PICK y : Reads(v, pre[k - 1], y) /\ Reads(y, BlockEvents(k, B[k]), w)
    BY <2>2, <2>3, ReadsParted
  <2>5. Recorded(y, T[k - 1], RepeatedTo(B, k - 1), U[k - 1], s, g)
    BY <1>8, <2>4
  <2>6. T[k - 1] \in Seq(Word) /\ U[k - 1] \in Seq(CalledTool)
    BY <1>6, <2>1
  <2>7. PICK R : RepeatedTo(B, k - 1) \in Seq(R)
    BY <2>1, RepeatedMore
  <2>8. Recorded(w, T[k - 1] \o SaidIn(B[k]), Append(RepeatedTo(B, k - 1), Repeated(B[k])),
                 U[k - 1] \o AskedIn(B[k]), s, g)
    BY <2>1, <2>4, <2>5, <2>6, <2>7, BlockRead
  <2>9. Append(RepeatedTo(B, k - 1), Repeated(B[k])) = RepeatedTo(B, k)
    BY <2>1, RepeatedMore
  <2> QED
    BY <1>5, <2>8, <2>9
<1> HIDE DEF ReadTo
<1>9. ASSUME S # {} PROVE FALSE
  <2>1. PICK k \in S : \A j \in S : k <= j
    <3>1. S \in SUBSET Nat
      BY <1>1
    <3> HIDE DEF S
    <3> QED
      BY <1>9, <3>1, LeastNatural
  <2>2. k \in 1 .. n /\ k - 1 \in 0 .. n /\ ~(k <= k - 1)
    BY <1>1, <1>7, <2>1
  <2>3. k - 1 \notin S
    <3> HIDE DEF S
    <3> QED
      BY <2>1, <2>2
  <2> QED
    BY <1>8, <2>1, <2>2, <2>3
<1>10. ReadTo(n)
  BY <1>1, <1>9
<1> QED
  BY <1>2, <1>3, <1>4, <1>10 DEF ReadTo, n

-----------------------------------------------------------------------------
(***************************************************************************)
(* The stream of a message, in the protocol of Anthropic.                  *)
(***************************************************************************)

Usage == [input : Nat, output : Nat, cached : Nat, created : Nat]
NoUsage == [input |-> 0, output |-> 0, cached |-> 0, created |-> 0]
Message(m) == m.blocks \in Seq(Block) /\ WholeBlocks(m.blocks) /\ m.stop \in Word /\ m.usage \in Usage

First(m) == [Data("message_start") EXCEPT !.role = "assistant", !.input = m.usage.input]
Final(m) ==
    [Data("message_delta") EXCEPT !.stop = m.stop, !.output = m.usage.output,
                                  !.cached = m.usage.cached, !.created = m.usage.created,
                                  !.input = IF m.early THEN NotGiven ELSE m.usage.input]
Stop == Data("message_stop")
CountedUsage(m) == [m.usage EXCEPT !.input = IF m.early THEN 0 ELSE @]

LEMMA AnthropicEventsAre ==
    ASSUME NEW m
    PROVE  AnthropicEvents(m) = <<First(m)>> \o FlattenSeq(EventsOf(m.blocks)) \o <<Final(m), Stop>>
BY DEF AnthropicEvents, First, Final, Stop, EventsOf

LEMMA EndsAreLines ==
    ASSUME NEW m, m.stop \in Word, m.usage \in Usage
    PROVE  First(m) \in Line /\ Final(m) \in Line /\ Stop \in Line
<1>1. /\ m.stop \in Word /\ m.usage.input \in Int /\ m.usage.output \in Int
      /\ m.usage.cached \in Int /\ m.usage.created \in Int
  BY DEF Usage
<1>2. "assistant" \in Word /\ NotGiven \in Int
  <2>1. "assistant" \in Word
    BY DEF Word
  <2>2. NotGiven \in Int
    BY DEF NotGiven
  <2> QED
    BY <2>1, <2>2
<1>3. \A type \in {"message_start", "message_delta", "message_stop"} : Data(type) \in Line
  <2> SUFFICES ASSUME NEW type \in {"message_start", "message_delta", "message_stop"}
               PROVE  Data(type) \in Line
    OBVIOUS
  <2>1. type \in Word
    BY DEF Word
  <2> QED
    BY <2>1, BlankLine DEF Data, Line
<1>4. First(m) \in Line
  BY <1>1, <1>2, <1>3 DEF First, Line
<1>5. Final(m) \in Line
  <2> DEFINE n == IF m.early THEN NotGiven ELSE m.usage.input
  <2>1. n \in Int
    BY <1>1, <1>2
  <2>2. Final(m) = [Data("message_delta") EXCEPT !.stop = m.stop, !.output = m.usage.output,
                                                 !.cached = m.usage.cached,
                                                 !.created = m.usage.created, !.input = n]
    BY DEF Final
  <2> HIDE DEF n
  <2> QED
    BY <1>1, <1>3, <2>1, <2>2 DEF Line
<1> QED
  BY <1>3, <1>4, <1>5 DEF Stop

LEMMA FirstRead == ASSUME NEW m, NEW v PROVE Reading(v, First(m)) = v
<1>1. First(m).kind = "data" /\ First(m).type = "message_start"
  BY DEF First, Data, Blank
<1> QED
  BY <1>1 DEF Reading

LEMMA NotGivenIsNone == \A n \in Nat : n # NotGiven
<1>1. \A n \in Nat : n # 0 - 1
  OBVIOUS
<1>2. NotGiven = 0 - 1
  BY DEF NotGiven
<1> QED
  BY <1>1, <1>2

LEMMA InputReplaced ==
    ASSUME NEW g \in Usage, NEW x
    PROVE  [g EXCEPT !.input = x] = [input |-> x, output |-> g.output, cached |-> g.cached,
                                     created |-> g.created]
BY DEF Usage

LEMMA FinalRead ==
    ASSUME NEW m, Message(m), NEW t, NEW b, NEW u, NEW v, Recorded(v, t, b, u, "", NoUsage)
    PROVE  Recorded(Reading(v, Final(m)), t, b, u, m.stop, CountedUsage(m))
<1> DEFINE l == Final(m)
<1>1. /\ l.kind = "data" /\ l.type = "message_delta" /\ l.stop = m.stop
      /\ l.output = m.usage.output /\ l.cached = m.usage.cached /\ l.created = m.usage.created
      /\ l.input = IF m.early THEN NotGiven ELSE m.usage.input
  BY DEF Final, Data, Blank
<1>2. /\ m.usage = [input |-> m.usage.input, output |-> m.usage.output, cached |-> m.usage.cached,
                     created |-> m.usage.created]
      /\ m.usage.input \in Nat /\ m.usage.output \in Nat /\ m.usage.cached \in Nat
      /\ m.usage.created \in Nat
  BY DEF Message, Usage
<1>3. v.text = t /\ v.blocks = b /\ v.tools = u /\ v.stop = "" /\ v.usage = NoUsage
  BY DEF Recorded, Record
<1> HIDE DEF l
<1>4. LastStop(l, "") = m.stop
  BY <1>1 DEF LastStop
<1>5. \A n \in Nat : n # NotGiven
  BY NotGivenIsNone
<1>6. Counted(l, NoUsage) = [input |-> IF m.early THEN 0 ELSE m.usage.input,
                             output |-> m.usage.output, cached |-> m.usage.cached,
                             created |-> m.usage.created]
  BY <1>1, <1>2, <1>5 DEF Counted, Taken, NoUsage
<1>7. CountedUsage(m) = [input |-> IF m.early THEN 0 ELSE m.usage.input,
                         output |-> m.usage.output, cached |-> m.usage.cached,
                         created |-> m.usage.created]
  <2>1. \A x : [m.usage EXCEPT !.input = x]
                 = [input |-> x, output |-> m.usage.output, cached |-> m.usage.cached,
                    created |-> m.usage.created]
    BY InputReplaced DEF Message
  <2>2. CountedUsage(m) = [m.usage EXCEPT !.input = IF m.early THEN 0 ELSE m.usage.input]
    BY <1>2 DEF CountedUsage
  <2> QED
    BY <2>1, <2>2
<1>8. Reading(v, l) = Record(t, b, u, LastStop(l, ""), Counted(l, NoUsage))
  BY <1>1, <1>3 DEF Reading
<1> QED
  BY <1>4, <1>6, <1>7, <1>8 DEF Recorded, l

\* A chunk that brings nothing but a piece of text.
Chunky(line, piece) ==
    /\ line.kind = "data" /\ line.text = piece /\ line.stop = ""
    /\ line.input = NotGiven /\ line.output = NotGiven /\ line.cached = NotGiven
    /\ line.created = NotGiven /\ line.type \in {"", "message_stop"}

LEMMA ChunkyRead ==
    ASSUME NEW line, NEW piece, Chunky(line, piece), NEW t, NEW b, NEW u, NEW s, NEW g \in Usage,
           NEW v, Recorded(v, t, b, u, s, g)
    PROVE  Recorded(Reading(v, line), t \o Piece(piece), b, u, s, g)
<1>1. v.text = t /\ v.blocks = b /\ v.tools = u /\ v.stop = s /\ v.usage = g
  BY DEF Recorded, Record
<1>2. Counted(line, g) = g
  <2>1. g = [input |-> g.input, output |-> g.output, cached |-> g.cached, created |-> g.created]
    BY DEF Usage
  <2> QED
    BY <2>1 DEF Chunky, Counted, Taken
<1>3. LastStop(line, s) = s
  BY DEF Chunky, LastStop
<1>4. Reading(v, line) = Record(t \o Piece(piece), b, u, LastStop(line, s), Counted(line, g))
  BY <1>1 DEF Chunky, Reading
<1> QED
  BY <1>2, <1>3, <1>4 DEF Recorded

LEMMA StopRead ==
    ASSUME NEW W, NEW t \in Seq(W), NEW b, NEW u, NEW s, NEW g \in Usage,
           NEW v, Recorded(v, t, b, u, s, g)
    PROVE  Recorded(Reading(v, Stop), t, b, u, s, g)
<1>1. Chunky(Stop, "")
  BY DEF Stop, Data, Blank, Chunky
<1>2. Piece("") = <<>> /\ t \o <<>> = t
  BY ConcatEmptySeq DEF Piece
<1> QED
  BY <1>1, <1>2, ChunkyRead

LEMMA OneOrTwo == ASSUME NEW S, NEW x \in S, NEW y \in S PROVE <<x>> \in Seq(S) /\ <<x, y>> \in Seq(S)
OBVIOUS

LEMMA SeqOfFunction ==
    ASSUME NEW S, NEW n \in Nat, NEW f, f = [i \in 1 .. n |-> f[i]], \A i \in 1 .. n : f[i] \in S
    PROVE  f \in Seq(S) /\ Len(f) = n
OBVIOUS

AnthropicFrames(e) == [i \in DOMAIN e |-> <<EventLine(e[i].type), e[i], Gap>>]

LEMMA GapIsLine == Gap \in Line /\ Gap.kind # "data"
<1>1. "other" \in Word
  BY DEF Word
<1>2. Gap \in Line
  BY <1>1, BlankLine DEF Gap, Line
<1> QED
  BY <1>2 DEF Gap, Blank

LEMMA AnthropicFramesFrame ==
    ASSUME NEW e \in Seq(Line)
    PROVE  AnthropicFrames(e) \in Seq(Seq(Line)) /\ Frames(AnthropicFrames(e), e)
<1> DEFINE n == Len(e)
           f == AnthropicFrames(e)
<1>1. n \in Nat /\ DOMAIN e = 1 .. n /\ \A i \in 1 .. n : e[i] \in Line
  OBVIOUS
<1>2. Gap \in Line /\ Gap.kind # "data"
  BY GapIsLine
<1>3. \A x \in Line : EventLine(x.type) \in Line /\ EventLine(x.type).kind # "data"
  <2> SUFFICES ASSUME NEW x \in Line
               PROVE  EventLine(x.type) \in Line /\ EventLine(x.type).kind # "data"
    OBVIOUS
  <2>1. "event" \in Word
    BY DEF Word
  <2>2. x.type \in Word
    BY DEF Line
  <2>3. Data(x.type) \in Line
    BY <2>2, BlankLine DEF Data, Line
  <2>4. EventLine(x.type) \in Line
    BY <2>1, <2>3 DEF EventLine, Line
  <2> QED
    BY <2>4 DEF EventLine, Data, Blank
<1>4. \A i \in 1 .. n : f[i] = <<EventLine(e[i].type), e[i], Gap>>
  BY <1>1 DEF AnthropicFrames
<1>5. f = [i \in 1 .. n |-> f[i]]
  BY <1>1 DEF AnthropicFrames
<1>6. \A i \in 1 .. n : f[i] \in Seq(Line)
  <2> SUFFICES ASSUME NEW i \in 1 .. n PROVE f[i] \in Seq(Line)
    OBVIOUS
  <2>1. \A a, x, z \in Line : <<a, x, z>> \in Seq(Line)
    OBVIOUS
  <2> QED
    BY <1>1, <1>2, <1>3, <1>4, <2>1
<1> HIDE DEF f, n
<1>7. f \in Seq(Seq(Line)) /\ Len(f) = n
  BY <1>1, <1>5, <1>6, SeqOfFunction
<1>8. ASSUME NEW i \in 1 .. n, NEW v, NEW w, Reads(v, f[i], w) PROVE w = Reading(v, e[i])
  <2>1. Reads(v, <<EventLine(e[i].type), e[i], Gap>>, w)
    BY <1>4, <1>8
  <2>2. EventLine(e[i].type).kind # "data" /\ Gap.kind # "data"
    BY <1>1, <1>2, <1>3
  <2> QED
    BY <2>1, <2>2, FramedRead
<1> QED
  BY <1>7, <1>8 DEF Frames, f, n

LEMMA AnthropicRead ==
    ASSUME NEW m, Message(m), NEW v, Recorded(v, <<>>, <<>>, <<>>, "", NoUsage),
           NEW w, Reads(v, AnthropicLines(m), w)
    PROVE  Recorded(w, FlattenSeq(SaidParts(m.blocks)), RepeatedTo(m.blocks, Len(m.blocks)),
                    FlattenSeq(AskedParts(m.blocks)), m.stop, CountedUsage(m))
<1> DEFINE B == m.blocks
           e == AnthropicEvents(m)
           z == FlattenSeq(EventsOf(B))
           t == FlattenSeq(SaidParts(B))
           b == RepeatedTo(B, Len(B))
           u == FlattenSeq(AskedParts(B))
<1>1. B \in Seq(Block) /\ WholeBlocks(B)
  BY DEF Message
<1>2. z \in Seq(Line) /\ t \in Seq(Word)
  <2>1. EventsOf(B) \in Seq(Seq(Line)) /\ SaidParts(B) \in Seq(Seq(Word))
    BY <1>1, PartsAreSequences
  <2> QED
    BY <2>1, FlattenInSeq
<1>3. First(m) \in Line /\ Final(m) \in Line /\ Stop \in Line
  BY EndsAreLines DEF Message
<1>4. e = <<First(m)>> \o z \o <<Final(m), Stop>>
  BY AnthropicEventsAre
<1>5. AnthropicLines(m) = FlattenSeq(AnthropicFrames(e))
  BY DEF AnthropicLines, AnthropicFrames
<1>6. \A x \in Usage : x \in Usage
  OBVIOUS
<1>7. CountedUsage(m) \in Usage
  <2>1. m.usage \in Usage
    BY DEF Message
  <2> QED
    BY <2>1 DEF CountedUsage, Usage
<1>8. \A y, x : Reads(y, z, x) /\ Recorded(y, <<>>, <<>>, <<>>, "", NoUsage)
                  => Recorded(x, t, b, u, "", NoUsage)
  BY <1>1, BlocksRead
<1> HIDE DEF B, e, z, t, b, u
<1>9. /\ <<First(m)>> \in Seq(Line) /\ <<Final(m), Stop>> \in Seq(Line)
      /\ <<First(m)>> \o z \in Seq(Line) /\ e \in Seq(Line)
  <2>1. <<First(m)>> \in Seq(Line) /\ <<Final(m), Stop>> \in Seq(Line)
    BY <1>3, OneOrTwo
  <2>2. <<First(m)>> \o z \in Seq(Line)
    BY <1>2, <2>1, ConcatProperties
  <2> QED
    BY <1>4, <2>1, <2>2, ConcatProperties
<1>10. Reads(v, e, w)
  BY <1>5, <1>9, AnthropicFramesFrame, EventsRead
<1>11. PICK y : Reads(v, <<First(m)>> \o z, y) /\ Reads(y, <<Final(m), Stop>>, w)
  BY <1>4, <1>9, <1>10, ReadsParted
<1>12. PICK x : Reads(v, <<First(m)>>, x) /\ Reads(x, z, y)
  BY <1>2, <1>9, <1>11, ReadsParted
<1>13. x = v
  BY <1>12, ReadsOne, FirstRead
<1>14. Recorded(y, t, b, u, "", NoUsage)
  BY <1>8, <1>12, <1>13
<1>15. w = Reading(Reading(y, Final(m)), Stop)
  BY <1>11, ReadsTwo
<1>16. Recorded(Reading(y, Final(m)), t, b, u, m.stop, CountedUsage(m))
  BY <1>14, FinalRead
<1>17. Recorded(w, t, b, u, m.stop, CountedUsage(m))
  BY <1>2, <1>7, <1>15, <1>16, StopRead
<1> QED
  BY <1>17 DEF t, b, u, B

-----------------------------------------------------------------------------
(***************************************************************************)
(* The stream of a message, in the protocol of OpenAI.                     *)
(***************************************************************************)

Nth(m, i) == Cardinality({j \in 1 .. i - 1 : m.blocks[j].type = "tool_use"})
ToolChunk(n, bl) == [Blank EXCEPT !.index = n, !.id = bl.id, !.name = bl.name]
TextChunks(p) == [k \in DOMAIN p |-> [Blank EXCEPT !.text = p[k]]]
ArgumentChunks(n, p) == [k \in DOMAIN p |-> [Blank EXCEPT !.index = n, !.args = p[k]]]
ChunksOf(m, i) ==
    IF m.blocks[i].type = "thinking" THEN <<>>
    ELSE IF m.blocks[i].type = "text" THEN TextChunks(m.blocks[i].text)
    ELSE <<ToolChunk(Nth(m, i), m.blocks[i])>> \o ArgumentChunks(Nth(m, i), m.blocks[i].text)
AllChunks(m) == [i \in DOMAIN m.blocks |-> ChunksOf(m, i)]
RoleChunk == [Blank EXCEPT !.role = "assistant"]
FinalChunkOf(m) ==
    [Blank EXCEPT !.stop = m.stop, !.input = m.usage.input,
                  !.output = m.usage.output, !.cached = m.usage.cached]
\* The protocol has no count of the tokens that are written to the cache.
OpenAIUsage(m) == [m.usage EXCEPT !.created = 0]

LEMMA CreatedReplaced ==
    ASSUME NEW g \in Usage, NEW x
    PROVE  [g EXCEPT !.created = x] = [input |-> g.input, output |-> g.output, cached |-> g.cached,
                                       created |-> x]
BY DEF Usage

LEMMA OpenAIEventsAre ==
    ASSUME NEW m
    PROVE  OpenAIEvents(m) = <<RoleChunk>> \o FlattenSeq(AllChunks(m)) \o <<FinalChunkOf(m), Done>>
BY DEF OpenAIEvents, AllChunks, ChunksOf, TextChunks, ToolChunk, ArgumentChunks, Nth,
       RoleChunk, FinalChunkOf

LEMMA NthIsNat == ASSUME NEW m, NEW i \in Nat PROVE Nth(m, i) \in Nat
<1> DEFINE S == {j \in 1 .. i - 1 : m.blocks[j].type = "tool_use"}
<1>1. IsFiniteSet(1 .. i - 1)
  BY FS_Interval
<1>2. IsFiniteSet(S)
  BY <1>1, FS_Subset
<1> QED
  BY <1>2, FS_CardinalityType DEF Nth

LEMMA MappedLines ==
    ASSUME NEW p, NEW n \in Nat, DOMAIN p = 1 .. n,
           NEW f, DOMAIN f = DOMAIN p, f = [k \in DOMAIN p |-> f[k]],
           \A k \in DOMAIN p : f[k] \in Line
    PROVE  f \in Seq(Line) /\ Len(f) = n
BY SeqOfFunction

LEMMA ChunksAreLines ==
    ASSUME NEW p \in Seq(Word), NEW n \in Nat
    PROVE  /\ TextChunks(p) \in Seq(Line) /\ Len(TextChunks(p)) = Len(p)
           /\ ArgumentChunks(n, p) \in Seq(Line) /\ Len(ArgumentChunks(n, p)) = Len(p)
<1>1. DOMAIN p = 1 .. Len(p) /\ Len(p) \in Nat /\ \A k \in DOMAIN p : p[k] \in Word
  OBVIOUS
<1>2. \A x \in Word : [Blank EXCEPT !.text = x] \in Line
                      /\ [Blank EXCEPT !.index = n, !.args = x] \in Line
  <2>1. \A x \in Word : [Blank EXCEPT !.text = x] \in Line
    BY BlankLine DEF Line
  <2>2. \A x \in Word, i \in Int : [Blank EXCEPT !.index = i, !.args = x] \in Line
    BY BlankLine DEF Line
  <2>3. n \in Int
    OBVIOUS
  <2> QED
    BY ONLY <2>1, <2>2, <2>3
<1>3. \A k \in DOMAIN p : TextChunks(p)[k] \in Line /\ ArgumentChunks(n, p)[k] \in Line
  BY <1>1, <1>2 DEF TextChunks, ArgumentChunks
<1>4. /\ TextChunks(p) = [k \in DOMAIN p |-> TextChunks(p)[k]] /\ DOMAIN TextChunks(p) = DOMAIN p
      /\ ArgumentChunks(n, p) = [k \in DOMAIN p |-> ArgumentChunks(n, p)[k]]
      /\ DOMAIN ArgumentChunks(n, p) = DOMAIN p
  BY DEF TextChunks, ArgumentChunks
<1> QED
  BY <1>1, <1>3, <1>4, MappedLines

LEMMA ToolChunkIsLine ==
    ASSUME NEW n \in Nat, NEW bl \in Block
    PROVE  ToolChunk(n, bl) \in Line
<1>1. bl.id \in Word /\ bl.name \in Word /\ n \in Int
  BY DEF Block
<1> QED
  BY <1>1, BlankLine DEF ToolChunk, Line

LEMMA TextChunksAt ==
    ASSUME NEW p \in Seq(Word), NEW k \in 1 .. Len(p)
    PROVE  Chunky(TextChunks(p)[k], p[k])
<1>1. TextChunks(p)[k] = [Blank EXCEPT !.text = p[k]]
  BY DEF TextChunks
<1> QED
  BY <1>1 DEF Blank, Chunky

LEMMA ArgumentChunksAt ==
    ASSUME NEW p \in Seq(Word), NEW n, NEW k \in 1 .. Len(p)
    PROVE  Chunky(ArgumentChunks(n, p)[k], "")
<1>1. ArgumentChunks(n, p)[k] = [Blank EXCEPT !.index = n, !.args = p[k]]
  <2>1. k \in DOMAIN p
    OBVIOUS
  <2> QED
    BY ONLY <2>1 DEF ArgumentChunks
<1> QED
  BY <1>1 DEF Blank, Chunky

LEMMA ToolChunkIs ==
    ASSUME NEW n, NEW bl PROVE Chunky(ToolChunk(n, bl), "")
BY DEF ToolChunk, Blank, Chunky

LEMMA QuietRead ==
    ASSUME NEW line, Chunky(line, ""), NEW W, NEW t \in Seq(W), NEW b, NEW u, NEW s, NEW g \in Usage,
           NEW v, Recorded(v, t, b, u, s, g)
    PROVE  Reading(v, line) = v
<1>1. Piece("") = <<>> /\ t \o <<>> = t
  BY ConcatEmptySeq DEF Piece
<1>2. Recorded(Reading(v, line), t \o Piece(""), b, u, s, g)
  BY ChunkyRead
<1> QED
  BY <1>1, <1>2 DEF Recorded

LEMMA TextChunksRead ==
    ASSUME NEW p \in Seq(Word), NoneEmpty(p), NEW t \in Seq(Word), NEW b, NEW u, NEW s,
           NEW g \in Usage, NEW w, NEW v, Recorded(v, t, b, u, s, g), Reads(v, TextChunks(p), w)
    PROVE  Recorded(w, t \o p, b, u, s, g)
<1> DEFINE n == Len(p)
           ls == TextChunks(p)
           q(k) == SubSeq(p, 1, k)
           After(k) == Record(t \o q(k), b, u, s, g)
<1>1. PICK r : Through(r, v, ls, w)
  BY DEF Reads
<1>2. n \in Nat /\ q(n) = p /\ q(0) = <<>> /\ t \o <<>> = t
  BY SubSeqFull, SubSeqEmpty, ConcatEmptySeq
<1>3. Len(ls) = n /\ \A k \in 1 .. n : Chunky(ls[k], p[k])
  BY ChunksAreLines, TextChunksAt
<1>4. r[0] = After(0) /\ r[n] = w /\ \A k \in 1 .. n : r[k] = Reading(r[k - 1], ls[k])
  BY <1>1, <1>2, <1>3 DEF Through, Recorded
<1>5. ASSUME NEW k \in 1 .. n, r[k - 1] = After(k - 1)
      PROVE  r[k] = After(k)
  <2>1. Recorded(r[k - 1], t \o q(k - 1), b, u, s, g)
    BY <1>5 DEF Recorded
  <2>2. Recorded(Reading(r[k - 1], ls[k]), (t \o q(k - 1)) \o Piece(p[k]), b, u, s, g)
    BY <1>3, <2>1, ChunkyRead
  <2>3. Piece(p[k]) = <<p[k]>>
    BY DEF NoneEmpty, Piece
  <2>4. (t \o q(k - 1)) \o <<p[k]>> = t \o q(k)
    BY OnePieceMore
  <2> QED
    BY <1>4, <2>2, <2>3, <2>4 DEF Recorded
<1> DEFINE S == {k \in 0 .. n : r[k] # After(k)}
<1> HIDE DEF After, n
<1>6. ASSUME S # {} PROVE FALSE
  <2>1. PICK k \in S : \A j \in S : k <= j
    <3>1. S \in SUBSET Nat
      BY <1>2
    <3> HIDE DEF S
    <3> QED
      BY <1>6, <3>1, LeastNatural
  <2>2. k \in 1 .. n /\ k - 1 \in 0 .. n /\ ~(k <= k - 1)
    BY <1>2, <1>4, <2>1
  <2>3. k - 1 \notin S
    <3> HIDE DEF S
    <3> QED
      BY <2>1, <2>2
  <2> QED
    BY <1>5, <2>1, <2>2, <2>3
<1>7. r[n] = After(n)
  BY <1>2, <1>6
<1> QED
  BY <1>2, <1>4, <1>7 DEF After, Recorded

LEMMA ChunksRead ==
    ASSUME NEW m, NEW i \in Nat, m.blocks[i] \in Block, NoneEmpty(m.blocks[i].text),
           NEW t \in Seq(Word), NEW b, NEW u, NEW s, NEW g \in Usage, NEW w,
           NEW v, Recorded(v, t, b, u, s, g), Reads(v, ChunksOf(m, i), w)
    PROVE  Recorded(w, t \o SaidIn(m.blocks[i]), b, u, s, g)
<1> DEFINE bl == m.blocks[i]
           p == bl.text
           n == Nth(m, i)
           c == ToolChunk(n, bl)
           a == ArgumentChunks(n, p)
<1>1. p \in Seq(Word) /\ n \in Nat /\ bl \in Block
  BY NthIsNat DEF Block
<1>2. CASE bl.type = "text"
  <2>1. ChunksOf(m, i) = TextChunks(p) /\ SaidIn(bl) = p
    BY <1>2 DEF ChunksOf, SaidIn
  <2> HIDE DEF bl, p
  <2>2. Reads(v, TextChunks(p), w) /\ NoneEmpty(p)
    BY <2>1 DEF p, bl
  <2> QED
    BY <1>1, <2>1, <2>2, TextChunksRead DEF bl
<1>3. CASE bl.type = "thinking"
  <2>1. ChunksOf(m, i) = <<>> /\ SaidIn(bl) = <<>>
    BY <1>3 DEF ChunksOf, SaidIn
  <2>2. w = v
    BY <2>1, ReadsNothing
  <2>3. t \o <<>> = t
    BY ConcatEmptySeq
  <2> QED
    BY <2>1, <2>2, <2>3
<1>4. CASE bl.type \notin {"text", "thinking"}
  <2>1. ChunksOf(m, i) = <<c>> \o a /\ SaidIn(bl) = <<>>
    BY <1>4 DEF ChunksOf, SaidIn
  <2>2. c \in Line /\ a \in Seq(Line) /\ Len(a) = Len(p) /\ Len(p) \in Nat
    BY <1>1, ToolChunkIsLine, ChunksAreLines
  <2>3. Reading(v, c) = v
    BY ToolChunkIs, QuietRead
  <2>4. \A k \in 1 .. Len(a) : Reading(v, a[k]) = v
    BY <1>1, <2>2, ArgumentChunksAt, QuietRead
  <2> HIDE DEF c, a, bl
  <2>5. <<c>> \in Seq(Line)
    BY <2>2, OneOrTwo
  <2>6. PICK y : Reads(v, <<c>>, y) /\ Reads(y, a, w)
    BY <2>1, <2>2, <2>5, ReadsParted
  <2>7. y = v
    BY <2>3, <2>6, ReadsOne
  <2>8. w = v
    BY <2>2, <2>4, <2>6, <2>7, StillRead
  <2>9. t \o <<>> = t
    BY ConcatEmptySeq
  <2> QED
    BY <2>1, <2>8, <2>9 DEF bl
<1> QED
  BY <1>2, <1>3, <1>4

LEMMA ChunksOfAreLines ==
    ASSUME NEW m, NEW i \in Nat, m.blocks[i] \in Block
    PROVE  ChunksOf(m, i) \in Seq(Line)
<1> DEFINE bl == m.blocks[i]
           p == bl.text
           n == Nth(m, i)
           c == ToolChunk(n, bl)
           a == ArgumentChunks(n, p)
<1>1. p \in Seq(Word) /\ n \in Nat /\ bl \in Block
  BY NthIsNat DEF Block
<1>2. TextChunks(p) \in Seq(Line) /\ c \in Line /\ a \in Seq(Line)
  BY <1>1, ToolChunkIsLine, ChunksAreLines
<1>3. ChunksOf(m, i) \in {<<>>, TextChunks(p), <<c>> \o a}
  BY DEF ChunksOf
<1> HIDE DEF c, a, p
<1>4. <<c>> \o a \in Seq(Line)
  BY <1>2, OneOrTwo, ConcatProperties
<1>5. <<>> \in Seq(Line)
  OBVIOUS
<1> QED
  BY <1>2, <1>3, <1>4, <1>5

LEMMA AllChunksAreLines ==
    ASSUME NEW m, m.blocks \in Seq(Block)
    PROVE  AllChunks(m) \in Seq(Seq(Line)) /\ Len(AllChunks(m)) = Len(m.blocks)
<1> DEFINE n == Len(m.blocks)
           ss == AllChunks(m)
<1>1. n \in Nat /\ DOMAIN m.blocks = 1 .. n /\ \A i \in 1 .. n : m.blocks[i] \in Block
  OBVIOUS
<1>2. \A i \in 1 .. n : ChunksOf(m, i) \in Seq(Line)
  BY <1>1, ChunksOfAreLines
<1>3. ss = [i \in 1 .. n |-> ss[i]] /\ \A i \in 1 .. n : ss[i] = ChunksOf(m, i)
  BY <1>1 DEF AllChunks
<1> HIDE DEF ss, n
<1>4. ss \in Seq(Seq(Line)) /\ Len(ss) = n
  BY <1>1, <1>2, <1>3, SeqOfFunction
<1> QED
  BY <1>4 DEF ss, n

LEMMA AllChunksRead ==
    ASSUME NEW m, Message(m), NEW b, NEW u, NEW s, NEW g \in Usage, NEW x,
           NEW v, Recorded(v, <<>>, b, u, s, g), Reads(v, FlattenSeq(AllChunks(m)), x)
    PROVE  Recorded(x, FlattenSeq(SaidParts(m.blocks)), b, u, s, g)
<1> DEFINE B == m.blocks
           n == Len(B)
           ss == AllChunks(m)
<1>1. n \in Nat /\ DOMAIN B = 1 .. n /\ \A i \in 1 .. n : B[i] \in Block /\ NoneEmpty(B[i].text)
  BY DEF Message, WholeBlocks
<1>2. ss \in Seq(Seq(Line)) /\ Len(ss) = n
  BY AllChunksAreLines DEF Message
<1>3. PICK pre : PutTogether(pre, ss) /\ FlattenSeq(ss) = pre[n]
  BY <1>2, FlattenByPrefixes
<1>4. SaidParts(B) \in Seq(Seq(Word)) /\ Len(SaidParts(B)) = n
  BY PartsAreSequences DEF Message
<1>5. PICK T : PutTogether(T, SaidParts(B)) /\ FlattenSeq(SaidParts(B)) = T[n]
  BY <1>4, FlattenByPrefixes
<1>6. /\ pre[0] = <<>> /\ \A k \in 1 .. n : pre[k] = pre[k - 1] \o ChunksOf(m, k)
      /\ T[0] = <<>> /\ \A k \in 1 .. n : T[k] = T[k - 1] \o SaidIn(B[k])
  BY <1>1, <1>2, <1>3, <1>4, <1>5 DEF PutTogether, AllChunks, SaidParts
<1>7. \A k \in 0 .. n : pre[k] \in Seq(Line) /\ T[k] \in Seq(Word)
  BY <1>2, <1>3, <1>4, <1>5, PrefixesAreSequences
<1> DEFINE ReadTo(k) == \A w : Reads(v, pre[k], w) => Recorded(w, T[k], b, u, s, g)
           S == {k \in 0 .. n : ~ ReadTo(k)}
<1> HIDE DEF n, ss
<1>8. ReadTo(0)
  <2> SUFFICES ASSUME NEW w, Reads(v, pre[0], w) PROVE Recorded(w, T[0], b, u, s, g)
    OBVIOUS
  <2>1. w = v
    BY <1>6, ReadsNothing
  <2> QED
    BY <1>6, <2>1
<1>9. ASSUME NEW k \in 1 .. n, ReadTo(k - 1) PROVE ReadTo(k)
  <2> SUFFICES ASSUME NEW w, Reads(v, pre[k], w) PROVE Recorded(w, T[k], b, u, s, g)
    OBVIOUS
  <2>1. m.blocks[k] \in Block /\ NoneEmpty(m.blocks[k].text) /\ k \in Nat /\ k - 1 \in 0 .. n
    BY <1>1
  <2>2. ChunksOf(m, k) \in Seq(Line)
    BY <2>1, ChunksOfAreLines
  <2>3. pre[k] = pre[k - 1] \o ChunksOf(m, k) /\ pre[k - 1] \in Seq(Line) /\ T[k - 1] \in Seq(Word)
    BY <1>6, <1>7, <2>1
  <2>4. PICK y : Reads(v, pre[k - 1], y) /\ Reads(y, ChunksOf(m, k), w)
    BY <2>2, <2>3, ReadsParted
  <2>5. Recorded(y, T[k - 1], b, u, s, g)
    BY <1>9, <2>4
  <2>6. Recorded(w, T[k - 1] \o SaidIn(m.blocks[k]), b, u, s, g)
    BY <2>1, <2>3, <2>4, <2>5, ChunksRead
  <2> QED
    BY <1>6, <2>6
<1> HIDE DEF ReadTo
<1>10. ASSUME S # {} PROVE FALSE
  <2>1. PICK k \in S : \A j \in S : k <= j
    <3>1. S \in SUBSET Nat
      BY <1>1
    <3> HIDE DEF S
    <3> QED
      BY <1>10, <3>1, LeastNatural
  <2>2. k \in 1 .. n /\ k - 1 \in 0 .. n /\ ~(k <= k - 1)
    BY <1>1, <1>8, <2>1
  <2>3. k - 1 \notin S
    <3> HIDE DEF S
    <3> QED
      BY <2>1, <2>2
  <2> QED
    BY <1>9, <2>1, <2>2, <2>3
<1>11. ReadTo(n)
  BY <1>1, <1>10
<1> QED
  BY <1>3, <1>5, <1>11 DEF ReadTo, ss

-----------------------------------------------------------------------------

OpenAIFrames(e) == [i \in DOMAIN e |-> <<e[i], Gap>>]

LEMMA OpenAIFramesFrame ==
    ASSUME NEW e \in Seq(Line)
    PROVE  OpenAIFrames(e) \in Seq(Seq(Line)) /\ Frames(OpenAIFrames(e), e)
<1> DEFINE n == Len(e)
           f == OpenAIFrames(e)
<1>1. n \in Nat /\ DOMAIN e = 1 .. n /\ \A i \in 1 .. n : e[i] \in Line
  OBVIOUS
<1>2. Gap \in Line /\ Gap.kind # "data"
  BY GapIsLine
<1>3. \A i \in 1 .. n : f[i] = <<e[i], Gap>>
  BY <1>1 DEF OpenAIFrames
<1>4. f = [i \in 1 .. n |-> f[i]]
  BY <1>1 DEF OpenAIFrames
<1>5. \A i \in 1 .. n : f[i] \in Seq(Line)
  BY <1>1, <1>2, <1>3, OneOrTwo
<1> HIDE DEF f, n
<1>6. f \in Seq(Seq(Line)) /\ Len(f) = n
  BY <1>1, <1>4, <1>5, SeqOfFunction
<1>7. ASSUME NEW i \in 1 .. n, NEW v, NEW w, Reads(v, f[i], w) PROVE w = Reading(v, e[i])
  <2>1. Reads(v, <<e[i], Gap>>, w)
    BY <1>3, <1>7
  <2> QED
    BY <1>2, <2>1, FollowedRead
<1> QED
  BY <1>6, <1>7 DEF Frames, f, n

LEMMA OpenAIEndsAreLines ==
    ASSUME NEW m, m.stop \in Word, m.usage \in Usage
    PROVE  RoleChunk \in Line /\ FinalChunkOf(m) \in Line /\ Done \in Line
<1>1. /\ m.stop \in Word /\ m.usage.input \in Int /\ m.usage.output \in Int
      /\ m.usage.cached \in Int
  BY DEF Usage
<1>2. "assistant" \in Word /\ "done" \in Word
  BY DEF Word
<1>3. RoleChunk \in Line /\ Done \in Line
  BY <1>2, BlankLine DEF RoleChunk, Done, Line
<1>4. FinalChunkOf(m) \in Line
  BY <1>1, BlankLine DEF FinalChunkOf, Line
<1> QED
  BY <1>3, <1>4

LEMMA FinalChunkRead ==
    ASSUME NEW m, Message(m), NEW W, NEW t \in Seq(W), NEW b, NEW u,
           NEW v, Recorded(v, t, b, u, "", NoUsage)
    PROVE  Recorded(Reading(v, FinalChunkOf(m)), t, b, u, m.stop, OpenAIUsage(m))
<1> DEFINE l == FinalChunkOf(m)
<1>1. /\ l.kind = "data" /\ l.type = "" /\ l.text = "" /\ l.stop = m.stop
      /\ l.input = m.usage.input /\ l.output = m.usage.output /\ l.cached = m.usage.cached
      /\ l.created = NotGiven
  BY DEF FinalChunkOf, Blank
<1>2. /\ OpenAIUsage(m) = [input |-> m.usage.input, output |-> m.usage.output,
                           cached |-> m.usage.cached, created |-> 0]
      /\ m.usage.input \in Nat /\ m.usage.output \in Nat /\ m.usage.cached \in Nat
  BY CreatedReplaced DEF Message, Usage, OpenAIUsage
<1>3. v.text = t /\ v.blocks = b /\ v.tools = u /\ v.stop = "" /\ v.usage = NoUsage
  BY DEF Recorded, Record
<1> HIDE DEF l
<1>4. LastStop(l, "") = m.stop
  BY <1>1 DEF LastStop
<1>5. Counted(l, NoUsage) = OpenAIUsage(m)
  BY <1>1, <1>2, NotGivenIsNone DEF Counted, Taken, NoUsage
<1>6. t \o Piece(l.text) = t
  <2>1. t \o <<>> = t
    BY ConcatEmptySeq
  <2> QED
    BY <1>1, <2>1 DEF Piece
<1>7. Reading(v, l) = Record(t \o Piece(l.text), b, u, LastStop(l, ""), Counted(l, NoUsage))
  BY <1>1, <1>3 DEF Reading
<1> QED
  BY <1>4, <1>5, <1>6, <1>7 DEF Recorded, l

LEMMA NothingIsTyped == NoUsage \in Usage /\ <<>> \in Seq(Word)
BY DEF NoUsage, Usage

LEMMA OpenAIRead ==
    ASSUME NEW m, Message(m), NEW v, Recorded(v, <<>>, <<>>, <<>>, "", NoUsage),
           NEW w, Reads(v, OpenAILines(m), w)
    PROVE  Recorded(w, FlattenSeq(SaidParts(m.blocks)), <<>>, <<>>, m.stop, OpenAIUsage(m))
<1> DEFINE e == OpenAIEvents(m)
           z == FlattenSeq(AllChunks(m))
           t == FlattenSeq(SaidParts(m.blocks))
<1>1. z \in Seq(Line) /\ t \in Seq(Word)
  <2>1. AllChunks(m) \in Seq(Seq(Line)) /\ SaidParts(m.blocks) \in Seq(Seq(Word))
    BY PartsAreSequences, AllChunksAreLines DEF Message
  <2> QED
    BY <2>1, FlattenInSeq
<1>2. RoleChunk \in Line /\ FinalChunkOf(m) \in Line /\ Done \in Line
  BY OpenAIEndsAreLines DEF Message
<1>3. e = <<RoleChunk>> \o z \o <<FinalChunkOf(m), Done>>
  BY OpenAIEventsAre
<1>4. OpenAILines(m) = FlattenSeq(OpenAIFrames(e))
  BY DEF OpenAILines, OpenAIFrames
<1>5. NoUsage \in Usage /\ <<>> \in Seq(Word)
  BY NothingIsTyped
<1>6. \A y, x : Reads(y, z, x) /\ Recorded(y, <<>>, <<>>, <<>>, "", NoUsage)
                  => Recorded(x, t, <<>>, <<>>, "", NoUsage)
  BY <1>5, AllChunksRead
<1> HIDE DEF e, z, t
<1>7. /\ <<RoleChunk>> \in Seq(Line) /\ <<FinalChunkOf(m), Done>> \in Seq(Line)
      /\ <<RoleChunk>> \o z \in Seq(Line) /\ e \in Seq(Line)
  <2>1. <<RoleChunk>> \in Seq(Line) /\ <<FinalChunkOf(m), Done>> \in Seq(Line)
    BY <1>2, OneOrTwo
  <2>2. <<RoleChunk>> \o z \in Seq(Line)
    BY <1>1, <2>1, ConcatProperties
  <2> QED
    BY <1>3, <2>1, <2>2, ConcatProperties
<1>8. Reads(v, e, w)
  BY <1>4, <1>7, OpenAIFramesFrame, EventsRead
<1>9. PICK y : Reads(v, <<RoleChunk>> \o z, y) /\ Reads(y, <<FinalChunkOf(m), Done>>, w)
  BY <1>3, <1>7, <1>8, ReadsParted
<1>10. PICK x : Reads(v, <<RoleChunk>>, x) /\ Reads(x, z, y)
  BY <1>1, <1>7, <1>9, ReadsParted
<1>11. x = v
  <2>1. Chunky(RoleChunk, "")
    BY DEF RoleChunk, Blank, Chunky
  <2>2. Reading(v, RoleChunk) = v
    BY <1>5, <2>1, QuietRead
  <2> QED
    BY <1>10, <2>2, ReadsOne
<1>12. Recorded(y, t, <<>>, <<>>, "", NoUsage)
  BY <1>6, <1>10, <1>11
<1>13. w = Reading(Reading(y, FinalChunkOf(m)), Done)
  BY <1>9, ReadsTwo
<1>14. Done.kind # "data"
  BY DEF Done, Blank
<1>15. w = Reading(y, FinalChunkOf(m))
  BY <1>13, <1>14 DEF Reading
<1>16. Recorded(w, t, <<>>, <<>>, m.stop, OpenAIUsage(m))
  BY <1>1, <1>12, <1>15, FinalChunkRead
<1> QED
  BY <1>16 DEF t

-----------------------------------------------------------------------------
(***************************************************************************)
(* The collector of a stream has read the lines that are behind it.        *)
(***************************************************************************)

NewRecord == Record(<<>>, <<>>, <<>>, "", NoUsage)
LineSet == {feed[i] : i \in DOMAIN feed}

RecordInv ==
    /\ feed \in Seq(LineSet) /\ at \in 0 .. Len(feed)
    /\ IsCollector(col)
    /\ Reads(NewRecord, SubSeq(feed, 1, at), RecordOf(col))
    /\ ending = "eof" => at = Len(feed)

LEMMA RecordInitInv == StreamInit => RecordInv
<1> SUFFICES ASSUME StreamInit PROVE RecordInv
  OBVIOUS
<1>1. feed \in Seq(LineSet) /\ at \in 0 .. Len(feed)
  <2>1. feed \in Seq(LineSet)
    BY FeedsAreSequences DEF StreamInit, LineSet, LinesOf
  <2>2. Len(feed) \in Nat /\ at = 0
    BY <2>1 DEF StreamInit
  <2> QED
    BY <2>1, <2>2
<1>2. IsCollector(col) /\ RecordOf(col) = NewRecord
  BY DEF StreamInit, NewCollector, IsCollector, CollectorFields, RecordOf, Record, NewRecord, NoUsage
<1>3. SubSeq(feed, 1, at) = <<>>
  BY SubSeqEmpty DEF StreamInit
<1>4. Reads(NewRecord, <<>>, NewRecord)
  <2>1. Through([i \in {0} |-> NewRecord], NewRecord, <<>>, NewRecord)
    BY DEF Through
  <2> QED
    BY <2>1 DEF Reads
<1> QED
  BY <1>1, <1>2, <1>3, <1>4 DEF StreamInit, RecordInv

LEMMA RecordScanInv == RecordInv /\ Scan => RecordInv'
<1> SUFFICES ASSUME RecordInv, Scan PROVE RecordInv'
  OBVIOUS
<1> DEFINE line == feed[at + 1]
<1>1. feed \in Seq(LineSet) /\ at \in Nat /\ at + 1 \in 1 .. Len(feed)
  BY DEF RecordInv, Scan
<1>2. line \in LineSet /\ SubSeq(feed, 1, at) \in Seq(LineSet)
  BY <1>1
<1>3. SubSeq(feed, 1, at + 1) = Append(SubSeq(feed, 1, at), line)
  BY <1>1
<1>4. IsCollector(col') /\ RecordOf(col') = Reading(RecordOf(col), line)
  BY ReadLineRecord DEF RecordInv, Scan
<1>5. Reads(NewRecord, SubSeq(feed, 1, at), RecordOf(col))
  BY DEF RecordInv
<1> HIDE DEF line
<1>6. Reads(NewRecord, SubSeq(feed, 1, at + 1), Reading(RecordOf(col), line))
  BY <1>2, <1>3, <1>5, ReadsLonger
<1>7. feed' = feed /\ at' = at + 1 /\ ending' = "open" /\ LineSet' = LineSet
  BY DEF Scan, LineSet
<1>8. Reads(NewRecord, SubSeq(feed', 1, at'), RecordOf(col'))
  BY <1>4, <1>6, <1>7
<1> QED
  BY <1>1, <1>4, <1>7, <1>8 DEF RecordInv

LEMMA RecordBreakInv == RecordInv /\ Break => RecordInv'
BY DEF RecordInv, Break, LineSet

LEMMA RecordEndInv == RecordInv /\ EndOfStream => RecordInv'
<1> SUFFICES ASSUME RecordInv, EndOfStream PROVE RecordInv'
  OBVIOUS
<1>1. IsCollector(col') /\ RecordOf(col') = RecordOf(col)
  BY RelayRecord DEF RecordInv, EndOfStream
<1>2. feed' = feed /\ at' = at /\ at = Len(feed) /\ LineSet' = LineSet
  BY DEF EndOfStream, LineSet
<1> QED
  BY <1>1, <1>2 DEF RecordInv

LEMMA NotAmong ==
    ASSUME NEW W, NEW p \in Seq(W), NEW x, x \notin Range(p)
    PROVE  \A k \in 1 .. Len(p) : p[k] # x
BY DEF Range

LEMMA MessagesAre == ASSUME NEW m \in Messages PROVE Message(m)
<1> DEFINE B == m.blocks
           Given == [type : {"text", "tool_use", "thinking"}, id : STRING, name : STRING,
                     text : Seq(STRING)]
<1>1. B \in Seq(Given) /\ m.stop \in STRING /\ m.usage \in Usage
  BY StreamAssumption DEF Usage
<1>2. \A W : STRING \subseteq W => Seq(STRING) \subseteq Seq(W)
  BY SeqMonotonic
<1>3. STRING \subseteq Word
  BY DEF Word
<1>4. Given \subseteq Block
  <2> SUFFICES ASSUME NEW x \in Given PROVE x \in Block
    OBVIOUS
  <2>1. x.text \in Seq(Word) /\ x.id \in Word /\ x.name \in Word
    BY <1>2, <1>3
  <2> QED
    BY <2>1 DEF Block
<1> HIDE DEF Given
<1>5. B \in Seq(Block)
  BY <1>1, <1>4, SeqMonotonic
<1>6. ASSUME NEW i \in DOMAIN B PROVE NoneEmpty(B[i].text)
  <2> DEFINE p == B[i].text
  <2>1. B[i] \in Block
    BY <1>5
  <2>2. p \in Seq(Word)
    BY <2>1 DEF Block
  <2>3. "" \notin Range(p)
    BY <1>6, StreamAssumption
  <2> HIDE DEF p
  <2>4. \A k \in 1 .. Len(p) : p[k] # ""
    BY <2>2, <2>3, NotAmong
  <2> QED
    BY <2>4 DEF NoneEmpty, p
<1> QED
  BY <1>1, <1>3, <1>5, <1>6 DEF Message, WholeBlocks

ToolParts(B) ==
    [i \in DOMAIN B |->
       IF B[i].type = "tool_use"
       THEN <<[id |-> B[i].id, name |-> B[i].name, input |-> B[i].text]>> ELSE <<>>]

LEMMA OneToolMore ==
    ASSUME NEW x \in Seq(CalledTool), NEW y \in CalledTool
    PROVE  WithoutInput(x \o <<y>>) = WithoutInput(x) \o <<[y EXCEPT !.input = <<>>]>>
<1> DEFINE z == [y EXCEPT !.input = <<>>]
           n == Len(x)
           S == CalledTool \cup {[x[k] EXCEPT !.input = <<>>] : k \in 1 .. n} \cup {z}
           e == WithoutInput(x)
<1>1. n \in Nat /\ DOMAIN x = 1 .. n
  OBVIOUS
<1>2. e = [k \in 1 .. n |-> [x[k] EXCEPT !.input = <<>>]]
  BY <1>1 DEF WithoutInput
<1>3. e \in Seq(S) /\ Len(e) = n /\ z \in S
  <2>1. \A k \in 1 .. n : e[k] \in S
    BY <1>2
  <2>2. e = [k \in 1 .. n |-> e[k]] /\ z \in S
    BY <1>2
  <2> HIDE DEF S, e, z, n
  <2> QED
    BY <1>1, <2>1, <2>2, SeqOfFunction
<1>4. \A k \in 1 .. n : e[k] = [x[k] EXCEPT !.input = <<>>]
  BY <1>2
<1> HIDE DEF S, e, z
<1>5. /\ e \o <<z>> = [k \in 1 .. n + 1 |-> (e \o <<z>>)[k]]
      /\ \A k \in 1 .. n : (e \o <<z>>)[k] = e[k]
      /\ (e \o <<z>>)[n + 1] = z
  <2>1. e \o <<z>> \in Seq(S) /\ Len(e \o <<z>>) = n + 1
    BY <1>1, <1>3
  <2>2. \A q \in Seq(S) : q = [k \in 1 .. Len(q) |-> q[k]]
    OBVIOUS
  <2>3. <<z>> \in Seq(S) /\ Len(<<z>>) = 1 /\ <<z>>[1] = z
    BY <1>3
  <2> HIDE DEF n
  <2>4. (\A k \in 1 .. n : (e \o <<z>>)[k] = e[k]) /\ (e \o <<z>>)[n + 1] = z
    BY <1>1, <1>3, <2>3
  <2> QED
    BY <2>1, <2>2, <2>4
<1>6. /\ DOMAIN (x \o <<y>>) = 1 .. n + 1 /\ (x \o <<y>>)[n + 1] = y
      /\ \A k \in 1 .. n : (x \o <<y>>)[k] = x[k]
  <2>1. <<y>> \in Seq(CalledTool) /\ Len(<<y>>) = 1 /\ <<y>>[1] = y
    OBVIOUS
  <2> QED
    BY <1>1, <2>1
<1>7. WithoutInput(x \o <<y>>) = [k \in 1 .. n + 1 |-> IF k = n + 1 THEN z ELSE e[k]]
  <2> DEFINE w == x \o <<y>>
             Bare(v) == [v EXCEPT !.input = <<>>]
  <2>1. WithoutInput(w) = [k \in DOMAIN w |-> Bare(w[k])] /\ z = Bare(y)
    BY DEF WithoutInput, z
  <2>2. \A k \in 1 .. n : e[k] = Bare(x[k])
    BY <1>4
  <2> HIDE DEF w, Bare, n
  <2>3. \A k \in 1 .. n + 1 : Bare(w[k]) = IF k = n + 1 THEN z ELSE e[k]
    BY <1>1, <1>6, <2>1, <2>2 DEF w, n
  <2> QED
    BY <1>6, <2>1, <2>3 DEF w, n
<1> HIDE DEF n
<1>8. [k \in 1 .. n + 1 |-> (e \o <<z>>)[k]] = [k \in 1 .. n + 1 |-> IF k = n + 1 THEN z ELSE e[k]]
  BY <1>1, <1>5
<1> QED
  BY <1>5, <1>7, <1>8 DEF e, z

LEMMA ToolsWithoutInput ==
    ASSUME NEW m, m.blocks \in Seq(Block)
    PROVE  WithoutInput(ToolsOf(m)) = FlattenSeq(AskedParts(m.blocks))
<1> DEFINE B == m.blocks
           n == Len(B)
           X == ToolParts(B)
           Y == AskedParts(B)
<1>1. n \in Nat /\ DOMAIN B = 1 .. n /\ \A i \in 1 .. n : B[i] \in Block
  OBVIOUS
<1>2. Y \in Seq(Seq(CalledTool)) /\ Len(Y) = n /\ \A i \in 1 .. n : Y[i] = AskedIn(B[i])
  BY <1>1, PartsAreSequences DEF AskedParts
<1>3. X = [i \in 1 .. n |-> X[i]]
      /\ \A i \in 1 .. n :
           X[i] = IF B[i].type = "tool_use"
                  THEN <<[id |-> B[i].id, name |-> B[i].name, input |-> B[i].text]>> ELSE <<>>
  BY <1>1 DEF ToolParts
<1>4. \A i \in 1 .. n : X[i] \in Seq(CalledTool)
  <2>1. \A bl \in Block : [id |-> bl.id, name |-> bl.name, input |-> bl.text] \in CalledTool
    BY DEF Block, CalledTool
  <2>2. <<>> \in Seq(CalledTool) /\ \A x \in CalledTool : <<x>> \in Seq(CalledTool)
    OBVIOUS
  <2> QED
    BY <1>1, <1>3, <2>1, <2>2
<1>5. ToolsOf(m) = FlattenSeq(X)
  BY DEF ToolsOf, ToolParts
<1> HIDE DEF X, Y, B, n
<1>6. X \in Seq(Seq(CalledTool)) /\ Len(X) = n
  BY <1>1, <1>3, <1>4, SeqOfFunction
<1>7. PICK p : PutTogether(p, X) /\ FlattenSeq(X) = p[n]
  BY <1>6, FlattenByPrefixes
<1>8. PICK q : PutTogether(q, Y) /\ FlattenSeq(Y) = q[n]
  BY <1>2, FlattenByPrefixes
<1>9. /\ p[0] = <<>> /\ \A k \in 1 .. n : p[k] = p[k - 1] \o X[k]
      /\ q[0] = <<>> /\ \A k \in 1 .. n : q[k] = q[k - 1] \o Y[k]
  BY <1>2, <1>6, <1>7, <1>8 DEF PutTogether
<1>10. \A k \in 0 .. n : p[k] \in Seq(CalledTool) /\ q[k] \in Seq(CalledTool)
  BY <1>2, <1>6, <1>7, <1>8, PrefixesAreSequences
<1>11. ASSUME NEW k \in 1 .. n, WithoutInput(p[k - 1]) = q[k - 1] PROVE WithoutInput(p[k]) = q[k]
  <2>1. p[k - 1] \in Seq(CalledTool) /\ q[k - 1] \in Seq(CalledTool) /\ B[k] \in Block
    BY <1>1, <1>10
  <2>2. p[k] = p[k - 1] \o X[k] /\ q[k] = q[k - 1] \o AskedIn(B[k])
    BY <1>2, <1>9
  <2>3. CASE B[k].type = "tool_use"
    <3> DEFINE y == [id |-> B[k].id, name |-> B[k].name, input |-> B[k].text]
    <3>1. y \in CalledTool /\ [y EXCEPT !.input = <<>>] = Named(B[k])
      <4>1. \A bl \in Block : [id |-> bl.id, name |-> bl.name, input |-> bl.text] \in CalledTool
        BY DEF Block, CalledTool
      <4>2. [y EXCEPT !.input = <<>>] = Named(B[k])
        BY DEF Named
      <4> QED
        BY <2>1, <4>1, <4>2
    <3>2. X[k] = <<y>> /\ AskedIn(B[k]) = <<Named(B[k])>>
      BY <1>3, <2>3 DEF AskedIn
    <3> HIDE DEF y
    <3> QED
      BY <1>11, <2>1, <2>2, <3>1, <3>2, OneToolMore
  <2>4. CASE B[k].type # "tool_use"
    <3>1. X[k] = <<>> /\ AskedIn(B[k]) = <<>>
      BY <1>3, <2>4 DEF AskedIn
    <3>2. p[k - 1] \o <<>> = p[k - 1] /\ q[k - 1] \o <<>> = q[k - 1]
      BY <2>1, ConcatEmptySeq
    <3> QED
      BY <1>11, <2>2, <3>1, <3>2
  <2> QED
    BY <2>3, <2>4
<1>12. WithoutInput(p[0]) = q[0]
  BY <1>9 DEF WithoutInput
<1> DEFINE S == {k \in 0 .. n : WithoutInput(p[k]) # q[k]}
<1>13. ASSUME S # {} PROVE FALSE
  <2>1. PICK k \in S : \A j \in S : k <= j
    <3>1. S \in SUBSET Nat
      BY <1>1
    <3> HIDE DEF S
    <3> QED
      BY <1>13, <3>1, LeastNatural
  <2>2. k \in 1 .. n /\ k - 1 \in 0 .. n /\ ~(k <= k - 1)
    BY <1>1, <1>12, <2>1
  <2>3. k - 1 \notin S
    <3> HIDE DEF S
    <3> QED
      BY <2>1, <2>2
  <2> QED
    BY <1>11, <2>1, <2>2, <2>3
<1>14. WithoutInput(p[n]) = q[n]
  BY <1>1, <1>13
<1> QED
  BY <1>5, <1>7, <1>8, <1>14 DEF Y, B

LEMMA RecordInvReads ==
    ASSUME RecordInv, ending = "eof", NEW m \in Messages
    PROVE  /\ feed = AnthropicLines(m) =>
                Recorded(RecordOf(col), TextOf(m), RepeatedTo(m.blocks, Len(m.blocks)),
                         WithoutInput(ToolsOf(m)), m.stop, CountedUsage(m))
           /\ feed = OpenAILines(m) =>
                Recorded(RecordOf(col), TextOf(m), <<>>, <<>>, m.stop, OpenAIUsage(m))
<1>1. Reads(NewRecord, feed, RecordOf(col))
  <2>1. SubSeq(feed, 1, at) = feed
    BY SubSeqFull DEF RecordInv
  <2> QED
    BY <2>1 DEF RecordInv
<1>2. Recorded(NewRecord, <<>>, <<>>, <<>>, "", NoUsage)
  BY DEF NewRecord, Recorded
<1>3. TextOf(m) = FlattenSeq(SaidParts(m.blocks))
  BY DEF TextOf, SaidParts, SaidIn
<1>4. WithoutInput(ToolsOf(m)) = FlattenSeq(AskedParts(m.blocks))
  BY MessagesAre, ToolsWithoutInput DEF Message
<1> QED
  BY <1>1, <1>2, <1>3, <1>4, MessagesAre, AnthropicRead, OpenAIRead

LEMMA RecordInvAgrees == RecordInv => RecordsAgree
<1> SUFFICES ASSUME RecordInv, ending = "eof" PROVE RecordsAgree
  BY DEF RecordsAgree, BlocksRepeat
<1>1. ASSUME NEW m \in Messages
      PROVE  RepeatedTo(m.blocks, Len(m.blocks))
               = [i \in DOMAIN m.blocks |->
                    IF m.blocks[i].type = "tool_use"
                    THEN [type |-> "tool_use", id |-> m.blocks[i].id,
                          name |-> m.blocks[i].name, text |-> <<>>]
                    ELSE [type |-> "text", id |-> "", name |-> "",
                          text |-> IF m.blocks[i].type = "text" THEN m.blocks[i].text ELSE <<>>]]
  <2>1. DOMAIN m.blocks = 1 .. Len(m.blocks)
    BY MessagesAre DEF Message
  <2> QED
    BY <2>1 DEF RepeatedTo, Repeated, TextBlock, SaidIn
<1>2. ASSUME NEW m \in Messages
      PROVE  /\ feed = AnthropicLines(m) =>
                  /\ col.text = TextOf(m) /\ col.blocks = RepeatedTo(m.blocks, Len(m.blocks))
                  /\ col.tools = WithoutInput(ToolsOf(m)) /\ col.stop = m.stop
                  /\ col.usage = CountedUsage(m)
             /\ feed = OpenAILines(m) =>
                  /\ col.text = TextOf(m) /\ col.tools = <<>> /\ col.stop = m.stop
                  /\ col.usage = OpenAIUsage(m)
  BY RecordInvReads DEF Recorded, RecordOf, Record
<1>3. BlocksRepeat
  BY <1>1, <1>2 DEF BlocksRepeat
<1>4. ASSUME NEW m \in Messages
      PROVE  LET plain == ExtractUsage(m) IN
             /\ feed \in {AnthropicLines(m), OpenAILines(m)} => col.stop = plain.stop
             /\ feed = AnthropicLines(m) =>
                  /\ col.tools = WithoutInput(plain.tools)
                  /\ col.usage = [plain.usage EXCEPT !.input = IF m.early THEN 0 ELSE @]
             /\ feed = OpenAILines(m) =>
                  /\ col.tools = <<>>
                  /\ col.usage = [plain.usage EXCEPT !.created = 0]
  <2> DEFINE plain == ExtractUsage(m)
  <2>1. plain.tools = ToolsOf(m) /\ plain.stop = m.stop /\ plain.usage = m.usage
    BY DEF ExtractUsage
  <2> HIDE DEF plain
  <2> QED
    BY <1>2, <2>1 DEF plain, CountedUsage, OpenAIUsage
<1> QED
  BY <1>3, <1>4 DEF RecordsAgree

(* The record of a streamed message is that of the plain answer but for    *)
(* three things that a stream loses (proxy/streaming.go 39-207, proxy.go   *)
(* 128-225): for every message in Messages.                                *)
THEOREM RecordsAgreeAlways == StreamSpec => []RecordsAgree
<1>1. RecordInv /\ [StreamNext]_streamVars => RecordInv'
  <2>1. RecordInv /\ UNCHANGED streamVars => RecordInv'
    BY DEF RecordInv, streamVars, LineSet
  <2> QED
    BY <2>1, RecordScanInv, RecordBreakInv, RecordEndInv DEF StreamNext
<1> QED
  BY <1>1, RecordInitInv, RecordInvAgrees, PTL DEF StreamSpec

-----------------------------------------------------------------------------
(***************************************************************************)
(* Proofs about Translate, for any messages and requests: what goes to the *)
(* other protocol and comes back.  The texts and messages of a list are    *)
(* put together, of which only the first may be a system message.          *)
(***************************************************************************)

LEMMA PutTogetherFirst ==
    ASSUME NEW R, NEW ss \in Seq(Seq(R)), NEW x \in Seq(R)
    PROVE  FlattenSeq(<<x>> \o ss) = x \o FlattenSeq(ss)
<1> DEFINE n == Len(ss)
           zz == <<x>> \o ss
<1>1. n \in Nat /\ zz \in Seq(Seq(R)) /\ Len(zz) = n + 1 /\ zz[1] = x
      /\ \A i \in 1 .. n : zz[i + 1] = ss[i]
  <2>1. <<x>> \in Seq(Seq(R)) /\ Len(<<x>>) = 1
    OBVIOUS
  <2>2. n \in Nat
    OBVIOUS
  <2> QED
    BY <2>1, <2>2, ConcatProperties
<1>2. PICK pre : PutTogether(pre, ss) /\ FlattenSeq(ss) = pre[n]
  BY FlattenByPrefixes
<1>3. \A i \in 0 .. n : pre[i] \in Seq(R)
  BY <1>2, PrefixesAreSequences
<1> DEFINE q == [i \in 0 .. n + 1 |-> IF i = 0 THEN <<>> ELSE x \o pre[i - 1]]
<1> HIDE DEF n, zz
<1>4. PutTogether(q, zz)
  <2>1. q[0] = <<>>
    BY <1>1
  <2>2. ASSUME NEW i \in 1 .. n + 1 PROVE q[i] = q[i - 1] \o zz[i]
    <3>1. CASE i = 1
      <4>1. q[1] = x \o pre[0] /\ q[0] = <<>> /\ pre[0] = <<>>
        BY <1>1, <1>2 DEF PutTogether
      <4>2. x \o <<>> = x /\ <<>> \o x = x
        BY ConcatEmptySeq
      <4> QED
        BY <1>1, <3>1, <4>1, <4>2
    <3>2. CASE i # 1
      <4> DEFINE k == i - 1
      <4>1. k \in 1 .. n /\ k - 1 \in 0 .. n /\ i = k + 1
        BY <1>1, <3>2
      <4>2. q[i] = x \o pre[k] /\ q[k] = x \o pre[k - 1] /\ zz[i] = ss[k]
        <5>1. i \in 0 .. n + 1 /\ i # 0 /\ k \in 0 .. n + 1 /\ k # 0
          BY <1>1, <4>1
        <5>2. q[i] = x \o pre[i - 1] /\ q[k] = x \o pre[k - 1]
          BY <5>1
        <5> HIDE DEF q
        <5> QED
          BY <1>1, <4>1, <5>2
      <4>3. pre[k] = pre[k - 1] \o ss[k]
        BY <1>2, <4>1 DEF PutTogether, n
      <4>4. pre[k - 1] \in Seq(R) /\ ss[k] \in Seq(R)
        BY <1>3, <4>1 DEF n
      <4> HIDE DEF q, k
      <4>5. x \o (pre[k - 1] \o ss[k]) = (x \o pre[k - 1]) \o ss[k]
        <5> DEFINE a == pre[k - 1]
                   b == ss[k]
        <5>1. a \in Seq(R) /\ b \in Seq(R)
          BY <4>4
        <5> HIDE DEF a, b
        <5>2. x \o (a \o b) = (x \o a) \o b
          BY <5>1, ConcatAssociative
        <5> QED
          BY <5>2 DEF a, b
      <4> QED
        BY <4>2, <4>3, <4>5 DEF k
    <3> QED
      BY <3>1, <3>2
  <2> HIDE DEF q
  <2> QED
    BY <1>1, <2>1, <2>2 DEF PutTogether
<1>5. FlattenSeq(zz) = q[n + 1]
  BY <1>1, <1>4, FlattenIs
<1>6. q[n + 1] = x \o pre[n]
  BY <1>1
<1> QED
  BY <1>2, <1>5, <1>6 DEF zz

LEMMA PutTogetherOnes ==
    ASSUME NEW R, NEW f \in Seq(R), NEW ss, ss = [i \in DOMAIN f |-> <<f[i]>>]
    PROVE  FlattenSeq(ss) = f
<1> DEFINE n == Len(f)
           q == [i \in 0 .. n |-> SubSeq(f, 1, i)]
<1>1. n \in Nat /\ DOMAIN f = 1 .. n /\ \A i \in 1 .. n : <<f[i]>> \in Seq(R)
  OBVIOUS
<1>2. ss \in Seq(Seq(R)) /\ Len(ss) = n
  BY <1>1
<1>3. q[0] = <<>>
  <2>1. SubSeq(f, 1, 0) = <<>>
    BY SubSeqEmpty
  <2> QED
    BY <1>1, <2>1
<1>4. ASSUME NEW i \in 1 .. n PROVE q[i] = q[i - 1] \o ss[i]
  <2>1. q[i] = SubSeq(f, 1, i) /\ q[i - 1] = SubSeq(f, 1, i - 1) /\ ss[i] = <<f[i]>>
    BY <1>1
  <2>2. 1 \in 1 .. Len(f) /\ i \in 1 .. Len(f)
    BY <1>1
  <2> QED
    BY <2>1, <2>2, SubSeqRecursiveSecond
<1>5. PutTogether(q, ss)
  <2> HIDE DEF q
  <2> QED
    BY <1>2, <1>3, <1>4 DEF PutTogether
<1>6. FlattenSeq(ss) = q[n]
  BY <1>2, <1>5, FlattenIs
<1>7. q[n] = f
  BY <1>1, SubSeqFull
<1> QED
  BY <1>6, <1>7

LEMMA PutTogetherNothing ==
    ASSUME NEW n \in Nat, NEW ss, DOMAIN ss = 1 .. n, ss = [i \in 1 .. n |-> <<>>]
    PROVE  FlattenSeq(ss) = <<>>
<1> DEFINE q == [i \in 0 .. n |-> <<>>]
<1>1. <<>> \in Seq({})
  OBVIOUS
<1>2. ss \in Seq(Seq({})) /\ Len(ss) = n
  BY <1>1
<1>3. <<>> \o <<>> = <<>>
  BY <1>1, ConcatEmptySeq
<1>4. PutTogether(q, ss)
  BY <1>2, <1>3 DEF PutTogether
<1>5. FlattenSeq(ss) = q[n]
  BY <1>2, <1>4, FlattenIs
<1> QED
  BY <1>5

LEMMA Prepended ==
    ASSUME NEW S, NEW x \in S, NEW ss \in Seq(S)
    PROVE  /\ <<x>> \o ss \in Seq(S)
           /\ Len(<<x>> \o ss) = Len(ss) + 1 /\ Len(ss) \in Nat
           /\ DOMAIN (<<x>> \o ss) = 1 .. Len(ss) + 1
           /\ (<<x>> \o ss)[1] = x
           /\ \A i \in 1 .. Len(ss) : (<<x>> \o ss)[i + 1] = ss[i]
<1>1. <<x>> \in Seq(S) /\ Len(<<x>>) = 1 /\ <<x>>[1] = x /\ Len(ss) \in Nat
  OBVIOUS
<1> DEFINE c == <<x>> \o ss
<1>2. /\ c \in Seq(S) /\ Len(c) = Len(ss) + 1
      /\ \A i \in 1 .. 1 + Len(ss) : c[i] = IF i <= 1 THEN <<x>>[i] ELSE ss[i - 1]
  BY <1>1, ConcatProperties
<1>3. \A i \in 1 .. Len(ss) : c[i + 1] = ss[i]
  <2> SUFFICES ASSUME NEW i \in 1 .. Len(ss) PROVE c[i + 1] = ss[i]
    OBVIOUS
  <2>1. i + 1 \in 1 .. 1 + Len(ss) /\ ~ (i + 1 <= 1) /\ (i + 1) - 1 = i
    BY <1>1
  <2> HIDE DEF c
  <2> QED
    BY <1>2, <2>1
<1>4. c[1] = x
  <2>1. 1 \in 1 .. 1 + Len(ss)
    BY <1>1
  <2> HIDE DEF c
  <2> QED
    BY <1>1, <1>2, <2>1
<1>5. DOMAIN c = 1 .. Len(ss) + 1
  <2> HIDE DEF c
  <2> QED
    BY <1>1, <1>2
<1> QED
  BY <1>1, <1>2, <1>3, <1>4, <1>5

LEMMA FlattenPrepended ==
    ASSUME NEW R, NEW ss \in Seq(Seq(R)), NEW x \in Seq(R),
           NEW c, c = [i \in 1 .. Len(ss) + 1 |-> c[i]],
           c[1] = x, \A i \in 1 .. Len(ss) : c[i + 1] = ss[i]
    PROVE  FlattenSeq(c) = x \o FlattenSeq(ss)
<1> DEFINE d == <<x>> \o ss
           n == Len(ss)
<1>1. /\ d \in Seq(Seq(R)) /\ n \in Nat /\ DOMAIN d = 1 .. n + 1
      /\ d[1] = x /\ \A i \in 1 .. n : d[i + 1] = ss[i]
  BY Prepended
<1>2. FlattenSeq(d) = x \o FlattenSeq(ss)
  BY PutTogetherFirst
<1> HIDE DEF d
<1>3. d = [i \in 1 .. n + 1 |-> d[i]]
  BY <1>1
<1>4. \A i \in 1 .. n + 1 : c[i] = d[i]
  <2> SUFFICES ASSUME NEW i \in 1 .. n + 1 PROVE c[i] = d[i]
    OBVIOUS
  <2>1. CASE i = 1
    BY <1>1, <2>1
  <2>2. CASE i # 1
    <3> DEFINE k == i - 1
    <3>1. k \in 1 .. n /\ k + 1 = i
      BY <1>1, <2>2
    <3> HIDE DEF k
    <3>2. c[k + 1] = ss[k] /\ d[k + 1] = ss[k]
      BY <1>1, <3>1
    <3> QED
      BY <3>1, <3>2
  <2> QED
    BY <2>1, <2>2
<1>5. c = d
  BY <1>3, <1>4
<1> QED
  BY <1>2, <1>5

LEMMA ReasonReturns ==
    ASSUME NEW s, s \notin Range(FinishReasons)
    PROVE  StopReason(FinishReason(s)) = s
<1>1. DOMAIN FinishReasons = {"end_turn", "max_tokens", "tool_use", "refusal"}
  BY DEF FinishReasons
<1>2. /\ FinishReasons["end_turn"] = "stop" /\ FinishReasons["max_tokens"] = "length"
      /\ FinishReasons["tool_use"] = "tool_calls" /\ FinishReasons["refusal"] = "content_filter"
  BY DEF FinishReasons
<1>3. \A x, y \in DOMAIN FinishReasons : FinishReasons[x] = FinishReasons[y] => x = y
  BY <1>1, <1>2
<1>4. CASE s \in DOMAIN FinishReasons
  <2> DEFINE f == FinishReasons[s]
  <2>1. FinishReason(s) = f
    BY <1>4 DEF FinishReason
  <2>2. (CHOOSE x \in DOMAIN FinishReasons : FinishReasons[x] = f) = s
    BY <1>3, <1>4
  <2> QED
    BY <1>4, <2>1, <2>2 DEF StopReason
<1>5. CASE s \notin DOMAIN FinishReasons
  <2>1. FinishReason(s) = s
    BY <1>5 DEF FinishReason
  <2>2. ~ \E x \in DOMAIN FinishReasons : FinishReasons[x] = s
    BY DEF Range
  <2> QED
    BY <2>1, <2>2 DEF StopReason
<1> QED
  BY <1>4, <1>5

Said == [role : {"user", "assistant"}, content : Seq(STRING)]

LEMMA RoleReturns ==
    ASSUME NEW x \in Said
    PROVE  /\ OpenAIRole(x) # "system"
           /\ LET y == [x EXCEPT !.role = OpenAIRole(x)]
              IN  y.role = OpenAIRole(x) /\ [y EXCEPT !.role = AnthropicRole(y.role)] = x
<1>1. OpenAIRole(x) \in {"user", "assistant", "tool"} /\ AnthropicRole(OpenAIRole(x)) = x.role
  BY DEF Said, OpenAIRole, AnthropicRole
<1> DEFINE y == [x EXCEPT !.role = OpenAIRole(x)]
<1>2. y.role = OpenAIRole(x) /\ [y EXCEPT !.role = x.role] = x
  BY DEF Said
<1> QED
  BY <1>1, <1>2

\* What ToAnthropic makes of message m, and of the text of a system message.
TextOfSystem(m) == If(m.role = "system", m.content)
NotSystem(m) == If(~(m.role = "system"), <<[m EXCEPT !.role = AnthropicRole(m.role)]>>)

LEMMA OneOf ==
    ASSUME NEW R, NEW x \in R
    PROVE  <<x>> \in Seq(R)
OBVIOUS

OpenAIMessages(M, system) ==
    If(system # <<>>, <<[role |-> "system", content |-> system]>>)
    \o [i \in DOMAIN M |-> [M[i] EXCEPT !.role = OpenAIRole(M[i])]]

Returned(O, M, system) ==
    /\ FlattenSeq([i \in DOMAIN O |-> TextOfSystem(O[i])]) = system
    /\ FlattenSeq([i \in DOMAIN O |-> NotSystem(O[i])]) = M

LEMMA MessagesReturn ==
    ASSUME NEW M \in Seq(Said), NEW system \in Seq(STRING)
    PROVE  Returned(OpenAIMessages(M, system), M, system)
<1> DEFINE n == Len(M)
           there == [i \in DOMAIN M |-> [M[i] EXCEPT !.role = OpenAIRole(M[i])]]
           O == OpenAIMessages(M, system)
           A == {there[i] : i \in 1 .. n}
           nothing == [i \in 1 .. n |-> <<>>]
           ones == [i \in DOMAIN M |-> <<M[i]>>]
           parts == [i \in DOMAIN O |-> TextOfSystem(O[i])]
           others == [i \in DOMAIN O |-> NotSystem(O[i])]
<1>1. n \in Nat /\ DOMAIN M = 1 .. n /\ \A i \in 1 .. n : M[i] \in Said
  OBVIOUS
<1>2. \A i \in 1 .. n :
        /\ there[i].role # "system"
        /\ [there[i] EXCEPT !.role = AnthropicRole(there[i].role)] = M[i]
  BY <1>1, RoleReturns
<1>0. O = If(system # <<>>, <<[role |-> "system", content |-> system]>>) \o there
  BY DEF OpenAIMessages
<1>3. \A i \in 1 .. n : TextOfSystem(there[i]) = <<>> /\ NotSystem(there[i]) = <<M[i]>>
  BY <1>2 DEF TextOfSystem, NotSystem, If
<1>4. there \in Seq(A) /\ Len(there) = n
  <2>1. there = [i \in 1 .. n |-> there[i]]
    BY <1>1
  <2> HIDE DEF n
  <2> QED
    BY ONLY <1>1, <2>1, SeqOfFunction
<1>5. FlattenSeq(nothing) = <<>>
  BY <1>1, PutTogetherNothing
<1>6. FlattenSeq(ones) = M
  BY <1>1, PutTogetherOnes
<1>7. nothing \in Seq(Seq(STRING)) /\ Len(nothing) = n /\ \A i \in 1 .. n : nothing[i] = <<>>
  BY <1>1
<1>8. ones \in Seq(Seq(Said)) /\ Len(ones) = n /\ \A i \in 1 .. n : ones[i] = <<M[i]>>
  <2>1. \A i \in 1 .. n : <<M[i]>> \in Seq(Said)
    BY <1>1, OneOf
  <2> QED
    BY <1>1, <2>1
<1> SUFFICES FlattenSeq(parts) = system /\ FlattenSeq(others) = M
  BY DEF Returned
<1> HIDE DEF n, A, nothing, ones, there, O
<1>9. CASE system = <<>>
  <2>1. O = there
    BY <1>0, <1>4, <1>9, ConcatEmptySeq DEF If
  <2>2. parts = nothing /\ others = ones
    <3>1. DOMAIN O = 1 .. n /\ DOMAIN M = 1 .. n
      BY <1>1, <1>4, <2>1
    <3> QED
      BY <1>3, <2>1, <3>1 DEF nothing, ones
  <2> QED
    BY <1>5, <1>6, <1>9, <2>2
<1>10. CASE system # <<>>
  <2> DEFINE first == [role |-> "system", content |-> system]
  <2>1. TextOfSystem(first) = system /\ NotSystem(first) = <<>>
    BY DEF TextOfSystem, NotSystem, If
  <2>2. O = <<first>> \o there
    BY <1>0, <1>10 DEF If
  <2> HIDE DEF first, parts, others
  <2>3. there \in Seq(A \cup {first}) /\ first \in A \cup {first}
    <3>1. A \subseteq A \cup {first}
      OBVIOUS
    <3> QED
      BY <1>4, <3>1, SeqMonotonic
  <2>4. DOMAIN O = 1 .. n + 1 /\ O[1] = first /\ \A i \in 1 .. n : O[i + 1] = there[i]
    <3> DEFINE S == A \cup {first}
    <3>1. there \in Seq(S) /\ first \in S
      BY <2>3
    <3> HIDE DEF S
    <3>2. /\ <<first>> \o there \in Seq(S)
          /\ Len(<<first>> \o there) = Len(there) + 1 /\ Len(there) \in Nat
          /\ DOMAIN (<<first>> \o there) = 1 .. Len(there) + 1
          /\ (<<first>> \o there)[1] = first
          /\ \A i \in 1 .. Len(there) : (<<first>> \o there)[i + 1] = there[i]
      BY ONLY <3>1, Prepended
    <3> QED
      BY ONLY <1>4, <2>2, <3>2
  <2>5. \A i \in 1 .. n : i + 1 \in 1 .. n + 1
    BY <1>1
  <2>6. 1 \in 1 .. n + 1
    BY <1>1
  <2>7. /\ parts = [i \in 1 .. n + 1 |-> parts[i]]
        /\ parts[1] = system /\ \A i \in 1 .. n : parts[i + 1] = <<>>
    BY <1>3, <2>1, <2>4, <2>5, <2>6 DEF parts
  <2>8. /\ others = [i \in 1 .. n + 1 |-> others[i]]
        /\ others[1] = <<>> /\ \A i \in 1 .. n : others[i + 1] = <<M[i]>>
    BY <1>3, <2>1, <2>4, <2>5, <2>6 DEF others
  <2>9. FlattenSeq(parts) = system \o FlattenSeq(nothing)
    BY <1>7, <2>7, FlattenPrepended
  <2>10. FlattenSeq(others) = <<>> \o FlattenSeq(ones)
    <3>1. <<>> \in Seq(Said)
      OBVIOUS
    <3> QED
      BY <1>8, <2>8, <3>1, FlattenPrepended
  <2>11. system \o <<>> = system /\ <<>> \o M = M
    BY ConcatEmptySeq
  <2> QED
    BY <1>5, <1>6, <2>9, <2>10, <2>11 DEF parts, others
<1> QED
  BY <1>9, <1>10

LEMMA AskedAgain ==
    ASSUME NEW q \in [system : Seq(STRING), listed : BOOLEAN, thinking : BOOLEAN, limit : Int,
                      choice : STRING, user : STRING, messages : Seq(Said)],
           NEW x, NEW y
    PROVE  [q EXCEPT !.choice = x, !.thinking = y]
             = [system |-> q.system, listed |-> q.listed, thinking |-> y, limit |-> q.limit,
                choice |-> x, user |-> q.user, messages |-> q.messages]
<1> DEFINE z == [q EXCEPT !.choice = x]
<1>1. z = [system |-> q.system, listed |-> q.listed, thinking |-> q.thinking, limit |-> q.limit,
           choice |-> x, user |-> q.user, messages |-> q.messages]
  OBVIOUS
<1> HIDE DEF z
<1>2. [z EXCEPT !.thinking = y]
        = [system |-> q.system, listed |-> q.listed, thinking |-> y, limit |-> q.limit,
           choice |-> x, user |-> q.user, messages |-> q.messages]
  BY <1>1
<1> QED
  BY <1>2 DEF z

LEMMA RequestReturns ==
    ASSUME NEW q \in [system : Seq(STRING), listed : BOOLEAN, thinking : BOOLEAN, limit : Int,
                      choice : STRING, user : STRING, messages : Seq(Said)],
           ~Refused(q)
    PROVE  ToAnthropic(ToOpenAI(q))
             = [q EXCEPT !.choice = IF q.choice = "any" THEN "required" ELSE q.choice,
                         !.thinking = FALSE]
<1> DEFINE M == q.messages
           o == ToOpenAI(q)
           O == o.messages
           parts == [i \in DOMAIN O |-> TextOfSystem(O[i])]
           others == [i \in DOMAIN O |-> NotSystem(O[i])]
<1>1. M \in Seq(Said) /\ q.system \in Seq(STRING)
  OBVIOUS
<1>2. O = OpenAIMessages(M, q.system)
  BY DEF ToOpenAI, OpenAIMessages
<1>3. FlattenSeq(parts) = q.system /\ FlattenSeq(others) = M
  <2> HIDE DEF O, M
  <2>1. Returned(O, M, q.system)
    BY <1>1, <1>2, MessagesReturn
  <2> QED
    BY <2>1 DEF Returned
<1>4. ToAnthropic(o)
        = [system |-> FlattenSeq(parts), messages |-> FlattenSeq(others),
           limit |-> IF o.max_completion_tokens # NotGiven THEN o.max_completion_tokens
                     ELSE o.max_tokens,
           listed |-> FALSE, thinking |-> FALSE, choice |-> o.choice, user |-> o.user]
  BY DEF ToAnthropic, TextOfSystem, NotSystem
<1>5. /\ o.max_completion_tokens = q.limit /\ o.max_tokens = NotGiven /\ o.user = q.user
      /\ o.choice = IF q.choice = "any" THEN "required" ELSE q.choice
  BY DEF ToOpenAI
<1> HIDE DEF parts, others, o
<1>6. ToAnthropic(o) = [system |-> q.system, messages |-> M, limit |-> q.limit,
                        listed |-> FALSE, thinking |-> FALSE,
                        choice |-> IF q.choice = "any" THEN "required" ELSE q.choice,
                        user |-> q.user]
  BY <1>3, <1>4, <1>5
<1>7. q.listed = FALSE
  BY DEF Refused
<1>8. \A x : [q EXCEPT !.choice = x, !.thinking = FALSE]
             = [system |-> q.system, messages |-> M, limit |-> q.limit,
                listed |-> FALSE, thinking |-> FALSE, choice |-> x, user |-> q.user]
  <2> TAKE x
  <2>1. [q EXCEPT !.choice = x, !.thinking = FALSE]
          = [system |-> q.system, listed |-> q.listed, thinking |-> FALSE, limit |-> q.limit,
             choice |-> x, user |-> q.user, messages |-> q.messages]
    BY AskedAgain
  <2> QED
    BY <1>7, <2>1
<1> DEFINE c == IF q.choice = "any" THEN "required" ELSE q.choice
<1>9. ToAnthropic(o) = [system |-> q.system, messages |-> M, limit |-> q.limit,
                        listed |-> FALSE, thinking |-> FALSE, choice |-> c, user |-> q.user]
  BY <1>6
<1> HIDE DEF c, M
<1>10. ToAnthropic(o) = [q EXCEPT !.choice = c, !.thinking = FALSE]
  BY <1>8, <1>9, Zenon
<1> QED
  BY <1>10 DEF o, c

LEMMA FlattenOne ==
    ASSUME NEW R, NEW x \in Seq(R)
    PROVE  FlattenSeq(<<x>>) = x
<1> DEFINE pre == [i \in 0 .. 1 |-> IF i = 0 THEN <<>> ELSE x]
<1>1. <<x>> \in Seq(Seq(R)) /\ Len(<<x>>) = 1 /\ <<x>>[1] = x
  OBVIOUS
<1>2. pre[0] = <<>> /\ pre[1] = x /\ <<>> \o x = x
  BY ConcatEmptySeq
<1> HIDE DEF pre
<1>3. PutTogether(pre, <<x>>)
  <2> SUFFICES ASSUME NEW i \in 1 .. 1 PROVE pre[i] = pre[i - 1] \o <<x>>[i]
    BY <1>1, <1>2 DEF PutTogether
  <2>1. i = 1 /\ i - 1 = 0
    OBVIOUS
  <2> QED
    BY <1>1, <1>2, <2>1
<1> QED
  BY <1>1, <1>2, <1>3, FlattenIs

\* The texts of a list of one block, and of none.
LEMMA TextOfOne ==
    ASSUME NEW b, b.type = "text", b.text \in Seq(STRING)
    PROVE  TextIn(<<b>>) = b.text
<1> DEFINE c == [i \in DOMAIN <<b>> |-> If(<<b>>[i].type = "text", <<b>>[i].text)]
<1>1. DOMAIN <<b>> = 1 .. 1 /\ <<b>>[1] = b
  OBVIOUS
<1>2. c = <<b.text>>
  BY <1>1 DEF If
<1>3. TextIn(<<b>>) = FlattenSeq(c)
  BY DEF TextIn
<1> HIDE DEF c
<1> QED
  BY <1>2, <1>3, FlattenOne

LEMMA TextOfNone == TextIn(<<>>) = <<>>
<1> DEFINE c == [i \in DOMAIN <<>> |-> If(<<>>[i].type = "text", <<>>[i].text)]
<1>1. c = [i \in 1 .. 0 |-> <<>>] /\ DOMAIN c = 1 .. 0
  OBVIOUS
<1>2. TextIn(<<>>) = FlattenSeq(c)
  BY DEF TextIn
<1> HIDE DEF c
<1> QED
  BY <1>1, <1>2, PutTogetherNothing

LEMMA TextInIsText ==
    ASSUME NEW blocks \in Seq([type : {"text", "tool_use", "thinking"}, id : STRING, name : STRING,
                               text : Seq(STRING)])
    PROVE  TextIn(blocks) \in Seq(STRING)
<1> DEFINE c == [i \in DOMAIN blocks |-> If(blocks[i].type = "text", blocks[i].text)]
           n == Len(blocks)
<1>1. n \in Nat /\ DOMAIN blocks = 1 .. n
  OBVIOUS
<1>2. <<>> \in Seq(STRING)
  OBVIOUS
<1>3. \A i \in 1 .. n : c[i] \in Seq(STRING)
  <2> SUFFICES ASSUME NEW i \in 1 .. n PROVE c[i] \in Seq(STRING)
    OBVIOUS
  <2>1. c[i] = IF blocks[i].type = "text" THEN blocks[i].text ELSE <<>>
    BY <1>1 DEF If
  <2>2. blocks[i].text \in Seq(STRING)
    <3>1. blocks[i] \in [type : {"text", "tool_use", "thinking"}, id : STRING, name : STRING,
                         text : Seq(STRING)]
      BY <1>1, ElementOfSeq
    <3> QED
      BY <3>1
  <2> HIDE DEF c
  <2> QED
    BY <1>2, <2>1, <2>2
<1>4. c = [i \in 1 .. n |-> c[i]]
  BY <1>1
<1>5. TextIn(blocks) = FlattenSeq(c)
  BY DEF TextIn
<1> HIDE DEF c, n
<1>6. c \in Seq(Seq(STRING))
  BY ONLY <1>1, <1>3, <1>4, SeqOfFunction
<1> QED
  BY <1>5, <1>6, FlattenInSeq

\* A text that comes back in one block, or in none.
TextBlocks(text) ==
    If(text # <<>>, <<[type |-> "text", id |-> "", name |-> "", text |-> text]>>)

LEMMA TextReturns ==
    ASSUME NEW text \in Seq(STRING)
    PROVE  TextIn(TextBlocks(text) \o <<>>) = text
<1> DEFINE b == [type |-> "text", id |-> "", name |-> "", text |-> text]
<1>1. b.type = "text" /\ b.text = text
  OBVIOUS
<1> HIDE DEF b
<1>2. CASE text = <<>>
  <2>1. TextBlocks(text) = <<>>
    BY <1>2 DEF TextBlocks, If
  <2>2. <<>> \o <<>> = <<>>
    OBVIOUS
  <2> QED
    BY <1>2, <2>1, <2>2, TextOfNone
<1>3. CASE text # <<>>
  <2>1. TextBlocks(text) = <<b>>
    BY <1>3 DEF TextBlocks, If, b
  <2>2. <<b>> \o <<>> = <<b>>
    OBVIOUS
  <2>3. TextIn(<<b>>) = text
    BY <1>1, TextOfOne
  <2> QED
    BY <2>1, <2>2, <2>3
<1> QED
  BY <1>2, <1>3

LEMMA OnlyText ==
    ASSUME NEW text \in Seq(STRING)
    PROVE  {b.type : b \in Range(TextBlocks(text) \o <<>>)} \subseteq {"text"}
<1> DEFINE b == [type |-> "text", id |-> "", name |-> "", text |-> text]
<1>1. b.type = "text"
  OBVIOUS
<1> HIDE DEF b
<1>2. TextBlocks(text) \o <<>> \in {<<>>, <<b>>}
  BY DEF TextBlocks, If, b
<1>3. Range(<<>>) = {} /\ Range(<<b>>) = {b}
  BY DEF Range
<1> QED
  BY <1>1, <1>2, <1>3

LEMMA ResponseReturns ==
    ASSUME NEW m, m.stop \notin Range(FinishReasons),
           m.blocks \in Seq([type : {"text", "tool_use", "thinking"}, id : STRING, name : STRING,
                             text : Seq(STRING)]),
           m.usage \in Usage, ToolsIn(m.blocks) = <<>>
    PROVE  LET r == AnthropicToOpenAIResponse(m)
               back == OpenAIToAnthropicResponse(r)
           IN  /\ ~Unreadable(r)
               /\ TextIn(back.blocks) = TextIn(m.blocks)
               /\ {b.type : b \in Range(back.blocks)} \subseteq {"text"}
               /\ back.stop = m.stop /\ back.usage = [m.usage EXCEPT !.created = 0]
<1> DEFINE r == AnthropicToOpenAIResponse(m)
           back == OpenAIToAnthropicResponse(r)
           text == TextIn(m.blocks)
<1>1. /\ r.text = text /\ r.calls = <<>> /\ r.finish = FinishReason(m.stop)
      /\ r.usage.input = m.usage.input /\ r.usage.output = m.usage.output
      /\ r.usage.cached = m.usage.cached
  BY DEF AnthropicToOpenAIResponse
<1>2. text \in Seq(STRING)
  BY TextInIsText
<1> HIDE DEF r, text
<1>3. /\ back.blocks = TextBlocks(text) \o <<>>
      /\ back.stop = StopReason(FinishReason(m.stop))
      /\ back.usage = [input |-> m.usage.input, output |-> m.usage.output,
                       cached |-> m.usage.cached, created |-> 0]
  BY <1>1 DEF OpenAIToAnthropicResponse, TextBlocks
<1> HIDE DEF back
<1>7. back.usage = [m.usage EXCEPT !.created = 0]
  BY <1>3, CreatedReplaced
<1>8. {b.type : b \in Range(back.blocks)} \subseteq {"text"}
  BY <1>2, <1>3, OnlyText
<1>4. TextIn(back.blocks) = text
  BY <1>2, <1>3, TextReturns
<1>5. ~Unreadable(r)
  BY <1>1 DEF Unreadable
<1>6. back.stop = m.stop
  BY <1>3, ReasonReturns
<1> QED
  BY <1>4, <1>5, <1>6, <1>7, <1>8 DEF text, back, r

-----------------------------------------------------------------------------
(* What a translation starts from stays.                                   *)
StartInv ==
    /\ original \in Originals /\ request \in Requests
    /\ target = "openai" => original.stop \notin Range(FinishReasons)

LEMMA StartReturns ==
    ASSUME StartInv
    PROVE  RoundTrip
<1>1. RequestsReturn
  <2>1. request \in [system : Seq(STRING), listed : BOOLEAN, thinking : BOOLEAN, limit : Int,
                     choice : STRING, user : STRING, messages : Seq(Said)]
    BY TranslateAssumption DEF StartInv, Said
  <2> QED
    BY <2>1, RequestReturns DEF RequestsReturn
<1>2. ResponsesReturn
  <2> DEFINE m == original
             r == AnthropicToOpenAIResponse(m)
  <2> SUFFICES ASSUME target = "openai"
               PROVE  IF ToolsIn(m.blocks) # <<>> THEN Unreadable(r)
                      ELSE /\ ~Unreadable(r)
                           /\ LET back == OpenAIToAnthropicResponse(r) IN
                                /\ TextIn(back.blocks) = TextIn(m.blocks)
                                /\ {b.type : b \in Range(back.blocks)} \subseteq {"text"}
                                /\ back.stop = m.stop
                                /\ back.usage = [m.usage EXCEPT !.created = 0]
    BY DEF ResponsesReturn
  <2>1. CASE ToolsIn(m.blocks) # <<>>
    <3>1. r.calls = ToolsIn(m.blocks) /\ r.arguments = "object"
      BY DEF AnthropicToOpenAIResponse
    <3> HIDE DEF r
    <3> QED
      BY <2>1, <3>1 DEF Unreadable
  <2>2. CASE ToolsIn(m.blocks) = <<>>
    <3>1. /\ m.stop \notin Range(FinishReasons)
          /\ m.blocks \in Seq([type : {"text", "tool_use", "thinking"}, id : STRING, name : STRING,
                               text : Seq(STRING)])
          /\ m.usage \in Usage
      BY TranslateAssumption DEF StartInv, Usage
    <3> QED
      BY <2>2, <3>1, ResponseReturns
  <2> QED
    BY <2>1, <2>2
<1> QED
  BY <1>1, <1>2 DEF RoundTrip

(* A request that can be translated to the OpenAI protocol comes back the  *)
(* same but for a tool choice of "any" and for thoughts, and a response    *)
(* without tools the same but for the cut of its text into blocks, its     *)
(* thoughts and the tokens written to the cache; one with tools cannot be  *)
(* read (translate/anthropic.go, openai.go): for all of both.              *)
THEOREM RoundTripAlways == TranslateSpec => []RoundTrip
<1>1. TranslateInit => StartInv
  BY DEF TranslateInit, StartInv
<1>2. StartInv /\ [TranslateNext]_translateVars => StartInv'
  BY DEF StartInv, TranslateNext, translateVars
<1>3. StartInv => RoundTrip
  BY StartReturns
<1> QED
  BY <1>1, <1>2, <1>3, PTL DEF TranslateSpec

-----------------------------------------------------------------------------
(***************************************************************************)
(* Proofs about the streams of Translate, for any message.  A view gives a *)
(* sequence for each line, and what it gives for the lines one after the   *)
(* other is gathered: the text that a client collects, its tools, the lines*)
(* that tell it the end, the arguments it finds by an index, and what a    *)
(* translation makes of the lines.  First, where the parts of a sequence   *)
(* that is put together are in the whole.                                  *)
(***************************************************************************)

GrownBy(a, b, c) ==
    /\ Len(a) \in Nat /\ Len(b) \in Nat /\ Len(c) = Len(a) + Len(b)
    /\ \A k \in 1 .. Len(a) : c[k] = a[k]
    /\ \A j \in 1 .. Len(b) : c[Len(a) + j] = b[j]

LEMMA PrefixGrows ==
    ASSUME NEW R, NEW ss \in Seq(Seq(R)), NEW pre, PutTogether(pre, ss),
           NEW i \in 1 .. Len(ss)
    PROVE  GrownBy(pre[i - 1], ss[i], pre[i])
<1>1. i - 1 \in 0 .. Len(ss)
  OBVIOUS
<1>2. pre[i - 1] \in Seq(R) /\ ss[i] \in Seq(R) /\ pre[i] = pre[i - 1] \o ss[i]
  <2>1. pre[i - 1] \in Seq(R)
    BY <1>1, PrefixesAreSequences
  <2>2. pre[i] = pre[i - 1] \o ss[i]
    BY DEF PutTogether
  <2> QED
    BY <2>1, <2>2
<1> DEFINE a == pre[i - 1]
           b == ss[i]
<1> HIDE DEF a, b
<1>3. a \in Seq(R) /\ b \in Seq(R)
  BY <1>2 DEF a, b
<1>4. Len(a) \in Nat /\ Len(b) \in Nat
  BY <1>3
<1>5. /\ Len(a \o b) = Len(a) + Len(b)
      /\ \A k \in 1 .. Len(a) + Len(b) : (a \o b)[k] = IF k <= Len(a) THEN a[k] ELSE b[k - Len(a)]
  BY <1>3, ConcatProperties
<1>6. \A k \in 1 .. Len(a) : (a \o b)[k] = a[k]
  BY <1>4, <1>5
<1>7. \A j \in 1 .. Len(b) : (a \o b)[Len(a) + j] = b[j]
  <2> SUFFICES ASSUME NEW j \in 1 .. Len(b) PROVE (a \o b)[Len(a) + j] = b[j]
    OBVIOUS
  <2>1. Len(a) + j \in 1 .. Len(a) + Len(b) /\ ~ (Len(a) + j <= Len(a)) /\ (Len(a) + j) - Len(a) = j
    BY <1>4
  <2> QED
    BY <1>5, <2>1
<1> QED
  BY <1>2, <1>4, <1>5, <1>6, <1>7 DEF a, b, GrownBy

LEMMA PrefixStays ==
    ASSUME NEW R, NEW ss \in Seq(Seq(R)), NEW pre, PutTogether(pre, ss),
           NEW i \in 0 .. Len(ss)
    PROVE  \A n \in i .. Len(ss) :
             Len(pre[i]) <= Len(pre[n]) /\ \A k \in 1 .. Len(pre[i]) : pre[n][k] = pre[i][k]
<1> DEFINE Kept(n) == Len(pre[i]) <= Len(pre[n]) /\ \A k \in 1 .. Len(pre[i]) : pre[n][k] = pre[i][k]
           S == {n \in i .. Len(ss) : ~ Kept(n)}
<1>1. \A n \in 0 .. Len(ss) : pre[n] \in Seq(R)
  BY PrefixesAreSequences
<1>2. \A n \in 0 .. Len(ss) : Len(pre[n]) \in Nat
  BY <1>1
<1>3. ASSUME S # {} PROVE FALSE
  <2>1. PICK n \in S : \A j \in S : n <= j
    <3>1. S \in SUBSET Nat
      OBVIOUS
    <3> HIDE DEF S
    <3> QED
      BY <1>3, <3>1, LeastNatural
  <2>2. Kept(i)
    BY <1>2
  <2>3. n # i
    BY <2>2
  <2>4. n \in 1 .. Len(ss) /\ n - 1 \in i .. Len(ss) /\ n - 1 \in 0 .. Len(ss) /\ n - 1 \notin S
    BY <2>1, <2>3
  <2>5. Kept(n - 1)
    BY <2>4
  <2>6. /\ Len(pre[n]) = Len(pre[n - 1]) + Len(ss[n]) /\ Len(ss[n]) \in Nat
        /\ \A k \in 1 .. Len(pre[n - 1]) : pre[n][k] = pre[n - 1][k]
    <3>1. n \in 1 .. Len(ss)
      BY <2>4
    <3> HIDE DEF S, Kept
    <3>2. GrownBy(pre[n - 1], ss[n], pre[n])
      BY <3>1, PrefixGrows
    <3> QED
      BY <3>2 DEF GrownBy
  <2>7. Len(pre[n - 1]) \in Nat /\ Len(pre[i]) \in Nat /\ Len(pre[n]) \in Nat
    BY <1>2, <2>4
  <2>8. Len(pre[i]) <= Len(pre[n])
    <3>1. Len(pre[i]) <= Len(pre[n - 1]) /\ Len(pre[n]) = Len(pre[n - 1]) + Len(ss[n])
      BY <2>5, <2>6
    <3> DEFINE x == Len(pre[i])
               y == Len(pre[n - 1])
               z == Len(ss[n])
    <3>2. x \in Nat /\ y \in Nat /\ z \in Nat /\ x <= y /\ Len(pre[n]) = y + z
      BY <2>6, <2>7, <3>1
    <3> HIDE DEF x, y, z
    <3>3. x <= Len(pre[n])
      BY <3>2
    <3> QED
      BY <3>3 DEF x
  <2>9. ASSUME NEW k \in 1 .. Len(pre[i]) PROVE pre[n][k] = pre[i][k]
    <3>1. k \in 1 .. Len(pre[n - 1])
      BY <2>5, <2>7
    <3> QED
      BY <2>5, <2>6, <3>1
  <2> QED
    BY <2>8, <2>9
<1> QED
  BY <1>3

\* Where the parts ss, put together by pre, are in z.
PartsAt(z, ss, pre) ==
    /\ Len(z) = Len(pre[Len(ss)])
    /\ \A i \in 1 .. Len(ss) :
         /\ Len(pre[i]) = Len(pre[i - 1]) + Len(ss[i]) /\ Len(pre[i - 1]) \in Nat
         /\ Len(pre[i]) <= Len(z)
         /\ \A j \in 1 .. Len(ss[i]) : z[Len(pre[i - 1]) + j] = ss[i][j]

LEMMA FlattenAt ==
    ASSUME NEW R, NEW ss \in Seq(Seq(R)), NEW pre, PutTogether(pre, ss)
    PROVE  PartsAt(FlattenSeq(ss), ss, pre)
<1>1. FlattenSeq(ss) = pre[Len(ss)] /\ Len(ss) \in Nat
  BY FlattenIs
<1>2. ASSUME NEW i \in 1 .. Len(ss)
      PROVE  /\ Len(pre[i]) = Len(pre[i - 1]) + Len(ss[i]) /\ Len(pre[i - 1]) \in Nat
             /\ Len(pre[i]) <= Len(FlattenSeq(ss))
             /\ \A j \in 1 .. Len(ss[i]) : FlattenSeq(ss)[Len(pre[i - 1]) + j] = ss[i][j]
  <2>1. /\ Len(pre[i]) = Len(pre[i - 1]) + Len(ss[i])
        /\ Len(pre[i - 1]) \in Nat /\ Len(ss[i]) \in Nat
        /\ \A j \in 1 .. Len(ss[i]) : pre[i][Len(pre[i - 1]) + j] = ss[i][j]
    <3>1. GrownBy(pre[i - 1], ss[i], pre[i])
      BY PrefixGrows
    <3> QED
      BY <3>1 DEF GrownBy
  <2>2. i \in 0 .. Len(ss) /\ Len(ss) \in i .. Len(ss)
    BY <1>1
  <2>3. /\ Len(pre[i]) <= Len(pre[Len(ss)])
        /\ \A k \in 1 .. Len(pre[i]) : pre[Len(ss)][k] = pre[i][k]
    BY <2>2, PrefixStays
  <2>4. \A j \in 1 .. Len(ss[i]) : Len(pre[i - 1]) + j \in 1 .. Len(pre[i])
    <3> DEFINE x == Len(pre[i - 1])
               y == Len(ss[i])
               z == Len(pre[i])
    <3>1. x \in Nat /\ y \in Nat /\ z = x + y
      BY <2>1
    <3> HIDE DEF x, y, z
    <3>2. \A j \in 1 .. y : x + j \in 1 .. z
      BY <3>1
    <3> QED
      BY <3>2 DEF x, y, z
  <2>5. \A j \in 1 .. Len(ss[i]) : pre[Len(ss)][Len(pre[i - 1]) + j] = ss[i][j]
    BY <2>1, <2>3, <2>4
  <2> QED
    BY <1>1, <2>1, <2>3, <2>5
<1> QED
  BY <1>1, <1>2 DEF PartsAt
-----------------------------------------------------------------------------
LEMMA FlattenParted ==
    ASSUME NEW R, NEW a \in Seq(Seq(R)), NEW b \in Seq(Seq(R))
    PROVE  FlattenSeq(a \o b) = FlattenSeq(a) \o FlattenSeq(b)
<1> DEFINE m == Len(a)
           n == Len(b)
           z == a \o b
<1>1. /\ m \in Nat /\ n \in Nat /\ z \in Seq(Seq(R)) /\ Len(z) = m + n
      /\ \A i \in 1 .. m + n : z[i] = IF i <= m THEN a[i] ELSE b[i - m]
  BY ConcatProperties
<1>2. PICK p : PutTogether(p, a) /\ FlattenSeq(a) = p[m]
  BY FlattenByPrefixes
<1>3. PICK q : PutTogether(q, b) /\ FlattenSeq(b) = q[n]
  BY FlattenByPrefixes
<1>4. (\A i \in 0 .. m : p[i] \in Seq(R)) /\ (\A i \in 0 .. n : q[i] \in Seq(R))
  BY <1>2, <1>3, PrefixesAreSequences
<1> DEFINE r == [i \in 0 .. m + n |-> IF i <= m THEN p[i] ELSE p[m] \o q[i - m]]
<1>5. \A i \in 1 .. m : p[i] = p[i - 1] \o a[i]
  BY <1>2 DEF PutTogether
<1>6. \A i \in 1 .. n : q[i] = q[i - 1] \o b[i]
  BY <1>3 DEF PutTogether
<1>7. p[0] = <<>> /\ q[0] = <<>>
  BY <1>2, <1>3 DEF PutTogether
<1>8. \A i \in 1 .. n : b[i] \in Seq(R)
  BY <1>1
<1> HIDE DEF z, m, n
<1>9. ASSUME NEW i \in 1 .. m + n PROVE r[i] = r[i - 1] \o z[i]
  <2>1. CASE i <= m
    <3>1. r[i] = p[i] /\ r[i - 1] = p[i - 1] /\ z[i] = a[i] /\ i \in 1 .. m
      BY <1>1, <2>1
    <3> QED
      BY <1>5, <3>1
  <2>2. CASE ~ (i <= m)
    <3> DEFINE k == i - m
    <3>1. k \in 1 .. n /\ i - 1 \in 0 .. m + n /\ k - 1 \in 0 .. n
      BY <1>1, <2>2
    <3>2. r[i] = p[m] \o q[k] /\ z[i] = b[k]
      <4>1. i \in 0 .. m + n
        BY <1>1
      <4>2. r[i] = p[m] \o q[k]
        BY <2>2, <4>1
      <4>3. z[i] = b[k]
        BY <1>1, <2>2
      <4> QED
        BY <4>2, <4>3
    <3>3. r[i - 1] = p[m] \o q[k - 1]
      <4>1. CASE i - 1 = m
        <5>1. r[i - 1] = p[m] /\ k - 1 = 0 /\ p[m] \in Seq(R)
          BY <1>1, <1>4, <3>1, <4>1
        <5>2. p[m] \o <<>> = p[m]
          BY <5>1, ConcatEmptySeq
        <5> QED
          BY <1>7, <5>1, <5>2
      <4>2. CASE i - 1 # m
        <5>1. ~ (i - 1 <= m) /\ (i - 1) - m = k - 1
          BY <1>1, <2>2, <4>2
        <5> QED
          BY <3>1, <5>1
      <4> QED
        BY <4>1, <4>2
    <3> HIDE DEF k, r
    <3> DEFINE x == p[m]
               y == q[k - 1]
               w == b[k]
    <3>4. x \in Seq(R) /\ y \in Seq(R) /\ w \in Seq(R) /\ q[k] = y \o w
      <4>1. m \in 0 .. m
        BY <1>1
      <4> QED
        BY <1>4, <1>6, <1>8, <3>1, <4>1
    <3> HIDE DEF x, y, w
    <3>5. x \o (y \o w) = (x \o y) \o w
      BY <3>4, ConcatAssociative
    <3> QED
      BY <3>2, <3>3, <3>4, <3>5 DEF x, y, w
  <2> QED
    BY <2>1, <2>2
<1>10. r[0] = <<>>
  BY <1>1, <1>7
<1>11. r[m + n] = p[m] \o q[n]
  <2>1. CASE n = 0
    <3>1. r[m + n] = p[m] /\ q[n] = <<>> /\ p[m] \in Seq(R)
      BY <1>1, <1>4, <1>7, <2>1
    <3>2. p[m] \o <<>> = p[m]
      BY <3>1, ConcatEmptySeq
    <3> QED
      BY <3>1, <3>2
  <2>2. CASE n # 0
    <3>1. m + n \in 0 .. m + n /\ ~ (m + n <= m) /\ (m + n) - m = n
      BY <1>1, <2>2
    <3> QED
      BY <3>1
  <2> QED
    BY <2>1, <2>2
<1> HIDE DEF r
<1>12. PutTogether(r, z)
  BY <1>1, <1>9, <1>10 DEF PutTogether
<1>13. FlattenSeq(z) = r[m + n]
  BY <1>1, <1>12, FlattenIs
<1> QED
  BY <1>2, <1>3, <1>11, <1>13 DEF z

\* What f finds in the elements of s, in their order.
Found(f, s) == [i \in DOMAIN s |-> f[s[i]]]
Gathered(f, s) == FlattenSeq(Found(f, s))
IsView(f, S, R) == f \in [S -> Seq(R)]

LEMMA GatheredParts ==
    ASSUME NEW S, NEW R, NEW f, IsView(f, S, R), NEW s \in Seq(S)
    PROVE  Found(f, s) \in Seq(Seq(R)) /\ Len(Found(f, s)) = Len(s)
<1> DEFINE c == Found(f, s)
           n == Len(s)
<1>1. n \in Nat /\ DOMAIN s = 1 .. n /\ \A i \in 1 .. n : s[i] \in S
  OBVIOUS
<1>2. c = [i \in 1 .. n |-> c[i]] /\ \A i \in 1 .. n : c[i] \in Seq(R)
  BY <1>1 DEF Found, IsView
<1> HIDE DEF c, n
<1> QED
  BY <1>1, <1>2, SeqOfFunction DEF c, n

LEMMA GatheredType ==
    ASSUME NEW S, NEW R, NEW f, IsView(f, S, R), NEW s \in Seq(S)
    PROVE  Gathered(f, s) \in Seq(R)
BY GatheredParts, FlattenInSeq DEF Gathered

LEMMA GatheredOne ==
    ASSUME NEW S, NEW R, NEW f, IsView(f, S, R), NEW x \in S
    PROVE  Gathered(f, <<x>>) = f[x]
<1>1. Found(f, <<x>>) = <<f[x]>>
  BY DEF Found
<1>2. f[x] \in Seq(R)
  BY DEF IsView
<1> QED
  BY <1>1, <1>2, FlattenOne DEF Gathered

LEMMA GatheredParted ==
    ASSUME NEW S, NEW R, NEW f, IsView(f, S, R), NEW a \in Seq(S), NEW b \in Seq(S)
    PROVE  Gathered(f, a \o b) = Gathered(f, a) \o Gathered(f, b)
<1> DEFINE m == Len(a)
           n == Len(b)
           z == a \o b
           A == Found(f, a)
           B == Found(f, b)
           Z == Found(f, z)
<1>1. /\ m \in Nat /\ n \in Nat /\ z \in Seq(S) /\ Len(z) = m + n
      /\ \A i \in 1 .. m + n : z[i] = IF i <= m THEN a[i] ELSE b[i - m]
  BY ConcatProperties
<1>2. A \in Seq(Seq(R)) /\ B \in Seq(Seq(R)) /\ Len(A) = m /\ Len(B) = n
  <2>1. \A s \in Seq(S) : Found(f, s) \in Seq(Seq(R)) /\ Len(Found(f, s)) = Len(s)
    <3> SUFFICES ASSUME NEW s \in Seq(S)
                 PROVE  Found(f, s) \in Seq(Seq(R)) /\ Len(Found(f, s)) = Len(s)
      OBVIOUS
    <3> QED
      BY GatheredParts
  <2> QED
    BY <2>1
<1>3. DOMAIN a = 1 .. m /\ DOMAIN b = 1 .. n
  OBVIOUS
<1> HIDE DEF z, m, n
<1>4. DOMAIN z = 1 .. m + n
  BY <1>1
<1>5. Z = [i \in 1 .. m + n |-> Z[i]] /\ DOMAIN Z = 1 .. m + n
  BY <1>4 DEF Found
<1>6. \A i \in 1 .. m + n : Z[i] = IF i <= m THEN A[i] ELSE B[i - m]
  <2> SUFFICES ASSUME NEW i \in 1 .. m + n PROVE Z[i] = IF i <= m THEN A[i] ELSE B[i - m]
    OBVIOUS
  <2>1. Z[i] = f[z[i]]
    BY <1>4 DEF Found
  <2>2. CASE i <= m
    BY <1>1, <1>3, <2>1, <2>2 DEF Found
  <2>3. CASE ~ (i <= m)
    <3>1. i - m \in 1 .. n
      BY <1>1, <2>3
    <3> QED
      BY <1>1, <1>3, <2>1, <2>3, <3>1 DEF Found
  <2> QED
    BY <2>2, <2>3
<1> HIDE DEF Z, A, B
<1>7. /\ A \o B \in Seq(Seq(R)) /\ Len(A \o B) = m + n
      /\ \A i \in 1 .. m + n : (A \o B)[i] = IF i <= m THEN A[i] ELSE B[i - m]
  BY <1>2, ConcatProperties
<1>8. Z = A \o B
  <2> DEFINE c == A \o B
  <2>1. c \in Seq(Seq(R)) /\ Len(c) = m + n
    BY <1>7
  <2> HIDE DEF c
  <2>2. c = [i \in 1 .. m + n |-> c[i]]
    BY <2>1
  <2>3. \A i \in 1 .. m + n : c[i] = Z[i]
    BY <1>6, <1>7 DEF c
  <2> QED
    BY <1>5, <2>2, <2>3 DEF c
<1>9. FlattenSeq(Z) = FlattenSeq(A) \o FlattenSeq(B)
  BY <1>2, <1>8, FlattenParted
<1> QED
  BY <1>9 DEF Gathered, Z, A, B, z

GatheredEach(f, ss) == [i \in DOMAIN ss |-> Gathered(f, ss[i])]

LEMMA GatheredFlattened ==
    ASSUME NEW S, NEW R, NEW f, IsView(f, S, R), NEW ss \in Seq(Seq(S))
    PROVE  Gathered(f, FlattenSeq(ss)) = FlattenSeq(GatheredEach(f, ss))
<1> DEFINE n == Len(ss)
           c == GatheredEach(f, ss)
<1>1. n \in Nat /\ DOMAIN ss = 1 .. n /\ \A i \in 1 .. n : ss[i] \in Seq(S)
  OBVIOUS
<1>2. PICK pre : PutTogether(pre, ss) /\ FlattenSeq(ss) = pre[n]
  BY FlattenByPrefixes
<1>3. \A i \in 0 .. n : pre[i] \in Seq(S)
  BY <1>2, PrefixesAreSequences
<1>4. pre[0] = <<>> /\ \A i \in 1 .. n : pre[i] = pre[i - 1] \o ss[i]
  BY <1>2 DEF PutTogether
<1>5. c = [i \in 1 .. n |-> c[i]] /\ \A i \in 1 .. n : c[i] = Gathered(f, ss[i])
  BY <1>1 DEF GatheredEach
<1>6. \A i \in 1 .. n : c[i] \in Seq(R)
  BY <1>1, <1>5, GatheredType
<1> DEFINE q == [i \in 0 .. n |-> Gathered(f, pre[i])]
<1> HIDE DEF n, c
<1>7. c \in Seq(Seq(R)) /\ Len(c) = n
  BY <1>1, <1>5, <1>6, SeqOfFunction
<1>8. q[0] = <<>>
  <2>1. Gathered(f, <<>>) = <<>>
    <3> DEFINE none == Found(f, <<>>)
    <3>1. none = [i \in 1 .. 0 |-> <<>>] /\ DOMAIN none = 1 .. 0
      BY DEF Found
    <3> HIDE DEF none
    <3>2. FlattenSeq(none) = <<>>
      BY <3>1, PutTogetherNothing
    <3> QED
      BY <3>2 DEF Gathered, none
  <2> QED
    BY <1>1, <1>4, <2>1
<1>9. ASSUME NEW i \in 1 .. n PROVE q[i] = q[i - 1] \o c[i]
  <2>1. i \in 0 .. n /\ i - 1 \in 0 .. n
    BY <1>1
  <2>2. q[i] = Gathered(f, pre[i]) /\ q[i - 1] = Gathered(f, pre[i - 1])
    BY <2>1
  <2>3. pre[i] = pre[i - 1] \o ss[i] /\ pre[i - 1] \in Seq(S) /\ ss[i] \in Seq(S)
    BY <1>1, <1>3, <1>4, <2>1
  <2>4. Gathered(f, pre[i - 1] \o ss[i]) = Gathered(f, pre[i - 1]) \o Gathered(f, ss[i])
    <3> DEFINE a == pre[i - 1]
               b == ss[i]
    <3>1. a \in Seq(S) /\ b \in Seq(S)
      BY <2>3
    <3> HIDE DEF a, b
    <3>2. Gathered(f, a \o b) = Gathered(f, a) \o Gathered(f, b)
      BY <3>1, GatheredParted
    <3> QED
      BY <3>2 DEF a, b
  <2> QED
    BY <1>5, <2>2, <2>3, <2>4
<1>10. q[n] = Gathered(f, pre[n])
  BY <1>1
<1> HIDE DEF q
<1>11. PutTogether(q, c)
  BY <1>7, <1>8, <1>9 DEF PutTogether
<1>12. FlattenSeq(c) = q[n]
  BY <1>7, <1>11, FlattenIs
<1> QED
  BY <1>2, <1>10, <1>12 DEF c, n

LEMMA FlattenOnly ==
    ASSUME NEW R, NEW ss \in Seq(Seq(R)), NEW j \in 1 .. Len(ss),
           \A i \in 1 .. Len(ss) : i # j => ss[i] = <<>>
    PROVE  FlattenSeq(ss) = ss[j]
<1> DEFINE n == Len(ss)
           x == ss[j]
           q == [i \in 0 .. n |-> IF i < j THEN <<>> ELSE x]
<1>1. n \in Nat /\ x \in Seq(R) /\ j \in 1 .. n
  OBVIOUS
<1>2. <<>> \o x = x /\ x \o <<>> = x /\ <<>> \o <<>> = <<>>
  BY <1>1, ConcatEmptySeq
<1> HIDE DEF n, x
<1>3. ASSUME NEW i \in 1 .. n PROVE q[i] = q[i - 1] \o ss[i]
  <2>1. i \in 0 .. n /\ i - 1 \in 0 .. n /\ i \in Int /\ j \in Int
    BY <1>1
  <2>2. /\ q[i] = IF i < j THEN <<>> ELSE x
        /\ q[i - 1] = IF i - 1 < j THEN <<>> ELSE x
    BY <2>1
  <2>3. i # j => ss[i] = <<>>
    BY DEF n
  <2> HIDE DEF q
  <2>4. CASE i < j
    <3>1. i - 1 < j /\ i # j
      BY <2>1, <2>4
    <3>2. q[i] = <<>> /\ q[i - 1] = <<>> /\ ss[i] = <<>>
      BY <2>2, <2>3, <2>4, <3>1
    <3> QED
      BY <1>2, <3>2
  <2>5. CASE i = j
    <3>1. ~ (i < j) /\ i - 1 < j
      BY <2>1, <2>5
    <3>2. q[i] = x /\ q[i - 1] = <<>> /\ ss[i] = x
      BY <2>2, <2>5, <3>1 DEF x
    <3> QED
      BY <1>2, <3>2
  <2>6. CASE i > j
    <3>1. ~ (i < j) /\ ~ (i - 1 < j) /\ i # j
      BY <2>1, <2>6
    <3>2. q[i] = x /\ q[i - 1] = x /\ ss[i] = <<>>
      BY <2>2, <2>3, <3>1
    <3> QED
      BY <1>2, <3>2
  <2> QED
    <3>1. i < j \/ i = j \/ i > j
      BY <2>1
    <3> QED
      BY <2>4, <2>5, <2>6, <3>1
<1>4. q[0] = <<>> /\ q[n] = x
  BY <1>1
<1> HIDE DEF q
<1>5. PutTogether(q, ss)
  BY <1>3, <1>4 DEF PutTogether, n
<1> QED
  BY <1>4, <1>5, FlattenIs DEF n, x

\* The elements of the parts are those of the whole.
LEMMA FlattenHas ==
    ASSUME NEW R, NEW ss \in Seq(Seq(R)), NEW i \in 1 .. Len(ss), NEW j \in 1 .. Len(ss[i])
    PROVE  \E k \in 1 .. Len(FlattenSeq(ss)) : FlattenSeq(ss)[k] = ss[i][j]
<1>1. PICK pre : PutTogether(pre, ss) /\ FlattenSeq(ss) = pre[Len(ss)]
  BY FlattenByPrefixes
<1> DEFINE z == FlattenSeq(ss)
           m == Len(pre[i - 1])
           l == Len(ss[i])
           p == Len(pre[i])
<1>2. z \in Seq(R) /\ p = m + l /\ m \in Nat /\ p <= Len(z)
      /\ \A h \in 1 .. l : z[m + h] = ss[i][h]
  <2>1. PartsAt(z, ss, pre)
    BY <1>1, FlattenAt
  <2>2. z \in Seq(R)
    BY FlattenInSeq
  <2> QED
    BY <2>1, <2>2 DEF PartsAt
<1>3. l \in Nat /\ Len(z) \in Nat /\ j \in 1 .. l
  <2>1. ss[i] \in Seq(R)
    OBVIOUS
  <2> QED
    BY <1>2, <2>1
<1> DEFINE L == Len(z)
<1> HIDE DEF z, m, l, p, L
<1>4. m + j \in 1 .. L
  BY <1>2, <1>3 DEF L
<1> QED
  BY <1>2, <1>3, <1>4 DEF z, L

-----------------------------------------------------------------------------
(***************************************************************************)
(* What a client collects, as views of the lines: each is gathered line by *)
(* line.                                                                   *)
(***************************************************************************)

\* The recursive function of Collect, up to a line.
ReadsUpTo(f, lines, n) ==
    f = [k \in 0 .. n |-> IF k = 0 THEN NewCollector ELSE ReadLine(f[k - 1], lines[k])]

LEMMA ReadsUpToAt ==
    ASSUME NEW lines, NEW n \in Nat, NEW f, ReadsUpTo(f, lines, n)
    PROVE  f[0] = NewCollector /\ \A k \in 1 .. n : f[k] = ReadLine(f[k - 1], lines[k])
<1>1. 0 \in 0 .. n /\ \A k \in 1 .. n : k \in 0 .. n /\ k # 0
  OBVIOUS
<1> QED
  BY <1>1 DEF ReadsUpTo

LEMMA ReadingExists ==
    ASSUME NEW lines, NEW n \in Nat
    PROVE  \E f : ReadsUpTo(f, lines, n)
<1> DEFINE S == {k \in Nat : ~ \E f : ReadsUpTo(f, lines, k)}
<1>1. ASSUME S # {} PROVE FALSE
  <2>1. PICK k \in S : \A j \in S : k <= j
    <3>1. S \in SUBSET Nat
      OBVIOUS
    <3> HIDE DEF S
    <3> QED
      BY <1>1, <3>1, LeastNatural
  <2>2. k \in Nat /\ ~ \E f : ReadsUpTo(f, lines, k)
    OBVIOUS
  <2>3. CASE k = 0
    <3> DEFINE f == [j \in 0 .. 0 |-> NewCollector]
    <3>1. ReadsUpTo(f, lines, 0)
      BY DEF ReadsUpTo
    <3> QED
      BY <2>2, <2>3, <3>1
  <2>4. CASE k # 0
    <3>1. k - 1 \in Nat /\ k - 1 \notin S
      BY <2>1, <2>2, <2>4
    <3>2. PICK g : ReadsUpTo(g, lines, k - 1)
      BY <3>1
    <3>3. g[0] = NewCollector /\ \A j \in 1 .. k - 1 : g[j] = ReadLine(g[j - 1], lines[j])
      BY <3>1, <3>2, ReadsUpToAt
    <3> DEFINE newest == ReadLine(g[k - 1], lines[k])
               f == [j \in 0 .. k |-> IF j = k THEN newest ELSE g[j]]
    <3> HIDE DEF newest
    <3>4. ASSUME NEW j \in 0 .. k
          PROVE  f[j] = IF j = 0 THEN NewCollector ELSE ReadLine(f[j - 1], lines[j])
      <4>1. CASE j = 0
        BY <2>2, <2>4, <3>3, <4>1
      <4>2. CASE j # 0 /\ j # k
        <5>1. j \in 1 .. k - 1 /\ j - 1 \in 0 .. k /\ j - 1 # k
          BY <2>2, <4>2
        <5>2. f[j] = g[j] /\ f[j - 1] = g[j - 1]
          BY <4>2, <5>1
        <5> QED
          BY <3>3, <4>2, <5>1, <5>2
      <4>3. CASE j # 0 /\ j = k
        <5>1. j - 1 \in 0 .. k /\ j - 1 # k
          BY <2>2, <4>3
        <5>2. f[j] = newest /\ f[j - 1] = g[k - 1]
          BY <4>3, <5>1
        <5> QED
          BY <4>3, <5>2 DEF newest
      <4> QED
        BY <4>1, <4>2, <4>3
    <3>5. f = [j \in 0 .. k |-> f[j]]
      OBVIOUS
    <3> HIDE DEF f
    <3>6. ReadsUpTo(f, lines, k)
      BY <3>4, <3>5 DEF ReadsUpTo
    <3> QED
      BY <2>2, <3>6
  <2> QED
    BY <2>3, <2>4
<1> QED
  BY <1>1

\* The collector's recursion, as a path of records.
LEMMA CollectReads ==
    ASSUME NEW R, NEW lines \in Seq(R)
    PROVE  \E r : Through(r, NewRecord, lines, RecordOf(Collect(lines)))
<1> DEFINE n == Len(lines)
           read == CHOOSE f : ReadsUpTo(f, lines, n)
           r == [k \in 0 .. n |-> RecordOf(read[k])]
<1>1. n \in Nat
  OBVIOUS
<1>2. Collect(lines) = Flushed(read[n])
  BY DEF Collect, ReadsUpTo
<1>3. ReadsUpTo(read, lines, n)
  BY <1>1, ReadingExists
<1> HIDE DEF n, read
<1>4. read[0] = NewCollector /\ \A k \in 1 .. n : read[k] = ReadLine(read[k - 1], lines[k])
  BY <1>1, <1>3, ReadsUpToAt
<1>5. IsCollector(read[0]) /\ RecordOf(read[0]) = NewRecord
  <2>1. IsCollector(NewCollector) /\ RecordOf(NewCollector) = NewRecord
    BY DEF IsCollector, NewCollector, CollectorFields, RecordOf, Record, NewRecord, NoUsage
  <2> QED
    BY <1>4, <2>1
<1>6. \A k \in 0 .. n : IsCollector(read[k])
  <2> DEFINE S == {k \in 0 .. n : ~ IsCollector(read[k])}
  <2>1. ASSUME S # {} PROVE FALSE
    <3>1. PICK k \in S : \A j \in S : k <= j
      <4>1. S \in SUBSET Nat
        OBVIOUS
      <4> HIDE DEF S
      <4> QED
        BY <2>1, <4>1, LeastNatural
    <3>2. k \in 1 .. n /\ k - 1 \in 0 .. n
      <4>1. k # 0
        BY <1>5
      <4> QED
        BY <1>1, <4>1
    <3>3. IsCollector(read[k - 1])
      BY <3>1, <3>2
    <3>4. IsCollector(read[k])
      BY <1>4, <3>2, <3>3, ReadLineRecord
    <3> QED
      BY <3>4
  <2> QED
    BY <2>1
<1>7. ASSUME NEW k \in 1 .. n PROVE r[k] = Reading(r[k - 1], lines[k])
  <2>1. k \in 0 .. n /\ k - 1 \in 0 .. n
    BY <1>1
  <2>2. r[k] = RecordOf(read[k]) /\ r[k - 1] = RecordOf(read[k - 1])
    BY <2>1
  <2>3. IsCollector(read[k - 1]) /\ read[k] = ReadLine(read[k - 1], lines[k])
    BY <1>4, <1>6, <2>1
  <2> QED
    BY <2>2, <2>3, ReadLineRecord
<1>8. r[0] = NewRecord /\ r[n] = RecordOf(read[n])
  BY <1>1, <1>5
<1>9. RecordOf(Flushed(read[n])) = RecordOf(read[n])
  <2>1. IsCollector(read[n])
    BY <1>1, <1>6
  <2> QED
    BY <2>1, RelayRecord
<1> HIDE DEF r
<1>10. Through(r, NewRecord, lines, RecordOf(Collect(lines)))
  BY <1>2, <1>7, <1>8, <1>9 DEF Through, n
<1> QED
  BY <1>10

-----------------------------------------------------------------------------
Silent == {"content_block_start", "content_block_stop", "message_start", "message_delta"}
\* A delta of anything but text.
Other(l) == l.type = "content_block_delta" /\ l.delta # "text_delta"
TextOn(l) == IF l.kind = "data" /\ l.type \notin Silent /\ ~ Other(l) THEN Piece(l.text) ELSE <<>>
ToolOn(l) ==
    IF l.kind = "data" /\ l.type = "content_block_start" /\ l.block = "tool_use"
    THEN <<[id |-> l.id, name |-> l.name, input |-> Piece(l.args)]>> ELSE <<>>
Telling(l) ==
    /\ l.kind = "data"
    /\ l.type \notin {"content_block_start", "content_block_delta", "content_block_stop",
                      "message_start"}
    /\ \/ l.stop # "" \/ l.input # NotGiven \/ l.output # NotGiven
       \/ l.cached # NotGiven \/ l.created # NotGiven
MarkOn(l) == IF Telling(l) THEN <<l>> ELSE <<>>

TextView == [l \in Line |-> TextOn(l)]
ToolView == [l \in Line |-> ToolOn(l)]
MarkView == [l \in Line |-> MarkOn(l)]

LEMMA PieceIs == ASSUME NEW x \in Word PROVE Piece(x) \in Seq(Word)
<1>1. <<x>> \in Seq(Word) /\ <<>> \in Seq(Word)
  OBVIOUS
<1> QED
  BY <1>1 DEF Piece

LEMMA ViewsAre ==
    /\ IsView(TextView, Line, Word) /\ IsView(ToolView, Line, CalledTool)
    /\ IsView(MarkView, Line, Line)
<1>1. ASSUME NEW l \in Line
      PROVE  TextOn(l) \in Seq(Word) /\ ToolOn(l) \in Seq(CalledTool) /\ MarkOn(l) \in Seq(Line)
  <2>1. l.text \in Word /\ l.id \in Word /\ l.name \in Word /\ l.args \in Word
    BY DEF Line
  <2>2. [id |-> l.id, name |-> l.name, input |-> Piece(l.args)] \in CalledTool
    BY <2>1, PieceIs DEF CalledTool
  <2>3. \A x \in CalledTool : <<x>> \in Seq(CalledTool)
    OBVIOUS
  <2>4. <<>> \in Seq(Word) /\ <<>> \in Seq(CalledTool) /\ <<>> \in Seq(Line) /\ <<l>> \in Seq(Line)
    OBVIOUS
  <2>5. TextOn(l) \in Seq(Word)
    BY <2>1, <2>4, PieceIs DEF TextOn
  <2>6. ToolOn(l) \in Seq(CalledTool)
    BY <2>2, <2>3, <2>4 DEF ToolOn
  <2>7. MarkOn(l) \in Seq(Line)
    BY <2>4 DEF MarkOn
  <2> QED
    BY <2>5, <2>6, <2>7
<1> HIDE DEF Line
<1> QED
  BY <1>1 DEF IsView, TextView, ToolView, MarkView

Counts == [input : Int, output : Int, cached : Int, created : Int]
Uncounted(l) == {l.input, l.output, l.cached, l.created} = {NotGiven}

LEMMA CountedIs ==
    ASSUME NEW l \in Line, NEW g \in Counts
    PROVE  /\ Counted(l, g) \in Counts
           /\ Uncounted(l) => Counted(l, g) = g
<1>1. l.input \in Int /\ l.output \in Int /\ l.cached \in Int /\ l.created \in Int
  BY DEF Line
<1>2. g.input \in Int /\ g.output \in Int /\ g.cached \in Int /\ g.created \in Int
      /\ g = [input |-> g.input, output |-> g.output, cached |-> g.cached, created |-> g.created]
  BY DEF Counts
<1>3. Taken(l.input, g.input) \in Int /\ Taken(l.output, g.output) \in Int
      /\ Taken(l.cached, g.cached) \in Int /\ Taken(l.created, g.created) \in Int
  BY <1>1, <1>2 DEF Taken
<1>4. Counted(l, g) \in Counts
  BY <1>3 DEF Counted, Counts
<1>5. Uncounted(l) => Counted(l, g) = g
  <2> SUFFICES ASSUME Uncounted(l) PROVE Counted(l, g) = g
    OBVIOUS
  <2>1. l.input = NotGiven /\ l.output = NotGiven /\ l.cached = NotGiven /\ l.created = NotGiven
    BY DEF Uncounted
  <2> QED
    BY <1>2, <2>1 DEF Counted, Taken
<1> QED
  BY <1>4, <1>5

LEMMA ReadingViews ==
    ASSUME NEW l \in Line, NEW v, NEW t, NEW b, NEW u, NEW s, NEW g, v = Record(t, b, u, s, g),
           t \in Seq(Word), u \in Seq(CalledTool), g \in Counts
    PROVE  /\ Reading(v, l) = Record(t \o TextOn(l), Reading(v, l).blocks, u \o ToolOn(l),
                                     Reading(v, l).stop, Reading(v, l).usage)
           /\ ~ Telling(l) => Reading(v, l).stop = s /\ Reading(v, l).usage = g
           /\ Telling(l) => Reading(v, l).stop = LastStop(l, s) /\ Reading(v, l).usage = Counted(l, g)
<1> DEFINE Follows(w) ==
             /\ w = Record(t \o TextOn(l), w.blocks, u \o ToolOn(l), w.stop, w.usage)
             /\ ~ Telling(l) => w.stop = s /\ w.usage = g
             /\ Telling(l) => w.stop = LastStop(l, s) /\ w.usage = Counted(l, g)
<1>1. v.text = t /\ v.blocks = b /\ v.tools = u /\ v.stop = s /\ v.usage = g
  BY DEF Record
<1>2. t \o <<>> = t /\ u \o <<>> = u
  BY ConcatEmptySeq
<1>3. Record(t, b, u, s, g) = [text |-> t, blocks |-> b, tools |-> u, stop |-> s, usage |-> g]
  BY DEF Record
<1>4. \A t1, b1, u1, s1, g1 :
        LET w == Record(t1, b1, u1, s1, g1) IN
        w.text = t1 /\ w.blocks = b1 /\ w.tools = u1 /\ w.stop = s1 /\ w.usage = g1
  BY DEF Record
<1>5. CASE l.kind # "data"
  <2>1. TextOn(l) = <<>> /\ ToolOn(l) = <<>> /\ ~ Telling(l) /\ Reading(v, l) = v
    BY <1>5 DEF TextOn, ToolOn, Telling, Reading
  <2> QED
    BY <1>1, <1>2, <2>1
<1>6. CASE l.kind = "data" /\ l.type = "content_block_start"
  <2>1. TextOn(l) = <<>> /\ ~ Telling(l)
        /\ Reading(v, l) = Record(t, Append(b, Opened(l)), Called(l, u), s, g)
    BY <1>1, <1>6 DEF TextOn, Telling, Reading, Silent
  <2>2. Called(l, u) = u \o ToolOn(l)
    <3>1. CASE l.block = "tool_use"
      <4> DEFINE x == [id |-> l.id, name |-> l.name, input |-> Piece(l.args)]
      <4>1. x \in CalledTool
        <5>1. l.id \in Word /\ l.name \in Word /\ l.args \in Word
          BY DEF Line
        <5> QED
          BY <5>1, PieceIs DEF CalledTool
      <4>2. Called(l, u) = Append(u, x) /\ ToolOn(l) = <<x>>
        BY <1>6, <3>1 DEF Called, ToolOn
      <4> HIDE DEF x
      <4>3. Append(u, x) = u \o <<x>>
        BY <4>1, AppendIsConcat
      <4> QED
        BY <4>2, <4>3
    <3>2. CASE l.block # "tool_use"
      BY <1>2, <3>2 DEF Called, ToolOn
    <3> QED
      BY <3>1, <3>2
  <2> QED
    BY <1>2, <1>4, <2>1, <2>2
<1>7. CASE l.kind = "data" /\ l.type = "content_block_delta"
  <2>1. ToolOn(l) = <<>> /\ ~ Telling(l)
    BY <1>7 DEF ToolOn, Telling
  <2>2. CASE l.delta = "text_delta"
    <3>1. TextOn(l) = Piece(l.text)
          /\ Reading(v, l) = Record(t \o Piece(l.text), Lengthened(b, l), u, s, g)
      BY <1>1, <1>7, <2>2 DEF TextOn, Other, Reading, Silent
    <3> QED
      BY <1>2, <1>4, <2>1, <3>1
  <2>3. CASE l.delta # "text_delta"
    <3>1. TextOn(l) = <<>> /\ Reading(v, l) = v
      BY <1>7, <2>3 DEF TextOn, Other, Reading
    <3> QED
      BY <1>1, <1>2, <2>1, <3>1
  <2> QED
    BY <2>2, <2>3
<1>8. CASE l.kind = "data" /\ l.type \in {"content_block_stop", "message_start"}
  <2>1. TextOn(l) = <<>> /\ ToolOn(l) = <<>> /\ ~ Telling(l) /\ Reading(v, l) = v
    BY <1>8 DEF TextOn, ToolOn, Telling, Reading, Silent
  <2> QED
    BY <1>1, <1>2, <2>1
<1>9. ~ Telling(l) /\ l.kind = "data"
      /\ l.type \notin {"content_block_start", "content_block_delta", "content_block_stop",
                        "message_start"}
      => LastStop(l, s) = s /\ Counted(l, g) = g
  <2> SUFFICES ASSUME ~ Telling(l), l.kind = "data",
                      l.type \notin {"content_block_start", "content_block_delta",
                                    "content_block_stop", "message_start"}
               PROVE  LastStop(l, s) = s /\ Counted(l, g) = g
    OBVIOUS
  <2>1. l.stop = "" /\ Uncounted(l)
    BY DEF Telling, Uncounted
  <2> QED
    BY <2>1, CountedIs DEF LastStop
<1>10. CASE l.kind = "data" /\ l.type = "message_delta"
  <2>1. TextOn(l) = <<>> /\ ToolOn(l) = <<>>
        /\ Reading(v, l) = Record(t, b, u, LastStop(l, s), Counted(l, g))
    BY <1>1, <1>10 DEF TextOn, ToolOn, Reading, Silent
  <2> QED
    BY <1>2, <1>4, <1>9, <1>10, <2>1
<1>11. CASE l.kind = "data"
            /\ l.type \notin {"content_block_start", "content_block_delta", "content_block_stop",
                              "message_start", "message_delta"}
  <2>1. TextOn(l) = Piece(l.text) /\ ToolOn(l) = <<>>
        /\ Reading(v, l) = Record(t \o Piece(l.text), b, u, LastStop(l, s), Counted(l, g))
    BY <1>1, <1>11 DEF TextOn, Other, ToolOn, Reading, Silent
  <2> QED
    BY <1>2, <1>4, <1>9, <1>11, <2>1
<1> QED
  BY <1>5, <1>6, <1>7, <1>8, <1>10, <1>11

\* The line that tells the end, if there is one.
Ended(w, marks) ==
    /\ marks = <<>> => w.stop = "" /\ w.usage = NoUsage
    /\ \A l : marks = <<l>> => w.stop = l.stop /\ w.usage = Counted(l, NoUsage)

LEMMA MarksMore ==
    ASSUME NEW m \in Seq(Line), NEW l \in Line, NEW v, NEW w, Len(m \o MarkOn(l)) <= 1,
           Ended(v, m),
           ~ Telling(l) => w.stop = v.stop /\ w.usage = v.usage,
           Telling(l) => w.stop = LastStop(l, v.stop) /\ w.usage = Counted(l, v.usage)
    PROVE  Ended(w, m \o MarkOn(l)) /\ Len(m) <= 1
<1>1. CASE Telling(l)
  <2>1. MarkOn(l) = <<l>> /\ <<l>> \in Seq(Line) /\ Len(<<l>>) = 1
    BY <1>1 DEF MarkOn
  <2>2. Len(m \o <<l>>) = Len(m) + 1 /\ Len(m) \in Nat
    BY <2>1, ConcatProperties
  <2>3. Len(m) = 0
    BY <2>1, <2>2
  <2>4. m = <<>>
    BY <2>3
  <2>5. m \o <<l>> = <<l>>
    BY <2>1, <2>4, ConcatEmptySeq
  <2>6. w.stop = l.stop /\ w.usage = Counted(l, NoUsage)
    BY <1>1, <2>4 DEF Ended, LastStop
  <2>7. \A x : <<l>> = <<x>> => x = l
    OBVIOUS
  <2>8. <<l>> # <<>>
    OBVIOUS
  <2>9. Ended(w, <<l>>)
    BY <2>6, <2>7, <2>8 DEF Ended
  <2> QED
    BY <2>1, <2>3, <2>5, <2>9
<1>2. CASE ~ Telling(l)
  <2>1. m \o MarkOn(l) = m
    BY <1>2, ConcatEmptySeq DEF MarkOn
  <2> QED
    BY <1>2, <2>1 DEF Ended
<1> QED
  BY <1>1, <1>2

\* What the collector has of a list of lines: the texts and the tools that the lines show, in their
\* order, and the stop reason and tokens of the one line that ends the message, if there is one.
LEMMA Collected ==
    ASSUME NEW lines \in Seq(Line)
    PROVE  LET w == Collect(lines) IN
           /\ w.text = Gathered(TextView, lines) /\ w.tools = Gathered(ToolView, lines)
           /\ Len(Gathered(MarkView, lines)) <= 1 => Ended(w, Gathered(MarkView, lines))
<1> DEFINE n == Len(lines)
           w == RecordOf(Collect(lines))
           T == Found(TextView, lines)
           U == Found(ToolView, lines)
           M == Found(MarkView, lines)
<1>1. n \in Nat /\ DOMAIN lines = 1 .. n /\ \A k \in 1 .. n : lines[k] \in Line
  OBVIOUS
<1>2. PICK r : Through(r, NewRecord, lines, w)
  BY CollectReads
<1>3. r[0] = NewRecord /\ r[n] = w /\ \A k \in 1 .. n : r[k] = Reading(r[k - 1], lines[k])
  BY <1>2 DEF Through
<1>4. T \in Seq(Seq(Word)) /\ Len(T) = n
  BY ViewsAre, GatheredParts
<1>5. U \in Seq(Seq(CalledTool)) /\ Len(U) = n
  BY ViewsAre, GatheredParts
<1>6. M \in Seq(Seq(Line)) /\ Len(M) = n
  BY ViewsAre, GatheredParts
<1>7. \A k \in 1 .. n : T[k] = TextOn(lines[k]) /\ U[k] = ToolOn(lines[k]) /\ M[k] = MarkOn(lines[k])
  <2> HIDE DEF Line
  <2> QED
    BY <1>1 DEF Found, TextView, ToolView, MarkView
<1>8. PICK p : PutTogether(p, T) /\ FlattenSeq(T) = p[Len(T)]
  BY <1>4, FlattenByPrefixes
<1>9. PICK q : PutTogether(q, U) /\ FlattenSeq(U) = q[Len(U)]
  BY <1>5, FlattenByPrefixes
<1>10. PICK m : PutTogether(m, M) /\ FlattenSeq(M) = m[Len(M)]
  BY <1>6, FlattenByPrefixes
<1> HIDE DEF n, w, T, U, M
<1>11. /\ p[0] = <<>> /\ \A k \in 1 .. n : p[k] = p[k - 1] \o T[k]
       /\ q[0] = <<>> /\ \A k \in 1 .. n : q[k] = q[k - 1] \o U[k]
       /\ m[0] = <<>> /\ \A k \in 1 .. n : m[k] = m[k - 1] \o M[k]
  BY <1>4, <1>5, <1>6, <1>8, <1>9, <1>10 DEF PutTogether
<1>12. \A k \in 0 .. n : p[k] \in Seq(Word) /\ q[k] \in Seq(CalledTool) /\ m[k] \in Seq(Line)
  BY <1>4, <1>5, <1>6, <1>8, <1>9, <1>10, PrefixesAreSequences
<1> DEFINE Kept(k) ==
             /\ r[k] = Record(p[k], r[k].blocks, q[k], r[k].stop, r[k].usage)
             /\ r[k].usage \in Counts
             /\ Len(m[k]) <= 1 => Ended(r[k], m[k])
<1>13. Kept(0)
  <2>1. NewRecord = Record(<<>>, NewRecord.blocks, <<>>, NewRecord.stop, NewRecord.usage)
        /\ NewRecord.usage = NoUsage /\ NewRecord.stop = ""
    BY DEF NewRecord, Record
  <2>2. NoUsage \in Counts
    BY DEF NoUsage, Counts
  <2>3. \A l : <<>> # <<l>>
    OBVIOUS
  <2>4. Ended(NewRecord, <<>>)
    BY <2>1, <2>3 DEF Ended
  <2> QED
    BY <1>3, <1>11, <2>1, <2>2, <2>4
<1>14. ASSUME NEW k \in 1 .. n, Kept(k - 1) PROVE Kept(k)
  <2> DEFINE v == r[k - 1]
             l == lines[k]
             x == r[k]
  <2>1. k - 1 \in 0 .. n /\ k \in 0 .. n /\ l \in Line /\ x = Reading(v, l)
    BY <1>1, <1>3
  <2>2. p[k] = p[k - 1] \o TextOn(l) /\ q[k] = q[k - 1] \o ToolOn(l) /\ m[k] = m[k - 1] \o MarkOn(l)
    BY <1>7, <1>11
  <2>3. v = Record(p[k - 1], v.blocks, q[k - 1], v.stop, v.usage) /\ v.usage \in Counts
        /\ (Len(m[k - 1]) <= 1 => Ended(v, m[k - 1]))
    BY ONLY Kept(k - 1)
  <2>4. p[k - 1] \in Seq(Word) /\ q[k - 1] \in Seq(CalledTool) /\ m[k - 1] \in Seq(Line)
    BY <1>12, <2>1
  <2> HIDE DEF v, l, x, Kept
  <2>5. /\ x = Record(p[k], x.blocks, q[k], x.stop, x.usage)
        /\ ~ Telling(l) => x.stop = v.stop /\ x.usage = v.usage
        /\ Telling(l) => x.stop = LastStop(l, v.stop) /\ x.usage = Counted(l, v.usage)
    <3> DEFINE t == p[k - 1]
               u == q[k - 1]
               b == v.blocks
               s == v.stop
               g == v.usage
    <3>1. v = Record(t, b, u, s, g) /\ t \in Seq(Word) /\ u \in Seq(CalledTool) /\ g \in Counts
      BY <2>3, <2>4
    <3> HIDE DEF t, b, u, s, g
    <3>2. /\ Reading(v, l) = Record(t \o TextOn(l), Reading(v, l).blocks, u \o ToolOn(l),
                                    Reading(v, l).stop, Reading(v, l).usage)
          /\ ~ Telling(l) => Reading(v, l).stop = s /\ Reading(v, l).usage = g
          /\ Telling(l) => Reading(v, l).stop = LastStop(l, s) /\ Reading(v, l).usage = Counted(l, g)
      BY <2>1, <3>1, ReadingViews
    <3> QED
      BY <2>1, <2>2, <3>2 DEF t, b, u, s, g
  <2>6. x.usage \in Counts
    <3>1. Counted(l, v.usage) \in Counts
      BY <2>1, <2>3, CountedIs
    <3> QED
      BY <2>3, <2>5, <3>1
  <2>7. Len(m[k]) <= 1 => Ended(x, m[k])
    <3> SUFFICES ASSUME Len(m[k]) <= 1 PROVE Ended(x, m[k])
      OBVIOUS
    <3>1. Len(m[k - 1]) <= 1
      <4> DEFINE c == m[k - 1]
                 d == MarkOn(l)
      <4>1. c \in Seq(Line) /\ d \in Seq(Line)
        BY <2>1, <2>4 DEF MarkOn
      <4> HIDE DEF c, d
      <4>2. Len(c \o d) = Len(c) + Len(d) /\ Len(c) \in Nat /\ Len(d) \in Nat
        BY <4>1, ConcatProperties
      <4>3. Len(c \o d) <= 1
        BY <2>2 DEF c, d
      <4>4. Len(c) <= 1
        BY <4>2, <4>3
      <4> QED
        BY <4>4 DEF c
    <3>2. Ended(v, m[k - 1]) /\ Len(m[k - 1] \o MarkOn(l)) <= 1
      BY <2>2, <2>3, <3>1
    <3>3. Ended(x, m[k - 1] \o MarkOn(l))
      BY <2>1, <2>4, <2>5, <3>2, MarksMore
    <3> QED
      BY <2>2, <3>3
  <2> QED
    BY <2>5, <2>6, <2>7 DEF Kept, x
<1>15. Kept(n)
  <2> DEFINE S == {k \in 0 .. n : ~ Kept(k)}
  <2> HIDE DEF Kept
  <2>1. ASSUME S # {} PROVE FALSE
    <3>1. PICK k \in S : \A j \in S : k <= j
      <4>1. S \in SUBSET Nat
        OBVIOUS
      <4> HIDE DEF S
      <4> QED
        BY <2>1, <4>1, LeastNatural
    <3>2. k \in 1 .. n /\ k - 1 \in 0 .. n
      <4>1. k # 0
        BY <1>13
      <4> QED
        BY <1>1, <4>1 DEF n
    <3>3. Kept(k - 1)
      BY <3>1, <3>2
    <3> QED
      BY <1>14, <3>2, <3>3
  <2>2. n \in 0 .. n
    BY <1>1 DEF n
  <2> QED
    BY <2>1, <2>2
<1>16. w.text = p[n] /\ w.tools = q[n] /\ (Len(m[n]) <= 1 => Ended(w, m[n]))
  BY <1>3, <1>15 DEF Record
<1>17. p[n] = Gathered(TextView, lines) /\ q[n] = Gathered(ToolView, lines) /\ m[n] = Gathered(MarkView, lines)
  BY <1>4, <1>5, <1>6, <1>8, <1>9, <1>10 DEF Gathered, T, U, M
<1>18. w.text = Collect(lines).text /\ w.tools = Collect(lines).tools
       /\ w.stop = Collect(lines).stop /\ w.usage = Collect(lines).usage
  BY DEF w, RecordOf, Record
<1> QED
  BY <1>16, <1>17, <1>18 DEF Ended

-----------------------------------------------------------------------------
(* More about what is gathered.                                            *)

LEMMA ViewAt ==
    ASSUME NEW S, NEW R, NEW f, IsView(f, S, R), NEW x \in S
    PROVE  f[x] \in Seq(R)
BY DEF IsView

LEMMA FoundAt ==
    ASSUME NEW S, NEW f, NEW s \in Seq(S)
    PROVE  /\ Len(s) \in Nat /\ Found(f, s) = [i \in 1 .. Len(s) |-> Found(f, s)[i]]
           /\ DOMAIN Found(f, s) = 1 .. Len(s)
           /\ \A i \in 1 .. Len(s) : s[i] \in S /\ Found(f, s)[i] = f[s[i]]
BY DEF Found

\* What two views find in two sequences of the same length, one by one, is the same.
Alike(f, s, h, t) == Len(s) = Len(t) /\ \A i \in 1 .. Len(t) : f[s[i]] = h[t[i]]

LEMMA GatheredMapped ==
    ASSUME NEW S, NEW Q, NEW f, NEW h, NEW s \in Seq(S), NEW t \in Seq(Q), Alike(f, s, h, t)
    PROVE  Gathered(f, s) = Gathered(h, t)
<1>1. Found(f, s) = Found(h, t)
  <2>1. DOMAIN s = 1 .. Len(t) /\ DOMAIN t = 1 .. Len(t)
    BY DEF Alike
  <2> QED
    BY <2>1 DEF Found, Alike
<1> QED
  BY <1>1 DEF Gathered

LEMMA GatheredNothing ==
    ASSUME NEW S, NEW f, NEW s \in Seq(S), \A i \in 1 .. Len(s) : f[s[i]] = <<>>
    PROVE  Gathered(f, s) = <<>>
<1> DEFINE none == Found(f, s)
<1>1. none = [i \in 1 .. Len(s) |-> <<>>] /\ DOMAIN none = 1 .. Len(s) /\ Len(s) \in Nat
  <2>1. DOMAIN s = 1 .. Len(s)
    OBVIOUS
  <2> QED
    BY <2>1 DEF Found
<1> HIDE DEF none
<1>2. FlattenSeq(none) = <<>>
  BY <1>1, PutTogetherNothing
<1> QED
  BY <1>2 DEF Gathered, none

Via(f, g) == [x \in Line |-> Gathered(f, g[x])]

LEMMA ViaIs ==
    ASSUME NEW R, NEW f, IsView(f, Line, R), NEW g, IsView(g, Line, Line)
    PROVE  IsView(Via(f, g), Line, R)
<1>1. ASSUME NEW x \in Line PROVE Gathered(f, g[x]) \in Seq(R)
  <2>1. g[x] \in Seq(Line)
    BY ViewAt
  <2> QED
    BY <2>1, GatheredType
<1> HIDE DEF Line
<1> QED
  BY <1>1 DEF IsView, Via

LEMMA ViaAt ==
    ASSUME NEW f, NEW g, NEW x \in Line
    PROVE  Via(f, g)[x] = Gathered(f, g[x])
<1> HIDE DEF Line
<1> QED
  BY DEF Via

LEMMA GatheredTwice ==
    ASSUME NEW R, NEW f, IsView(f, Line, R), NEW g, IsView(g, Line, Line), NEW s \in Seq(Line)
    PROVE  Gathered(f, Gathered(g, s)) = Gathered(Via(f, g), s)
<1> DEFINE ss == Found(g, s)
           n == Len(s)
           c == GatheredEach(f, ss)
           d == Found(Via(f, g), s)
<1>1. ss \in Seq(Seq(Line))
  BY GatheredParts
<1>2. n \in Nat /\ DOMAIN ss = 1 .. n /\ \A i \in 1 .. n : s[i] \in Line /\ ss[i] = g[s[i]]
  BY FoundAt
<1>3. d = [i \in 1 .. n |-> d[i]] /\ \A i \in 1 .. n : d[i] = Via(f, g)[s[i]]
  BY FoundAt
<1>4. Gathered(f, FlattenSeq(ss)) = FlattenSeq(c)
  BY <1>1, GatheredFlattened
<1> HIDE DEF d, ss, n
<1>5. \A i \in 1 .. n : d[i] = Gathered(f, ss[i])
  BY <1>2, <1>3, ViaAt
<1>6. c = d
  BY <1>2, <1>3, <1>5 DEF GatheredEach
<1> QED
  BY <1>4, <1>6 DEF Gathered, ss, d

LEMMA GatheredThree ==
    ASSUME NEW S, NEW R, NEW f, IsView(f, S, R), NEW x \in S, NEW y \in S, NEW z \in S,
           f[x] = <<>>, f[z] = <<>>
    PROVE  Gathered(f, <<x, y, z>>) = f[y]
<1> DEFINE s == <<x, y, z>>
           c == Found(f, s)
<1>1. c = [i \in 1 .. 3 |-> c[i]] /\ c[1] = f[x] /\ c[2] = f[y] /\ c[3] = f[z]
  BY DEF Found
<1>2. \A i \in 1 .. 3 : i = 1 \/ i = 2 \/ i = 3
  OBVIOUS
<1>3. f[y] \in Seq(R) /\ <<>> \in Seq(R)
  BY ViewAt
<1> HIDE DEF c
<1>4. \A i \in 1 .. 3 : c[i] \in Seq(R)
  BY <1>1, <1>2, <1>3
<1>5. c \in Seq(Seq(R)) /\ Len(c) = 3
  BY <1>1, <1>4, SeqOfFunction
<1>6. \A i \in 1 .. 3 : i # 2 => c[i] = <<>>
  BY <1>1, <1>2
<1>7. FlattenSeq(c) = c[2]
  <2>1. 2 \in 1 .. Len(c) /\ \A i \in 1 .. Len(c) : i # 2 => c[i] = <<>>
    BY <1>5, <1>6
  <2> QED
    BY <1>5, <2>1, FlattenOnly
<1> QED
  BY <1>1, <1>7 DEF Gathered, c

PieceView == [x \in Word |-> Piece(x)]

LEMMA PiecesAre ==
    /\ IsView(PieceView, Word, Word)
    /\ \A x \in Word : PieceView[x] = Piece(x)
    /\ \A t \in Seq(Word) : Pieces(t) = Gathered(PieceView, t) /\ Pieces(t) \in Seq(Word)
    /\ Pieces(<<>>) = <<>>
<1>1. \A x \in Word : Piece(x) \in Seq(Word)
  BY PieceIs
<1> HIDE DEF Word
<1>2. IsView(PieceView, Word, Word) /\ \A x \in Word : PieceView[x] = Piece(x)
  BY <1>1 DEF IsView, PieceView
<1>3. ASSUME NEW t \in Seq(Word)
      PROVE  Pieces(t) = Gathered(PieceView, t) /\ Pieces(t) \in Seq(Word)
  <2>1. [k \in DOMAIN t |-> Piece(t[k])] = Found(PieceView, t)
    <3>1. \A k \in DOMAIN t : t[k] \in Word
      OBVIOUS
    <3> QED
      BY <1>2, <3>1 DEF Found
  <2>2. Pieces(t) = Gathered(PieceView, t)
    BY <2>1 DEF Pieces, Gathered
  <2> QED
    BY <1>2, <2>2, GatheredType
<1>4. Pieces(<<>>) = <<>>
  <2>1. <<>> \in Seq(Word) /\ Len(<<>>) = 0
    OBVIOUS
  <2>2. \A i \in 1 .. Len(<<>>) : PieceView[<<>>[i]] = <<>>
    BY <2>1
  <2> QED
    BY <1>3, <2>1, <2>2, GatheredNothing
<1> QED
  BY <1>2, <1>3, <1>4

-----------------------------------------------------------------------------
(***************************************************************************)
(* What a client sees in the lines that g makes of the events s: text t,   *)
(* tools u, no end, and the arguments a for the tool at index n.           *)
(***************************************************************************)

ArgsOn(l, j) == IF l.index = j THEN Piece(l.args) ELSE <<>>
ArgsView(j) == [l \in Line |-> ArgsOn(l, j)]

Gives(g, s, t, u, n, a) ==
    /\ Gathered(Via(TextView, g), s) = t
    /\ Gathered(Via(ToolView, g), s) = u
    /\ Gathered(Via(MarkView, g), s) = <<>>
    /\ \A j \in Int : Gathered(Via(ArgsView(j), g), s) = IF j = n THEN a ELSE <<>>

\* The same of one event, whose arguments are the piece a.
Yields(g, e, t, u, n, a) ==
    /\ Gathered(TextView, g[e]) = t
    /\ Gathered(ToolView, g[e]) = u
    /\ Gathered(MarkView, g[e]) = <<>>
    /\ \A j \in Int : Gathered(ArgsView(j), g[e]) = IF j = n THEN Piece(a) ELSE <<>>

\* The same of one line.
Shows(l, t, u, n, a) ==
    /\ l \in Line /\ ~ Telling(l)
    /\ TextOn(l) = t /\ ToolOn(l) = u /\ l.index = n /\ l.args = a
NoText == ""    \* opaque to the provers
Mute(l) == Shows(l, <<>>, <<>>, l.index, NoText)

LEMMA ArgsViewIs == \A j \in Int : IsView(ArgsView(j), Line, Word)
<1>1. ASSUME NEW j \in Int, NEW l \in Line PROVE ArgsOn(l, j) \in Seq(Word)
  <2>1. l.args \in Word
    BY DEF Line
  <2>2. Piece(l.args) \in Seq(Word) /\ <<>> \in Seq(Word)
    BY <2>1, PieceIs
  <2> QED
    BY <2>2 DEF ArgsOn
<1> HIDE DEF Line
<1> QED
  BY <1>1 DEF IsView, ArgsView

LEMMA ViewsAt ==
    ASSUME NEW l \in Line
    PROVE  /\ TextView[l] = TextOn(l) /\ ToolView[l] = ToolOn(l) /\ MarkView[l] = MarkOn(l)
           /\ \A j : ArgsView(j)[l] = ArgsOn(l, j)
<1> HIDE DEF Line
<1> QED
  BY DEF TextView, ToolView, MarkView, ArgsView

LEMMA ShowsAt ==
    ASSUME NEW l, NEW t, NEW u, NEW n, NEW a, Shows(l, t, u, n, a)
    PROVE  /\ TextView[l] = t /\ ToolView[l] = u /\ MarkView[l] = <<>>
           /\ \A j : ArgsView(j)[l] = IF j = n THEN Piece(a) ELSE <<>>
<1>1. l \in Line /\ TextOn(l) = t /\ ToolOn(l) = u /\ MarkOn(l) = <<>>
      /\ \A j : ArgsOn(l, j) = IF j = n THEN Piece(a) ELSE <<>>
  BY DEF Shows, MarkOn, ArgsOn
<1> QED
  BY <1>1, ViewsAt

LEMMA PieceOfNothing == Piece(NoText) = <<>>
BY DEF Piece, NoText

LEMMA YieldsNothing ==
    ASSUME NEW g, NEW e, g[e] = <<>>, NEW n
    PROVE  Yields(g, e, <<>>, <<>>, n, NoText)
<1>1. <<>> \in Seq(Line) /\ \A f : \A i \in 1 .. Len(<<>>) : f[<<>>[i]] = <<>>
  OBVIOUS
<1>2. \A f : Gathered(f, <<>>) = <<>>
  BY <1>1, GatheredNothing
<1> QED
  BY <1>2, PieceOfNothing DEF Yields

LEMMA YieldsOne ==
    ASSUME NEW g, NEW e, NEW l, g[e] = <<l>>, NEW t, NEW u, NEW n, NEW a, Shows(l, t, u, n, a)
    PROVE  Yields(g, e, t, u, n, a)
<1>1. l \in Line
  BY DEF Shows
<1>2. /\ Gathered(TextView, <<l>>) = TextView[l] /\ Gathered(ToolView, <<l>>) = ToolView[l]
      /\ Gathered(MarkView, <<l>>) = MarkView[l]
  BY <1>1, ViewsAre, GatheredOne
<1>3. \A j \in Int : Gathered(ArgsView(j), <<l>>) = ArgsView(j)[l]
  BY <1>1, ArgsViewIs, GatheredOne
<1> QED
  BY <1>2, <1>3, ShowsAt DEF Yields

LEMMA YieldsThree ==
    ASSUME NEW g, NEW e, NEW x, NEW l, NEW z, g[e] = <<x, l, z>>, Mute(x), Mute(z),
           NEW t, NEW u, NEW n, NEW a, Shows(l, t, u, n, a)
    PROVE  Yields(g, e, t, u, n, a)
<1>1. x \in Line /\ l \in Line /\ z \in Line
  BY DEF Shows, Mute
<1>2. \A m : Mute(m) => /\ TextView[m] = <<>> /\ ToolView[m] = <<>> /\ MarkView[m] = <<>>
                        /\ \A j : ArgsView(j)[m] = <<>>
  <2> SUFFICES ASSUME NEW m, Mute(m)
               PROVE  /\ TextView[m] = <<>> /\ ToolView[m] = <<>> /\ MarkView[m] = <<>>
                      /\ \A j : ArgsView(j)[m] = <<>>
    OBVIOUS
  <2> DEFINE n1 == m.index
  <2>1. Shows(m, <<>>, <<>>, n1, NoText) /\ Piece(NoText) = <<>>
    BY PieceOfNothing DEF Mute
  <2> HIDE DEF n1
  <2> QED
    BY <2>1, ShowsAt
<1>3. /\ Gathered(TextView, <<x, l, z>>) = TextView[l]
      /\ Gathered(ToolView, <<x, l, z>>) = ToolView[l]
      /\ Gathered(MarkView, <<x, l, z>>) = MarkView[l]
  BY <1>1, <1>2, ViewsAre, GatheredThree
<1>4. \A j \in Int : Gathered(ArgsView(j), <<x, l, z>>) = ArgsView(j)[l]
  BY <1>1, <1>2, ArgsViewIs, GatheredThree
<1> QED
  BY <1>3, <1>4, ShowsAt DEF Yields

LEMMA ViasAre ==
    ASSUME NEW g, IsView(g, Line, Line)
    PROVE  /\ IsView(Via(TextView, g), Line, Word) /\ IsView(Via(ToolView, g), Line, CalledTool)
           /\ IsView(Via(MarkView, g), Line, Line)
           /\ \A j \in Int : IsView(Via(ArgsView(j), g), Line, Word)
BY ViewsAre, ArgsViewIs, ViaIs

LEMMA YieldsVia ==
    ASSUME NEW g, NEW e \in Line, NEW t, NEW u, NEW n, NEW a, Yields(g, e, t, u, n, a)
    PROVE  /\ Via(TextView, g)[e] = t /\ Via(ToolView, g)[e] = u /\ Via(MarkView, g)[e] = <<>>
           /\ \A j \in Int : Via(ArgsView(j), g)[e] = IF j = n THEN Piece(a) ELSE <<>>
BY ViaAt DEF Yields

LEMMA GivesOne ==
    ASSUME NEW g, IsView(g, Line, Line), NEW e \in Line,
           NEW t, NEW u, NEW n, NEW a, Yields(g, e, t, u, n, a)
    PROVE  Gives(g, <<e>>, t, u, n, Piece(a))
<1>1. /\ Gathered(Via(TextView, g), <<e>>) = Via(TextView, g)[e]
      /\ Gathered(Via(ToolView, g), <<e>>) = Via(ToolView, g)[e]
      /\ Gathered(Via(MarkView, g), <<e>>) = Via(MarkView, g)[e]
      /\ \A j \in Int : Gathered(Via(ArgsView(j), g), <<e>>) = Via(ArgsView(j), g)[e]
  BY ViasAre, GatheredOne
<1> QED
  BY <1>1, YieldsVia DEF Gives

LEMMA GivesTogether ==
    ASSUME NEW g, IsView(g, Line, Line), NEW x \in Seq(Line), NEW y \in Seq(Line),
           NEW t, NEW u, NEW n, NEW a, Gives(g, x, t, u, n, a),
           NEW p, NEW q, NEW b, Gives(g, y, p, q, n, b)
    PROVE  Gives(g, x \o y, t \o p, u \o q, n, a \o b)
<1>1. /\ Gathered(Via(TextView, g), x \o y) = Gathered(Via(TextView, g), x) \o Gathered(Via(TextView, g), y)
      /\ Gathered(Via(ToolView, g), x \o y) = Gathered(Via(ToolView, g), x) \o Gathered(Via(ToolView, g), y)
      /\ Gathered(Via(MarkView, g), x \o y) = Gathered(Via(MarkView, g), x) \o Gathered(Via(MarkView, g), y)
      /\ \A j \in Int : Gathered(Via(ArgsView(j), g), x \o y)
                          = Gathered(Via(ArgsView(j), g), x) \o Gathered(Via(ArgsView(j), g), y)
  <2>1. \A R, f : IsView(f, Line, R) => Gathered(f, x \o y) = Gathered(f, x) \o Gathered(f, y)
    BY GatheredParted
  <2> QED
    BY <2>1, ViasAre
<1>2. <<>> \o <<>> = <<>>
  BY ConcatEmptySeq
<1> QED
  BY <1>1, <1>2 DEF Gives

LEMMA GivesTexts ==
    ASSUME NEW g, IsView(g, Line, Line), NEW s \in Seq(Line), NEW p \in Seq(Word), Len(s) = Len(p),
           NEW n, \A k \in 1 .. Len(p) : Yields(g, s[k], Piece(p[k]), <<>>, n, NoText)
    PROVE  Gives(g, s, Pieces(p), <<>>, n, <<>>)
<1>1. Len(p) \in Nat /\ \A k \in 1 .. Len(p) : s[k] \in Line /\ p[k] \in Word
  <2>1. \A k \in 1 .. Len(p) : p[k] \in Word
    BY ElementOfSeq
  <2>2. \A k \in 1 .. Len(s) : s[k] \in Line
    BY ElementOfSeq
  <2> QED
    BY <2>1, <2>2
<1>2. \A k \in 1 .. Len(p) :
        /\ Via(TextView, g)[s[k]] = Piece(p[k]) /\ Via(ToolView, g)[s[k]] = <<>>
        /\ Via(MarkView, g)[s[k]] = <<>>
        /\ \A j \in Int : Via(ArgsView(j), g)[s[k]] = <<>>
  <2> SUFFICES ASSUME NEW k \in 1 .. Len(p)
               PROVE  /\ Via(TextView, g)[s[k]] = Piece(p[k]) /\ Via(ToolView, g)[s[k]] = <<>>
                      /\ Via(MarkView, g)[s[k]] = <<>>
                      /\ \A j \in Int : Via(ArgsView(j), g)[s[k]] = <<>>
    OBVIOUS
  <2> DEFINE e == s[k]
             t == Piece(p[k])
  <2>1. e \in Line /\ Yields(g, e, t, <<>>, n, NoText)
    BY <1>1
  <2> HIDE DEF e, t
  <2>2. /\ Via(TextView, g)[e] = t /\ Via(ToolView, g)[e] = <<>> /\ Via(MarkView, g)[e] = <<>>
        /\ \A j \in Int : Via(ArgsView(j), g)[e] = IF j = n THEN Piece(NoText) ELSE <<>>
    BY <2>1, YieldsVia
  <2> QED
    BY <2>2, PieceOfNothing DEF e, t
<1>3. Gathered(Via(TextView, g), s) = Gathered(PieceView, p)
  <2>1. Alike(Via(TextView, g), s, PieceView, p)
    BY <1>1, <1>2, PiecesAre DEF Alike
  <2> QED
    BY <2>1, GatheredMapped
<1>4. Gathered(Via(ToolView, g), s) = <<>> /\ Gathered(Via(MarkView, g), s) = <<>>
      /\ \A j \in Int : Gathered(Via(ArgsView(j), g), s) = <<>>
  BY <1>2, GatheredNothing
<1> QED
  BY <1>3, <1>4, PiecesAre DEF Gives

LEMMA GivesArguments ==
    ASSUME NEW g, IsView(g, Line, Line), NEW s \in Seq(Line), NEW p \in Seq(Word), Len(s) = Len(p),
           NEW n, \A k \in 1 .. Len(p) : Yields(g, s[k], <<>>, <<>>, n, p[k])
    PROVE  Gives(g, s, <<>>, <<>>, n, Pieces(p))
<1>1. Len(p) \in Nat /\ \A k \in 1 .. Len(p) : s[k] \in Line /\ p[k] \in Word
  <2>1. \A k \in 1 .. Len(p) : p[k] \in Word
    BY ElementOfSeq
  <2>2. \A k \in 1 .. Len(s) : s[k] \in Line
    BY ElementOfSeq
  <2> QED
    BY <2>1, <2>2
<1>2. \A k \in 1 .. Len(p) :
        /\ Via(TextView, g)[s[k]] = <<>> /\ Via(ToolView, g)[s[k]] = <<>>
        /\ Via(MarkView, g)[s[k]] = <<>>
        /\ \A j \in Int : Via(ArgsView(j), g)[s[k]] = IF j = n THEN Piece(p[k]) ELSE <<>>
  <2> SUFFICES ASSUME NEW k \in 1 .. Len(p)
               PROVE  /\ Via(TextView, g)[s[k]] = <<>> /\ Via(ToolView, g)[s[k]] = <<>>
                      /\ Via(MarkView, g)[s[k]] = <<>>
                      /\ \A j \in Int :
                           Via(ArgsView(j), g)[s[k]] = IF j = n THEN Piece(p[k]) ELSE <<>>
    OBVIOUS
  <2> DEFINE e == s[k]
             x == p[k]
  <2>1. e \in Line /\ Yields(g, e, <<>>, <<>>, n, x)
    BY <1>1
  <2> HIDE DEF e, x
  <2>2. /\ Via(TextView, g)[e] = <<>> /\ Via(ToolView, g)[e] = <<>> /\ Via(MarkView, g)[e] = <<>>
        /\ \A j \in Int : Via(ArgsView(j), g)[e] = IF j = n THEN Piece(x) ELSE <<>>
    BY <2>1, YieldsVia
  <2> QED
    BY <2>2 DEF e, x
<1>3. \A j \in Int : Gathered(Via(ArgsView(j), g), s) = IF j = n THEN Pieces(p) ELSE <<>>
  <2> SUFFICES ASSUME NEW j \in Int
               PROVE  Gathered(Via(ArgsView(j), g), s) = IF j = n THEN Pieces(p) ELSE <<>>
    OBVIOUS
  <2>1. CASE j = n
    <3>1. Alike(Via(ArgsView(j), g), s, PieceView, p)
      BY <1>1, <1>2, <2>1, PiecesAre DEF Alike
    <3>2. Gathered(Via(ArgsView(j), g), s) = Gathered(PieceView, p)
      BY <3>1, GatheredMapped
    <3> QED
      BY <2>1, <3>2, PiecesAre
  <2>2. CASE j # n
    <3>1. \A k \in 1 .. Len(s) : Via(ArgsView(j), g)[s[k]] = <<>>
      BY <1>2, <2>2
    <3> QED
      BY <2>2, <3>1, GatheredNothing
  <2> QED
    BY <2>1, <2>2
<1>4. Gathered(Via(TextView, g), s) = <<>> /\ Gathered(Via(ToolView, g), s) = <<>>
      /\ Gathered(Via(MarkView, g), s) = <<>>
  BY <1>2, GatheredNothing
<1> QED
  BY <1>3, <1>4 DEF Gives

-----------------------------------------------------------------------------
(***************************************************************************)
(* The lines that the translations make, and what a client sees in them.   *)
(***************************************************************************)

TextChunk(x) == [Blank EXCEPT !.text = x]
ArgumentChunk(n, x) == [Blank EXCEPT !.index = n, !.args = x]
QuotedEnd == [Blank EXCEPT !.kind = "quoted"]
RoleStart == [Data("message_start") EXCEPT !.role = "assistant"]
TextOpened == [Data("content_block_start") EXCEPT !.block = "text"]
TextPassed(x) == [Data("content_block_delta") EXCEPT !.delta = "text_delta", !.text = x]
TextClosed == Data("content_block_stop")
ToolOpened(n, id, name) ==
    [Data("content_block_start") EXCEPT !.block = "tool_use", !.index = n, !.id = id, !.name = name]
ArgumentPassed(n, x) ==
    [Data("content_block_delta") EXCEPT !.delta = "input_json_delta", !.index = n, !.args = x]
ToolNamed(n, id, name) == [Blank EXCEPT !.index = n, !.id = id, !.name = name]

LEMMA NotGivenIsInt == NotGiven \in Int
BY DEF NotGiven

LEMMA ChunksShow ==
    ASSUME NEW x \in Word, NEW n \in Int, NEW id \in Word, NEW name \in Word
    PROVE  /\ Shows(TextChunk(x), Piece(x), <<>>, 0, NoText)
           /\ Shows(ArgumentChunk(n, x), <<>>, <<>>, n, x)
           /\ Shows(ToolNamed(n, id, name), <<>>, <<>>, n, NoText)
           /\ Mute(RoleChunk) /\ Mute(QuotedEnd)
<1>1. Blank \in Line /\ "assistant" \in Word /\ "quoted" \in Word
  BY BlankLine DEF Word
<1>2. TextChunk(x) \in Line /\ ArgumentChunk(n, x) \in Line /\ ToolNamed(n, id, name) \in Line
      /\ RoleChunk \in Line /\ QuotedEnd \in Line
  BY <1>1 DEF Line, TextChunk, ArgumentChunk, ToolNamed, RoleChunk, QuotedEnd
<1>3. Shows(TextChunk(x), Piece(x), <<>>, 0, NoText)
  BY <1>2 DEF Shows, TextChunk, Blank, TextOn, Other, ToolOn, Telling, Silent, NoText
<1>4. Piece("") = <<>>
  BY DEF Piece
<1>5. Shows(ArgumentChunk(n, x), <<>>, <<>>, n, x)
  BY <1>2, <1>4 DEF Shows, ArgumentChunk, Blank, TextOn, Other, ToolOn, Telling, Silent
<1>6. Shows(ToolNamed(n, id, name), <<>>, <<>>, n, NoText)
  BY <1>2, <1>4 DEF Shows, ToolNamed, Blank, TextOn, Other, ToolOn, Telling, Silent, NoText
<1>7. Mute(RoleChunk)
  BY <1>2, <1>4 DEF Mute, Shows, RoleChunk, Blank, TextOn, Other, ToolOn, Telling, Silent, NoText
<1>8. Mute(QuotedEnd)
  BY <1>2, <1>4 DEF Mute, Shows, QuotedEnd, Blank, TextOn, Other, ToolOn, Telling, Silent, NoText
<1> QED
  BY <1>3, <1>5, <1>6, <1>7, <1>8

LEMMA EventsShow ==
    ASSUME NEW x \in Word, NEW n \in Int, NEW id \in Word, NEW name \in Word
    PROVE  /\ Shows(TextPassed(x), Piece(x), <<>>, 0, NoText)
           /\ Shows(ArgumentPassed(n, x), <<>>, <<>>, n, x)
           /\ Shows(ToolOpened(n, id, name), <<>>, <<[id |-> id, name |-> name, input |-> <<>>]>>, n, NoText)
           /\ Mute(RoleStart) /\ Mute(TextOpened) /\ Mute(TextClosed) /\ Mute(Stop)
<1>1. Blank \in Line
  BY BlankLine
<1>2. "assistant" \in Word /\ "text" \in Word /\ "tool_use" \in Word
      /\ {"message_start", "content_block_start", "content_block_delta", "content_block_stop",
          "message_stop", "text_delta", "input_json_delta"} \subseteq Word
  BY DEF Word
<1>3. TextPassed(x) \in Line /\ ArgumentPassed(n, x) \in Line
  BY <1>1, <1>2 DEF Line, Data, TextPassed, ArgumentPassed
<1>4. ToolOpened(n, id, name) \in Line
  BY <1>1, <1>2 DEF Line, Data, ToolOpened
<1>5. RoleStart \in Line /\ TextOpened \in Line /\ TextClosed \in Line /\ Stop \in Line
  BY <1>1, <1>2 DEF Line, Data, RoleStart, TextOpened, TextClosed, Stop
<1>6. Piece("") = <<>>
  BY DEF Piece
<1>7. Shows(TextPassed(x), Piece(x), <<>>, 0, NoText)
  BY <1>3 DEF Shows, TextPassed, Data, Blank, TextOn, Other, ToolOn, Telling, Silent, NoText
<1>8. Shows(ArgumentPassed(n, x), <<>>, <<>>, n, x)
  BY <1>3, <1>6 DEF Shows, ArgumentPassed, Data, Blank, TextOn, Other, ToolOn, Telling, Silent
<1>9. Shows(ToolOpened(n, id, name), <<>>, <<[id |-> id, name |-> name, input |-> <<>>]>>, n, NoText)
  BY <1>4, <1>6 DEF Shows, ToolOpened, Data, Blank, TextOn, Other, ToolOn, Telling, Silent, NoText
<1>10. Mute(RoleStart)
  BY <1>5, <1>6 DEF Mute, Shows, RoleStart, Data, Blank, TextOn, Other, ToolOn, Telling, Silent, NoText
<1>11. Mute(TextOpened) /\ Mute(TextClosed)
  BY <1>5, <1>6 DEF Mute, Shows, TextOpened, TextClosed, Data, Blank, TextOn, Other, ToolOn, Telling, Silent, NoText
<1>12. Mute(Stop)
  BY <1>5, <1>6 DEF Mute, Shows, Stop, Data, Blank, TextOn, Other, ToolOn, Telling, Silent, NoText
<1> QED
  BY <1>7, <1>8, <1>9, <1>10, <1>11, <1>12

-----------------------------------------------------------------------------
(* To the OpenAI protocol.                                                 *)

OpenAIOf(l) == IF l.kind = "data" THEN TranslateAnthropicToOpenAI(l) ELSE <<>>
OpenAIView == [l \in Line |-> OpenAIOf(l)]

LEMMA OpenAIOfIs ==
    ASSUME NEW e \in Line, e.kind = "data"
    PROVE  /\ e.type = "message_start" => OpenAIOf(e) = <<RoleChunk>>
           /\ e.type = "content_block_start" /\ e.block = "tool_use" =>
                 OpenAIOf(e) = <<ToolNamed(e.index, e.id, e.name)>>
           /\ e.type = "content_block_start" /\ e.block # "tool_use" => OpenAIOf(e) = <<>>
           /\ e.type = "content_block_delta" /\ e.delta = "text_delta" =>
                 OpenAIOf(e) = <<TextChunk(e.text)>>
           /\ e.type = "content_block_delta" /\ e.delta = "input_json_delta" =>
                 OpenAIOf(e) = <<ArgumentChunk(e.index, e.args)>>
           /\ e.type = "content_block_delta" /\ e.delta \notin {"text_delta", "input_json_delta"} =>
                 OpenAIOf(e) = <<>>
           /\ e.type = "message_delta" => OpenAIOf(e) = <<FinalChunk(e)>>
           /\ e.type = "message_stop" => OpenAIOf(e) = <<QuotedEnd>>
           /\ e.type \notin {"message_start", "content_block_start", "content_block_delta",
                             "message_delta", "message_stop"} => OpenAIOf(e) = <<>>
BY DEF OpenAIOf, TranslateAnthropicToOpenAI, RoleChunk, ToolNamed, TextChunk, ArgumentChunk, Arguments,
       QuotedEnd

LEMMA ReasonsAreWords ==
    ASSUME NEW s \in Word
    PROVE  FinishReason(s) \in Word /\ StopReason(s) \in Word
<1>1. DOMAIN FinishReasons = {"end_turn", "max_tokens", "tool_use", "refusal"}
  BY DEF FinishReasons
<1>2. \A x \in DOMAIN FinishReasons : x \in Word /\ FinishReasons[x] \in Word
  <2>1. FinishReasons["end_turn"] = "stop" /\ FinishReasons["max_tokens"] = "length"
        /\ FinishReasons["tool_use"] = "tool_calls" /\ FinishReasons["refusal"] = "content_filter"
    BY DEF FinishReasons
  <2>2. {"end_turn", "max_tokens", "tool_use", "refusal", "stop", "length", "tool_calls",
         "content_filter"} \subseteq Word
    BY DEF Word
  <2> QED
    BY <1>1, <2>1, <2>2
<1>3. FinishReason(s) \in Word
  BY <1>2 DEF FinishReason
<1>4. StopReason(s) \in Word
  BY <1>2 DEF StopReason
<1> QED
  BY <1>3, <1>4

LEMMA FinalChunkIsLine == ASSUME NEW e \in Line PROVE FinalChunk(e) \in Line
<1>1. FinishReason(e.stop) \in Word
  BY ReasonsAreWords DEF Line
<1> DEFINE final == [Blank EXCEPT !.stop = FinishReason(e.stop)]
<1>2. final \in Line
  BY <1>1, BlankLine DEF Line
<1>3. e.input \in Int /\ e.output \in Int /\ e.cached \in Int
  BY DEF Line
<1>4. TokensOr0(e.input) \in Int /\ TokensOr0(e.output) \in Int
      /\ (IF e.cached > 0 THEN e.cached ELSE NotGiven) \in Int
  BY <1>3, NotGivenIsInt DEF TokensOr0
<1> HIDE DEF final
<1>5. [final EXCEPT !.input = TokensOr0(e.input), !.output = TokensOr0(e.output),
                    !.cached = IF e.cached > 0 THEN e.cached ELSE NotGiven] \in Line
  BY <1>2, <1>4 DEF Line
<1>6. FinalChunk(e) = final
      \/ FinalChunk(e) = [final EXCEPT !.input = TokensOr0(e.input), !.output = TokensOr0(e.output),
                                       !.cached = IF e.cached > 0 THEN e.cached ELSE NotGiven]
  BY DEF FinalChunk, final
<1> QED
  BY <1>2, <1>5, <1>6

LEMMA OneOrNone == ASSUME NEW S, NEW x \in S PROVE <<x>> \in Seq(S) /\ <<>> \in Seq(S)
OBVIOUS

LEMMA OpenAIViewIs ==
    IsView(OpenAIView, Line, Line) /\ \A l \in Line : OpenAIView[l] = OpenAIOf(l)
<1>1. ASSUME NEW e \in Line PROVE OpenAIOf(e) \in Seq(Line)
  <2>1. <<>> \in Seq(Line) /\ \A x \in Line : <<x>> \in Seq(Line)
    BY OneOrNone
  <2>2. CASE e.kind # "data"
    BY <2>1, <2>2 DEF OpenAIOf
  <2>3. CASE e.kind = "data"
    <3>1. e.index \in Int /\ e.id \in Word /\ e.name \in Word /\ e.text \in Word /\ e.args \in Word
      BY DEF Line
    <3>2. RoleChunk \in Line /\ ToolNamed(e.index, e.id, e.name) \in Line
          /\ TextChunk(e.text) \in Line /\ ArgumentChunk(e.index, e.args) \in Line /\ QuotedEnd \in Line
      BY <3>1, ChunksShow DEF Shows, Mute
    <3>3. FinalChunk(e) \in Line
      BY FinalChunkIsLine
    <3> DEFINE z == OpenAIOf(e)
    <3>4. z = <<>> \/ z = <<RoleChunk>> \/ z = <<ToolNamed(e.index, e.id, e.name)>>
          \/ z = <<TextChunk(e.text)>> \/ z = <<ArgumentChunk(e.index, e.args)>>
          \/ z = <<FinalChunk(e)>> \/ z = <<QuotedEnd>>
      BY <2>3, OpenAIOfIs
    <3> HIDE DEF z
    <3> QED
      BY <2>1, <3>2, <3>3, <3>4 DEF z
  <2> QED
    BY <2>2, <2>3
<1> HIDE DEF Line
<1> QED
  BY <1>1 DEF IsView, OpenAIView

ArgsIn(bl) == IF bl.type = "tool_use" THEN bl.text ELSE <<>>

LEMMA GivesNothing ==
    ASSUME NEW g, IsView(g, Line, Line), NEW s \in Seq(Line), NEW n,
           \A k \in 1 .. Len(s) : Yields(g, s[k], <<>>, <<>>, n, NoText)
    PROVE  Gives(g, s, <<>>, <<>>, n, <<>>)
<1>1. \A k \in 1 .. Len(s) :
        /\ Via(TextView, g)[s[k]] = <<>> /\ Via(ToolView, g)[s[k]] = <<>>
        /\ Via(MarkView, g)[s[k]] = <<>>
        /\ \A j \in Int : Via(ArgsView(j), g)[s[k]] = <<>>
  <2> SUFFICES ASSUME NEW k \in 1 .. Len(s)
               PROVE  /\ Via(TextView, g)[s[k]] = <<>> /\ Via(ToolView, g)[s[k]] = <<>>
                      /\ Via(MarkView, g)[s[k]] = <<>>
                      /\ \A j \in Int : Via(ArgsView(j), g)[s[k]] = <<>>
    OBVIOUS
  <2> DEFINE e == s[k]
  <2>1. e \in Line /\ Yields(g, e, <<>>, <<>>, n, NoText)
    BY ElementOfSeq
  <2> HIDE DEF e
  <2>2. /\ Via(TextView, g)[e] = <<>> /\ Via(ToolView, g)[e] = <<>> /\ Via(MarkView, g)[e] = <<>>
        /\ \A j \in Int : Via(ArgsView(j), g)[e] = IF j = n THEN Piece(NoText) ELSE <<>>
    BY <2>1, YieldsVia
  <2> QED
    BY <2>2, PieceOfNothing DEF e
<1>2. Gathered(Via(TextView, g), s) = <<>> /\ Gathered(Via(ToolView, g), s) = <<>>
      /\ Gathered(Via(MarkView, g), s) = <<>>
  BY <1>1, GatheredNothing
<1>3. \A j \in Int : Gathered(Via(ArgsView(j), g), s) = <<>>
  BY <1>1, GatheredNothing
<1> QED
  BY <1>2, <1>3 DEF Gives

LEMMA GivesFramed ==
    ASSUME NEW g, IsView(g, Line, Line), NEW o \in Line, NEW c \in Line, NEW mid \in Seq(Line),
           NEW t \in Seq(Word), NEW a \in Seq(Word), NEW n,
           Gives(g, <<o>>, <<>>, <<>>, n, <<>>), Gives(g, <<c>>, <<>>, <<>>, n, <<>>),
           Gives(g, mid, t, <<>>, n, a)
    PROVE  Gives(g, <<o>> \o mid \o <<c>>, t, <<>>, n, a)
<1> DEFINE x == <<o>>
           z == <<c>>
           none == <<>>
<1>1. x \in Seq(Line) /\ z \in Seq(Line)
  BY OneOrNone
<1>2. none \o none = none /\ none \o t = t /\ t \o none = t /\ none \o a = a /\ a \o none = a
  BY ConcatEmptySeq
<1>3. Gives(g, x, none, none, n, none) /\ Gives(g, z, none, none, n, none)
      /\ Gives(g, mid, t, none, n, a)
  OBVIOUS
<1> HIDE DEF x, z, none
<1>4. x \o mid \in Seq(Line)
  BY <1>1, ConcatProperties
<1>5. Gives(g, x \o mid, none \o t, none \o none, n, none \o a)
  BY <1>1, <1>3, GivesTogether
<1>6. Gives(g, x \o mid, t, none, n, a)
  BY <1>2, <1>5
<1>7. Gives(g, (x \o mid) \o z, t \o none, none \o none, n, a \o none)
  BY <1>1, <1>3, <1>4, <1>6, GivesTogether
<1> QED
  BY <1>2, <1>7 DEF x, z, none

LEMMA OpenAIYields ==
    ASSUME NEW i \in Nat, NEW bl \in Block
    PROVE  /\ Yields(OpenAIView, Opening(i, bl), <<>>, <<>>, i - 1, NoText)
           /\ Yields(OpenAIView, Closing(i), <<>>, <<>>, i - 1, NoText)
           /\ \A k \in 1 .. Len(bl.text) :
                /\ bl.type = "text" =>
                     Yields(OpenAIView, Middle(i, bl)[k], Piece(bl.text[k]), <<>>, i - 1, NoText)
                /\ bl.type = "tool_use" =>
                     Yields(OpenAIView, Middle(i, bl)[k], <<>>, <<>>, i - 1, bl.text[k])
                /\ bl.type = "thinking" =>
                     Yields(OpenAIView, Middle(i, bl)[k], <<>>, <<>>, i - 1, NoText)
<1>1. bl.id \in Word /\ bl.name \in Word /\ bl.text \in Seq(Word) /\ i - 1 \in Int
      /\ (bl.type = "text" \/ bl.type = "tool_use" \/ bl.type = "thinking")
  BY DEF Block
<1>2. Opening(i, bl) \in Line /\ Closing(i) \in Line /\ Middle(i, bl) \in Seq(Line)
      /\ Len(Middle(i, bl)) = Len(bl.text) /\ Len(bl.text) \in Nat
  BY <1>1, BlockLines
<1>3. Yields(OpenAIView, Opening(i, bl), <<>>, <<>>, i - 1, NoText)
  <2> DEFINE e == Opening(i, bl)
  <2>1. e.kind = "data" /\ e.type = "content_block_start" /\ e.block = bl.type
        /\ e.index = i - 1 /\ e.id = bl.id /\ e.name = bl.name
    BY InIs DEF Opening, Blank
  <2> HIDE DEF e
  <2>2. e \in Line
    BY <1>2 DEF e
  <2>3. CASE bl.type # "tool_use"
    <3>1. OpenAIView[e] = <<>>
      BY <2>1, <2>2, <2>3, OpenAIOfIs, OpenAIViewIs
    <3> QED
      BY <3>1, YieldsNothing DEF e
  <2>4. CASE bl.type = "tool_use"
    <3> DEFINE l == ToolNamed(i - 1, bl.id, bl.name)
    <3>1. OpenAIView[e] = <<l>>
      BY <2>1, <2>2, <2>4, OpenAIOfIs, OpenAIViewIs
    <3>2. Shows(l, <<>>, <<>>, i - 1, NoText)
      BY <1>1, ChunksShow
    <3> HIDE DEF l
    <3> QED
      BY <3>1, <3>2, YieldsOne DEF e
  <2> QED
    BY <1>1, <2>3, <2>4
<1>4. Yields(OpenAIView, Closing(i), <<>>, <<>>, i - 1, NoText)
  <2> DEFINE e == Closing(i)
  <2>1. e.kind = "data" /\ e.type = "content_block_stop"
    <3>1. e = [Blank EXCEPT !.type = "content_block_stop", !.index = i - 1]
      BY InIs DEF Closing
    <3> QED
      BY <3>1 DEF Blank
  <2>2. e \in Line
    BY <1>2
  <2> HIDE DEF e
  <2>3. OpenAIView[e] = <<>>
    BY <2>1, <2>2, OpenAIOfIs, OpenAIViewIs
  <2> QED
    BY <2>3, YieldsNothing DEF e
<1>5. ASSUME NEW k \in 1 .. Len(bl.text)
      PROVE  /\ bl.type = "text" =>
                  Yields(OpenAIView, Middle(i, bl)[k], Piece(bl.text[k]), <<>>, i - 1, NoText)
             /\ bl.type = "tool_use" =>
                  Yields(OpenAIView, Middle(i, bl)[k], <<>>, <<>>, i - 1, bl.text[k])
             /\ bl.type = "thinking" =>
                  Yields(OpenAIView, Middle(i, bl)[k], <<>>, <<>>, i - 1, NoText)
  <2> DEFINE e == Middle(i, bl)[k]
             x == bl.text[k]
  <2>1. x \in Word
    BY <1>1, ElementOfSeq
  <2>2. e \in Line
    BY <1>2, ElementOfSeq
  <2>3. e = IF bl.type = "tool_use"
            THEN [In(i, "content_block_delta") EXCEPT !.delta = "input_json_delta", !.args = x]
            ELSE [In(i, "content_block_delta") EXCEPT !.delta = IF bl.type = "text" THEN "text_delta"
                                                                ELSE "thinking_delta",
                                                      !.text = x]
    <3>1. k \in DOMAIN bl.text
      BY <1>1
    <3> QED
      BY <3>1 DEF Middle
  <2> HIDE DEF e, x
  <2>4. CASE bl.type = "text"
    <3>1. e.kind = "data" /\ e.type = "content_block_delta" /\ e.delta = "text_delta" /\ e.text = x
      BY <2>3, <2>4, InIs DEF Blank
    <3>2. OpenAIView[e] = <<TextChunk(x)>>
      BY <2>2, <3>1, OpenAIOfIs, OpenAIViewIs
    <3>3. Shows(TextChunk(x), Piece(x), <<>>, 0, NoText)
      BY <1>1, <2>1, ChunksShow
    <3>4. Yields(OpenAIView, e, Piece(x), <<>>, 0, NoText)
      BY <3>2, <3>3, YieldsOne
    <3>5. Yields(OpenAIView, e, Piece(x), <<>>, i - 1, NoText)
      BY <3>4, PieceOfNothing DEF Yields
    <3> QED
      BY <2>4, <3>5 DEF e, x
  <2>5. CASE bl.type = "tool_use"
    <3> DEFINE l == ArgumentChunk(i - 1, x)
    <3>1. e.kind = "data" /\ e.type = "content_block_delta" /\ e.delta = "input_json_delta"
          /\ e.args = x /\ e.index = i - 1
      BY <2>3, <2>5, InIs DEF Blank
    <3>2. OpenAIView[e] = <<l>>
      BY <2>2, <3>1, OpenAIOfIs, OpenAIViewIs
    <3>3. Shows(l, <<>>, <<>>, i - 1, x)
      BY <1>1, <2>1, ChunksShow
    <3> HIDE DEF l
    <3>4. Yields(OpenAIView, e, <<>>, <<>>, i - 1, x)
      BY <3>2, <3>3, YieldsOne
    <3> QED
      BY <2>5, <3>4 DEF e, x
  <2>6. CASE bl.type = "thinking"
    <3>1. e.kind = "data" /\ e.type = "content_block_delta" /\ e.delta = "thinking_delta"
      BY <2>3, <2>6, InIs DEF Blank
    <3>2. OpenAIView[e] = <<>>
      BY <2>2, <3>1, OpenAIOfIs, OpenAIViewIs
    <3>3. Yields(OpenAIView, e, <<>>, <<>>, i - 1, NoText)
      BY <3>2, YieldsNothing
    <3> QED
      BY <2>6, <3>3 DEF e, x
  <2> QED
    BY <1>1, <2>4, <2>5, <2>6
<1> QED
  BY <1>3, <1>4, <1>5

LEMMA OpenAIBlock ==
    ASSUME NEW i \in Nat, NEW bl \in Block
    PROVE  Gives(OpenAIView, BlockEvents(i, bl), Pieces(SaidIn(bl)), <<>>, i - 1, Pieces(ArgsIn(bl)))
<1> DEFINE o == Opening(i, bl)
           c == Closing(i)
           mid == Middle(i, bl)
           n == i - 1
           t == Pieces(SaidIn(bl))
           a == Pieces(ArgsIn(bl))
<1>1. bl.text \in Seq(Word) /\ (bl.type = "text" \/ bl.type = "tool_use" \/ bl.type = "thinking")
  BY DEF Block
<1>2. o \in Line /\ c \in Line /\ mid \in Seq(Line) /\ Len(mid) = Len(bl.text)
  BY BlockLines
<1>3. IsView(OpenAIView, Line, Line)
  BY OpenAIViewIs
<1>4. Yields(OpenAIView, o, <<>>, <<>>, n, NoText) /\ Yields(OpenAIView, c, <<>>, <<>>, n, NoText)
  BY OpenAIYields
<1>5. Gives(OpenAIView, mid, t, <<>>, n, a)
  <2>1. CASE bl.type = "text"
    <3>1. \A k \in 1 .. Len(bl.text) : Yields(OpenAIView, mid[k], Piece(bl.text[k]), <<>>, n, NoText)
      BY <2>1, OpenAIYields
    <3> HIDE DEF mid, n
    <3>2. Gives(OpenAIView, mid, Pieces(bl.text), <<>>, n, <<>>)
      BY <1>1, <1>2, <1>3, <3>1, GivesTexts
    <3> QED
      BY <2>1, <3>2, PiecesAre DEF SaidIn, ArgsIn
  <2>2. CASE bl.type = "tool_use"
    <3>1. \A k \in 1 .. Len(bl.text) : Yields(OpenAIView, mid[k], <<>>, <<>>, n, bl.text[k])
      BY <2>2, OpenAIYields
    <3> HIDE DEF mid, n
    <3>2. Gives(OpenAIView, mid, <<>>, <<>>, n, Pieces(bl.text))
      BY <1>1, <1>2, <1>3, <3>1, GivesArguments
    <3> QED
      BY <2>2, <3>2, PiecesAre DEF SaidIn, ArgsIn
  <2>3. CASE bl.type = "thinking"
    <3>1. \A k \in 1 .. Len(mid) : Yields(OpenAIView, mid[k], <<>>, <<>>, n, NoText)
      BY <1>2, <2>3, OpenAIYields
    <3> HIDE DEF mid, n
    <3>2. Gives(OpenAIView, mid, <<>>, <<>>, n, <<>>)
      BY <1>2, <1>3, <3>1, GivesNothing
    <3> QED
      BY <2>3, <3>2, PiecesAre DEF SaidIn, ArgsIn
  <2> QED
    BY <1>1, <2>1, <2>2, <2>3
<1>6. BlockEvents(i, bl) = <<o>> \o mid \o <<c>>
  BY BlockEventsAre
<1>7. t \in Seq(Word) /\ a \in Seq(Word)
  <2>1. SaidIn(bl) \in Seq(Word) /\ ArgsIn(bl) \in Seq(Word)
    BY <1>1 DEF SaidIn, ArgsIn
  <2> QED
    BY <2>1, PiecesAre
<1> HIDE DEF o, c, mid, n, t, a
<1>8. Gives(OpenAIView, <<o>>, <<>>, <<>>, n, <<>>) /\ Gives(OpenAIView, <<c>>, <<>>, <<>>, n, <<>>)
  <2>1. Gives(OpenAIView, <<o>>, <<>>, <<>>, n, Piece(NoText))
        /\ Gives(OpenAIView, <<c>>, <<>>, <<>>, n, Piece(NoText))
    BY <1>2, <1>3, <1>4, GivesOne
  <2> QED
    BY <2>1, PieceOfNothing
<1> QED
  BY <1>2, <1>3, <1>5, <1>6, <1>7, <1>8, GivesFramed DEF n, t, a

-----------------------------------------------------------------------------
(* To the Anthropic protocol.                                              *)

AnthropicOf(l) ==
    IF l.kind \in {"data", "done", "quoted"} THEN TranslateOpenAIToAnthropic(l) ELSE <<>>
AnthropicView == [l \in Line |-> AnthropicOf(l)]
StopPassed(stop) == [Data("message_delta") EXCEPT !.stop = StopReason(stop)]

LEMMA AnthropicOfIs ==
    ASSUME NEW c
    PROVE  /\ c.kind = "done" => AnthropicOf(c) = <<Stop>>
           /\ c.kind = "data" =>
                AnthropicOf(c) =
                     If(c.role = "assistant", <<RoleStart>>)
                  \o If(c.text # "", <<TextOpened, TextPassed(c.text), TextClosed>>)
                  \o If(c.id # "", <<ToolOpened(c.index, c.id, c.name)>>)
                  \o If(c.args # "", <<ArgumentPassed(c.index, c.args)>>)
                  \o If(c.stop # "", <<StopPassed(c.stop)>>)
           /\ c.kind \notin {"data", "done"} => AnthropicOf(c) = <<>>
<1>1. CASE c.kind = "done"
  BY <1>1 DEF AnthropicOf, TranslateOpenAIToAnthropic, Stop
<1>2. CASE c.kind = "data"
  BY <1>2 DEF AnthropicOf, TranslateOpenAIToAnthropic, RoleStart, TextOpened, TextPassed, TextClosed,
              ToolOpened, ArgumentPassed, StopPassed
<1>3. CASE c.kind \notin {"data", "done"}
  BY <1>3 DEF AnthropicOf, TranslateOpenAIToAnthropic
<1> QED
  BY <1>1, <1>2, <1>3

LEMMA FiveParts ==
    ASSUME NEW S, NEW a \in Seq(S), NEW b \in Seq(S), NEW c \in Seq(S), NEW d \in Seq(S), NEW e \in Seq(S)
    PROVE  a \o b \o c \o d \o e \in Seq(S)
<1>1. a \o b \in Seq(S)
  BY ConcatProperties
<1>2. a \o b \o c \in Seq(S)
  BY <1>1, ConcatProperties
<1>3. a \o b \o c \o d \in Seq(S)
  BY <1>2, ConcatProperties
<1> QED
  BY <1>3, ConcatProperties

LEMMA StopPassedIsLine == ASSUME NEW s \in Word PROVE StopPassed(s) \in Line
<1>1. Blank \in Line /\ StopReason(s) \in Word /\ "message_delta" \in Word
  BY BlankLine, ReasonsAreWords DEF Word
<1> QED
  BY <1>1 DEF StopPassed, Data, Line

LEMMA AnthropicViewIs ==
    IsView(AnthropicView, Line, Line) /\ \A l \in Line : AnthropicView[l] = AnthropicOf(l)
<1>1. ASSUME NEW c \in Line PROVE AnthropicOf(c) \in Seq(Line)
  <2>1. <<>> \in Seq(Line) /\ \A x \in Line : <<x>> \in Seq(Line)
    BY OneOrNone
  <2>2. c.index \in Int /\ c.id \in Word /\ c.name \in Word /\ c.text \in Word /\ c.args \in Word
        /\ c.stop \in Word
    BY DEF Line
  <2> DEFINE x == TextPassed(c.text)
  <2>3. RoleStart \in Line /\ TextOpened \in Line /\ x \in Line /\ TextClosed \in Line
        /\ ToolOpened(c.index, c.id, c.name) \in Line /\ ArgumentPassed(c.index, c.args) \in Line
        /\ Stop \in Line
    BY <2>2, EventsShow DEF Shows, Mute
  <2>4. StopPassed(c.stop) \in Line
    BY <2>2, StopPassedIsLine
  <2> HIDE DEF x
  <2>5. <<TextOpened, x, TextClosed>> \in Seq(Line)
    BY <2>3
  <2> DEFINE s1 == If(c.role = "assistant", <<RoleStart>>)
             s2 == If(c.text # "", <<TextOpened, TextPassed(c.text), TextClosed>>)
             s3 == If(c.id # "", <<ToolOpened(c.index, c.id, c.name)>>)
             s4 == If(c.args # "", <<ArgumentPassed(c.index, c.args)>>)
             s5 == If(c.stop # "", <<StopPassed(c.stop)>>)
  <2>6. s1 \in Seq(Line) /\ s2 \in Seq(Line) /\ s3 \in Seq(Line) /\ s4 \in Seq(Line) /\ s5 \in Seq(Line)
    <3>1. s1 \in Seq(Line)
      BY <2>1, <2>3 DEF If
    <3>2. s2 \in Seq(Line)
      BY <2>1, <2>5 DEF If, x
    <3>3. s3 \in Seq(Line)
      BY <2>1, <2>3 DEF If
    <3>4. s4 \in Seq(Line)
      BY <2>1, <2>3 DEF If
    <3>5. s5 \in Seq(Line)
      BY <2>1, <2>4 DEF If
    <3> QED
      BY <3>1, <3>2, <3>3, <3>4, <3>5
  <2>7. CASE c.kind = "data"
    <3>1. AnthropicOf(c) = s1 \o s2 \o s3 \o s4 \o s5
      BY <2>7, AnthropicOfIs
    <3> HIDE DEF s1, s2, s3, s4, s5
    <3> QED
      BY <2>6, <3>1, FiveParts
  <2>8. CASE c.kind = "done"
    BY <2>1, <2>3, <2>8, AnthropicOfIs
  <2>9. CASE c.kind \notin {"data", "done"}
    BY <2>1, <2>9, AnthropicOfIs
  <2> QED
    BY <2>7, <2>8, <2>9
<1> HIDE DEF Line
<1> QED
  BY <1>1 DEF IsView, AnthropicView

\* What a chunk with one thing to say becomes.
LEMMA AnthropicSays ==
    ASSUME NEW c, c.kind = "data"
    PROVE  /\ c.text = "" /\ c.id = "" /\ c.args = "" /\ c.stop = "" =>
                 AnthropicOf(c) = If(c.role = "assistant", <<RoleStart>>)
           /\ c.role = "" /\ c.id = "" /\ c.args = "" /\ c.stop = "" =>
                 AnthropicOf(c) = If(c.text # "", <<TextOpened, TextPassed(c.text), TextClosed>>)
           /\ c.role = "" /\ c.text = "" /\ c.args = "" /\ c.stop = "" =>
                 AnthropicOf(c) = If(c.id # "", <<ToolOpened(c.index, c.id, c.name)>>)
           /\ c.role = "" /\ c.text = "" /\ c.id = "" /\ c.stop = "" =>
                 AnthropicOf(c) = If(c.args # "", <<ArgumentPassed(c.index, c.args)>>)
           /\ c.role = "" /\ c.text = "" /\ c.id = "" /\ c.args = "" =>
                 AnthropicOf(c) = If(c.stop # "", <<StopPassed(c.stop)>>)
<1> DEFINE s1 == If(c.role = "assistant", <<RoleStart>>)
           s2 == If(c.text # "", <<TextOpened, TextPassed(c.text), TextClosed>>)
           s3 == If(c.id # "", <<ToolOpened(c.index, c.id, c.name)>>)
           s4 == If(c.args # "", <<ArgumentPassed(c.index, c.args)>>)
           s5 == If(c.stop # "", <<StopPassed(c.stop)>>)
           none == <<>>
<1>1. AnthropicOf(c) = s1 \o s2 \o s3 \o s4 \o s5
  BY AnthropicOfIs
<1>2. /\ c.role = "" => s1 = none
      /\ c.text = "" => s2 = none
      /\ c.id = "" => s3 = none
      /\ c.args = "" => s4 = none
      /\ c.stop = "" => s5 = none
  BY DEF If
<1>3. \E S : s1 \in Seq(S) /\ s2 \in Seq(S) /\ s3 \in Seq(S) /\ s4 \in Seq(S) /\ s5 \in Seq(S)
  <2> DEFINE x1 == RoleStart
             x2 == TextOpened
             x3 == TextPassed(c.text)
             x4 == TextClosed
             x5 == ToolOpened(c.index, c.id, c.name)
             x6 == ArgumentPassed(c.index, c.args)
             x7 == StopPassed(c.stop)
             S == {x1, x2, x3, x4, x5, x6, x7}
  <2>1. x1 \in S /\ x2 \in S /\ x3 \in S /\ x4 \in S /\ x5 \in S /\ x6 \in S /\ x7 \in S
    OBVIOUS
  <2> HIDE DEF x1, x2, x3, x4, x5, x6, x7, S
  <2>2. <<x1>> \in Seq(S) /\ <<x2, x3, x4>> \in Seq(S) /\ <<x5>> \in Seq(S) /\ <<x6>> \in Seq(S)
        /\ <<x7>> \in Seq(S) /\ <<>> \in Seq(S)
    BY <2>1
  <2>3. s1 \in Seq(S) /\ s2 \in Seq(S) /\ s3 \in Seq(S) /\ s4 \in Seq(S) /\ s5 \in Seq(S)
    BY <2>2 DEF If, x1, x2, x3, x4, x5, x6, x7
  <2> QED
    BY <2>3
<1>4. PICK S : s1 \in Seq(S) /\ s2 \in Seq(S) /\ s3 \in Seq(S) /\ s4 \in Seq(S) /\ s5 \in Seq(S)
  BY <1>3
<1> HIDE DEF s1, s2, s3, s4, s5
<1>5. /\ s1 \o none = s1 /\ none \o s2 = s2 /\ s2 \o none = s2 /\ none \o s3 = s3 /\ s3 \o none = s3
      /\ none \o s4 = s4 /\ s4 \o none = s4 /\ none \o s5 = s5 /\ none \o none = none
  BY <1>4, ConcatEmptySeq
<1> HIDE DEF none
<1>6. c.role = "" \/ c.role # ""
  OBVIOUS
<1>7. c.text = "" /\ c.id = "" /\ c.args = "" /\ c.stop = "" => AnthropicOf(c) = s1
  BY <1>1, <1>2, <1>5
<1>8. c.role = "" /\ c.id = "" /\ c.args = "" /\ c.stop = "" => AnthropicOf(c) = s2
  BY <1>1, <1>2, <1>5
<1>9. c.role = "" /\ c.text = "" /\ c.args = "" /\ c.stop = "" => AnthropicOf(c) = s3
  BY <1>1, <1>2, <1>5
<1>10. c.role = "" /\ c.text = "" /\ c.id = "" /\ c.stop = "" => AnthropicOf(c) = s4
  BY <1>1, <1>2, <1>5
<1>11. c.role = "" /\ c.text = "" /\ c.id = "" /\ c.args = "" => AnthropicOf(c) = s5
  BY <1>1, <1>2, <1>5
<1> QED
  BY <1>7, <1>8, <1>9, <1>10, <1>11 DEF s1, s2, s3, s4, s5

LEMMA AnthropicYields ==
    ASSUME NEW x \in Word, NEW n \in Int, NEW bl \in Block
    PROVE  /\ Yields(AnthropicView, TextChunk(x), Piece(x), <<>>, n, NoText)
           /\ Yields(AnthropicView, ArgumentChunk(n, x), <<>>, <<>>, n, x)
           /\ bl.id # "" => Yields(AnthropicView, ToolChunk(n, bl), <<>>, <<Named(bl)>>, n, NoText)
<1>1. bl.id \in Word /\ bl.name \in Word
  BY DEF Block
<1>2. \A l \in Line : AnthropicView[l] = AnthropicOf(l)
  BY AnthropicViewIs
<1>3. Yields(AnthropicView, TextChunk(x), Piece(x), <<>>, n, NoText)
  <2> DEFINE c == TextChunk(x)
  <2>1. c \in Line
    BY <1>1, ChunksShow DEF Shows
  <2>2. c.kind = "data" /\ c.role = "" /\ c.text = x /\ c.id = "" /\ c.args = "" /\ c.stop = ""
    BY DEF TextChunk, Blank
  <2> HIDE DEF c
  <2>3. AnthropicView[c] = If(x # "", <<TextOpened, TextPassed(x), TextClosed>>)
    BY <1>2, <2>1, <2>2, AnthropicSays
  <2>4. CASE x = ""
    <3>1. AnthropicView[c] = <<>> /\ Piece(x) = <<>>
      BY <2>3, <2>4 DEF If, Piece
    <3> QED
      BY <3>1, YieldsNothing DEF c
  <2>5. CASE x # ""
    <3> DEFINE l == TextPassed(x)
    <3>1. AnthropicView[c] = <<TextOpened, l, TextClosed>>
      BY <2>3, <2>5 DEF If
    <3>2. Shows(l, Piece(x), <<>>, 0, NoText) /\ Mute(TextOpened) /\ Mute(TextClosed)
      BY <1>1, EventsShow
    <3> HIDE DEF l
    <3>3. Yields(AnthropicView, c, Piece(x), <<>>, 0, NoText)
      BY <3>1, <3>2, YieldsThree
    <3>4. Yields(AnthropicView, c, Piece(x), <<>>, n, NoText)
      BY <3>3, PieceOfNothing DEF Yields
    <3> QED
      BY <3>4 DEF c
  <2> QED
    BY <2>4, <2>5
<1>4. Yields(AnthropicView, ArgumentChunk(n, x), <<>>, <<>>, n, x)
  <2> DEFINE c == ArgumentChunk(n, x)
  <2>1. c \in Line
    BY <1>1, ChunksShow DEF Shows
  <2>2. c.kind = "data" /\ c.role = "" /\ c.text = "" /\ c.id = "" /\ c.args = x /\ c.stop = ""
        /\ c.index = n
    BY DEF ArgumentChunk, Blank
  <2> HIDE DEF c
  <2>3. AnthropicView[c] = If(x # "", <<ArgumentPassed(n, x)>>)
    BY <1>2, <2>1, <2>2, AnthropicSays
  <2>4. CASE x = ""
    <3>1. AnthropicView[c] = <<>> /\ Piece(x) = <<>>
      BY <2>3, <2>4 DEF If, Piece
    <3>2. Yields(AnthropicView, c, <<>>, <<>>, n, NoText)
      BY <3>1, YieldsNothing
    <3>3. Yields(AnthropicView, c, <<>>, <<>>, n, x)
      BY <3>1, <3>2, PieceOfNothing DEF Yields
    <3> QED
      BY <3>3 DEF c
  <2>5. CASE x # ""
    <3> DEFINE l == ArgumentPassed(n, x)
    <3>1. AnthropicView[c] = <<l>>
      BY <2>3, <2>5 DEF If
    <3>2. Shows(l, <<>>, <<>>, n, x)
      BY <1>1, EventsShow
    <3> HIDE DEF l
    <3>3. Yields(AnthropicView, c, <<>>, <<>>, n, x)
      BY <3>1, <3>2, YieldsOne
    <3> QED
      BY <3>3 DEF c
  <2> QED
    BY <2>4, <2>5
<1>5. ASSUME bl.id # ""
      PROVE  Yields(AnthropicView, ToolChunk(n, bl), <<>>, <<Named(bl)>>, n, NoText)
  <2> DEFINE c == ToolChunk(n, bl)
             u == <<Named(bl)>>
  <2>1. c \in Line
    <3>1. c = ToolNamed(n, bl.id, bl.name)
      BY DEF ToolChunk, ToolNamed
    <3> QED
      BY <1>1, <3>1, ChunksShow DEF Shows
  <2>2. c.kind = "data" /\ c.role = "" /\ c.text = "" /\ c.id = bl.id /\ c.name = bl.name
        /\ c.args = "" /\ c.stop = "" /\ c.index = n
    BY DEF ToolChunk, Blank
  <2> HIDE DEF c
  <2>3. AnthropicView[c] = If(bl.id # "", <<ToolOpened(n, bl.id, bl.name)>>)
    BY <1>2, <2>1, <2>2, AnthropicSays
  <2> DEFINE l == ToolOpened(n, bl.id, bl.name)
  <2>4. AnthropicView[c] = <<l>>
    BY <1>5, <2>3 DEF If
  <2>5. Shows(l, <<>>, u, n, NoText)
    BY <1>1, EventsShow DEF Named
  <2> HIDE DEF l, u
  <2>6. Yields(AnthropicView, c, <<>>, u, n, NoText)
    BY <2>4, <2>5, YieldsOne
  <2> QED
    BY <2>6 DEF c, u
<1> QED
  BY <1>3, <1>4, <1>5

Identified(m) == \A i \in DOMAIN m.blocks : m.blocks[i].type = "tool_use" => m.blocks[i].id # ""

LEMMA AnthropicBlock ==
    ASSUME NEW m, m.blocks \in Seq(Block), Identified(m), NEW i \in DOMAIN m.blocks
    PROVE  Gives(AnthropicView, ChunksOf(m, i), Pieces(SaidIn(m.blocks[i])), AskedIn(m.blocks[i]),
                 Nth(m, i), Pieces(ArgsIn(m.blocks[i])))
<1> DEFINE bl == m.blocks[i]
           p == bl.text
           n == Nth(m, i)
           c == ToolChunk(n, bl)
           a == ArgumentChunks(n, p)
           t == TextChunks(p)
<1>1. bl \in Block /\ i \in Nat
  OBVIOUS
<1>2. p \in Seq(Word) /\ (bl.type = "tool_use" => bl.id # "")
      /\ (bl.type = "text" \/ bl.type = "tool_use" \/ bl.type = "thinking")
  BY <1>1 DEF Block, Identified
<1>3. n \in Nat /\ n \in Int
  BY <1>1, NthIsNat
<1>4. IsView(AnthropicView, Line, Line)
  BY AnthropicViewIs
<1>5. ChunksOf(m, i) = IF bl.type = "thinking" THEN <<>>
                       ELSE IF bl.type = "text" THEN t ELSE <<c>> \o a
  BY DEF ChunksOf
<1>6. t \in Seq(Line) /\ Len(t) = Len(p) /\ a \in Seq(Line) /\ Len(a) = Len(p) /\ c \in Line
  <2>1. t \in Seq(Line) /\ Len(t) = Len(p) /\ a \in Seq(Line) /\ Len(a) = Len(p)
    BY <1>2, <1>3, ChunksAreLines
  <2>2. c \in Line
    BY <1>1, <1>3, ToolChunkIsLine
  <2> QED
    BY <2>1, <2>2
<1>7. \A k \in 1 .. Len(p) : p[k] \in Word /\ t[k] = TextChunk(p[k]) /\ a[k] = ArgumentChunk(n, p[k])
  <2>1. \A k \in 1 .. Len(p) : p[k] \in Word
    BY <1>2, ElementOfSeq
  <2>2. p \in Seq(Word)
    BY <1>2
  <2> HIDE DEF p, n
  <2>3. DOMAIN p = 1 .. Len(p)
    BY <2>2
  <2> QED
    BY <2>1, <2>3 DEF TextChunks, TextChunk, ArgumentChunks, ArgumentChunk
<1>8. CASE bl.type = "text"
  <2>1. \A k \in 1 .. Len(p) : Yields(AnthropicView, t[k], Piece(p[k]), <<>>, n, NoText)
    BY <1>1, <1>3, <1>7, AnthropicYields
  <2>2. SaidIn(bl) = p /\ AskedIn(bl) = <<>> /\ Pieces(ArgsIn(bl)) = <<>>
    BY <1>8, PiecesAre DEF SaidIn, AskedIn, ArgsIn
  <2> HIDE DEF bl, p, n, t
  <2>3. Gives(AnthropicView, t, Pieces(p), <<>>, n, <<>>)
    BY <1>2, <1>4, <1>6, <2>1, GivesTexts
  <2>4. ChunksOf(m, i) = t
    BY <1>5, <1>8
  <2> QED
    BY <2>2, <2>3, <2>4 DEF bl, n
<1>9. CASE bl.type = "tool_use"
  <2>1. \A k \in 1 .. Len(p) : Yields(AnthropicView, a[k], <<>>, <<>>, n, p[k])
    BY <1>1, <1>3, <1>7, AnthropicYields
  <2>2. Pieces(SaidIn(bl)) = <<>> /\ AskedIn(bl) = <<Named(bl)>> /\ ArgsIn(bl) = p
    BY <1>9, PiecesAre DEF SaidIn, AskedIn, ArgsIn, Named
  <2>3. Yields(AnthropicView, c, <<>>, <<Named(bl)>>, n, NoText)
    <3>1. "" \in Word
      BY DEF Word
    <3> QED
      BY <1>1, <1>2, <1>3, <1>9, <3>1, AnthropicYields
  <2> DEFINE u == <<Named(bl)>>
             q == Pieces(p)
             none == <<>>
  <2>4. u \in Seq(CalledTool)
    <3>1. Named(bl) \in CalledTool
      BY <1>1 DEF Named, Block, CalledTool
    <3> QED
      BY <3>1, OneOrNone
  <2>5. q \in Seq(Word)
    BY <1>2, PiecesAre
  <2>6. none \o none = none /\ u \o none = u /\ none \o q = q
    BY <2>4, <2>5, ConcatEmptySeq
  <2> HIDE DEF bl, p, n, a, c, u
  <2>7. Gives(AnthropicView, a, none, none, n, q)
    BY <1>2, <1>4, <1>6, <2>1, GivesArguments
  <2>8. Gives(AnthropicView, <<c>>, none, u, n, none)
    <3>1. Gives(AnthropicView, <<c>>, <<>>, u, n, Piece(NoText))
      BY <1>4, <1>6, <2>3, GivesOne DEF u
    <3> QED
      BY <3>1, PieceOfNothing
  <2> DEFINE x == <<c>>
  <2>9. x \in Seq(Line)
    BY <1>6, OneOrNone
  <2>10. ChunksOf(m, i) = x \o a
    BY <1>5, <1>9
  <2> HIDE DEF x, q, none
  <2>11. Gives(AnthropicView, x \o a, none \o none, u \o none, n, none \o q)
    BY <1>4, <1>6, <2>7, <2>8, <2>9, GivesTogether DEF x
  <2> QED
    BY <2>2, <2>6, <2>10, <2>11 DEF q, u, n, bl, none, p
<1>10. CASE bl.type = "thinking"
  <2>1. ChunksOf(m, i) = <<>>
    BY <1>5, <1>10
  <2>2. Pieces(SaidIn(bl)) = <<>> /\ AskedIn(bl) = <<>> /\ Pieces(ArgsIn(bl)) = <<>>
    BY <1>10, PiecesAre DEF SaidIn, AskedIn, ArgsIn
  <2>3. <<>> \in Seq(Line) /\ Len(<<>>) = 0
    OBVIOUS
  <2>4. Gives(AnthropicView, <<>>, <<>>, <<>>, n, <<>>)
    <3> DEFINE none == <<>>
    <3>1. none \in Seq(Line) /\ \A k \in 1 .. Len(none) :
            Yields(AnthropicView, none[k], <<>>, <<>>, n, NoText)
      BY <2>3
    <3> HIDE DEF none, n
    <3>2. Gives(AnthropicView, none, <<>>, <<>>, n, <<>>)
      BY <1>4, <3>1, GivesNothing
    <3> QED
      BY <3>2 DEF none
  <2> QED
    BY <2>1, <2>2, <2>4
<1> QED
  BY <1>2, <1>8, <1>9, <1>10

-----------------------------------------------------------------------------
(* A whole message, translated.                                            *)

LEMMA TwoParted == ASSUME NEW S, NEW x \in S, NEW y \in S PROVE <<x, y>> = <<x>> \o <<y>>
<1> DEFINE a == <<x>>
           b == <<y>>
           c == a \o b
           d == <<x, y>>
<1>1. a \in Seq(S) /\ b \in Seq(S) /\ Len(a) = 1 /\ Len(b) = 1 /\ a[1] = x /\ b[1] = y
  OBVIOUS
<1>2. d \in Seq(S) /\ Len(d) = 2 /\ d[1] = x /\ d[2] = y
  OBVIOUS
<1> HIDE DEF a, b, d
<1>3. c \in Seq(S) /\ Len(c) = 2 /\ c[1] = x /\ c[2] = y
  BY <1>1, ConcatProperties
<1> HIDE DEF c
<1>4. \A i \in 1 .. 2 : i = 1 \/ i = 2
  OBVIOUS
<1>5. \A i \in 1 .. 2 : c[i] = d[i]
  BY <1>2, <1>3, <1>4
<1>6. c = d
  BY <1>2, <1>3, <1>5, SeqEqual
<1> QED
  BY <1>6 DEF a, b, c, d

LEMMA WholeGathered ==
    ASSUME NEW R, NEW h, IsView(h, Line, R), NEW ss \in Seq(Seq(Line)),
           NEW first \in Line, NEW final \in Line, NEW end \in Line, h[first] = <<>>, h[end] = <<>>
    PROVE  Gathered(h, <<first>> \o FlattenSeq(ss) \o <<final, end>>)
             = FlattenSeq(GatheredEach(h, ss)) \o h[final]
<1> DEFINE a == <<first>>
           b == FlattenSeq(ss)
           c == <<final>>
           d == <<end>>
           e == <<final, end>>
           none == <<>>
           B == Gathered(h, b)
           C == h[final]
<1>1. a \in Seq(Line) /\ c \in Seq(Line) /\ d \in Seq(Line) /\ e \in Seq(Line)
  BY OneOrNone, OneOrTwo
<1>2. e = c \o d
  BY TwoParted
<1>0. \A x, y \in Seq(Line) : Gathered(h, x \o y) = Gathered(h, x) \o Gathered(h, y)
  BY GatheredParted
<1>3. b \in Seq(Line)
  BY FlattenInSeq
<1>4. Gathered(h, a) = none /\ Gathered(h, c) = C /\ Gathered(h, d) = none
  BY GatheredOne
<1>5. B \in Seq(R)
  BY <1>3, GatheredType
<1>6. C \in Seq(R)
  BY ViewAt
<1>7. B = FlattenSeq(GatheredEach(h, ss))
  BY GatheredFlattened
<1>8. none \o B = B /\ C \o none = C
  BY <1>5, <1>6, ConcatEmptySeq
<1> HIDE DEF a, b, c, d, e, none, C
<1>9. a \o b \in Seq(Line)
  BY <1>1, <1>3, ConcatProperties
<1>10. Gathered(h, a \o b) = Gathered(h, a) \o B
  BY <1>1, <1>3, <1>0
<1>11. Gathered(h, c \o d) = Gathered(h, c) \o Gathered(h, d)
  BY <1>1, <1>0
<1>12. Gathered(h, (a \o b) \o e) = Gathered(h, a \o b) \o Gathered(h, e)
  BY <1>1, <1>9, <1>0
<1>13. Gathered(h, (a \o b) \o e) = B \o C
  BY <1>2, <1>4, <1>8, <1>10, <1>11, <1>12
<1> QED
  BY <1>7, <1>13 DEF a, b, e, C

LEMMA SaidTogether ==
    ASSUME NEW B \in Seq(Block)
    PROVE  FlattenSeq([i \in DOMAIN B |-> Pieces(SaidIn(B[i]))]) = Pieces(TextIn(B))
<1> DEFINE ss == [i \in DOMAIN B |-> SaidIn(B[i])]
           n == Len(B)
<1>1. n \in Nat /\ DOMAIN B = 1 .. n /\ \A i \in 1 .. n : SaidIn(B[i]) \in Seq(Word)
  <2>1. \A i \in 1 .. n : B[i] \in Block
    BY ElementOfSeq
  <2>2. \A x \in Block : SaidIn(x) \in Seq(Word)
    BY DEF Block, SaidIn
  <2>3. n \in Nat /\ DOMAIN B = 1 .. n
    OBVIOUS
  <2> QED
    BY <2>1, <2>2, <2>3
<1>2. ss = [i \in 1 .. n |-> ss[i]] /\ DOMAIN ss = 1 .. n /\ \A i \in 1 .. n : ss[i] = SaidIn(B[i])
  BY <1>1
<1>3. TextIn(B) = FlattenSeq(ss)
  BY DEF TextIn, If, SaidIn
<1> HIDE DEF ss, n
<1>4. ss \in Seq(Seq(Word))
  BY <1>1, <1>2, SeqOfFunction
<1>5. FlattenSeq(ss) \in Seq(Word)
  BY <1>4, FlattenInSeq
<1>6. Pieces(FlattenSeq(ss)) = Gathered(PieceView, FlattenSeq(ss))
  BY <1>5, PiecesAre
<1>7. Gathered(PieceView, FlattenSeq(ss)) = FlattenSeq(GatheredEach(PieceView, ss))
  BY <1>4, PiecesAre, GatheredFlattened
<1>8. GatheredEach(PieceView, ss) = [i \in DOMAIN B |-> Pieces(SaidIn(B[i]))]
  <2>1. \A i \in 1 .. n : Gathered(PieceView, ss[i]) = Pieces(SaidIn(B[i]))
    BY <1>1, <1>2, PiecesAre
  <2> QED
    BY <1>1, <1>2, <2>1 DEF GatheredEach
<1> QED
  BY <1>3, <1>6, <1>7, <1>8

\* Every part of a message gives what its block says.
PartsGive(g, B, ss, asked, ix) ==
    /\ asked = [i \in DOMAIN B |-> asked[i]] /\ \A i \in DOMAIN B : ix[i] \in Int
    /\ \A i \in DOMAIN B :
      Gives(g, ss[i], Pieces(SaidIn(B[i])), asked[i], ix[i], Pieces(ArgsIn(B[i])))

\* The ends of a message say nothing else.
EndsSay(g, first, final, end, marks) ==
    /\ first \in Line /\ final \in Line /\ end \in Line
    /\ Yields(g, first, <<>>, <<>>, 0, NoText) /\ Yields(g, end, <<>>, <<>>, 0, NoText)
    /\ Gathered(TextView, g[final]) = <<>> /\ Gathered(ToolView, g[final]) = <<>>
    /\ Gathered(MarkView, g[final]) = marks
    /\ \A j \in Int : Gathered(ArgsView(j), g[final]) = <<>>

\* The events of a message.
MessageEvents(first, ss, final, end) == <<first>> \o FlattenSeq(ss) \o <<final, end>>

\* The arguments of a tool are found by an index that no other tool has.
FoundByIndex(z, B, ix) ==
    \A j \in DOMAIN B :
      (\A i \in DOMAIN B : i # j => ix[i] # ix[j] \/ B[i].type # "tool_use")
        => Gathered(ArgsView(ix[j]), z) = Pieces(ArgsIn(B[j]))

\* A translated message, from what its blocks translate to: texts, tools and marks follow one
\* another, and the arguments of a block are found at its index, which no other tool has.
LEMMA MessageGives ==
    ASSUME NEW g, IsView(g, Line, Line), NEW B \in Seq(Block), NEW ss \in Seq(Seq(Line)), Len(ss) = Len(B),
           NEW asked, NEW ix, PartsGive(g, B, ss, asked, ix),
           NEW first, NEW final, NEW end, NEW marks, EndsSay(g, first, final, end, marks),
           NEW whole, whole = Gathered(g, MessageEvents(first, ss, final, end))
    PROVE  /\ whole \in Seq(Line)
           /\ Gathered(TextView, whole) = Pieces(TextIn(B))
           /\ Gathered(ToolView, whole) = FlattenSeq(asked)
           /\ Gathered(MarkView, whole) = marks
           /\ FoundByIndex(whole, B, ix)
<1> DEFINE E == <<first>> \o FlattenSeq(ss) \o <<final, end>>
           n == Len(B)
           T == Via(TextView, g)
           U == Via(ToolView, g)
           M == Via(MarkView, g)
           A(j) == Via(ArgsView(j), g)
<1>0. /\ whole = Gathered(g, E)
      /\ asked = [i \in DOMAIN B |-> asked[i]] /\ \A i \in DOMAIN B : ix[i] \in Int
  BY DEF MessageEvents, PartsGive
<1>1. n \in Nat /\ DOMAIN B = 1 .. n /\ DOMAIN ss = 1 .. n /\ \A i \in 1 .. n : ss[i] \in Seq(Line)
  OBVIOUS
<1>2. first \in Line /\ final \in Line /\ end \in Line
  BY DEF EndsSay
<1>3. E \in Seq(Line)
  <2>1. <<first>> \in Seq(Line) /\ <<final, end>> \in Seq(Line)
    BY <1>2, OneOrTwo
  <2>2. FlattenSeq(ss) \in Seq(Line)
    BY FlattenInSeq
  <2> QED
    BY <2>1, <2>2, ConcatProperties
<1>4. /\ T[first] = <<>> /\ U[first] = <<>> /\ M[first] = <<>> /\ \A j \in Int : A(j)[first] = <<>>
      /\ T[end] = <<>> /\ U[end] = <<>> /\ M[end] = <<>> /\ \A j \in Int : A(j)[end] = <<>>
  <2>1. Yields(g, first, <<>>, <<>>, 0, NoText) /\ Yields(g, end, <<>>, <<>>, 0, NoText)
    BY DEF EndsSay
  <2> QED
    BY <1>2, <2>1, YieldsVia, PieceOfNothing
<1>5. /\ T[final] = <<>> /\ U[final] = <<>> /\ M[final] = marks
      /\ \A j \in Int : A(j)[final] = <<>>
  BY <1>2, ViaAt DEF EndsSay
<1>6. /\ IsView(T, Line, Word) /\ IsView(U, Line, CalledTool) /\ IsView(M, Line, Line)
      /\ \A j \in Int : IsView(A(j), Line, Word)
  BY ViasAre
<1>7. whole \in Seq(Line)
  BY <1>0, <1>3, GatheredType
<1>8. /\ Gathered(TextView, whole) = Gathered(T, E) /\ Gathered(ToolView, whole) = Gathered(U, E)
      /\ Gathered(MarkView, whole) = Gathered(M, E)
      /\ \A j \in Int : Gathered(ArgsView(j), whole) = Gathered(A(j), E)
  <2>1. \A R, f : IsView(f, Line, R) => Gathered(f, Gathered(g, E)) = Gathered(Via(f, g), E)
    <3> HIDE DEF E
    <3> SUFFICES ASSUME NEW R, NEW f, IsView(f, Line, R)
                 PROVE  Gathered(f, Gathered(g, E)) = Gathered(Via(f, g), E)
      OBVIOUS
    <3> QED
      BY <1>3, GatheredTwice
  <2> QED
    BY <1>0, <2>1, ViewsAre, ArgsViewIs
<1>9. \A i \in 1 .. n : Gives(g, ss[i], Pieces(SaidIn(B[i])), asked[i], ix[i], Pieces(ArgsIn(B[i])))
  BY <1>1 DEF PartsGive
<1> HIDE DEF T, U, M, A, n
<1>10. ASSUME NEW R, NEW h, IsView(h, Line, R), h[first] = <<>>, h[end] = <<>>
       PROVE  Gathered(h, E) = FlattenSeq(GatheredEach(h, ss)) \o h[final]
  BY <1>2, <1>10, WholeGathered
<1>11. ASSUME NEW R, NEW h, IsView(h, Line, R)
       PROVE  /\ GatheredEach(h, ss) \in Seq(Seq(R)) /\ Len(GatheredEach(h, ss)) = n
              /\ GatheredEach(h, ss) = [i \in 1 .. n |-> GatheredEach(h, ss)[i]]
              /\ \A i \in 1 .. n : GatheredEach(h, ss)[i] = Gathered(h, ss[i])
  <2> DEFINE c == GatheredEach(h, ss)
  <2>1. c = [i \in 1 .. n |-> c[i]] /\ \A i \in 1 .. n : c[i] = Gathered(h, ss[i])
    BY <1>1 DEF GatheredEach
  <2>2. \A i \in 1 .. n : Gathered(h, ss[i]) \in Seq(R)
    BY <1>1, <1>11, GatheredType
  <2> HIDE DEF c
  <2>3. n \in Nat /\ c = [i \in 1 .. n |-> c[i]] /\ \A i \in 1 .. n : c[i] \in Seq(R)
    BY <1>1, <2>1, <2>2
  <2>4. c \in Seq(Seq(R)) /\ Len(c) = n
    BY ONLY <2>3, SeqOfFunction
  <2> QED
    BY <2>1, <2>4 DEF c
<1>12. ASSUME NEW R, NEW h, IsView(h, Line, R) PROVE FlattenSeq(GatheredEach(h, ss)) \in Seq(R)
  <2>1. GatheredEach(h, ss) \in Seq(Seq(R))
    BY <1>11, <1>12
  <2> QED
    BY <2>1, FlattenInSeq
<1>13. Gathered(T, E) = Pieces(TextIn(B))
  <2>1. GatheredEach(T, ss) = [i \in DOMAIN B |-> Pieces(SaidIn(B[i]))]
    <3>1. \A i \in 1 .. n : Gathered(T, ss[i]) = Pieces(SaidIn(B[i]))
      BY <1>9 DEF Gives, T
    <3> QED
      BY <1>1, <3>1 DEF GatheredEach
  <2>2. Gathered(T, E) = FlattenSeq(GatheredEach(T, ss)) \o <<>>
    BY <1>4, <1>5, <1>6, <1>10
  <2>3. FlattenSeq(GatheredEach(T, ss)) \in Seq(Word)
    BY <1>6, <1>12
  <2>4. FlattenSeq(GatheredEach(T, ss)) \o <<>> = FlattenSeq(GatheredEach(T, ss))
    BY <2>3, ConcatEmptySeq
  <2> QED
    BY <2>1, <2>2, <2>4, SaidTogether
<1>14. Gathered(U, E) = FlattenSeq(asked)
  <2>1. GatheredEach(U, ss) = asked
    <3>1. \A i \in 1 .. n : Gathered(U, ss[i]) = asked[i]
      BY <1>9 DEF Gives, U
    <3> QED
      BY <1>0, <1>1, <3>1 DEF GatheredEach
  <2>2. Gathered(U, E) = FlattenSeq(GatheredEach(U, ss)) \o <<>>
    BY <1>4, <1>5, <1>6, <1>10
  <2>3. FlattenSeq(GatheredEach(U, ss)) \in Seq(CalledTool)
    BY <1>6, <1>12
  <2>4. FlattenSeq(GatheredEach(U, ss)) \o <<>> = FlattenSeq(GatheredEach(U, ss))
    BY <2>3, ConcatEmptySeq
  <2> QED
    BY <2>1, <2>2, <2>4
<1>15. Gathered(M, E) = marks
  <2>1. GatheredEach(M, ss) = [i \in 1 .. n |-> <<>>] /\ DOMAIN GatheredEach(M, ss) = 1 .. n
    <3>1. \A i \in 1 .. n : Gathered(M, ss[i]) = <<>>
      BY <1>9 DEF Gives, M
    <3> QED
      BY <1>1, <3>1 DEF GatheredEach
  <2> DEFINE c == GatheredEach(M, ss)
  <2>2. Gathered(M, E) = FlattenSeq(c) \o marks
    BY <1>4, <1>5, <1>6, <1>10
  <2>3. FlattenSeq(c) = <<>>
    <3> HIDE DEF c
    <3> QED
      BY <1>1, <2>1, PutTogetherNothing DEF c
  <2>4. marks \in Seq(Line)
    BY <1>2, <1>5, <1>6, ViewAt
  <2>5. <<>> \o marks = marks
    BY <2>4, ConcatEmptySeq
  <2> QED
    BY <2>2, <2>3, <2>5
<1>16. ASSUME NEW j \in DOMAIN B, \A i \in DOMAIN B : i # j => ix[i] # ix[j] \/ B[i].type # "tool_use"
       PROVE  Gathered(ArgsView(ix[j]), whole) = Pieces(ArgsIn(B[j]))
  <2> DEFINE x == ix[j]
             h == A(x)
             c == GatheredEach(h, ss)
  <2>1. x \in Int /\ j \in 1 .. n
    BY <1>0, <1>1
  <2>2. IsView(h, Line, Word) /\ h[first] = <<>> /\ h[end] = <<>> /\ h[final] = <<>>
    BY <1>4, <1>5, <1>6, <2>1
  <2>3. \A i \in 1 .. n : Gathered(h, ss[i]) = IF x = ix[i] THEN Pieces(ArgsIn(B[i])) ELSE <<>>
    BY <1>9, <2>1 DEF Gives, A
  <2> HIDE DEF h
  <2>4. c \in Seq(Seq(Word)) /\ Len(c) = n /\ \A i \in 1 .. n : c[i] = Gathered(h, ss[i])
    BY <1>11, <2>2
  <2>5. ASSUME NEW i \in 1 .. n, i # j PROVE c[i] = <<>>
    <3>1. CASE ix[i] # x
      BY <2>3, <2>4, <3>1
    <3>2. CASE B[i].type # "tool_use"
      <4>1. Pieces(ArgsIn(B[i])) = <<>>
        BY <3>2, PiecesAre DEF ArgsIn
      <4> QED
        BY <2>3, <2>4, <4>1
    <3> QED
      BY <1>1, <1>16, <2>5, <3>1, <3>2
  <2>6. c[j] = Pieces(ArgsIn(B[j]))
    BY <2>1, <2>3, <2>4
  <2>7. Gathered(h, E) = FlattenSeq(c) \o <<>>
    BY <1>10, <2>2
  <2> HIDE DEF c
  <2>8. FlattenSeq(c) = c[j]
    <3>1. j \in 1 .. Len(c) /\ \A i \in 1 .. Len(c) : i # j => c[i] = <<>>
      BY <2>1, <2>4, <2>5
    <3> QED
      BY <2>4, <3>1, FlattenOnly
  <2>9. c[j] \o <<>> = c[j]
    <3>1. c[j] \in Seq(Word)
      BY <2>1, <2>4, ElementOfSeq
    <3> QED
      BY <3>1, ConcatEmptySeq
  <2> QED
    BY <1>8, <2>1, <2>6, <2>7, <2>8, <2>9 DEF h
<1> QED
  BY <1>7, <1>8, <1>13, <1>14, <1>15, <1>16 DEF FoundByIndex

-----------------------------------------------------------------------------
(* What a client of the OpenAI protocol collects.                          *)

Sent(m) == m.blocks \in Seq(Block) /\ m.stop \in Word /\ m.usage \in Usage /\ Identified(m)

LEMMA OriginalsAre == ASSUME NEW m \in Originals PROVE Sent(m)
<1> DEFINE B == m.blocks
           Given == [type : {"text", "tool_use", "thinking"}, id : STRING, name : STRING,
                     text : Seq(STRING)]
<1>1. B \in Seq(Given) /\ m.stop \in STRING /\ m.usage \in Usage
  BY TranslateAssumption DEF Usage
<1>2. \A W : STRING \subseteq W => Seq(STRING) \subseteq Seq(W)
  BY SeqMonotonic
<1>3. STRING \subseteq Word
  BY DEF Word
<1>4. Given \subseteq Block
  <2> SUFFICES ASSUME NEW x \in Given PROVE x \in Block
    OBVIOUS
  <2>1. x.text \in Seq(Word) /\ x.id \in Word /\ x.name \in Word
    BY <1>2, <1>3
  <2> QED
    BY <2>1 DEF Block
<1> HIDE DEF Given
<1>5. B \in Seq(Block)
  BY <1>1, <1>4, SeqMonotonic
<1>6. Identified(m)
  BY TranslateAssumption DEF Identified
<1> QED
  BY <1>1, <1>3, <1>5, <1>6 DEF Sent

\* The usage that is passed on to the OpenAI protocol.
PassedUsage(m) ==
    [input |-> IF m.early THEN 0 ELSE m.usage.input, output |-> m.usage.output,
     cached |-> m.usage.cached, created |-> 0]

LEMMA PassedIs ==
    ASSUME NEW m, m.usage \in Usage
    PROVE  [m.usage EXCEPT !.input = IF m.early THEN 0 ELSE @, !.created = 0] = PassedUsage(m)
<1> DEFINE g == m.usage
           x == IF m.early THEN 0 ELSE g.input
           h == [g EXCEPT !.input = x]
<1>1. h = [input |-> x, output |-> g.output, cached |-> g.cached, created |-> g.created]
  BY InputReplaced
<1> HIDE DEF h
<1>2. [h EXCEPT !.created = 0]
        = [input |-> x, output |-> g.output, cached |-> g.cached, created |-> 0]
  BY <1>1
<1> QED
  BY <1>2 DEF h, PassedUsage

LEMMA FinalIs ==
    ASSUME NEW m, Sent(m)
    PROVE  LET f == FinalChunk(Final(m)) IN
           /\ f.kind = "data" /\ f.type = "" /\ f.text = "" /\ f.args = ""
           /\ f.stop = FinishReason(m.stop) /\ f.output # NotGiven
           /\ Counted(f, NoUsage) = PassedUsage(m)
<1> DEFINE e == Final(m)
           f == FinalChunk(e)
           g == m.usage
           input == IF m.early THEN NotGiven ELSE g.input
<1>1. /\ e.stop = m.stop /\ e.output = g.output /\ e.cached = g.cached /\ e.input = input
  BY DEF Final, Data, Blank
<1>2. g.input \in Nat /\ g.output \in Nat /\ g.cached \in Nat /\ g \in Usage
  BY DEF Sent, Usage
<1>3. g.input # NotGiven /\ g.output # NotGiven /\ g.cached # NotGiven /\ 0 # NotGiven
  BY <1>2, NotGivenIsNone
<1> HIDE DEF e, g
<1>4. {e.input, e.output, e.cached, e.created} # {NotGiven}
  BY <1>1, <1>3
<1>5. f = [[Blank EXCEPT !.stop = FinishReason(m.stop)]
             EXCEPT !.input = TokensOr0(e.input), !.output = TokensOr0(e.output),
                    !.cached = IF e.cached > 0 THEN e.cached ELSE NotGiven]
  BY <1>1, <1>4 DEF FinalChunk
<1>6. /\ f.kind = "data" /\ f.type = "" /\ f.text = "" /\ f.args = ""
      /\ f.stop = FinishReason(m.stop) /\ f.input = TokensOr0(e.input)
      /\ f.output = TokensOr0(e.output)
      /\ f.cached = IF e.cached > 0 THEN e.cached ELSE NotGiven
      /\ f.created = NotGiven
  BY <1>5 DEF Blank
<1> HIDE DEF f
<1>7. f.output = g.output
  BY <1>1, <1>3, <1>6 DEF TokensOr0
<1>8. Taken(f.input, 0) = IF m.early THEN 0 ELSE g.input
  BY <1>1, <1>3, <1>6 DEF TokensOr0, Taken
<1>9. Taken(f.output, 0) = g.output
  BY <1>3, <1>7 DEF Taken
<1>10. Taken(f.cached, 0) = g.cached
  <2>1. CASE g.cached > 0
    BY <1>1, <1>3, <1>6, <2>1 DEF Taken
  <2>2. CASE ~ (g.cached > 0)
    <3>1. g.cached = 0
      BY <1>2, <2>2
    <3> QED
      BY <1>1, <1>6, <2>2, <3>1 DEF Taken
  <2> QED
    BY <2>1, <2>2
<1>11. Counted(f, NoUsage) = [input |-> IF m.early THEN 0 ELSE g.input,
                             output |-> g.output, cached |-> g.cached, created |-> 0]
  BY <1>6, <1>8, <1>9, <1>10 DEF Counted, NoUsage, Taken
<1>13. PassedUsage(m) = Counted(f, NoUsage)
  BY <1>11 DEF PassedUsage, g
<1> QED
  BY <1>3, <1>6, <1>7, <1>13 DEF f, e

\* Of one line that tells the end, its mark.
Marks(l) ==
    /\ l \in Line /\ Telling(l) /\ TextOn(l) = <<>> /\ ToolOn(l) = <<>>
    /\ Piece(l.args) = <<>>

LEMMA MarksGathered ==
    ASSUME NEW l, Marks(l)
    PROVE  /\ Gathered(TextView, <<l>>) = <<>> /\ Gathered(ToolView, <<l>>) = <<>>
           /\ Gathered(MarkView, <<l>>) = <<l>>
           /\ \A j \in Int : Gathered(ArgsView(j), <<l>>) = <<>>
<1>1. l \in Line
  BY DEF Marks
<1>2. /\ TextView[l] = <<>> /\ ToolView[l] = <<>> /\ MarkView[l] = <<l>>
      /\ \A j : ArgsView(j)[l] = <<>>
  <2>1. MarkOn(l) = <<l>> /\ \A j : ArgsOn(l, j) = <<>>
    BY DEF Marks, MarkOn, ArgsOn
  <2> QED
    BY <1>1, <2>1, ViewsAt DEF Marks
<1>3. /\ Gathered(TextView, <<l>>) = TextView[l] /\ Gathered(ToolView, <<l>>) = ToolView[l]
      /\ Gathered(MarkView, <<l>>) = MarkView[l]
      /\ \A j \in Int : Gathered(ArgsView(j), <<l>>) = ArgsView(j)[l]
  BY <1>1, ViewsAre, ArgsViewIs, GatheredOne
<1> QED
  BY <1>2, <1>3

LEMMA MuteYields ==
    ASSUME NEW g, NEW e, NEW l, g[e] = <<l>>, Mute(l), l.index = 0
    PROVE  Yields(g, e, <<>>, <<>>, 0, NoText)
<1>1. Shows(l, <<>>, <<>>, 0, NoText)
  BY DEF Mute
<1> QED
  BY <1>1, YieldsOne

LEMMA OpenAIEnds ==
    ASSUME NEW m, Sent(m)
    PROVE  EndsSay(OpenAIView, First(m), Final(m), Stop, <<FinalChunk(Final(m))>>)
<1> DEFINE f == FinalChunk(Final(m))
<1>1. First(m) \in Line /\ Final(m) \in Line /\ Stop \in Line
  BY EndsAreLines DEF Sent
<1>2. /\ First(m).kind = "data" /\ First(m).type = "message_start"
      /\ Final(m).kind = "data" /\ Final(m).type = "message_delta"
      /\ Stop.kind = "data" /\ Stop.type = "message_stop"
  BY DEF First, Final, Stop, Data, Blank
<1>3. /\ OpenAIView[First(m)] = <<RoleChunk>> /\ OpenAIView[Final(m)] = <<f>>
      /\ OpenAIView[Stop] = <<QuotedEnd>>
  BY <1>1, <1>2, OpenAIOfIs, OpenAIViewIs
<1>4. Mute(RoleChunk) /\ Mute(QuotedEnd)
  <2>1. NoText \in Word /\ 0 \in Int
    BY DEF NoText, Word
  <2> QED
    BY <2>1, ChunksShow
<1>5. RoleChunk.index = 0 /\ QuotedEnd.index = 0
  BY DEF RoleChunk, QuotedEnd, Blank
<1>6. Marks(f)
  <2>1. f \in Line
    BY <1>1, FinalChunkIsLine
  <2>2. /\ f.kind = "data" /\ f.type = "" /\ f.text = "" /\ f.args = "" /\ f.output # NotGiven
    BY FinalIs
  <2> HIDE DEF f
  <2> QED
    BY <2>1, <2>2 DEF Marks, Telling, TextOn, ToolOn, Piece
<1> HIDE DEF f
<1>7. /\ Gathered(TextView, <<f>>) = <<>> /\ Gathered(ToolView, <<f>>) = <<>>
      /\ Gathered(MarkView, <<f>>) = <<f>>
      /\ \A j \in Int : Gathered(ArgsView(j), <<f>>) = <<>>
  BY <1>6, MarksGathered
<1>8. /\ Yields(OpenAIView, First(m), <<>>, <<>>, 0, NoText)
      /\ Yields(OpenAIView, Stop, <<>>, <<>>, 0, NoText)
  BY <1>3, <1>4, <1>5, MuteYields
<1> QED
  BY <1>1, <1>3, <1>7, <1>8 DEF EndsSay, f

-----------------------------------------------------------------------------
(* Its tools.                                                              *)

\* What ToolsAssembled says of the block b.
Assembled(z, b) ==
    \E i \in DOMAIN z :
        /\ z[i].id = b.id
        /\ FlattenSeq([k \in DOMAIN z |->
              IF z[k].index = z[i].index THEN Piece(z[k].args) ELSE <<>>])
           = Pieces(b.text)

Among(l, z) == \E k \in 1 .. Len(z) : z[k] = l

LEMMA AssembledByIndex ==
    ASSUME NEW z \in Seq(Line), NEW b, NEW l, Among(l, z),
           l.id = b.id, Gathered(ArgsView(l.index), z) = Pieces(b.text)
    PROVE  Assembled(z, b)
<1>1. PICK i \in 1 .. Len(z) : z[i] = l
  BY DEF Among
<1>2. DOMAIN z = 1 .. Len(z) /\ \A k \in DOMAIN z : z[k] \in Line
  <2>1. DOMAIN z = 1 .. Len(z)
    OBVIOUS
  <2>2. \A k \in 1 .. Len(z) : z[k] \in Line
    BY ElementOfSeq
  <2> QED
    BY <2>1, <2>2
<1> DEFINE parts == [k \in DOMAIN z |-> IF z[k].index = l.index THEN Piece(z[k].args) ELSE <<>>]
<1>3. Found(ArgsView(l.index), z) = parts
  <2>1. \A k \in DOMAIN z : ArgsView(l.index)[z[k]]
                              = IF z[k].index = l.index THEN Piece(z[k].args) ELSE <<>>
    BY <1>2, ViewsAt DEF ArgsOn
  <2> QED
    BY <2>1 DEF Found
<1>4. FlattenSeq(parts) = Pieces(b.text)
  BY <1>3 DEF Gathered
<1> QED
  BY <1>1, <1>2, <1>4 DEF Assembled

LEMMA ToolsInAre ==
    ASSUME NEW B \in Seq(Block), NEW b \in Range(ToolsIn(B))
    PROVE  \E j \in 1 .. Len(B) : B[j].type = "tool_use" /\ b = B[j]
<1> DEFINE S == {B[j] : j \in {i \in 1 .. Len(B) : B[i].type = "tool_use"}}
           n == Len(B)
           ss == [i \in DOMAIN B |-> If(B[i].type = "tool_use", <<B[i]>>)]
<1>1. n \in Nat /\ DOMAIN B = 1 .. n
  OBVIOUS
<1>2. ASSUME NEW i \in 1 .. n PROVE ss[i] \in Seq(S)
  <2>1. ss[i] = If(B[i].type = "tool_use", <<B[i]>>)
    BY <1>1
  <2>2. CASE B[i].type = "tool_use"
    <3>1. B[i] \in S
      BY <2>2
    <3> HIDE DEF S, ss
    <3>2. <<B[i]>> \in Seq(S)
      BY <3>1, OneOrNone
    <3> QED
      BY <2>1, <2>2, <3>2 DEF If
  <2>3. CASE B[i].type # "tool_use"
    BY <2>1, <2>3 DEF If
  <2> QED
    BY <2>2, <2>3
<1>3. ss = [i \in 1 .. n |-> ss[i]]
  BY <1>1
<1>4. FlattenSeq(ss) = ToolsIn(B)
  BY DEF ToolsIn
<1> HIDE DEF S, ss, n
<1>5. ss \in Seq(Seq(S))
  BY <1>1, <1>2, <1>3, SeqOfFunction
<1>6. ToolsIn(B) \in Seq(S)
  BY <1>4, <1>5, FlattenInSeq
<1>7. b \in S
  BY <1>6 DEF Range
<1> QED
  BY <1>7 DEF S

\* One of the events becomes the line l alone.
Passes(g, events, l) == \E j \in 1 .. Len(events) : g[events[j]] = <<l>>

\* A line that an event becomes is among the lines that come out.
LEMMA LinePassed ==
    ASSUME NEW g, IsView(g, Line, Line), NEW ss \in Seq(Seq(Line)),
           NEW first \in Line, NEW final \in Line, NEW end \in Line,
           NEW i \in 1 .. Len(ss), NEW l, Passes(g, ss[i], l),
           NEW z, z = Gathered(g, MessageEvents(first, ss, final, end))
    PROVE  Among(l, z)
<1> DEFINE a == <<first>>
           b == FlattenSeq(ss)
           c == <<final, end>>
           E == a \o b \o c
           F == Found(g, E)
<1>1. a \in Seq(Line) /\ c \in Seq(Line) /\ Len(a) = 1
  BY OneOrTwo
<1>2. b \in Seq(Line)
  BY FlattenInSeq
<1>3. PICK j \in 1 .. Len(ss[i]) : g[ss[i][j]] = <<l>>
  BY DEF Passes
<1>4. PICK k \in 1 .. Len(b) : b[k] = ss[i][j]
  BY FlattenHas
<1> DEFINE h == Len(a) + k
<1> HIDE DEF a, b, c
<1>5. Len(b) \in Nat /\ Len(c) \in Nat /\ Len(a) \in Nat
  BY <1>1, <1>2
<1>6. a \o b \in Seq(Line) /\ Len(a \o b) = Len(a) + Len(b) /\ (a \o b)[h] = b[k]
  <2>1. h \in 1 .. Len(a) + Len(b) /\ ~ (h <= Len(a)) /\ h - Len(a) = k
    BY <1>5
  <2> HIDE DEF h
  <2>2. \A x \in 1 .. Len(a) + Len(b) :
          (a \o b)[x] = IF x <= Len(a) THEN a[x] ELSE b[x - Len(a)]
    BY <1>1, <1>2, ConcatProperties
  <2>3. a \o b \in Seq(Line) /\ Len(a \o b) = Len(a) + Len(b)
    BY <1>1, <1>2, ConcatProperties
  <2> QED
    BY <2>1, <2>2, <2>3
<1>7. E \in Seq(Line) /\ Len(E) = Len(a) + Len(b) + Len(c) /\ E[h] = (a \o b)[h]
  <2>1. h \in 1 .. Len(a \o b) + Len(c) /\ h <= Len(a \o b)
    BY <1>5, <1>6
  <2> HIDE DEF h
  <2>2. E[h] = (a \o b)[h]
    BY <1>1, <1>6, <2>1, ConcatProperties
  <2>3. E \in Seq(Line) /\ Len(E) = Len(a \o b) + Len(c)
    BY <1>1, <1>6, ConcatProperties
  <2> QED
    BY <1>6, <2>2, <2>3
<1> HIDE DEF E
<1>8. h \in 1 .. Len(E) /\ E[h] = ss[i][j]
  <2>1. E[h] = ss[i][j]
    BY <1>4, <1>6, <1>7
  <2>2. h \in 1 .. Len(E)
    BY <1>5, <1>7
  <2> QED
    BY <2>1, <2>2
<1> HIDE DEF h
<1>9. F \in Seq(Seq(Line)) /\ Len(F) = Len(E)
  BY <1>7, GatheredParts
<1>10. F[h] = <<l>>
  <2>1. F[h] = g[E[h]]
    BY <1>7, <1>8, FoundAt
  <2> QED
    BY <1>3, <1>8, <2>1
<1>11. h \in 1 .. Len(F) /\ 1 \in 1 .. Len(F[h]) /\ F[h][1] = l
  BY <1>8, <1>9, <1>10
<1> HIDE DEF F
<1>12. \E x \in 1 .. Len(FlattenSeq(F)) : FlattenSeq(F)[x] = F[h][1]
  <2>1. \A y \in 1 .. Len(F[h]) : \E x \in 1 .. Len(FlattenSeq(F)) : FlattenSeq(F)[x] = F[h][y]
    BY <1>9, <1>11, FlattenHas
  <2> QED
    BY <1>11, <2>1
<1>13. z = FlattenSeq(F)
  BY DEF Gathered, MessageEvents, F, E, a, b, c
<1> QED
  BY <1>11, <1>12, <1>13 DEF Among

\* What is collected from z: the tools of m put together by the index ix.
TogetherIn(z, m) == \A b \in Range(ToolsIn(m.blocks)) : Assembled(z, b)

\* Each tool of B, its events being ss, becomes a line of its own, whose index its
\* arguments are found by.
Opens(g, B, ss, ls, ix) ==
    \A j \in DOMAIN B : B[j].type = "tool_use" =>
      /\ Passes(g, ss[j], ls[j]) /\ ls[j].id = B[j].id /\ ls[j].index = ix[j]
      /\ \A i \in DOMAIN B : i # j => ix[i] # ix[j] \/ B[i].type # "tool_use"

LEMMA PutTogetherIn ==
    ASSUME NEW m, m.blocks \in Seq(Block), NEW z \in Seq(Line),
           NEW g, IsView(g, Line, Line), NEW ss \in Seq(Seq(Line)), Len(ss) = Len(m.blocks),
           NEW first \in Line, NEW final \in Line, NEW end \in Line,
           z = Gathered(g, MessageEvents(first, ss, final, end)),
           NEW ix, FoundByIndex(z, m.blocks, ix), NEW ls, Opens(g, m.blocks, ss, ls, ix)
    PROVE  TogetherIn(z, m)
<1> DEFINE B == m.blocks
<1>1. DOMAIN B = 1 .. Len(ss) /\ DOMAIN B = 1 .. Len(B)
  OBVIOUS
<1>2. ASSUME NEW b \in Range(ToolsIn(B)) PROVE Assembled(z, b)
  <2>1. PICK j \in 1 .. Len(B) : B[j].type = "tool_use" /\ b = B[j]
    BY <1>2, ToolsInAre
  <2> DEFINE l == ls[j]
  <2>2. /\ Passes(g, ss[j], l) /\ l.id = b.id /\ l.index = ix[j] /\ j \in DOMAIN B
        /\ \A i \in DOMAIN B : i # j => ix[i] # ix[j] \/ B[i].type # "tool_use"
    BY <1>1, <2>1 DEF Opens
  <2>3. ArgsIn(b) = b.text
    BY <2>1 DEF ArgsIn
  <2>4. Gathered(ArgsView(l.index), z) = Pieces(b.text)
    BY <2>1, <2>2, <2>3 DEF FoundByIndex
  <2>5. j \in 1 .. Len(ss)
    BY <1>1, <2>2
  <2> HIDE DEF l, B
  <2>6. Among(l, z)
    BY <2>2, <2>5, LinePassed
  <2> QED
    BY <2>2, <2>4, <2>6, AssembledByIndex
<1> QED
  BY <1>2 DEF TogetherIn

LEMMA OpenedBy ==
    ASSUME NEW S, NEW o \in S, NEW mid \in Seq(S), NEW c \in S
    PROVE  Len(<<o>> \o mid \o <<c>>) > 0 /\ (<<o>> \o mid \o <<c>>)[1] = o
<1> DEFINE a == <<o>>
           b == a \o mid
           d == <<c>>
<1>1. a \in Seq(S) /\ Len(a) = 1 /\ a[1] = o /\ d \in Seq(S) /\ Len(d) = 1
  OBVIOUS
<1>2. Len(mid) \in Nat
  OBVIOUS
<1> HIDE DEF a, d
<1>3. b \in Seq(S) /\ Len(b) = 1 + Len(mid) /\ b[1] = o
  <2>1. 1 \in 1 .. Len(a) + Len(mid) /\ 1 <= Len(a)
    BY <1>1, <1>2
  <2>2. b \in Seq(S) /\ Len(b) = Len(a) + Len(mid)
    BY <1>1, ConcatProperties
  <2>3. \A x \in 1 .. Len(a) + Len(mid) : b[x] = IF x <= Len(a) THEN a[x] ELSE mid[x - Len(a)]
    BY <1>1, ConcatProperties
  <2> HIDE DEF b
  <2> QED
    BY <1>1, <2>1, <2>2, <2>3
<1> HIDE DEF b
<1>4. Len(b \o d) = Len(b) + 1 /\ (b \o d)[1] = o
  <2>1. 1 \in 1 .. Len(b) + Len(d) /\ 1 <= Len(b)
    BY <1>1, <1>2, <1>3
  <2>2. Len(b \o d) = Len(b) + Len(d)
    BY <1>1, <1>3, ConcatProperties
  <2>3. \A x \in 1 .. Len(b) + Len(d) : (b \o d)[x] = IF x <= Len(b) THEN b[x] ELSE d[x - Len(b)]
    BY <1>1, <1>3, ConcatProperties
  <2> QED
    BY <1>1, <1>3, <2>1, <2>2, <2>3
<1> QED
  BY <1>2, <1>3, <1>4 DEF a, b, d

\* The whole stream of an Anthropic message, translated to OpenAI chunks and collected.
LEMMA OpenAIStream ==
    ASSUME NEW m, Sent(m), NEW z, z = Gathered(OpenAIView, AnthropicEvents(m))
    PROVE  /\ Collect(z).text = Pieces(TextIn(m.blocks))
           /\ Collect(z).stop = FinishReason(m.stop) /\ Collect(z).usage = PassedUsage(m)
           /\ TogetherIn(z, m)
<1> DEFINE B == m.blocks
           n == Len(B)
           ss == EventsOf(B)
           none == [i \in DOMAIN B |-> <<>>]
           ix == [i \in DOMAIN B |-> i - 1]
           f == FinalChunk(Final(m))
           ls == [i \in DOMAIN B |-> ToolNamed(i - 1, B[i].id, B[i].name)]
<1>1. B \in Seq(Block) /\ n \in Nat /\ DOMAIN B = 1 .. n /\ \A i \in 1 .. n : B[i] \in Block
  <2>1. B \in Seq(Block)
    BY DEF Sent
  <2> QED
    BY <2>1
<1>2. ss \in Seq(Seq(Line)) /\ Len(ss) = n /\ \A i \in 1 .. n : ss[i] = BlockEvents(i, B[i])
  <2>1. ss \in Seq(Seq(Line)) /\ Len(ss) = n
    BY <1>1, PartsAreSequences
  <2> QED
    BY <1>1, <2>1 DEF EventsOf
<1>3. IsView(OpenAIView, Line, Line)
  BY OpenAIViewIs
<1>4. EndsSay(OpenAIView, First(m), Final(m), Stop, <<f>>)
  BY OpenAIEnds
<1>5. \A i \in 1 .. n : Gives(OpenAIView, ss[i], Pieces(SaidIn(B[i])), <<>>, i - 1, Pieces(ArgsIn(B[i])))
  BY <1>1, <1>2, OpenAIBlock
<1>6. z = Gathered(OpenAIView, MessageEvents(First(m), ss, Final(m), Stop))
  BY AnthropicEventsAre DEF MessageEvents
<1>7. none = [i \in DOMAIN B |-> none[i]] /\ \A i \in DOMAIN B : ix[i] \in Int
  BY <1>1
<1>8. PartsGive(OpenAIView, B, ss, none, ix)
  <2>1. \A i \in DOMAIN B : none[i] = <<>> /\ ix[i] = i - 1
    BY <1>1
  <2> QED
    BY <1>1, <1>5, <1>7, <2>1 DEF PartsGive
<1>9. /\ z \in Seq(Line) /\ Gathered(TextView, z) = Pieces(TextIn(B))
      /\ Gathered(MarkView, z) = <<f>> /\ FoundByIndex(z, B, ix)
  <2> HIDE DEF none, ix, f, ss, B, n
  <2> QED
    BY <1>1, <1>2, <1>3, <1>4, <1>6, <1>8, MessageGives DEF n
<1>11. f.stop = FinishReason(m.stop) /\ Counted(f, NoUsage) = PassedUsage(m)
  BY FinalIs
<1>12. /\ Collect(z).text = Pieces(TextIn(B))
       /\ Collect(z).stop = f.stop /\ Collect(z).usage = Counted(f, NoUsage)
  <2> HIDE DEF f
  <2>1. Len(Gathered(MarkView, z)) <= 1
    BY <1>9
  <2>2. Ended(Collect(z), <<f>>) /\ Collect(z).text = Pieces(TextIn(B))
    BY <1>9, <2>1, Collected
  <2> QED
    BY <2>2 DEF Ended
<1>13. ASSUME NEW j \in DOMAIN B, B[j].type = "tool_use"
       PROVE  /\ Passes(OpenAIView, ss[j], ls[j]) /\ ls[j].id = B[j].id /\ ls[j].index = ix[j]
              /\ \A i \in DOMAIN B : i # j => ix[i] # ix[j] \/ B[i].type # "tool_use"
  <2> DEFINE o == Opening(j, B[j])
             mid == Middle(j, B[j])
             c == Closing(j)
  <2>1. j \in 1 .. n /\ j \in Nat /\ B[j] \in Block
    BY <1>1
  <2>2. o \in Line /\ mid \in Seq(Line) /\ c \in Line
    BY <2>1, BlockLines
  <2>3. ss[j] = <<o>> \o mid \o <<c>>
    BY <1>2, <2>1, BlockEventsAre
  <2>4. o.kind = "data" /\ o.type = "content_block_start" /\ o.block = "tool_use"
        /\ o.index = j - 1 /\ o.id = B[j].id /\ o.name = B[j].name
    BY <1>13, InIs DEF Opening, Blank
  <2>5. ls[j] = ToolNamed(j - 1, B[j].id, B[j].name)
    OBVIOUS
  <2>6. ls[j].id = B[j].id /\ ls[j].index = j - 1
    BY <2>5 DEF ToolNamed, Blank
  <2> HIDE DEF o, mid, c
  <2>7. OpenAIView[o] = <<ls[j]>>
    BY <2>2, <2>4, <2>5, OpenAIOfIs, OpenAIViewIs
  <2>8. Len(ss[j]) > 0 /\ ss[j][1] = o /\ Len(ss[j]) \in Nat
    <3>1. Len(ss[j]) > 0 /\ ss[j][1] = o
      BY <2>2, <2>3, OpenedBy
    <3>2. ss[j] \in Seq(Line)
      BY <1>2, <2>1, ElementOfSeq
    <3> QED
      BY <3>1, <3>2
  <2>9. Passes(OpenAIView, ss[j], ls[j])
    <3>1. 1 \in 1 .. Len(ss[j])
      BY <2>8
    <3> QED
      BY <2>7, <2>8, <3>1 DEF Passes
  <2>10. \A i \in DOMAIN B : i # j => ix[i] # ix[j]
    BY <1>1
  <2>11. ix[j] = j - 1
    OBVIOUS
  <2> QED
    BY <2>6, <2>9, <2>10, <2>11
<1>14. TogetherIn(z, m)
  <2> HIDE DEF ls, ss, ix, n
  <2>1. First(m) \in Line /\ Final(m) \in Line /\ Stop \in Line
    BY <1>4 DEF EndsSay
  <2>2. Opens(OpenAIView, m.blocks, ss, ls, ix)
    BY <1>13 DEF Opens
  <2> QED
    BY <1>1, <1>2, <1>3, <1>6, <1>9, <2>1, <2>2, PutTogetherIn DEF n
<1> QED
  BY <1>11, <1>12, <1>14

-----------------------------------------------------------------------------
(* What a client of the Anthropic protocol collects.                       *)

LEMMA ReasonIsNone == ASSUME NEW s \in Word PROVE StopReason(s) = "" <=> s = ""
<1>1. DOMAIN FinishReasons = {"end_turn", "max_tokens", "tool_use", "refusal"}
  BY DEF FinishReasons
<1>2. /\ FinishReasons["end_turn"] = "stop" /\ FinishReasons["max_tokens"] = "length"
      /\ FinishReasons["tool_use"] = "tool_calls" /\ FinishReasons["refusal"] = "content_filter"
  BY DEF FinishReasons
<1>3. CASE \E x \in DOMAIN FinishReasons : FinishReasons[x] = s
  <2>1. StopReason(s) \in DOMAIN FinishReasons
    BY <1>3 DEF StopReason
  <2>2. s # "" /\ StopReason(s) # ""
    BY <1>1, <1>2, <1>3, <2>1
  <2> QED
    BY <2>2
<1>4. CASE ~ \E x \in DOMAIN FinishReasons : FinishReasons[x] = s
  BY <1>4 DEF StopReason
<1> QED
  BY <1>3, <1>4

LEMMA GatheredEmpty == ASSUME NEW f PROVE Gathered(f, <<>>) = <<>>
<1>1. <<>> \in Seq(Line) /\ Len(<<>>) = 0
  OBVIOUS
<1> DEFINE none == <<>>
<1>2. none \in Seq(Line) /\ \A i \in 1 .. Len(none) : f[none[i]] = <<>>
  BY <1>1
<1> HIDE DEF none
<1>3. Gathered(f, none) = <<>>
  BY <1>2, GatheredNothing
<1> QED
  BY <1>3 DEF none

LEMMA AnthropicEnds ==
    ASSUME NEW m, Sent(m)
    PROVE  EndsSay(AnthropicView, RoleChunk, FinalChunkOf(m), Done,
                   If(m.stop # "", <<StopPassed(m.stop)>>))
<1> DEFINE f == FinalChunkOf(m)
           l == StopPassed(m.stop)
           none == <<>>
<1>1. RoleChunk \in Line /\ f \in Line /\ Done \in Line
  BY OpenAIEndsAreLines DEF Sent
<1>2. /\ RoleChunk.kind = "data" /\ RoleChunk.role = "assistant" /\ RoleChunk.text = ""
      /\ RoleChunk.id = "" /\ RoleChunk.args = "" /\ RoleChunk.stop = ""
      /\ f.kind = "data" /\ f.role = "" /\ f.text = "" /\ f.id = "" /\ f.args = ""
      /\ f.stop = m.stop /\ Done.kind = "done"
  BY DEF RoleChunk, FinalChunkOf, Done, Blank
<1> HIDE DEF f
<1>3. /\ AnthropicView[RoleChunk] = <<RoleStart>> /\ AnthropicView[Done] = <<Stop>>
      /\ AnthropicView[f] = If(m.stop # "", <<l>>)
  <2>1. AnthropicOf(RoleChunk) = <<RoleStart>>
    BY <1>2, AnthropicSays DEF If
  <2>2. AnthropicOf(f) = If(m.stop # "", <<l>>)
    BY <1>2, AnthropicSays
  <2>3. AnthropicOf(Done) = <<Stop>>
    BY <1>2, AnthropicOfIs
  <2> HIDE DEF l
  <2> QED
    BY <1>1, <2>1, <2>2, <2>3, AnthropicViewIs
<1>4. Mute(RoleStart) /\ Mute(Stop)
  <2>1. NoText \in Word /\ 0 \in Int
    BY DEF NoText, Word
  <2> QED
    BY <2>1, EventsShow
<1>5. RoleStart.index = 0 /\ Stop.index = 0
  BY DEF RoleStart, Stop, Data, Blank
<1>6. /\ Yields(AnthropicView, RoleChunk, <<>>, <<>>, 0, NoText)
      /\ Yields(AnthropicView, Done, <<>>, <<>>, 0, NoText)
  BY <1>3, <1>4, <1>5, MuteYields
<1>7. CASE m.stop # ""
  <2>1. Marks(l)
    <3>1. l \in Line
      BY StopPassedIsLine DEF Sent
    <3>2. l.kind = "data" /\ l.type = "message_delta" /\ l.text = "" /\ l.args = ""
          /\ l.stop = StopReason(m.stop)
      BY DEF StopPassed, Data, Blank
    <3>3. l.stop # ""
      BY <1>7, <3>2, ReasonIsNone DEF Sent
    <3> HIDE DEF l
    <3> QED
      BY <3>1, <3>2, <3>3 DEF Marks, Telling, TextOn, ToolOn, Piece, Silent
  <2> HIDE DEF l
  <2>2. /\ Gathered(TextView, <<l>>) = <<>> /\ Gathered(ToolView, <<l>>) = <<>>
        /\ Gathered(MarkView, <<l>>) = <<l>>
        /\ \A j \in Int : Gathered(ArgsView(j), <<l>>) = <<>>
    BY <2>1, MarksGathered
  <2>3. If(m.stop # "", <<l>>) = <<l>>
    BY <1>7 DEF If
  <2> QED
    BY <1>1, <1>3, <1>6, <2>2, <2>3 DEF EndsSay, f, l
<1>8. CASE m.stop = ""
  <2>1. If(m.stop # "", <<l>>) = none
    BY <1>8 DEF If
  <2>2. none \in Seq(Line) /\ Len(none) = 0
    OBVIOUS
  <2>3. /\ Gathered(TextView, none) = <<>> /\ Gathered(ToolView, none) = <<>>
        /\ Gathered(MarkView, none) = none
        /\ \A j \in Int : Gathered(ArgsView(j), none) = <<>>
    BY GatheredEmpty
  <2> HIDE DEF none, l
  <2>4. AnthropicView[f] = none
    BY <1>3, <2>1
  <2> QED
    BY <1>1, <1>3, <1>6, <2>1, <2>3, <2>4 DEF EndsSay, f, l
<1> QED
  BY <1>7, <1>8

LEMMA NthOfTools ==
    ASSUME NEW m, NEW i \in Nat, NEW j \in Nat, i # 0, i < j, m.blocks[i].type = "tool_use"
    PROVE  Nth(m, i) < Nth(m, j)
<1> DEFINE S == {k \in 1 .. i - 1 : m.blocks[k].type = "tool_use"}
           T == {k \in 1 .. j - 1 : m.blocks[k].type = "tool_use"}
<1>1. IsFiniteSet(1 .. j - 1)
  BY FS_Interval
<1>2. IsFiniteSet(T)
  <2>1. T \in SUBSET (1 .. j - 1)
    OBVIOUS
  <2> HIDE DEF T
  <2> QED
    BY <1>1, <2>1, FS_Subset
<1>3. S \in SUBSET T /\ i \in T /\ i \notin S
  OBVIOUS
<1>4. Cardinality(S) \in Nat /\ Cardinality(T) \in Nat
  BY NthIsNat DEF Nth
<1> HIDE DEF S, T
<1>5. Cardinality(S) <= Cardinality(T) /\ Cardinality(S) # Cardinality(T)
  BY <1>2, <1>3, FS_Subset
<1>6. Cardinality(S) < Cardinality(T)
  BY <1>4, <1>5
<1> QED
  BY <1>6 DEF Nth, S, T

\* Tools have different indexes: the tools up to the one are fewer than those up to the other.
LEMMA NthApart ==
    ASSUME NEW m, NEW i \in Nat, NEW j \in Nat, i # 0, j # 0, i # j,
           m.blocks[i].type = "tool_use", m.blocks[j].type = "tool_use"
    PROVE  Nth(m, i) # Nth(m, j)
<1>1. i < j \/ j < i
  OBVIOUS
<1>2. Nth(m, i) < Nth(m, j) \/ Nth(m, j) < Nth(m, i)
  BY <1>1, NthOfTools
<1>3. Nth(m, i) \in Nat /\ Nth(m, j) \in Nat
  BY NthIsNat
<1> QED
  BY <1>2, <1>3

NamedView == [x \in Block |-> <<Named(x)>>]
NamedOf(T) == [i \in DOMAIN T |-> [id |-> T[i].id, name |-> T[i].name, input |-> <<>>]]

LEMMA NamedIs ==
    /\ IsView(NamedView, Block, CalledTool)
    /\ \A x \in Block : NamedView[x] = <<Named(x)>> /\ Named(x) \in CalledTool
<1>1. ASSUME NEW x \in Block PROVE <<Named(x)>> \in Seq(CalledTool) /\ Named(x) \in CalledTool
  <2>1. Named(x) \in CalledTool
    BY DEF Named, Block, CalledTool
  <2> QED
    BY <2>1, OneOrNone
<1> HIDE DEF Block
<1> QED
  BY <1>1 DEF IsView, NamedView

LEMMA NamedGathered ==
    ASSUME NEW T \in Seq(Block)
    PROVE  Gathered(NamedView, T) = NamedOf(T)
<1> DEFINE n == Len(T)
           f == NamedOf(T)
           ss == Found(NamedView, T)
<1>1. n \in Nat /\ DOMAIN T = 1 .. n /\ \A i \in 1 .. n : T[i] \in Block
  OBVIOUS
<1>2. f = [i \in 1 .. n |-> f[i]] /\ \A i \in 1 .. n : f[i] = Named(T[i])
  BY <1>1 DEF NamedOf, Named
<1>3. \A i \in 1 .. n : f[i] \in CalledTool
  BY <1>1, <1>2, NamedIs
<1> HIDE DEF f, n
<1>4. f \in Seq(CalledTool) /\ Len(f) = n
  BY <1>1, <1>2, <1>3, SeqOfFunction
<1>5. DOMAIN f = 1 .. n
  BY <1>2
<1>6. \A i \in 1 .. n : NamedView[T[i]] = <<f[i]>>
  BY <1>1, <1>2, NamedIs
<1>7. ss = [i \in DOMAIN f |-> <<f[i]>>]
  BY <1>1, <1>5, <1>6 DEF Found
<1> HIDE DEF ss
<1>8. FlattenSeq(ss) = f
  BY <1>4, <1>7, PutTogetherOnes
<1> QED
  BY <1>8 DEF Gathered, ss, f

LEMMA AskedTogether ==
    ASSUME NEW B \in Seq(Block)
    PROVE  FlattenSeq([i \in DOMAIN B |-> AskedIn(B[i])]) = NamedOf(ToolsIn(B))
<1> DEFINE n == Len(B)
           ss == [i \in DOMAIN B |-> If(B[i].type = "tool_use", <<B[i]>>)]
           each == GatheredEach(NamedView, ss)
<1>1. n \in Nat /\ DOMAIN B = 1 .. n /\ \A i \in 1 .. n : B[i] \in Block
  OBVIOUS
<1>2. ASSUME NEW i \in 1 .. n
      PROVE  ss[i] \in Seq(Block) /\ Gathered(NamedView, ss[i]) = AskedIn(B[i])
  <2> DEFINE b == B[i]
             x == <<b>>
             none == <<>>
  <2>1. b \in Block /\ ss[i] = If(b.type = "tool_use", x)
    BY <1>1
  <2>2. x \in Seq(Block) /\ none \in Seq(Block)
    BY <2>1, OneOrNone
  <2>3. Gathered(NamedView, x) = <<Named(b)>>
    <3>1. Gathered(NamedView, x) = NamedView[b]
      BY <2>1, NamedIs, GatheredOne
    <3> QED
      BY <2>1, <3>1, NamedIs
  <2>4. Gathered(NamedView, none) = none
    BY GatheredEmpty
  <2>5. AskedIn(b) = IF b.type = "tool_use" THEN <<Named(b)>> ELSE none
    BY DEF AskedIn, Named
  <2> HIDE DEF x, none, ss, b
  <2>6. CASE b.type = "tool_use"
    <3>1. ss[i] = x
      BY <2>1, <2>6 DEF If
    <3> QED
      BY <2>2, <2>3, <2>5, <2>6, <3>1 DEF b
  <2>7. CASE b.type # "tool_use"
    <3>1. ss[i] = none
      BY <2>1, <2>7 DEF If, none
    <3> QED
      BY <2>2, <2>4, <2>5, <2>7, <3>1 DEF b
  <2> QED
    BY <2>6, <2>7
<1>3. ss = [i \in 1 .. n |-> ss[i]] /\ DOMAIN ss = 1 .. n
  BY <1>1
<1>4. FlattenSeq(ss) = ToolsIn(B)
  BY DEF ToolsIn
<1> HIDE DEF ss, n
<1>5. ss \in Seq(Seq(Block))
  BY <1>1, <1>2, <1>3, SeqOfFunction
<1>6. Gathered(NamedView, ToolsIn(B)) = FlattenSeq(each)
  BY <1>4, <1>5, NamedIs, GatheredFlattened
<1>7. each = [i \in DOMAIN B |-> AskedIn(B[i])]
  BY <1>1, <1>2, <1>3 DEF GatheredEach
<1>8. ToolsIn(B) \in Seq(Block)
  BY <1>4, <1>5, FlattenInSeq
<1> QED
  BY <1>6, <1>7, <1>8, NamedGathered

\* The whole stream of an OpenAI answer, translated to Anthropic events and collected.
LEMMA AnthropicStream ==
    ASSUME NEW m, Sent(m), NEW z, z = Gathered(AnthropicView, OpenAIEvents(m))
    PROVE  /\ Collect(z).text = Pieces(TextIn(m.blocks))
           /\ Collect(z).stop = StopReason(m.stop) /\ Collect(z).usage = NoUsage
           /\ Collect(z).tools = NamedOf(ToolsIn(m.blocks))
           /\ TogetherIn(z, m)
<1> DEFINE B == m.blocks
           n == Len(B)
           ss == AllChunks(m)
           asked == [i \in DOMAIN B |-> AskedIn(B[i])]
           ix == [i \in DOMAIN B |-> Nth(m, i)]
           l == StopPassed(m.stop)
           marks == If(m.stop # "", <<l>>)
           ls == [i \in DOMAIN B |-> ToolOpened(Nth(m, i), B[i].id, B[i].name)]
<1>1. B \in Seq(Block) /\ n \in Nat /\ DOMAIN B = 1 .. n /\ \A i \in 1 .. n : B[i] \in Block
  <2>1. B \in Seq(Block)
    BY DEF Sent
  <2> QED
    BY <2>1
<1>2. ss \in Seq(Seq(Line)) /\ Len(ss) = n /\ \A i \in 1 .. n : ss[i] = ChunksOf(m, i)
  <2>1. ss \in Seq(Seq(Line)) /\ Len(ss) = n
    BY <1>1, AllChunksAreLines
  <2> QED
    BY <1>1, <2>1 DEF AllChunks
<1>3. IsView(AnthropicView, Line, Line)
  BY AnthropicViewIs
<1>4. EndsSay(AnthropicView, RoleChunk, FinalChunkOf(m), Done, marks)
  BY AnthropicEnds
<1>5. \A i \in 1 .. n : Gives(AnthropicView, ss[i], Pieces(SaidIn(B[i])), AskedIn(B[i]),
                             Nth(m, i), Pieces(ArgsIn(B[i])))
  BY <1>1, <1>2, AnthropicBlock DEF Sent
<1>6. z = Gathered(AnthropicView, MessageEvents(RoleChunk, ss, FinalChunkOf(m), Done))
  BY OpenAIEventsAre DEF MessageEvents
<1>7. asked = [i \in DOMAIN B |-> asked[i]] /\ \A i \in DOMAIN B : ix[i] \in Int
  <2>1. \A i \in 1 .. n : Nth(m, i) \in Nat
    BY NthIsNat
  <2>2. \A i \in DOMAIN B : ix[i] = Nth(m, i)
    OBVIOUS
  <2> QED
    BY <1>1, <2>1, <2>2
<1>8. PartsGive(AnthropicView, B, ss, asked, ix)
  <2>1. \A i \in DOMAIN B : asked[i] = AskedIn(B[i]) /\ ix[i] = Nth(m, i)
    BY <1>1
  <2> HIDE DEF asked, ix
  <2> QED
    BY <1>1, <1>5, <1>7, <2>1 DEF PartsGive
<1>9. /\ z \in Seq(Line) /\ Gathered(TextView, z) = Pieces(TextIn(B))
      /\ Gathered(ToolView, z) = FlattenSeq(asked)
      /\ Gathered(MarkView, z) = marks /\ FoundByIndex(z, B, ix)
  <2> HIDE DEF asked, ix, marks, ss, B, n
  <2> QED
    BY <1>1, <1>2, <1>3, <1>4, <1>6, <1>8, MessageGives DEF n
<1>10. FlattenSeq(asked) = NamedOf(ToolsIn(B))
  BY <1>1, AskedTogether
<1>11. Collect(z).text = Pieces(TextIn(B)) /\ Collect(z).tools = NamedOf(ToolsIn(B))
       /\ Collect(z).stop = StopReason(m.stop) /\ Collect(z).usage = NoUsage
  <2>1. l.stop = StopReason(m.stop) /\ Counted(l, NoUsage) = NoUsage
    <3>1. l.stop = StopReason(m.stop) /\ l.input = NotGiven /\ l.output = NotGiven /\ l.cached = NotGiven
          /\ l.created = NotGiven
      BY DEF StopPassed, Data, Blank
    <3> HIDE DEF l
    <3> QED
      BY <3>1 DEF Counted, Taken, NoUsage
  <2> HIDE DEF l, asked
  <2>2. marks = IF m.stop # "" THEN <<l>> ELSE <<>>
    BY DEF If
  <2>3. Len(marks) <= 1
    <3> DEFINE one == <<l>>
               none == <<>>
    <3>1. Len(one) = 1 /\ Len(none) = 0
      OBVIOUS
    <3>2. marks = one \/ marks = none
      BY <2>2
    <3> HIDE DEF marks, one, none
    <3>3. Len(marks) = 1 \/ Len(marks) = 0
      BY ONLY <3>1, <3>2
    <3> DEFINE k == Len(marks)
    <3>4. k \in Nat /\ (k = 1 \/ k = 0)
      BY ONLY <3>3
    <3> HIDE DEF k
    <3>5. k <= 1
      BY ONLY <3>4
    <3> QED
      BY ONLY <3>5 DEF k
  <2> HIDE DEF marks
  <2>4. Collect(z).text = Gathered(TextView, z) /\ Collect(z).tools = Gathered(ToolView, z)
        /\ Ended(Collect(z), marks)
    BY <1>9, <2>3, Collected
  <2>5. CASE m.stop # ""
    BY <1>9, <1>10, <2>1, <2>2, <2>4, <2>5 DEF Ended
  <2>6. CASE m.stop = ""
    <3>1. StopReason(m.stop) = ""
      BY <2>6, ReasonIsNone DEF Sent
    <3> QED
      BY <1>9, <1>10, <2>2, <2>4, <2>6, <3>1 DEF Ended
  <2> QED
    BY <2>5, <2>6
<1>12. ASSUME NEW j \in DOMAIN B, B[j].type = "tool_use"
       PROVE  /\ Passes(AnthropicView, ss[j], ls[j]) /\ ls[j].id = B[j].id /\ ls[j].index = ix[j]
              /\ \A i \in DOMAIN B : i # j => ix[i] # ix[j] \/ B[i].type # "tool_use"
  <2> DEFINE x == Nth(m, j)
             bl == B[j]
             c == ToolChunk(x, bl)
             a == ArgumentChunks(x, bl.text)
  <2>1. j \in 1 .. n /\ j \in Nat /\ j # 0 /\ bl \in Block /\ bl.id # "" /\ x \in Nat
    <3>1. bl.id # ""
      BY <1>12 DEF Sent, Identified
    <3>2. j \in 1 .. n /\ j \in Nat /\ j # 0 /\ bl \in Block
      BY <1>1
    <3>3. x \in Nat
      BY <3>2, NthIsNat
    <3> QED
      BY <3>1, <3>2, <3>3
  <2>2. c \in Line /\ a \in Seq(Line)
    <3>1. bl.text \in Seq(Word)
      BY <2>1 DEF Block
    <3> QED
      BY <2>1, <3>1, ToolChunkIsLine, ChunksAreLines
  <2>3. ss[j] = <<c>> \o a
    BY <1>2, <1>12, <2>1 DEF ChunksOf
  <2>4. /\ c.kind = "data" /\ c.role = "" /\ c.text = "" /\ c.args = "" /\ c.stop = ""
        /\ c.index = x /\ c.id = bl.id /\ c.name = bl.name
    BY DEF ToolChunk, Blank
  <2>5. ls[j] = ToolOpened(x, bl.id, bl.name)
    OBVIOUS
  <2>6. ls[j].id = bl.id /\ ls[j].index = x
    BY <2>5 DEF ToolOpened, Data, Blank
  <2>7. ix[j] = x
    OBVIOUS
  <2>8. \A i \in DOMAIN B : i # j => ix[i] # ix[j] \/ B[i].type # "tool_use"
    <3> SUFFICES ASSUME NEW i \in DOMAIN B, i # j, B[i].type = "tool_use" PROVE ix[i] # ix[j]
      OBVIOUS
    <3>1. i \in Nat /\ i # 0 /\ B[i] \in Block /\ ix[i] = Nth(m, i)
      BY <1>1
    <3>2. B[i].type = "tool_use"
      OBVIOUS
    <3> HIDE DEF ix
    <3> QED
      BY <1>12, <2>1, <2>7, <3>1, <3>2, NthApart
  <2> HIDE DEF c, a, ls, ix, bl
  <2>9. AnthropicView[c] = <<ls[j]>>
    <3>1. AnthropicOf(c) = If(c.id # "", <<ls[j]>>)
      BY <2>4, <2>5, AnthropicSays
    <3>2. AnthropicOf(c) = <<ls[j]>>
      BY <2>1, <2>4, <3>1 DEF If
    <3> QED
      BY <2>2, <3>2, AnthropicViewIs
  <2>10. Passes(AnthropicView, ss[j], ls[j])
    <3>1. <<c>> \in Seq(Line) /\ Len(<<c>>) = 1 /\ <<c>>[1] = c
      BY <2>2
    <3> DEFINE d == <<c>>
    <3> HIDE DEF d
    <3>2. d \in Seq(Line) /\ Len(d) = 1 /\ d[1] = c /\ ss[j] = d \o a /\ Len(a) \in Nat
      BY <2>2, <2>3, <3>1 DEF d
    <3>3. Len(d \o a) = Len(d) + Len(a)
          /\ \A i \in 1 .. Len(d) + Len(a) : (d \o a)[i] = IF i <= Len(d) THEN d[i] ELSE a[i - Len(d)]
      BY <2>2, <3>2, ConcatProperties
    <3>4. 1 \in 1 .. Len(d) + Len(a) /\ 1 <= Len(d)
      BY <3>2
    <3>5. 1 \in 1 .. Len(ss[j]) /\ ss[j][1] = c
      BY <3>2, <3>3, <3>4
    <3> QED
      BY <2>9, <3>5 DEF Passes
  <2> QED
    BY <2>6, <2>7, <2>8, <2>10 DEF bl
<1>13. TogetherIn(z, m)
  <2> HIDE DEF ls, ss, ix, n, marks
  <2>1. RoleChunk \in Line /\ FinalChunkOf(m) \in Line /\ Done \in Line
    BY <1>4 DEF EndsSay
  <2>2. Opens(AnthropicView, m.blocks, ss, ls, ix)
    BY <1>12 DEF Opens
  <2> QED
    BY <1>1, <1>2, <1>3, <1>6, <1>9, <2>1, <2>2, PutTogetherIn DEF n
<1> QED
  BY <1>11, <1>13

-----------------------------------------------------------------------------
(* The lines of a stream, and the events they carry.                       *)

Covered(ss, pre, k) == \E i \in 1 .. Len(ss) : \E j \in 1 .. Len(ss[i]) : k = Len(pre[i - 1]) + j

LEMMA FlattenCovers ==
    ASSUME NEW R, NEW ss \in Seq(Seq(R)), NEW pre, PutTogether(pre, ss),
           NEW k \in 1 .. Len(FlattenSeq(ss))
    PROVE  Covered(ss, pre, k)
<1> DEFINE n == Len(ss)
           S == {i \in 0 .. n : k <= Len(pre[i])}
<1>1. n \in Nat /\ FlattenSeq(ss) = pre[n]
  BY FlattenIs
<1>2. \A i \in 0 .. n : Len(pre[i]) \in Nat
  <2>1. \A i \in 0 .. n : pre[i] \in Seq(R)
    BY PrefixesAreSequences
  <2> QED
    BY <2>1
<1>3. k \in Nat /\ n \in S
  <2>1. n \in 0 .. n /\ Len(pre[n]) \in Nat
    BY <1>1, <1>2
  <2> HIDE DEF n
  <2>2. k \in Nat /\ k <= Len(pre[n])
    BY <1>1, <2>1
  <2> QED
    BY <2>1, <2>2
<1>4. PICK i \in S : \A h \in S : i <= h
  <2>1. S \in SUBSET Nat /\ S # {}
    BY <1>1, <1>3
  <2> HIDE DEF S
  <2> QED
    BY <2>1, LeastNatural
<1>5. i # 0
  <2>1. pre[0] = <<>> /\ Len(<<>>) = 0
    BY DEF PutTogether
  <2>2. ~ (k <= Len(pre[0]))
    BY <2>1
  <2> QED
    BY <1>4, <2>2
<1>6. i \in 1 .. n /\ i - 1 \in 0 .. n /\ i - 1 \notin S
  BY <1>1, <1>4, <1>5
<1>7. /\ Len(pre[i]) = Len(pre[i - 1]) + Len(ss[i]) /\ Len(pre[i - 1]) \in Nat /\ Len(ss[i]) \in Nat
  <2>1. GrownBy(pre[i - 1], ss[i], pre[i])
    <3> HIDE DEF S
    <3> QED
      BY <1>6, PrefixGrows
  <2> QED
    BY <2>1 DEF GrownBy
<1>8. k <= Len(pre[i]) /\ ~ (k <= Len(pre[i - 1]))
  BY <1>4, <1>6
<1> DEFINE a == Len(pre[i - 1])
           l == Len(ss[i])
           j == k - a
<1>9. a \in Nat /\ l \in Nat /\ k <= a + l /\ ~ (k <= a)
  BY <1>7, <1>8
<1> HIDE DEF a, l
<1>10. j \in 1 .. l /\ k = a + j
  BY <1>3, <1>9
<1> QED
  BY <1>6, <1>10 DEF a, l, Covered

\* Data comes behind an "event:" line of its type.
NamedBefore(z, k) == k > 1 /\ z[k - 1].kind = "event" /\ z[k - 1].type = z[k].type

LEMMA DataIsNamed ==
    ASSUME NEW e \in Seq(Line), NEW z, z = FlattenSeq(AnthropicFrames(e)),
           NEW k \in 1 .. Len(z), z[k].kind = "data"
    PROVE  NamedBefore(z, k)
<1> DEFINE ss == AnthropicFrames(e)
<1>1. ss \in Seq(Seq(Line)) /\ Len(ss) = Len(e)
  <2>1. ss \in Seq(Seq(Line)) /\ Frames(ss, e)
    BY AnthropicFramesFrame
  <2> QED
    BY <2>1 DEF Frames
<1>2. \A i \in 1 .. Len(ss) : ss[i] = <<EventLine(e[i].type), e[i], Gap>>
  BY <1>1 DEF AnthropicFrames
<1> HIDE DEF ss
<1>3. PICK pre : PutTogether(pre, ss)
  BY <1>1, FlattenByPrefixes
<1>4. PartsAt(z, ss, pre)
  BY <1>1, <1>3, FlattenAt DEF ss
<1>5. PICK i \in 1 .. Len(ss) : \E j \in 1 .. Len(ss[i]) : k = Len(pre[i - 1]) + j
  <2>1. z = FlattenSeq(ss)
    BY DEF ss
  <2>2. \A h \in 1 .. Len(FlattenSeq(ss)) : Covered(ss, pre, h)
    BY <1>1, <1>3, FlattenCovers
  <2> QED
    BY <2>1, <2>2 DEF Covered
<1> DEFINE o == EventLine(e[i].type)
           d == e[i]
           a == Len(pre[i - 1])
<1>6. PICK j \in 1 .. Len(ss[i]) : k = a + j
  BY <1>5
<1>7. ss[i] = <<o, d, Gap>>
  BY <1>2
<1>8. o.kind = "event" /\ o.type = d.type /\ Gap.kind = "other"
  BY DEF EventLine, Data, Gap, Blank
<1>9. /\ a \in Nat
      /\ \A h \in 1 .. Len(ss[i]) : z[a + h] = ss[i][h]
  BY <1>4 DEF PartsAt
<1> DEFINE g == Gap
<1> HIDE DEF o, d, a, g
<1>10. Len(ss[i]) = 3 /\ ss[i][1] = o /\ ss[i][2] = d /\ ss[i][3] = g
  BY <1>7 DEF g
<1>11. (j = 1 \/ j = 2 \/ j = 3) /\ z[k] = ss[i][j]
  BY <1>6, <1>9, <1>10
<1>12. j = 2 /\ z[k] = d
  BY <1>8, <1>10, <1>11 DEF g
<1>13. 1 \in 1 .. Len(ss[i]) /\ k - 1 = a + 1 /\ k > 1
  BY <1>6, <1>9, <1>10, <1>12
<1>14. z[k - 1] = o
  BY <1>9, <1>10, <1>13
<1> QED
  BY <1>8, <1>12, <1>13, <1>14 DEF NamedBefore

\* What is around the events of a stream becomes nothing.
LEMMA AnthropicFramesGathered ==
    ASSUME NEW e \in Seq(Line)
    PROVE  /\ FlattenSeq(AnthropicFrames(e)) \in Seq(Line)
           /\ Gathered(OpenAIView, FlattenSeq(AnthropicFrames(e))) = Gathered(OpenAIView, e)
<1> DEFINE ss == AnthropicFrames(e)
           n == Len(e)
<1>1. n \in Nat /\ DOMAIN e = 1 .. n /\ \A i \in 1 .. n : e[i] \in Line
  OBVIOUS
<1>2. ss \in Seq(Seq(Line))
  BY AnthropicFramesFrame
<1>3. IsView(OpenAIView, Line, Line) /\ \A l \in Line : OpenAIView[l] = OpenAIOf(l)
  BY OpenAIViewIs
<1>4. ASSUME NEW i \in 1 .. n PROVE Gathered(OpenAIView, ss[i]) = OpenAIView[e[i]]
  <2> DEFINE o == EventLine(e[i].type)
             d == e[i]
             g == Gap
  <2>1. d \in Line /\ g \in Line
    BY <1>1, GapIsLine
  <2>2. o \in Line
    <3>1. d.type \in Word /\ "event" \in Word
      BY <2>1 DEF Line, Word
    <3> QED
      BY <3>1, BlankLine DEF EventLine, Data, Line
  <2>3. OpenAIView[o] = <<>> /\ OpenAIView[g] = <<>>
    <3>1. o.kind = "event" /\ g.kind = "other"
      BY DEF EventLine, Data, Gap, Blank
    <3> HIDE DEF o, g
    <3>2. OpenAIOf(o) = <<>> /\ OpenAIOf(g) = <<>>
      BY <3>1 DEF OpenAIOf
    <3> QED
      BY <1>3, <2>1, <2>2, <3>2
  <2>4. ss[i] = <<o, d, g>>
    BY <1>1 DEF AnthropicFrames
  <2> HIDE DEF o, d, g, ss
  <2>5. Gathered(OpenAIView, <<o, d, g>>) = OpenAIView[d]
    BY <1>3, <2>1, <2>2, <2>3, GatheredThree
  <2> QED
    BY <2>4, <2>5 DEF d
<1>5. Gathered(OpenAIView, FlattenSeq(ss)) = FlattenSeq(GatheredEach(OpenAIView, ss))
  <2> HIDE DEF ss
  <2> QED
    BY <1>2, <1>3, GatheredFlattened
<1>6. GatheredEach(OpenAIView, ss) = Found(OpenAIView, e)
  <2>1. DOMAIN ss = 1 .. n
    BY <1>1 DEF AnthropicFrames
  <2> HIDE DEF ss, n
  <2> QED
    BY <1>1, <1>4, <2>1 DEF GatheredEach, Found
<1>7. FlattenSeq(ss) \in Seq(Line)
  <2> HIDE DEF ss
  <2> QED
    BY <1>2, FlattenInSeq
<1> QED
  BY <1>5, <1>6, <1>7 DEF Gathered

LEMMA OpenAIFramesGathered ==
    ASSUME NEW e \in Seq(Line)
    PROVE  /\ FlattenSeq(OpenAIFrames(e)) \in Seq(Line)
           /\ Gathered(AnthropicView, FlattenSeq(OpenAIFrames(e))) = Gathered(AnthropicView, e)
<1> DEFINE ss == OpenAIFrames(e)
           n == Len(e)
<1>1. n \in Nat /\ DOMAIN e = 1 .. n /\ \A i \in 1 .. n : e[i] \in Line
  OBVIOUS
<1>2. ss \in Seq(Seq(Line))
  BY OpenAIFramesFrame
<1>3. IsView(AnthropicView, Line, Line) /\ \A l \in Line : AnthropicView[l] = AnthropicOf(l)
  BY AnthropicViewIs
<1>4. ASSUME NEW i \in 1 .. n PROVE Gathered(AnthropicView, ss[i]) = AnthropicView[e[i]]
  <2> DEFINE d == e[i]
             g == Gap
             x == <<d>>
             y == <<g>>
             none == <<>>
  <2>1. d \in Line /\ g \in Line
    BY <1>1, GapIsLine
  <2>2. AnthropicView[g] = none
    <3>1. g.kind = "other"
      BY DEF Gap, Blank
    <3> HIDE DEF g
    <3>2. AnthropicOf(g) = <<>>
      BY <3>1, AnthropicOfIs
    <3> QED
      BY <1>3, <2>1, <3>2
  <2>3. ss[i] = <<d, g>>
    BY <1>1 DEF OpenAIFrames
  <2> HIDE DEF d, g, ss
  <2>4. ss[i] = x \o y
    BY <2>1, <2>3, TwoParted
  <2>5. x \in Seq(Line) /\ y \in Seq(Line)
    BY <2>1, OneOrNone
  <2>6. Gathered(AnthropicView, x) = AnthropicView[d] /\ Gathered(AnthropicView, y) = AnthropicView[g]
    BY <1>3, <2>1, GatheredOne
  <2> HIDE DEF x, y, none
  <2>7. Gathered(AnthropicView, x \o y) = Gathered(AnthropicView, x) \o Gathered(AnthropicView, y)
    BY <1>3, <2>5, GatheredParted
  <2>8. AnthropicView[d] \o none = AnthropicView[d]
    <3>1. AnthropicView[d] \in Seq(Line)
      BY <1>3, <2>1, ViewAt
    <3> QED
      BY <3>1, ConcatEmptySeq DEF none
  <2> QED
    BY <2>2, <2>4, <2>6, <2>7, <2>8 DEF d
<1>5. Gathered(AnthropicView, FlattenSeq(ss)) = FlattenSeq(GatheredEach(AnthropicView, ss))
  <2> HIDE DEF ss
  <2> QED
    BY <1>2, <1>3, GatheredFlattened
<1>6. GatheredEach(AnthropicView, ss) = Found(AnthropicView, e)
  <2>1. DOMAIN ss = 1 .. n
    BY <1>1 DEF OpenAIFrames
  <2> HIDE DEF ss, n
  <2> QED
    BY <1>1, <1>4, <2>1 DEF GatheredEach, Found
<1>7. FlattenSeq(ss) \in Seq(Line)
  <2> HIDE DEF ss
  <2> QED
    BY <1>2, FlattenInSeq
<1> QED
  BY <1>5, <1>6, <1>7 DEF Gathered

-----------------------------------------------------------------------------
(* The lines translated so far are those of a prefix of the stream.        *)

SoFar(view, lines, n, z) == \E p : PutTogether(p, Found(view, lines)) /\ z = p[n]

LEMMA SoFarNothing ==
    ASSUME NEW view, IsView(view, Line, Line), NEW lines \in Seq(Line)
    PROVE  SoFar(view, lines, 0, <<>>)
<1>1. Found(view, lines) \in Seq(Seq(Line))
  BY GatheredParts
<1>2. PICK p : PutTogether(p, Found(view, lines))
  BY <1>1, FlattenByPrefixes
<1>3. p[0] = <<>>
  BY <1>2 DEF PutTogether
<1> QED
  BY <1>2, <1>3 DEF SoFar

LEMMA SoFarMore ==
    ASSUME NEW view, IsView(view, Line, Line), NEW lines \in Seq(Line),
           NEW n \in Nat, NEW k \in 1 .. Len(lines), k = n + 1, NEW z, SoFar(view, lines, n, z)
    PROVE  SoFar(view, lines, k, z \o view[lines[k]])
<1>1. PICK p : PutTogether(p, Found(view, lines)) /\ z = p[n]
  BY DEF SoFar
<1>2. Found(view, lines) \in Seq(Seq(Line)) /\ Len(Found(view, lines)) = Len(lines)
  BY GatheredParts
<1>3. Found(view, lines)[k] = view[lines[k]]
  BY FoundAt
<1>4. n = k - 1
  OBVIOUS
<1>5. p[k] = p[k - 1] \o Found(view, lines)[k]
  BY <1>1, <1>2 DEF PutTogether
<1>6. p[k] = z \o view[lines[k]]
  BY <1>1, <1>3, <1>4, <1>5
<1> QED
  BY <1>1, <1>6 DEF SoFar

LEMMA SoFarAll ==
    ASSUME NEW view, IsView(view, Line, Line), NEW lines \in Seq(Line), NEW n, n = Len(lines),
           NEW z, SoFar(view, lines, n, z)
    PROVE  z = Gathered(view, lines)
<1>1. PICK p : PutTogether(p, Found(view, lines)) /\ z = p[n]
  BY DEF SoFar
<1>2. Found(view, lines) \in Seq(Seq(Line)) /\ Len(Found(view, lines)) = n
  BY GatheredParts
<1>3. FlattenSeq(Found(view, lines)) = p[n]
  BY <1>1, <1>2, FlattenIs
<1> QED
  BY <1>1, <1>3 DEF Gathered

LEMMA EventsAreLines ==
    ASSUME NEW m, Sent(m)
    PROVE  AnthropicEvents(m) \in Seq(Line) /\ OpenAIEvents(m) \in Seq(Line)
<1>1. m.blocks \in Seq(Block)
  BY DEF Sent
<1>2. EventsOf(m.blocks) \in Seq(Seq(Line)) /\ AllChunks(m) \in Seq(Seq(Line))
  BY <1>1, PartsAreSequences, AllChunksAreLines
<1> DEFINE a == FlattenSeq(EventsOf(m.blocks))
           b == FlattenSeq(AllChunks(m))
           c == <<First(m)>>
           d == <<Final(m), Stop>>
           e == <<RoleChunk>>
           f == <<FinalChunkOf(m), Done>>
<1>3. a \in Seq(Line) /\ b \in Seq(Line)
  BY <1>2, FlattenInSeq
<1>4. c \in Seq(Line) /\ d \in Seq(Line)
  <2>1. First(m) \in Line /\ Final(m) \in Line /\ Stop \in Line
    BY EndsAreLines DEF Sent
  <2> QED
    BY <2>1, OneOrTwo
<1>5. e \in Seq(Line) /\ f \in Seq(Line)
  <2>1. RoleChunk \in Line /\ FinalChunkOf(m) \in Line /\ Done \in Line
    BY OpenAIEndsAreLines DEF Sent
  <2> QED
    BY <2>1, OneOrTwo
<1>6. AnthropicEvents(m) = c \o a \o d /\ OpenAIEvents(m) = e \o b \o f
  BY AnthropicEventsAre, OpenAIEventsAre
<1> HIDE DEF a, b, c, d, e, f
<1>7. c \o a \in Seq(Line) /\ e \o b \in Seq(Line)
  BY <1>3, <1>4, <1>5, ConcatProperties
<1> QED
  BY <1>4, <1>5, <1>6, <1>7, ConcatProperties

TranslatedBy == IF target = "openai" THEN OpenAIView ELSE AnthropicView

\* The output so far is what the view of the target's protocol gives of the lines that are done, and
\* the name that is held is that of the event whose data comes next.
TranslateInv ==
    /\ original \in Originals /\ target \in {"openai", "anthropic"}
    /\ target = "openai" => original.stop \notin Range(FinishReasons)
    /\ pos \in Nat /\ pos <= Len(Source)
    /\ SoFar(TranslatedBy, Source, pos, out)
    /\ target = "openai" /\ pos > 0 /\ Source[pos].kind = "event" => heldEvent = Source[pos].type

LEMMA SourceIs ==
    ASSUME original \in Originals, target \in {"openai", "anthropic"}
    PROVE  /\ Source \in Seq(Line) /\ IsView(TranslatedBy, Line, Line)
           /\ target = "openai" =>
                /\ TranslatedBy = OpenAIView
                /\ Source = FlattenSeq(AnthropicFrames(AnthropicEvents(original)))
                /\ Gathered(OpenAIView, Source) = Gathered(OpenAIView, AnthropicEvents(original))
           /\ target = "anthropic" =>
                /\ TranslatedBy = AnthropicView
                /\ Gathered(AnthropicView, Source) = Gathered(AnthropicView, OpenAIEvents(original))
<1> DEFINE a == AnthropicEvents(original)
           b == OpenAIEvents(original)
<1>1. a \in Seq(Line) /\ b \in Seq(Line)
  BY OriginalsAre, EventsAreLines
<1>2. AnthropicLines(original) = FlattenSeq(AnthropicFrames(a))
      /\ OpenAILines(original) = FlattenSeq(OpenAIFrames(b))
  BY DEF AnthropicLines, AnthropicFrames, OpenAILines, OpenAIFrames
<1> HIDE DEF a, b
<1>3. /\ FlattenSeq(AnthropicFrames(a)) \in Seq(Line) /\ FlattenSeq(OpenAIFrames(b)) \in Seq(Line)
      /\ Gathered(OpenAIView, FlattenSeq(AnthropicFrames(a))) = Gathered(OpenAIView, a)
      /\ Gathered(AnthropicView, FlattenSeq(OpenAIFrames(b))) = Gathered(AnthropicView, b)
  BY <1>1, AnthropicFramesGathered, OpenAIFramesGathered
<1>4. IsView(OpenAIView, Line, Line) /\ IsView(AnthropicView, Line, Line)
  BY OpenAIViewIs, AnthropicViewIs
<1>5. CASE target = "openai"
  <2>1. Source = AnthropicLines(original) /\ TranslatedBy = OpenAIView /\ target # "anthropic"
    BY <1>5 DEF Source, TranslatedBy
  <2> QED
    BY <1>2, <1>3, <1>4, <2>1 DEF a
<1>6. CASE target = "anthropic"
  <2>1. Source = OpenAILines(original) /\ TranslatedBy = AnthropicView /\ target # "openai"
    BY <1>6 DEF Source, TranslatedBy
  <2> QED
    BY <1>2, <1>3, <1>4, <2>1 DEF b
<1> QED
  BY <1>5, <1>6

LEMMA TranslateInitInv == TranslateInit => TranslateInv
<1> SUFFICES ASSUME TranslateInit PROVE TranslateInv
  OBVIOUS
<1>1. /\ original \in Originals /\ target \in {"openai", "anthropic"}
      /\ pos = 0 /\ out = <<>>
      /\ target = "openai" => original.stop \notin Range(FinishReasons)
  BY DEF TranslateInit
<1>2. Source \in Seq(Line) /\ IsView(TranslatedBy, Line, Line)
  BY <1>1, SourceIs
<1>3. SoFar(TranslatedBy, Source, 0, <<>>)
  BY <1>2, SoFarNothing
<1>4. 0 <= Len(Source)
  BY <1>2
<1> QED
  BY <1>1, <1>3, <1>4 DEF TranslateInv

LEMMA OutIsLines ==
    ASSUME TranslateInv
    PROVE  out \in Seq(Line)
<1>1. original \in Originals /\ target \in {"openai", "anthropic"}
      /\ SoFar(TranslatedBy, Source, pos, out) /\ pos \in Nat /\ pos <= Len(Source)
  BY DEF TranslateInv
<1>2. Source \in Seq(Line) /\ IsView(TranslatedBy, Line, Line)
  BY <1>1, SourceIs
<1>3. PICK p : PutTogether(p, Found(TranslatedBy, Source)) /\ out = p[pos]
  BY <1>1 DEF SoFar
<1>4. Found(TranslatedBy, Source) \in Seq(Seq(Line)) /\ Len(Found(TranslatedBy, Source)) = Len(Source)
  BY <1>2, GatheredParts
<1>5. pos \in 0 .. Len(Source)
  <2>1. Len(Source) \in Nat
    BY <1>2
  <2> QED
    BY <1>1, <2>1
<1> QED
  BY <1>3, <1>4, <1>5, PrefixesAreSequences

LEMMA LineTranslated ==
    ASSUME TranslateInv, pos < Len(Source), NEW k, k = pos + 1,
           ParseAnthropic(Source[k]) \/ ParseOpenAI(Source[k])
    PROVE  /\ out' = out \o TranslatedBy[Source[k]]
           /\ target = "openai" /\ Source[k].kind = "event" => heldEvent' = Source[k].type
<1> DEFINE l == Source[k]
<1>1. original \in Originals /\ target \in {"openai", "anthropic"} /\ pos \in Nat
  BY DEF TranslateInv
<1>2. Source \in Seq(Line)
  BY <1>1, SourceIs
<1>3. k \in 1 .. Len(Source) /\ Len(Source) \in Nat
  <2>1. Len(Source) \in Nat
    BY <1>2
  <2> QED
    BY <1>1, <2>1
<1>4. l \in Line
  BY <1>2, <1>3, ElementOfSeq
<1>5. out \in Seq(Line)
  BY <1>1, OutIsLines DEF TranslateInv
<1>6. out \o <<>> = out
  BY <1>5, ConcatEmptySeq
<1>7. CASE target = "openai"
  <2>1. TranslatedBy[l] = OpenAIOf(l)
    BY <1>1, <1>4, <1>7, SourceIs, OpenAIViewIs
  <2>2. ParseAnthropic(l)
    BY <1>7 DEF ParseOpenAI
  <2>3. CASE l.kind = "data"
    <3>1. NamedBefore(Source, k)
      <4> HIDE DEF l
      <4>1. AnthropicEvents(original) \in Seq(Line)
        BY <1>1, OriginalsAre, EventsAreLines
      <4>2. Source = FlattenSeq(AnthropicFrames(AnthropicEvents(original)))
        BY <1>1, <1>7, SourceIs
      <4>3. Source[k].kind = "data"
        BY <2>3 DEF l
      <4> QED
        BY <1>3, <4>1, <4>2, <4>3, DataIsNamed
    <3>2. k > 1 /\ k - 1 = pos /\ pos > 0
      BY <1>1, <3>1 DEF NamedBefore
    <3>3. Source[pos].kind = "event" /\ Source[pos].type = l.type
      BY <3>1, <3>2 DEF NamedBefore
    <3>4. heldEvent = l.type
      BY <1>7, <3>2, <3>3 DEF TranslateInv
    <3> HIDE DEF l
    <3>5. [l EXCEPT !.type = heldEvent] = l
      BY <1>4, <3>4 DEF Line
    <3>6. out' = out \o TranslateAnthropicToOpenAI(l)
      BY <2>2, <2>3, <3>5 DEF ParseAnthropic
    <3> QED
      BY <2>1, <2>3, <3>6 DEF OpenAIOf, l
  <2>4. CASE l.kind # "data"
    <3> HIDE DEF l
    <3>1. out' = out /\ OpenAIOf(l) = <<>>
      BY <2>2, <2>4 DEF ParseAnthropic, OpenAIOf
    <3>2. l.kind = "event" => heldEvent' = l.type
      BY <2>2 DEF ParseAnthropic
    <3> QED
      BY <1>6, <2>1, <3>1, <3>2 DEF l
  <2> QED
    BY <2>3, <2>4
<1>8. CASE target = "anthropic"
  <2>1. TranslatedBy[l] = AnthropicOf(l)
    BY <1>1, <1>4, <1>8, SourceIs, AnthropicViewIs
  <2>2. ParseOpenAI(l)
    BY <1>8 DEF ParseAnthropic
  <2> HIDE DEF l
  <2>3. out' = IF l.kind \in {"data", "done", "quoted"}
               THEN out \o TranslateOpenAIToAnthropic(l) ELSE out
    BY <2>2 DEF ParseOpenAI
  <2>4. out' = out \o AnthropicOf(l)
    BY <1>6, <2>3 DEF AnthropicOf
  <2> QED
    BY <1>8, <2>1, <2>4 DEF l
<1> QED
  BY <1>1, <1>7, <1>8

LEMMA TranslateStepInv == TranslateInv /\ [TranslateNext]_translateVars => TranslateInv'
<1> SUFFICES ASSUME TranslateInv, [TranslateNext]_translateVars PROVE TranslateInv'
  OBVIOUS
<1>1. CASE TranslateNext
  <2> DEFINE k == pos + 1
  <2>1. /\ pos < Len(Source) /\ pos' = k
        /\ ParseAnthropic(Source[k]) \/ ParseOpenAI(Source[k])
        /\ original' = original /\ target' = target
    BY <1>1 DEF TranslateNext
  <2>2. /\ original \in Originals /\ target \in {"openai", "anthropic"} /\ pos \in Nat
        /\ target = "openai" => original.stop \notin Range(FinishReasons)
        /\ SoFar(TranslatedBy, Source, pos, out)
    BY DEF TranslateInv
  <2>3. Source \in Seq(Line) /\ IsView(TranslatedBy, Line, Line)
    BY <2>2, SourceIs
  <2>4. k \in 1 .. Len(Source) /\ k \in Nat /\ k <= Len(Source)
    <3>1. Len(Source) \in Nat
      BY <2>3
    <3> QED
      BY <2>1, <2>2, <3>1
  <2>5. Source' = Source /\ TranslatedBy' = TranslatedBy
    BY <2>1 DEF Source, TranslatedBy
  <2> HIDE DEF k
  <2>6. /\ out' = out \o TranslatedBy[Source[k]]
        /\ target = "openai" /\ Source[k].kind = "event" => heldEvent' = Source[k].type
    BY <2>1, LineTranslated DEF k
  <2>7. SoFar(TranslatedBy, Source, k, out \o TranslatedBy[Source[k]])
    BY <2>2, <2>3, <2>4, SoFarMore DEF k
  <2> QED
    BY <2>1, <2>2, <2>4, <2>5, <2>6, <2>7 DEF TranslateInv
<1>2. CASE UNCHANGED translateVars
  BY <1>2 DEF TranslateInv, translateVars, Source, TranslatedBy
<1> QED
  BY <1>1, <1>2

LEMMA NothingUsed == NewCollector.usage = NoUsage
BY DEF NewCollector, NoUsage

LEMMA TranslateInvKept == TranslateInv => StreamKept
<1> SUFFICES ASSUME TranslateInv PROVE StreamKept
  OBVIOUS
<1> DEFINE m == original
           got == Collect(out)
<1>1. /\ m \in Originals /\ target \in {"openai", "anthropic"}
      /\ target = "openai" => m.stop \notin Range(FinishReasons)
      /\ SoFar(TranslatedBy, Source, pos, out)
  BY DEF TranslateInv
<1>2. Sent(m)
  BY <1>1, OriginalsAre
<1>3. Source \in Seq(Line) /\ IsView(TranslatedBy, Line, Line)
  BY <1>1, SourceIs
<1>4. ASSUME Translated
      PROVE  /\ TogetherIn(out, m) /\ got.text = Pieces(TextIn(m.blocks))
             /\ target = "openai" => StopReason(got.stop) = m.stop /\ got.usage = PassedUsage(m)
             /\ target = "anthropic" =>
                  /\ got.stop = StopReason(m.stop) /\ got.tools = NamedOf(ToolsIn(m.blocks))
                  /\ got.usage = NoUsage
  <2>1. out = Gathered(TranslatedBy, Source)
    BY <1>1, <1>3, <1>4, SoFarAll DEF Translated
  <2>2. CASE target = "openai"
    <3>1. out = Gathered(OpenAIView, AnthropicEvents(m))
      BY <1>1, <2>1, <2>2, SourceIs
    <3>2. /\ got.text = Pieces(TextIn(m.blocks)) /\ got.stop = FinishReason(m.stop)
          /\ got.usage = PassedUsage(m) /\ TogetherIn(out, m)
      BY <1>2, <3>1, OpenAIStream
    <3>3. StopReason(got.stop) = m.stop
      BY <1>1, <2>2, <3>2, ReasonReturns
    <3> QED
      BY <2>2, <3>2, <3>3
  <2>3. CASE target = "anthropic"
    <3>1. out = Gathered(AnthropicView, OpenAIEvents(m))
      BY <1>1, <2>1, <2>3, SourceIs
    <3>2. /\ got.text = Pieces(TextIn(m.blocks)) /\ got.stop = StopReason(m.stop)
          /\ got.usage = NoUsage /\ got.tools = NamedOf(ToolsIn(m.blocks)) /\ TogetherIn(out, m)
      BY <1>2, <3>1, AnthropicStream
    <3> QED
      BY <2>3, <3>2
  <2> QED
    BY <1>1, <2>2, <2>3
<1>5. ToolsAssembled
  BY <1>4 DEF ToolsAssembled, TogetherIn, Assembled
<1> HIDE DEF m, got
<1>6. Translated =>
        /\ got.text = Pieces(TextIn(m.blocks))
        /\ target = "openai" => StopReason(got.stop) = m.stop /\ got.usage = PassedUsage(m)
        /\ target = "anthropic" =>
             /\ got.stop = StopReason(m.stop) /\ got.tools = NamedOf(ToolsIn(m.blocks))
             /\ got.usage = NewCollector.usage
  BY <1>4, NothingUsed
<1>7. [m.usage EXCEPT !.input = IF m.early THEN 0 ELSE @, !.created = 0] = PassedUsage(m)
  BY <1>2, PassedIs DEF Sent
<1> QED
  BY <1>5, <1>6, <1>7 DEF StreamKept, NamedOf, m, got

(* What a client collects from a translated stream is the text and stop    *)
(* reason of the message and its usage, but for tokens told early or       *)
(* written to the cache, or its tools in order without their input; and    *)
(* the pieces of every tool's arguments come together under its index      *)
(* (translate/streaming.go 93-413): for all messages, in both directions.  *)
THEOREM StreamKeptAlways == TranslateSpec => []StreamKept
<1>1. TranslateInv /\ [TranslateNext]_translateVars => TranslateInv'
  BY TranslateStepInv
<1> QED
  BY <1>1, TranslateInitInv, TranslateInvKept, PTL DEF TranslateSpec
=============================================================================
