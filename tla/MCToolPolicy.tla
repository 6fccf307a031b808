---------------------------- MODULE MCToolPolicy ----------------------------
(* What becomes of an answer of the upstream: the policy for its tools, the *)
(* reading of its stream, its translation to the other protocol.  The      *)
(* components do not share state; part says which of them moves.           *)
EXTENDS ToolPolicy, StreamCollect, Translate
CONSTANTS Bash, ReadFile
VARIABLE part

P(b, a) == [blocked |-> b, allowed |-> a]
\* The model asks for no tool, for one, or for both.
UpToTwo == {<<>>, <<Bash>>, <<ReadFile, Bash>>}
BlockBash == P({Bash}, {})
\* Blocked names only, allowed names only, and both kinds together.
Various == {P({Bash, ReadFile}, {}), P({}, {ReadFile}), P({ReadFile}, {Bash})}

Text(pieces) == [type |-> "text", id |-> "", name |-> "", text |-> pieces]
Use(id, pieces) == [type |-> "tool_use", id |-> id, name |-> "bash", text |-> pieces]
Thought(pieces) == [type |-> "thinking", id |-> "", name |-> "", text |-> pieces]
Usage(cached) == [input |-> 3, output |-> 2, cached |-> cached, created |-> 4]

\* Up to three blocks: text of two pieces and of none, tools with input and without, thoughts.
Streamed ==
    [blocks : SeqOf({Text(<<"a", "b">>), Text(<<>>), Use("i1", <<"{", "}">>), Use("i2", <<>>),
                     Thought(<<"h">>)}, 3),
     stop : {"end_turn", "tool_use"}, usage : {Usage(0)}, early : BOOLEAN]

\* Lines in any order, too long ones among them.
Loose ==
    {EventLine("x"), Gap, Done, [Gap EXCEPT !.kind = "oversized"],
     [Data("content_block_start") EXCEPT !.block = "tool_use"],
     [Data("content_block_start") EXCEPT !.block = "text"],
     [Data("content_block_delta") EXCEPT !.delta = "text_delta", !.text = "t"],
     [Data("message_delta") EXCEPT !.stop = "end_turn", !.output = 2],
     [Blank EXCEPT !.text = "u", !.input = 1]}
AllFeeds ==
    SeqOf(Loose, 3) \cup {AnthropicLines(m) : m \in Streamed} \cup {OpenAILines(m) : m \in Streamed}

\* Nothing, text, text before a tool, tools around a text, an empty delta, thoughts before
\* a text and before a tool; reasons of both protocols and one that neither table knows.
Translatable ==
    [blocks : {<<>>, <<Text(<<"a", "b">>)>>, <<Text(<<"a">>), Use("i1", <<"", "{", "}">>)>>,
               <<Use("i1", <<"x">>), Text(<<"c">>), Use("i2", <<"y", "z">>)>>,
               <<Thought(<<"h", "h">>), Text(<<"a">>)>>, <<Thought(<<"h">>), Use("i1", <<"x">>)>>},
     stop : {"end_turn", "tool_use", "pause_turn", "stop", "tool_calls"},
     usage : {Usage(0), Usage(1)}, early : BOOLEAN]

Said(role, content) == [role |-> role, content |-> content]
Talks == SeqOf({Said("user", <<"t">>), Said("user", <<"t", "tool_result">>),
                Said("assistant", <<"t">>)}, 2)
\* With all the fields and with none of them.
Bodies ==
    [system : {<<"s">>}, listed : BOOLEAN, thinking : {TRUE}, messages : Talks, limit : {5},
     choice : {"any", "none"}, user : {"u"}]
    \cup [system : {<<>>}, listed : {FALSE}, thinking : {FALSE}, messages : Talks,
          limit : {NotGiven}, choice : {"auto"}, user : {""}]
Plainest == [blocks |-> <<>>, stop |-> "end_turn", usage |-> Usage(0), early |-> FALSE]

Parts == {"tools", "stream", "translation", "requests"}

\* What does not move starts in one state only; requests do not depend on streams.
AnswerInit ==
    /\ part \in Parts
    /\ Init
    /\ IF part = "stream" THEN TRUE ELSE feed = <<>>
    /\ IF part = "translation" THEN TRUE ELSE original = Plainest /\ target = "openai"
    /\ IF part = "requests" THEN TRUE ELSE request = CHOOSE q \in Bodies : TRUE
    /\ StreamInit /\ TranslateInit

AnswerNext ==
    \/ part = "tools" /\ Next /\ UNCHANGED <<part, streamVars, translateVars>>
    \/ part = "stream" /\ StreamNext /\ UNCHANGED <<part, vars, translateVars>>
    \/ part \in {"translation", "requests"} /\ TranslateNext /\ UNCHANGED <<part, vars, streamVars>>

AnswerSpec ==
    /\ AnswerInit /\ [][AnswerNext]_<<part, vars, streamVars, translateVars>>
    /\ \A h \in Handlers : WF_vars(part = "tools" /\ Serve(h))
=============================================================================
