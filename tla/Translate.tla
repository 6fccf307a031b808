------------------------------ MODULE Translate -----------------------------
(***************************************************************************)
(* Translation between the two protocols (internal/translate): requests,   *)
(* responses and, line by line, streams.  main does not call it yet.       *)
(* Messages, lines and the collector that the results are read with are    *)
(* those of SSELines.                                                      *)
(***************************************************************************)
EXTENDS SSELines

CONSTANTS
    Originals,  \* messages that are streamed or returned
    Requests    \* request bodies, in the Anthropic protocol

ASSUME TranslateAssumption ==
    /\ \A m \in Originals :
         /\ m.blocks \in Seq([type : {"text", "tool_use", "thinking"}, id : STRING,
                              name : STRING, text : Seq(STRING)])
         /\ \A i \in DOMAIN m.blocks : m.blocks[i].type = "tool_use" => m.blocks[i].id # ""
         /\ m.stop \in STRING /\ m.usage \in [input : Nat, output : Nat, cached : Nat, created : Nat]
    /\ \A q \in Requests :
         q \in [system : Seq(STRING), listed : BOOLEAN, thinking : BOOLEAN,
               limit : Int, choice : STRING, user : STRING,
               messages : Seq([role : {"user", "assistant"}, content : Seq(STRING)])]

VARIABLES
    original,   \* the message
    request,    \* the request
    target,     \* the protocol its stream is translated to
    pos,        \* lines of the stream that are done
    heldEvent,  \* anthropicStreamParser.pendingEvent
    out         \* the translated lines

translateVars == <<original, request, target, pos, heldEvent, out>>

-----------------------------------------------------------------------------
(* Stop reasons                                                            *)

FinishReasons == [end_turn |-> "stop", max_tokens |-> "length",
                  tool_use |-> "tool_calls", refusal |-> "content_filter"]

\* Mutant: an unknown reason is dropped.
FinishReasonKnown(stop) == IF stop \in DOMAIN FinishReasons THEN FinishReasons[stop] ELSE ""

FinishReason(stop) == IF stop \in DOMAIN FinishReasons THEN FinishReasons[stop] ELSE stop

StopReason(finish) ==
    IF \E s \in DOMAIN FinishReasons : FinishReasons[s] = finish
    THEN CHOOSE s \in DOMAIN FinishReasons : FinishReasons[s] = finish ELSE finish

-----------------------------------------------------------------------------
(* Streams                                                                 *)

TokensOr0(n) == IF n = NotGiven THEN 0 ELSE n

\* The first token counts make up a usage object; nothing else of it is optional, and
\* the tokens written to the cache are left out.
FinalChunk(e) ==
    LET final == [Blank EXCEPT !.stop = FinishReason(e.stop)]
    IN IF {e.input, e.output, e.cached, e.created} = {NotGiven} THEN final
       ELSE [final EXCEPT !.input = TokensOr0(e.input), !.output = TokensOr0(e.output),
                          !.cached = IF e.cached > 0 THEN e.cached ELSE NotGiven]

\* Mutant: the pieces of the arguments all go to the first tool.
ArgumentsFirst(e) == [Blank EXCEPT !.args = e.args]

Arguments(e) == [Blank EXCEPT !.index = e.index, !.args = e.args]

\* The last case: the data of message_stop is "[DONE]" with its quotes.
TranslateAnthropicToOpenAI(e) ==
    CASE e.type = "message_start" -> <<[Blank EXCEPT !.role = "assistant"]>>
      [] e.type = "content_block_start" /\ e.block = "tool_use" ->
            <<[Blank EXCEPT !.index = e.index, !.id = e.id, !.name = e.name]>>
      [] e.type = "content_block_delta" /\ e.delta = "text_delta" -> <<[Blank EXCEPT !.text = e.text]>>
      [] e.type = "content_block_delta" /\ e.delta = "input_json_delta" -> <<Arguments(e)>>
      [] e.type = "message_delta" -> <<FinalChunk(e)>>
      [] e.type = "message_stop" -> <<[Blank EXCEPT !.kind = "quoted"]>>
      [] OTHER -> <<>>

If(condition, events) == IF condition THEN events ELSE <<>>

\* Every piece of text becomes a block of its own, always with index 0; blocks of
\* tools are never stopped; usage is dropped.
TranslateOpenAIToAnthropic(c) ==
    IF c.kind = "done" THEN <<Data("message_stop")>>
    ELSE IF c.kind = "quoted" THEN <<>>
    ELSE If(c.role = "assistant", <<[Data("message_start") EXCEPT !.role = "assistant"]>>)
         \o If(c.text # "", <<[Data("content_block_start") EXCEPT !.block = "text"],
                              [Data("content_block_delta") EXCEPT !.delta = "text_delta",
                                                                  !.text = c.text],
                              Data("content_block_stop")>>)
         \o If(c.id # "", <<[Data("content_block_start") EXCEPT !.block = "tool_use",
                                !.index = c.index, !.id = c.id, !.name = c.name]>>)
         \o If(c.args # "", <<[Data("content_block_delta") EXCEPT !.delta = "input_json_delta",
                                !.index = c.index, !.args = c.args]>>)
         \o If(c.stop # "", <<[Data("message_delta") EXCEPT !.stop = StopReason(c.stop)]>>)

Source == IF target = "openai" THEN AnthropicLines(original) ELSE OpenAILines(original)

\* A message is one of the protocol it comes from.
TranslateInit ==
    /\ original \in Originals
    /\ request \in Requests
    /\ target \in {"openai", "anthropic"}
    /\ original.stop \notin (IF target = "openai" THEN Range(FinishReasons) ELSE DOMAIN FinishReasons)
    /\ pos = 0 /\ heldEvent = "" /\ out = <<>>

\* anthropicStreamParser: the name of the event comes from its own line.
ParseAnthropic(line) ==
    /\ target = "openai"
    /\ heldEvent' = CASE line.kind = "event" -> line.type
                      [] line.kind = "data" -> ""
                      [] OTHER -> heldEvent
    /\ out' = IF line.kind = "data"
              THEN out \o TranslateAnthropicToOpenAI([line EXCEPT !.type = heldEvent])
              ELSE out

\* openAIStreamParser
ParseOpenAI(line) ==
    /\ target = "anthropic"
    /\ out' = IF line.kind \in {"data", "done", "quoted"}
              THEN out \o TranslateOpenAIToAnthropic(line) ELSE out
    /\ UNCHANGED heldEvent

TranslateNext ==
    /\ pos < Len(Source)
    /\ pos' = pos + 1
    /\ ParseAnthropic(Source[pos + 1]) \/ ParseOpenAI(Source[pos + 1])
    /\ UNCHANGED <<original, request, target>>

TranslateSpec == TranslateInit /\ [][TranslateNext]_translateVars

-----------------------------------------------------------------------------
(* Responses.  OpenAI: [text, calls, finish, usage], and whether the       *)
(* arguments of the calls are strings, as OpenAI's are, or objects.        *)

TextIn(blocks) ==
    FlattenSeq([i \in DOMAIN blocks |-> If(blocks[i].type = "text", blocks[i].text)])
ToolsIn(blocks) ==
    FlattenSeq([i \in DOMAIN blocks |-> If(blocks[i].type = "tool_use", <<blocks[i]>>)])

AnthropicToOpenAIResponse(m) ==
    [text |-> TextIn(m.blocks), calls |-> ToolsIn(m.blocks), arguments |-> "object",
     finish |-> FinishReason(m.stop),
     usage |-> [input |-> m.usage.input, output |-> m.usage.output, cached |-> m.usage.cached]]

\* json.Unmarshal of an object into the string Arguments fails.
Unreadable(r) == r.calls # <<>> /\ r.arguments = "object"

OpenAIToAnthropicResponse(r) ==
    [blocks |-> If(r.text # <<>>, <<[type |-> "text", id |-> "", name |-> "", text |-> r.text]>>)
                \o r.calls,
     stop |-> StopReason(r.finish),
     usage |-> [input |-> r.usage.input, output |-> r.usage.output, cached |-> r.usage.cached,
                created |-> 0]]

-----------------------------------------------------------------------------
(* Requests: [system, listed, thinking, messages, limit, choice, user],    *)
(* listed meaning that the system is given as a list of blocks and         *)
(* thinking that thoughts are asked for.                                   *)

\* json.Unmarshal of a list into the string System fails.
Refused(q) == q.listed

\* A message of the user that holds a tool_result becomes a message of the tool.
OpenAIRole(msg) ==
    IF msg.role = "user" /\ "tool_result" \in Range(msg.content) THEN "tool" ELSE msg.role

ToOpenAI(q) ==
    [messages |->
        If(q.system # <<>>, <<[role |-> "system", content |-> q.system]>>)
        \o [i \in DOMAIN q.messages |->
              [q.messages[i] EXCEPT !.role = OpenAIRole(q.messages[i])]],
     max_completion_tokens |-> q.limit, max_tokens |-> NotGiven,
     choice |-> IF q.choice = "any" THEN "required" ELSE q.choice, user |-> q.user]

\* Mutant: the role of a tool's message is kept.
SameRole(role) == role

AnthropicRole(role) == IF role = "tool" THEN "user" ELSE role

\* The texts of all system messages are joined; a message of the tool becomes one
\* of the user; the first limit that is given counts.
ToAnthropic(q) ==
    LET System(i) == q.messages[i].role = "system"
        FromOpenAI(i) == [q.messages[i] EXCEPT !.role = AnthropicRole(q.messages[i].role)]
        all == DOMAIN q.messages
    IN [system |-> FlattenSeq([i \in all |-> If(System(i), q.messages[i].content)]),
        messages |-> FlattenSeq([i \in all |-> If(~System(i), <<FromOpenAI(i)>>)]),
        limit |-> IF q.max_completion_tokens # NotGiven THEN q.max_completion_tokens
                  ELSE q.max_tokens,
        listed |-> FALSE, thinking |-> FALSE, choice |-> q.choice, user |-> q.user]

-----------------------------------------------------------------------------
Translated == pos = Len(Source)

(* streaming.go:137-147, 158-168, 344-367: a client that puts the pieces   *)
(* of a tool's arguments together by their index gets the arguments of the *)
(* tool whose id came with that index.                                     *)
ToolsAssembled ==
    Translated => \A b \in Range(ToolsIn(original.blocks)) :
        \E i \in DOMAIN out :
            /\ out[i].id = b.id
            /\ FlattenSeq([k \in DOMAIN out |->
                  IF out[k].index = out[i].index THEN Piece(out[k].args) ELSE <<>>])
               = Pieces(b.text)

(* streaming.go:93-413: what a client collects from a translated stream is *)
(* the text and the stop reason of the message; to the OpenAI protocol its *)
(* usage too, but for input tokens that are reported with message_start    *)
(* only and for tokens written to the cache; to the Anthropic protocol its *)
(* tools in order, and no usage; and the arguments of every tool can be    *)
(* put together.  Thoughts are dropped.                                    *)
StreamKept ==
    ToolsAssembled /\ (Translated =>
        LET got == Collect(out) IN
        /\ got.text = Pieces(TextIn(original.blocks))
        /\ target = "openai" =>
              /\ StopReason(got.stop) = original.stop
              /\ got.usage = [original.usage EXCEPT !.input = IF original.early THEN 0 ELSE @,
                                                    !.created = 0]
        /\ target = "anthropic" =>
              /\ got.stop = StopReason(original.stop)
              /\ got.tools = [i \in DOMAIN ToolsIn(original.blocks) |->
                               [id |-> ToolsIn(original.blocks)[i].id,
                                name |-> ToolsIn(original.blocks)[i].name, input |-> <<>>]]
              /\ got.usage = NewCollector.usage)

(* anthropic.go:127-227, openai.go:123-223: a response that is translated  *)
(* to the OpenAI protocol and back is the same with its texts in one       *)
(* block, without its thoughts and without the count of tokens written to  *)
(* the cache, and cannot be read at all when it has tools.                 *)
ResponsesReturn ==
    target = "openai" =>
        LET r == AnthropicToOpenAIResponse(original) IN
        IF ToolsIn(original.blocks) # <<>> THEN Unreadable(r)
        ELSE /\ ~Unreadable(r)
             /\ LET back == OpenAIToAnthropicResponse(r) IN
                  /\ TextIn(back.blocks) = TextIn(original.blocks)
                  /\ {b.type : b \in Range(back.blocks)} \subseteq {"text"}
                  /\ back.stop = original.stop
                  /\ back.usage = [original.usage EXCEPT !.created = 0]

(* openai.go:10-118, anthropic.go:10-122: a request that is translated to  *)
(* the OpenAI protocol and back is the same, but that a tool choice of     *)
(* "any" comes back as the "required" of the other protocol and that       *)
(* thoughts are no longer asked for.  One whose system is a list of blocks *)
(* cannot be translated.                                                   *)
RequestsReturn ==
    ~Refused(request) =>
        ToAnthropic(ToOpenAI(request))
            = [request EXCEPT !.choice = IF request.choice = "any" THEN "required" ELSE request.choice,
                              !.thinking = FALSE]

(* What comes back from the other protocol, of requests and of responses.  *)
RoundTrip == RequestsReturn /\ ResponsesReturn
=============================================================================
