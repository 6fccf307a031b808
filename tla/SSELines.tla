------------------------------ MODULE SSELines ------------------------------
(***************************************************************************)
(* The streams of both providers, as lines, and what the proxy collects    *)
(* from them (internal/proxy/streaming.go 26-210).  A line is one record   *)
(* whatever its protocol: the fields that its JSON does not have are       *)
(* blank.  Texts are sequences of pieces, a piece being what one delta     *)
(* carries.                                                                *)
(***************************************************************************)
EXTENDS Integers, SequencesExt

NotGiven == -1

\* kind: an "event:" line, "data:" with an object, "done" ("data: [DONE]"), "quoted"
\* (the same as a JSON string) or any "other" line.  type: the event type, "" for a
\* chunk of the OpenAI protocol.  delta: the type of a delta; created: the tokens written
\* to the cache, which that protocol does not have.
Blank == [kind |-> "data", type |-> "", index |-> 0, role |-> "", block |-> "", id |-> "",
          name |-> "", delta |-> "", text |-> "", args |-> "", stop |-> "", input |-> NotGiven,
          output |-> NotGiven, cached |-> NotGiven, created |-> NotGiven]
Data(type) == [Blank EXCEPT !.type = type]
EventLine(type) == [Data(type) EXCEPT !.kind = "event"]
Done == [Blank EXCEPT !.kind = "done"]
Gap == [Blank EXCEPT !.kind = "other"]

-----------------------------------------------------------------------------
(* collectSSE                                                              *)

NewCollector == [pending |-> <<>>, buf |-> <<>>, text |-> <<>>, blocks |-> <<>>, tools |-> <<>>,
                 stop |-> "", usage |-> [input |-> 0, output |-> 0, cached |-> 0, created |-> 0]]

\* Mutant: what a chunk does not mention is 0.
TakenOrZero(given, old) == IF given = NotGiven THEN 0 ELSE given

Taken(given, old) == IF given = NotGiven THEN old ELSE given
Piece(text) == IF text = "" THEN <<>> ELSE <<text>>
\* What a text that comes in pieces adds up to: empty pieces add nothing.
Pieces(text) == FlattenSeq([k \in DOMAIN text |-> Piece(text[k])])

WithUsage(c, line) ==
    [c EXCEPT !.usage = [input |-> Taken(line.input, @.input),
                         output |-> Taken(line.output, @.output),
                         cached |-> Taken(line.cached, @.cached),
                         created |-> Taken(line.created, @.created)]]

\* Mutant: an "event:" line replaces the one that is held back.
RelayReplacing(c, line) ==
    IF line.kind = "event" THEN [c EXCEPT !.pending = <<line>>]
    ELSE [c EXCEPT !.buf = @ \o c.pending \o <<line>>, !.pending = <<>>]

\* An "event:" line is held back until the next line is known; every other line
\* is written behind it.
Relay(c, line) ==
    IF line.kind = "event" THEN [c EXCEPT !.buf = @ \o c.pending, !.pending = <<line>>]
    ELSE [c EXCEPT !.buf = @ \o c.pending \o <<line>>, !.pending = <<>>]

\* The input of a tool is taken from here, where providers send an empty object.  A
\* block of any other type becomes one of text.
StartBlock(c, line) ==
    IF line.block = "tool_use"
    THEN [c EXCEPT !.blocks = Append(@, [type |-> "tool_use", id |-> line.id,
                                         name |-> line.name, text |-> Piece(line.args)]),
                   !.tools = Append(@, [id |-> line.id, name |-> line.name,
                                        input |-> Piece(line.args)])]
    ELSE [c EXCEPT !.blocks = Append(@, [type |-> "text", id |-> "", name |-> "", text |-> <<>>])]

\* Mutant: the text goes to the first block.
TextDeltaFirst(c, line) ==
    [c EXCEPT !.text = @ \o Piece(line.text),
              !.blocks = IF @ # <<>> /\ @[1].type = "text"
                         THEN [@ EXCEPT ![1].text = @ \o Piece(line.text)] ELSE @]

\* Text goes to the response and to the last block, if that is text.
TextDelta(c, line) ==
    LET n == Len(c.blocks)
        longer == [c.blocks[n] EXCEPT !.text = @ \o Piece(line.text)]
    IN [c EXCEPT !.text = @ \o Piece(line.text),
                 !.blocks = IF n > 0 /\ c.blocks[n].type = "text"
                            THEN [c.blocks EXCEPT ![n] = longer] ELSE c.blocks]

MessageDelta(c, line) ==
    WithUsage([c EXCEPT !.stop = IF line.stop = "" THEN @ ELSE line.stop], line)

\* Anything else is read as an OpenAI chunk; its tool calls are not looked at.
Chunk(c, line) ==
    WithUsage([c EXCEPT !.text = @ \o Piece(line.text),
                        !.stop = IF line.stop = "" THEN @ ELSE line.stop], line)

Digest(c, line) ==
    CASE line.type = "content_block_start" -> StartBlock(c, line)
      [] line.type = "content_block_delta" ->     \* input_json_delta is ignored
            IF line.delta = "text_delta" THEN TextDelta(c, line) ELSE c
      [] line.type = "content_block_stop" -> c
      [] line.type = "message_delta" -> MessageDelta(c, line)
      [] line.type = "message_start" -> c     \* its usage is nested in "message"
      [] OTHER -> Chunk(c, line)

ReadLine(c, line) ==
    IF line.kind = "data" THEN Digest(Relay(c, line), line) ELSE Relay(c, line)

Flushed(c) == [c EXCEPT !.buf = @ \o c.pending, !.pending = <<>>]
Collect(lines) ==
    LET read[n \in 0 .. Len(lines)] ==
          IF n = 0 THEN NewCollector ELSE ReadLine(read[n - 1], lines[n])
    IN Flushed(read[Len(lines)])

-----------------------------------------------------------------------------
(* What the providers send for a message [blocks, stop, usage, early], a   *)
(* block being [type, id, name, text], where text is the text of a block   *)
(* of text or of thoughts and the JSON of a tool's input, and early        *)
(* meaning that the input tokens are reported with message_start only.     *)
(* The OpenAI protocol has no thoughts.                                    *)

BlockEvents(i, b) ==
    LET In(type) == [Data(type) EXCEPT !.index = i - 1]
        Delta(piece) ==
          IF b.type = "tool_use"
          THEN [In("content_block_delta") EXCEPT !.delta = "input_json_delta", !.args = piece]
          ELSE [In("content_block_delta") EXCEPT !.delta = IF b.type = "text" THEN "text_delta"
                                                           ELSE "thinking_delta",
                                                 !.text = piece]
    IN <<[In("content_block_start") EXCEPT !.block = b.type, !.id = b.id, !.name = b.name]>>
       \o [k \in DOMAIN b.text |-> Delta(b.text[k])] \o <<In("content_block_stop")>>

AnthropicEvents(m) ==
    <<[Data("message_start") EXCEPT !.role = "assistant", !.input = m.usage.input]>>
    \o FlattenSeq([i \in DOMAIN m.blocks |-> BlockEvents(i, m.blocks[i])])
    \o <<[Data("message_delta") EXCEPT !.stop = m.stop, !.output = m.usage.output,
                                       !.cached = m.usage.cached, !.created = m.usage.created,
                                       !.input = IF m.early THEN NotGiven ELSE m.usage.input],
         Data("message_stop")>>

AnthropicLines(m) ==
    LET events == AnthropicEvents(m)
    IN FlattenSeq([i \in DOMAIN events |-> <<EventLine(events[i].type), events[i], Gap>>])

OpenAIEvents(m) ==
    LET Nth(i) == Cardinality({j \in 1 .. i - 1 : m.blocks[j].type = "tool_use"})
        Chunks(i, b) ==
          IF b.type = "thinking" THEN <<>>
          ELSE IF b.type = "text" THEN [k \in DOMAIN b.text |-> [Blank EXCEPT !.text = b.text[k]]]
          ELSE <<[Blank EXCEPT !.index = Nth(i), !.id = b.id, !.name = b.name]>>
               \o [k \in DOMAIN b.text |-> [Blank EXCEPT !.index = Nth(i), !.args = b.text[k]]]
    IN <<[Blank EXCEPT !.role = "assistant"]>>
       \o FlattenSeq([i \in DOMAIN m.blocks |-> Chunks(i, m.blocks[i])])
       \o <<[Blank EXCEPT !.stop = m.stop, !.input = m.usage.input,
                          !.output = m.usage.output, !.cached = m.usage.cached], Done>>

OpenAILines(m) ==
    LET events == OpenAIEvents(m) IN FlattenSeq([i \in DOMAIN events |-> <<events[i], Gap>>])
=============================================================================
