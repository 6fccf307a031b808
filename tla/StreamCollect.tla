---------------------------- MODULE StreamCollect ---------------------------
(***************************************************************************)
(* One streamed answer in the proxy: read line by line (collectSSE), then  *)
(* sent to the client in one piece and handed to the plugins and the log   *)
(* (proxy.go 326-363).  A line longer than bufio.Scanner takes, a broken   *)
(* connection and the 120 s timeout of the client end the collection, and  *)
(* what it has collected is dropped.  ExtractUsage is the reading of an    *)
(* answer that is not streamed, to compare with.                           *)
(***************************************************************************)
EXTENDS SSELines

CONSTANTS
    Feeds,      \* what the upstream may send: sequences of lines
    Messages    \* the messages whose streams are among the feeds

ASSUME StreamAssumption ==
    /\ \A f \in Feeds : f \in Seq({f[i] : i \in DOMAIN f})
    /\ \A m \in Messages :
         /\ m.blocks \in Seq([type : {"text", "tool_use", "thinking"}, id : STRING,
                              name : STRING, text : Seq(STRING)])
         /\ \A i \in DOMAIN m.blocks : "" \notin Range(m.blocks[i].text)
         /\ m.stop \in STRING /\ m.usage \in [input : Nat, output : Nat, cached : Nat, created : Nat]

VARIABLES
    feed,       \* the lines of this answer
    at,         \* how many of them have been read
    col,        \* the collector
    ending,     \* "open", "eof" or "broken"
    delivered   \* what the client got

streamVars == <<feed, at, col, ending, delivered>>

StreamInit ==
    /\ feed \in Feeds
    /\ at = 0
    /\ col = NewCollector
    /\ ending = "open"
    /\ delivered = <<>>

Scan ==
    /\ ending = "open"
    /\ at < Len(feed) /\ feed[at + 1].kind # "oversized"
    /\ at' = at + 1
    /\ col' = ReadLine(col, feed[at + 1])
    /\ UNCHANGED <<feed, ending, delivered>>

\* Mutant: the client gets what was collected before the error as well.
BreakDelivering ==
    /\ ending = "open"
    /\ ending' = "broken"
    /\ delivered' = col.buf
    /\ UNCHANGED <<feed, at, col>>

\* scanner.Err: the line is too long, or reading failed.
Break ==
    /\ ending = "open"
    /\ ending' = "broken"
    /\ UNCHANGED <<feed, at, col, delivered>>

\* The end of the stream: the held line is written, the buffer goes to the client.
EndOfStream ==
    /\ ending = "open" /\ at = Len(feed)
    /\ ending' = "eof"
    /\ col' = Flushed(col)
    /\ delivered' = col'.buf
    /\ UNCHANGED <<feed, at>>

StreamNext == Scan \/ Break \/ EndOfStream

StreamSpec == StreamInit /\ [][StreamNext]_streamVars

-----------------------------------------------------------------------------
(* The same message without streaming                                      *)

ToolsOf(m) ==
    FlattenSeq([i \in DOMAIN m.blocks |->
                  IF m.blocks[i].type = "tool_use"
                  THEN <<[id |-> m.blocks[i].id, name |-> m.blocks[i].name,
                          input |-> m.blocks[i].text]>>
                  ELSE <<>>])

\* content[] and stop_reason, or choices[0]; usage under either name.
ExtractUsage(m) == [tools |-> ToolsOf(m), stop |-> m.stop, usage |-> m.usage]

TextOf(m) ==
    FlattenSeq([i \in DOMAIN m.blocks |-> IF m.blocks[i].type = "text" THEN m.blocks[i].text ELSE <<>>])

-----------------------------------------------------------------------------
(* streaming.go:39-207: whatever the lines are, in whatever order, none is *)
(* lost, doubled or moved by being held back, and the client gets all of   *)
(* them or, when reading failed, none.                                     *)
Verbatim ==
    /\ col.buf \o col.pending = SubSeq(feed, 1, at)
    /\ delivered = IF ending = "eof" THEN feed ELSE <<>>

(* proxy.go:380-397: the assistant message of a follow-up repeats what the *)
(* model said, every block in order with its own text, but for the input   *)
(* of the tools, which is lost (streaming.go:111-126), and for thoughts,   *)
(* which become an empty text (100-106); the logged text is the text of    *)
(* all blocks.                                                             *)
BlocksRepeat ==
    ending = "eof" => \A m \in Messages :
        /\ feed = AnthropicLines(m) =>
             /\ col.blocks = [i \in DOMAIN m.blocks |->
                  IF m.blocks[i].type = "tool_use"
                  THEN [type |-> "tool_use", id |-> m.blocks[i].id,
                        name |-> m.blocks[i].name, text |-> <<>>]
                  ELSE [type |-> "text", id |-> "", name |-> "",
                        text |-> IF m.blocks[i].type = "text" THEN m.blocks[i].text ELSE <<>>]]
        /\ feed \in {AnthropicLines(m), OpenAILines(m)} => col.text = TextOf(m)

WithoutInput(tools) == [k \in DOMAIN tools |-> [tools[k] EXCEPT !.input = <<>>]]

(* Budget, rate limit, tool policy and log see the same for a message that *)
(* is streamed as for one that is not (proxy.go:128-225), but for three    *)
(* things that a stream loses: the input of every tool, tokens that are    *)
(* reported with message_start only, and the tools of OpenAI streams; and  *)
(* a follow-up repeats its blocks.                                         *)
RecordsAgree ==
    BlocksRepeat /\ (ending = "eof" => \A m \in Messages :
        LET plain == ExtractUsage(m) IN
        /\ feed \in {AnthropicLines(m), OpenAILines(m)} => col.stop = plain.stop
        /\ feed = AnthropicLines(m) =>
             /\ col.tools = WithoutInput(plain.tools)
             /\ col.usage = [plain.usage EXCEPT !.input = IF m.early THEN 0 ELSE @]
        /\ feed = OpenAILines(m) =>
             /\ col.tools = <<>>
             /\ col.usage = [plain.usage EXCEPT !.created = 0])
=============================================================================
