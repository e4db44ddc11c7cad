---------------------------- MODULE BridgeStream ---------------------------
(***************************************************************************)
(* What bridge/bridge.py computes of an upstream's event stream: parsing,  *)
(* format detection, assembly of a message, and synthesis of a stream from *)
(* a message.                                                              *)
(*                                                                         *)
(* An event is a record.  Its data is a sequence of chunks: the text, or   *)
(* the pieces of a tool's input as JSON, a delta carries.  A JSON object   *)
(* is Json, and {} is the empty sequence.                                  *)
(***************************************************************************)
EXTENDS Naturals, FiniteSets, SequencesExt

CONSTANT DetectWindow  \* _detect_sse_format looks at events[:6]

ASSUME WindowAssumption == DetectWindow \in Nat \ {0}

Json == <<"{", "}">>

\* A block of an assembled message: a tool_use whose input was never parsed
\* still has its pieces in "_input_json".
Block(kind) == [kind |-> kind, data |-> <<>>, unparsed |-> kind = "tool_use"]

Message(content, stop) == [content |-> content, stop |-> stop]

NoMessage == Message(<<>>, "no message")

\* What _parse_sse_event makes of a block of text.  A comment, a block without
\* data and data that is not JSON give None: an event of the type "nothing",
\* which every reader passes over.  kind is that of a content block, or says what
\* a proxy's "done" carries.
Event(type, index, kind, data, stop) ==
  [type |-> type, index |-> index, kind |-> kind, data |-> data, stop |-> stop]

Plain(type) == Event(type, 0, "none", <<>>, "none")
----------------------------------------------------------------------------
(***************************************************************************)
(* Reading a stream.                                                       *)
(***************************************************************************)

AnthropicTypes == {"message_start", "message_delta", "message_stop", "ping",
                   "content_block_start", "content_block_delta", "content_block_stop"}

\* A proxy's event has a status and a delta or a response.
ProxyTypes == {"stream", "done"}

Format(ev) == CASE ev.type \in AnthropicTypes -> "anthropic"
                [] ev.type \in ProxyTypes     -> "proxy"
                [] OTHER                      -> "unknown"

\* Blocks that parse to None count against the window.
DetectFormat(events) ==
  LET i == SelectInSeq(SubSeq(events, 1, Min({DetectWindow, Len(events)})),
                       LAMBDA ev : Format(ev) # "unknown")
  IN  IF i = 0 THEN "unknown" ELSE Format(events[i])

\* json.loads() of a tool's pieces, {} when they are no JSON.
ParseJson(pieces) == IF pieces = Json THEN Json ELSE <<>>

NoAssembly == [message |-> NoMessage, blocks |-> <<>>, index |-> <<>>, over |-> FALSE]

\* blocks[i] is the block whose index is index[i], in the order of their starts:
\* where an event's block is, 0 when it has none.
BlockOf(a, ev) == SelectInSeq(a.index, LAMBDA idx : idx = ev.index)

\* A mutant of StartBlock: only the last block is kept.
StartOnlyBlock(a, ev) ==
  [a EXCEPT !.blocks = <<[Block(ev.kind) EXCEPT !.data = ev.data]>>, !.index = <<ev.index>>]

StartBlock(a, ev) ==
  LET new == [Block(ev.kind) EXCEPT !.data = ev.data]
      i == BlockOf(a, ev)
  IN  IF i = 0 THEN [a EXCEPT !.blocks = Append(@, new), !.index = Append(@, ev.index)]
               ELSE [a EXCEPT !.blocks[i] = new]

ExtendBlock(a, ev) ==
  LET i == BlockOf(a, ev)
      b == a.blocks[i]
  IN  IF i = 0 THEN a ELSE [a EXCEPT !.blocks[i] = [b EXCEPT !.data = b.data \o ev.data]]

FinishBlock(a, ev) ==
  LET i == BlockOf(a, ev)
      b == a.blocks[i]
      data == IF b.unparsed THEN ParseJson(b.data) ELSE b.data
  IN  IF i = 0 THEN a ELSE [a EXCEPT !.blocks[i] = [b EXCEPT !.data = data, !.unparsed = FALSE]]

\* One turn of the loop of _collect_anthropic_events.
Assemble(a, ev) ==
  CASE a.over -> a
    [] ~a.over /\ ev.type = "message_start" ->
         [a EXCEPT !.message = Message(<<>>, "none")]
    [] ~a.over /\ ev.type = "content_block_start" -> StartBlock(a, ev)
    [] ~a.over /\ ev.type = "content_block_delta" -> ExtendBlock(a, ev)
    [] ~a.over /\ ev.type = "content_block_stop"  -> FinishBlock(a, ev)
    [] ~a.over /\ ev.type = "message_delta" ->
         IF a.message = NoMessage THEN a ELSE [a EXCEPT !.message.stop = ev.stop]
    [] ~a.over /\ ev.type = "message_stop" -> [a EXCEPT !.over = TRUE]
    [] OTHER -> a

Assembly(events) == FoldLeft(Assemble, NoAssembly, events)

CollectAnthropic(events) ==
  LET a == Assembly(events)
  IN  IF a.message = NoMessage THEN NoMessage
      ELSE [a.message EXCEPT !.content = a.blocks]

\* A proxy's answer in words, whatever its tools would have been.
TextMessage(text) == Message(<<[Block("text") EXCEPT !.data = text]>>, "end_turn")

\* A mutant of CollectProxy: what was streamed before an error is the message.
CollectProxyDespiteError(events) ==
  LET text == FlattenSeq([i \in DOMAIN events |-> events[i].data])
  IN  IF text = <<>> THEN NoMessage ELSE TextMessage(text)

\* What a "done" event's response says of the whole message: a message wins at
\* once, a text over the deltas.
CollectProxy(events) ==
  LET whole == SelectInSeq(events, LAMBDA ev : ev.type = "done" /\ ev.kind = "message")
      final == SelectLastInSeq(events, LAMBDA ev : ev.type = "done" /\ ev.kind = "text")
      streamed == FlattenSeq([i \in DOMAIN events |->
                    IF events[i].type = "stream" THEN events[i].data ELSE <<>>])
      body == IF final # 0 THEN events[final].data ELSE streamed
  IN  CASE whole # 0 -> TextMessage(events[whole].data)
        [] whole = 0 /\ (\E ev \in ToSet(events) : ev.type = "error") -> NoMessage
        [] OTHER -> IF body = <<>> THEN NoMessage ELSE TextMessage(body)
----------------------------------------------------------------------------
(***************************************************************************)
(* Writing a stream.                                                       *)
(***************************************************************************)

\* A mutant of SynthesizedBlock: the events of a block do not name it.
SynthesizedBlockUnnamed(index, block) ==
  <<[Plain("content_block_start") EXCEPT !.kind = block.kind],
    [Plain("content_block_delta") EXCEPT !.data = block.data],
    Plain("content_block_stop")>>

SynthesizedBlock(index, block) ==
  LET start == [Plain("content_block_start") EXCEPT !.index = index, !.kind = block.kind]
      delta == [Plain("content_block_delta") EXCEPT !.index = index, !.data = block.data]
      stop  == [Plain("content_block_stop") EXCEPT !.index = index]
  IN  IF block.kind \in {"text", "tool_use"} THEN <<start, delta, stop>>
      ELSE <<[start EXCEPT !.data = block.data], stop>>

\* A mutant of Synthesize: the content is not written.
SynthesizeEmpty(message) ==
  <<Plain("message_start"),
    [Plain("message_delta") EXCEPT !.stop = message.stop], Plain("message_stop")>>

\* A dict that is no message has no content and no stop_reason.
Synthesize(message) ==
  <<Plain("message_start")>>
  \o FlattenSeq([i \in DOMAIN message.content |-> SynthesizedBlock(i - 1, message.content[i])])
  \o <<[Plain("message_delta") EXCEPT
         !.stop = IF message = NoMessage THEN "end_turn" ELSE message.stop],
       Plain("message_stop")>>
----------------------------------------------------------------------------
(***************************************************************************)
(* Answering.                                                              *)
(***************************************************************************)
Answers == {"message", "stream", "error"}

ErrorAnswer == [kind |-> "error", message |-> NoMessage, events |-> <<>>]

MessageAnswer(message) == [ErrorAnswer EXCEPT !.kind = "message", !.message = message]

StreamAnswer(events) == [ErrorAnswer EXCEPT !.kind = "stream", !.events = events]

\* _build_response
BuildResponse(message, streaming) ==
  IF streaming THEN StreamAnswer(Synthesize(message)) ELSE MessageAnswer(message)

\* The 502 of a message that could not be assembled.
OrError(message, answer) == IF message = NoMessage THEN ErrorAnswer ELSE answer

AnswerAnthropic(events, streaming) ==
  IF streaming THEN StreamAnswer(events)
  ELSE LET message == CollectAnthropic(events)
       IN  OrError(message, MessageAnswer(message))

\* _pipe_or_collect
PipeOrCollect(events, streaming) ==
  LET format == DetectFormat(events)
      message == CollectProxy(events)
  IN  CASE format = "anthropic" -> AnswerAnthropic(events, streaming)
        [] format = "proxy"     -> OrError(message, BuildResponse(message, streaming))
        [] format = "unknown"   -> ErrorAnswer
----------------------------------------------------------------------------
(***************************************************************************)
(* What a stream means: the protocol of the Messages API, independently of *)
(* the code, and what a client of the bridge makes of an answer.           *)
(***************************************************************************)

Starts(events) == {ev \in ToSet(events) : ev.type = "content_block_start"}

\* What an event adds to the data of the block with an index.
Piece(ev, index) ==
  IF ev.type \in {"content_block_start", "content_block_delta"} /\ ev.index = index
  THEN ev.data ELSE <<>>

DataOf(events, index) == FlattenSeq([i \in DOMAIN events |-> Piece(events[i], index)])

\* The message of the Anthropic events: an index is that of a block in the
\* content, of the kind its start names, with the data of all its deltas.
Meaning(events) ==
  LET Kind(index) == (CHOOSE ev \in Starts(events) : ev.index = index).kind
      last == SelectLastInSeq(events, LAMBDA ev : ev.type = "message_delta")
  IN  Message([i \in 1..Cardinality({ev.index : ev \in Starts(events)}) |->
                [kind     |-> Kind(i - 1),
                 data     |-> IF Kind(i - 1) = "tool_use" THEN ParseJson(DataOf(events, i - 1))
                                                          ELSE DataOf(events, i - 1),
                 unparsed |-> FALSE]],
              events[last].stop)

Complete(events) ==
  /\ \E ev \in ToSet(events) : ev.type = "message_stop"
  /\ \A ev \in ToSet(events) : ev.type # "error"

\* The Anthropic SDK raises on a stream that breaks off or reports an error.
ClientReads(answer) ==
  CASE answer.kind = "message" -> answer.message
    [] answer.kind = "stream"  -> IF Complete(answer.events) THEN Meaning(answer.events)
                                  ELSE NoMessage
    [] answer.kind = "error"   -> NoMessage
=============================================================================
