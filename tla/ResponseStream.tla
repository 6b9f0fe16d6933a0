----------------------------- MODULE ResponseStream -----------------------------
(***************************************************************************)
(* A provider streams a response, and the enclave's stream state takes it  *)
(* in event by event.  The provider (external: modelled from the events    *)
(* the aggregators read) has texts to send in several slots, a choice, a   *)
(* content block or a tool call each, and sends them in pieces and in any  *)
(* order it likes.  The stream may end after every event.                  *)
(*                                                                         *)
(* A provider may stray from the protocol once: leave an index out, skip   *)
(* one, start a block again, or send null.                                 *)
(***************************************************************************)
EXTENDS StreamAggregate

CONSTANT MaxEvents  \* events of a stream after its first (bounds the model)

ASSUME MaxEventsAssumption == MaxEvents \in Nat

VARIABLES
    protocol,
    state,    \* the enclave's StreamFieldState
    events,   \* the events so far: what the verifier will find in the body
    sent,     \* the text sent so far in each slot that has been opened
    closed,   \* the closing event was sent
    error,    \* the error sent last, or Null
    strayed   \* what the provider did against the protocol, or Null

vars == <<protocol, state, events, sent, closed, error, strayed>>

--------------------------------------------------------------------------------
(* The provider.                                                             *)

\* A slot: the index of its block, the member its text is in, and the index of
\* the part or tool call in the block.
Slot(i, f, k) == [i |-> i, f |-> f, k |-> k]

Slots(p) ==
    CASE p \in {"openai.chat_completions", "alibaba.dashscope.generation"} ->
            {Slot(0, "content", 0), Slot(1, "content", 0),
             Slot(0, "tool_calls", 0), Slot(0, "tool_calls", 1)}
      [] p = "openai.responses" ->
            {Slot(0, "output_text", 0), Slot(0, "refusal", 1), Slot(1, "arguments", 0)}
      [] p = "anthropic.messages" ->
            {Slot(0, "thinking", 0), Slot(1, "text", 0), Slot(2, "input_json", 0)}
      [] p = "google.gemini.generate_content" ->
            {Slot(0, "text", 0), Slot(0, "text", 1), Slot(1, "text", 0)}
      [] p = "aws.bedrock.converse" ->
            {Slot(0, "text", 0), Slot(1, "reasoningContent", 0), Slot(2, "toolUse", 0)}
      [] p = "cohere.chat" -> {Slot(0, "text", 0), Slot(1, "text", 0)}

\* Where the view has the text of a slot.
Path(p, s) ==
    LET tool == <<"tool_calls", s.k + 1, "function", "arguments">>
        member == IF s.f = "tool_calls" THEN tool ELSE <<s.f>>
        nested == IF s.f = "reasoningContent" THEN <<s.f, "text">>
                  ELSE IF s.f = "toolUse" THEN <<s.f, "input">> ELSE <<s.f>>
        part == IF s.f = "output_text" THEN <<"content", s.k + 1, "text">>
                ELSE IF s.f = "refusal" THEN <<"content", s.k + 1, "refusal">> ELSE <<s.f>>
    IN  CASE p = "openai.chat_completions" -> <<"choices", s.i + 1, "message">> \o member
          [] p = "alibaba.dashscope.generation" ->
                <<"output", "choices", s.i + 1, "message">> \o member
          [] p = "openai.responses" -> <<"output", s.i + 1>> \o part
          [] p = "anthropic.messages" -> <<"content", s.i + 1, s.f>>
          [] p = "google.gemini.generate_content" ->
                <<"candidates", s.i + 1, "content", "parts", s.k + 1, "text">>
          [] p = "aws.bedrock.converse" -> <<"output", "message", "content", s.i + 1>> \o nested
          [] p = "cohere.chat" -> <<"message", "content", s.i + 1, "text">>

Lookup(v, path) == FoldLeft(LAMBDA o, k : IF o = Null THEN Null ELSE Get(o, k), v, path)

Opening(p) ==
    CASE p = "openai.chat_completions" -> [model |-> <<"m">>, choices |-> <<>>, usage |-> Null]
      [] p = "openai.responses" ->
            [type |-> "created",
             response |-> [status |-> <<"in_progress">>, output |-> <<>>, error |-> Null]]
      [] p = "anthropic.messages" ->
            [type |-> "message_start",
             message |-> [role |-> "a", model |-> <<"m">>, content |-> <<>>,
                          stop_reason |-> Null, usage |-> [input |-> 1]]]
      [] p = "google.gemini.generate_content" -> [modelVersion |-> <<"m">>]
      [] p = "alibaba.dashscope.generation" -> [request_id |-> <<"r">>]
      [] p = "aws.bedrock.converse" -> [messageStart |-> [role |-> "a"]]
      [] p = "cohere.chat" -> [type |-> "message-start",
                               delta |-> [message |-> [role |-> "a"]]]

\* The events that carry x, the next piece of slot s, and that start a block.
\* index is s.i, or Null: left out.
Choice(index, s, x) ==
    LET tool == [index |-> s.k, function |-> [arguments |-> x]]
    IN  [index |-> index, finish_reason |-> Null,
         delta |-> [role |-> "a"] @@ (IF s.f = "content" THEN [content |-> x]
                                      ELSE [content |-> Null, tool_calls |-> <<tool>>])]

Delta(p, index, s, x) ==
    LET parts == [k \in 1..(s.k + 1) |-> [text |-> IF k = s.k + 1 THEN x ELSE <<>>]]
    IN  CASE p = "openai.chat_completions" ->
                [choices |-> <<Choice(index, s, x)>>, usage |-> Null]
          [] p = "alibaba.dashscope.generation" ->
                [output |-> [choices |-> <<Choice(index, s, x)>>]]
          [] p = "openai.responses" ->
                [type |-> IF s.f = "arguments" THEN "function_call_arguments" ELSE s.f,
                 done |-> FALSE, output_index |-> index, content_index |-> s.k, delta |-> x]
          [] p = "anthropic.messages" ->
                [type |-> "content_block_delta", index |-> index,
                 delta |-> [type |-> s.f] @@
                           ((IF s.f = "input_json" THEN "partial_json" ELSE s.f) :> x)]
          [] p = "google.gemini.generate_content" ->
                [candidates |-> <<[index |-> index, content |-> [role |-> "a", parts |-> parts]]>>]
          [] p = "aws.bedrock.converse" ->
                [contentBlockDelta |->
                    [contentBlockIndex |-> index,
                     delta |-> CASE s.f = "text" -> [text |-> x]
                                 [] s.f = "toolUse" -> [toolUse |-> [input |-> x]]
                                 [] OTHER -> [reasoningContent |-> [text |-> x]]]]
          [] p = "cohere.chat" ->
                [type |-> "content-delta",
                 delta |-> [message |-> [content |-> [index |-> index, text |-> x]]]]

\* Anthropic's block of a tool call.
ToolUse(input) == [type |-> "tool_use", name |-> <<"f">>, input |-> input]

\* The event that opens slot s, with no text in it yet.
Start(p, s) ==
    CASE p = "openai.responses" /\ s.f = "arguments" ->
            [type |-> "output_item", output_index |-> s.i, item |-> [name |-> <<"f">>, arguments |-> <<>>]]
      [] p = "openai.responses" /\ s.f # "arguments" ->
            [type |-> "content_part", output_index |-> s.i, content_index |-> s.k,
             part |-> [type |-> s.f] @@
                      ((IF s.f = "refusal" THEN "refusal" ELSE "text") :> <<>>)]
      [] p = "anthropic.messages" ->
            [type |-> "content_block_start", index |-> s.i,
             content_block |-> IF s.f = "input_json" THEN ToolUse(Empty)
                               ELSE [type |-> s.f] @@ (s.f :> <<>>)]
      [] p = "aws.bedrock.converse" /\ s.f = "toolUse" ->
            [contentBlockStart |-> [contentBlockIndex |-> s.i,
                                    start |-> [toolUse |-> [name |-> <<"f">>]]]]
      [] p = "cohere.chat" ->
            [type |-> "content-start",
             delta |-> [message |-> [content |->
                            [index |-> s.i, type |-> "text", text |-> <<>>]]]]
      [] OTHER -> Delta(p, s.i, s, <<>>)

\* Responses: the text of slot s once more, whole.
Done(s) ==
    Put([type |-> IF s.f = "arguments" THEN "function_call_arguments" ELSE s.f,
         done |-> TRUE, output_index |-> s.i, content_index |-> s.k],
        IF s.f = "output_text" THEN "text" ELSE s.f, sent[s])

Error(p, x) ==
    CASE p = "alibaba.dashscope.generation" -> [code |-> x, message |-> x]
      [] p = "openai.responses" -> [type |-> "failed", error |-> x]
      [] OTHER -> [type |-> "error", error |-> x]

\* What the provider would have answered without streaming.  The input of a tool,
\* streamed as text, is a value there: none yet, an empty object.
Parse(x) == IF x = <<>> THEN Empty ELSE [json |-> x]

Opened == DOMAIN sent
Indices == {s.i : s \in Opened}
Parts(i, f) == {s \in Opened : s.i = i /\ s.f = f}
Listed(n, Op(_)) == [k \in 1..n |-> Op(k - 1)]
IfAny(S, o) == IF S = {} THEN Empty ELSE o

Message(i) ==
    LET tool(k) == [function |-> [arguments |-> sent[Slot(i, "tool_calls", k)]]]
        tools == Parts(i, "tool_calls")
        content == Parts(i, "content")
    IN  [role |-> "a"] @@ IfAny(content, [content |-> sent[Slot(i, "content", 0)]])
            @@ IfAny(tools, [tool_calls |-> Listed(Cardinality(tools), tool)])

Block(p, i) ==
    LET s == CHOOSE t \in Opened : t.i = i
        text(k) == [text |-> sent[Slot(i, "text", k)]]
        part(k) == IF k = 0 THEN [type |-> "output_text", text |-> sent[Slot(i, "output_text", 0)]]
                   ELSE [type |-> "refusal", refusal |-> sent[Slot(i, "refusal", k)]]
        parts == Cardinality({t \in Opened : t.i = i})
    IN  CASE p \in {"openai.chat_completions", "alibaba.dashscope.generation"} ->
                [index |-> i, finish_reason |-> <<"stop">>, message |-> Message(i)]
          [] p = "openai.responses" /\ s.f = "arguments" ->
                [name |-> <<"f">>, arguments |-> sent[s]]
          [] p = "openai.responses" /\ s.f # "arguments" -> [content |-> Listed(parts, part)]
          [] p = "anthropic.messages" ->
                IF s.f = "input_json" THEN ToolUse(Parse(sent[s]))
                ELSE [type |-> s.f] @@ (s.f :> sent[s])
          [] p = "google.gemini.generate_content" ->
                [index |-> i, finishReason |-> <<"STOP">>,
                 content |-> [role |-> "a", parts |-> Listed(parts, text)]]
          [] p = "aws.bedrock.converse" ->
                CASE s.f = "text" -> [text |-> sent[s]]
                  [] s.f = "toolUse" ->
                        [toolUse |-> [name |-> <<"f">>, input |-> Parse(sent[s])]]
                  [] OTHER -> [reasoningContent |-> [text |-> sent[s]]]
          [] p = "cohere.chat" -> [type |-> "text", text |-> sent[s]]

Blocks(p) == Listed(Cardinality(Indices), LAMBDA i : Block(p, i))
IfBlocks(p, k) == IfAny(Indices, k :> Blocks(p))

Document(p) ==
    CASE p = "openai.chat_completions" ->
            [model |-> <<"m">>, usage |-> [total |-> 3]] @@ IfBlocks(p, "choices")
      [] p = "openai.responses" ->
            [status |-> <<"completed">>, output |-> Blocks(p), error |-> Null,
             usage |-> [total |-> 3]]
      [] p = "anthropic.messages" ->
            [role |-> "a", model |-> <<"m">>, stop_reason |-> <<"end">>,
             usage |-> [input |-> 1, output |-> 2]] @@ IfBlocks(p, "content")
      [] p = "google.gemini.generate_content" ->
            [modelVersion |-> <<"m">>, usageMetadata |-> [total |-> 3]]
                @@ IfBlocks(p, "candidates")
      [] p = "alibaba.dashscope.generation" ->
            [request_id |-> <<"r">>, usage |-> [total |-> 3]]
                @@ IfAny(Indices, [output |-> [choices |-> Blocks(p)]])
      [] p = "aws.bedrock.converse" ->
            [output |-> [message |-> [role |-> "a"] @@ IfBlocks(p, "content")],
             stopReason |-> <<"end">>, usage |-> [total |-> 3]]
      [] p = "cohere.chat" ->
            [finish_reason |-> <<"end">>, usage |-> [total |-> 3]] @@
                IF Parts(0, "generated") = {}
                THEN [message |-> [role |-> "a"] @@ IfBlocks(p, "content")]
                ELSE [text |-> sent[Slot(0, "generated", 0)]]

\* The last event: why generation ended, and its cost.  Responses may repeat the
\* whole output in it.
Closing(p, repeat) ==
    LET end(i) == [index |-> i, finish_reason |-> <<"stop">>]
        stop(i) == [index |-> i, finishReason |-> <<"STOP">>]
        n == Cardinality(Indices)
    IN  CASE p = "openai.chat_completions" ->
                [choices |-> Listed(n, end), usage |-> [total |-> 3]]
          [] p = "openai.responses" ->
                [type |-> "completed",
                 response |-> IF repeat THEN Document(p) ELSE Without(Document(p), {"output"})]
          [] p = "anthropic.messages" ->
                [type |-> "message_delta", delta |-> [stop_reason |-> <<"end">>],
                 usage |-> [output |-> 2]]
          [] p = "google.gemini.generate_content" ->
                [candidates |-> Listed(n, stop), usageMetadata |-> [total |-> 3]]
          [] p = "alibaba.dashscope.generation" ->
                [output |-> [choices |-> Listed(n, end)], usage |-> [total |-> 3]]
          [] p = "aws.bedrock.converse" ->
                [messageStop |-> [stopReason |-> <<"end">>],
                 metadata |-> [usage |-> [total |-> 3]]]
          [] p = "cohere.chat" ->
                [type |-> "message-end",
                 delta |-> [finish_reason |-> <<"end">>, usage |-> [total |-> 3]]]

--------------------------------------------------------------------------------
(* The stream.                                                               *)

Init ==
    /\ protocol \in Protocols
    /\ events = <<Opening(protocol)>>
    /\ state = Apply(protocol, NewState, Opening(protocol))
    /\ sent = Empty
    /\ closed = FALSE
    /\ error = Null
    /\ strayed = Null

\* The provider sends e, and the enclave's parser applies it.
Emit(e) ==
    /\ Len(events) <= MaxEvents
    /\ ~closed
    /\ events' = Append(events, e)
    /\ state' = Apply(protocol, state, e)
    /\ UNCHANGED protocol

Piece == <<Len(events)>>

\* Blocks and parts are opened in the order of their indices.
OpenSlot(s) ==
    /\ s \notin Opened
    /\ Parts(0, "generated") = {}
    /\ s.k > 0 => \E t \in Opened : t.i = s.i /\ t.k = s.k - 1 /\ (t.f = s.f \/ s.f = "refusal")
    /\ s.i > 0 => s.i - 1 \in Indices
    /\ Emit(Start(protocol, s))
    /\ sent' = Put(sent, s, <<>>)
    /\ UNCHANGED <<closed, error, strayed>>

\* Cohere may leave the index of the last block out.
SendPiece(s) ==
    /\ s.f # "generated"
    /\ \E index \in {s.i} \cup (IF protocol = "cohere.chat" /\ \A i \in Indices : i <= s.i
                                THEN {Null} ELSE {}) :
            Emit(Delta(protocol, index, s, Piece))
    /\ sent' = [sent EXCEPT ![s] = @ \o Piece]
    /\ UNCHANGED <<closed, error, strayed>>

SendDone(s) ==
    /\ protocol = "openai.responses"
    /\ Emit(Done(s))
    /\ UNCHANGED <<sent, closed, error, strayed>>

Close ==
    /\ error = Null
    /\ \E repeat \in BOOLEAN :
            /\ repeat => protocol = "openai.responses"
            /\ Emit(Closing(protocol, repeat))
    /\ closed' = TRUE
    /\ UNCHANGED <<sent, error, strayed>>

SendError ==
    /\ Emit(Error(protocol, Piece))
    /\ error' = Piece
    /\ UNCHANGED <<sent, closed, strayed>>

\* Cohere's older events: text without blocks.
Generate ==
    LET s == Slot(0, "generated", 0)
    IN  /\ protocol = "cohere.chat"
        /\ Opened \subseteq {s}
        /\ Emit([type |-> "text-generation", text |-> Piece])
        /\ sent' = Put(sent, s, Or(Get(sent, s), <<>>) \o Piece)
        /\ UNCHANGED <<closed, error, strayed>>

Strays ==
    LET of(kind, e) == [kind |-> kind, event |-> e]
        nullCalls(s) == [index |-> s.i, delta |-> [tool_calls |-> Null]]
        common == UNION {{of("no_index", Delta(protocol, Null, s, Piece)),
                          of("gap", Delta(protocol, s.i + 3, s, Piece)),
                          of("part_gap", Delta(protocol, s.i, [s EXCEPT !.k = @ + 2], Piece)),
                          of("null", Delta(protocol, s.i, s, Null)),
                          of("restart", Start(protocol, s))} : s \in Opened}
    IN  common \cup
        CASE protocol = "openai.chat_completions" ->
                {of("null_calls", [choices |-> <<nullCalls(s)>>]) : s \in Opened}
          [] protocol = "alibaba.dashscope.generation" ->
                {of("null_calls", [output |-> [choices |-> <<nullCalls(s)>>]]) : s \in Opened}
          [] protocol = "anthropic.messages" ->
                {of("no_delta", [type |-> "message_delta", usage |-> [output |-> 1]])}
          [] protocol = "aws.bedrock.converse" -> {of("null_output", [output |-> Null])}
          [] OTHER -> {}

Stray ==
    /\ strayed = Null
    /\ \E s \in Strays : Emit(s.event) /\ strayed' = s.kind
    /\ UNCHANGED <<sent, closed, error>>

Next ==
    \/ \E s \in Slots(protocol) : OpenSlot(s)
    \/ \E s \in Opened : SendPiece(s) \/ SendDone(s)
    \/ Generate
    \/ SendError
    \/ Close
    \/ Stray

Spec == Init /\ [][Next]_vars

--------------------------------------------------------------------------------
(* Properties.                                                               *)

\* What would be claimed if the stream ended here.
View == Finish(protocol, state)

\* Wherever the stream ends, and however the provider cut its texts into pieces and
\* interleaved choices, blocks and tool calls, the view has in every slot exactly
\* what was sent there, in order (the apply functions, main.rs:1103-2600).
StreamKept ==
    strayed = Null => \A s \in Opened : Or(Lookup(View, Path(protocol, s)), <<>>) = sent[s]

\* What the aggregators leave of the stream in a view: Anthropic's input_json next
\* to the empty input, the text of Bedrock's tool input and the type given to its
\* text, Cohere's block index, finish_reason in its message, and the message made
\* of its older events.  Unstreamed takes these away.
UnstreamedBlock(p, b) ==
    CASE p = "anthropic.messages" /\ "input_json" \in DOMAIN b ->
            Put(Without(b, {"input_json"}), "input", Parse(b.input_json))
      [] p = "aws.bedrock.converse" /\ "toolUse" \in DOMAIN b ->
            Put(b, "toolUse", Put(b.toolUse, "input",
                                  Parse(Or(Get(b.toolUse, "input"), <<>>))))
      [] p = "aws.bedrock.converse" /\ "toolUse" \notin DOMAIN b -> Without(b, {"type"})
      [] p = "cohere.chat" -> Without(b, {"index"})
      [] OTHER -> b

UnstreamedMessage(p, m) ==
    IF "content" \notin DOMAIN m THEN m
    ELSE Put(m, "content",
             [k \in DOMAIN m.content |-> UnstreamedBlock(p, m.content[k])])

Unstreamed(p, v) ==
    CASE p = "anthropic.messages" -> UnstreamedMessage(p, v)
      [] p = "aws.bedrock.converse" -> [v EXCEPT !.output.message = UnstreamedMessage(p, @)]
      [] p = "cohere.chat" ->
            IF "text" \in DOMAIN v THEN Without(v, {"message"})
            ELSE [v EXCEPT !.message = UnstreamedMessage(p, Without(@, {"finish_reason"}))]
      [] OTHER -> v


\* An error sent in the middle of a stream is in the view and makes claims about it
\* possible, whatever was sent before and comes after it (is_error_response_view,
\* main.rs:2992-2999).
ErrorKept ==
    error # Null =>
        /\ IsErrorResponseView(protocol, View)
        /\ HasRequiredPresence(protocol, View)
        /\ View[IF protocol = "alibaba.dashscope.generation" THEN "code" ELSE "error"] = error

\* The array of parts or tool calls in a block, and whether the enclave filled
\* one with objects to reach an index.
ArrayIn(block) ==
    CASE protocol = "openai.responses" -> Or(Get(block, "content"), <<>>)
      [] protocol \in {"openai.chat_completions", "alibaba.dashscope.generation"} ->
            Or(Get(block.message, "tool_calls"), <<>>)
      [] OTHER -> <<>>

Padded == \E i \in DOMAIN state.blocks : Contains(ArrayIn(state.blocks[i]), Empty)

\* The events that the two programs merge differently.
Disagreements ==
    CASE protocol = "openai.chat_completions" -> {"no_index", "null_calls"}
      [] protocol = "alibaba.dashscope.generation" -> {"null_calls"}
      [] protocol = "anthropic.messages" -> {"no_delta"}
      [] protocol = "aws.bedrock.converse" -> {"null_output"}
      [] OTHER -> {}

\* The verifier, who aggregates the whole list of events, finds the enclave's view
\* in every stream that keeps to its protocol, and in one that strays from it other
\* than by a skipped part or tool call or in the ways listed in Disagreements
\* (field-proof.ts:224-740).
VerifierAggregatesAlike ==
    strayed \notin Disagreements /\ ~Padded => Aggregate(TRUE, protocol, events) = View
=============================================================================
