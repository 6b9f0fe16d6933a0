--------------------------- MODULE StreamAggregate ---------------------------
(***************************************************************************)
(* How the events of a streamed response become one response view: the     *)
(* seven stream states of src/enclave/src/main.rs (apply, finish), their   *)
(* whole-list twins aggregate_*_stream, and the verifier's aggregators     *)
(* (src/verifier/field-proof.ts).                                          *)
(*                                                                         *)
(* A JSON object is a function from keys, an array a sequence, a string a  *)
(* sequence of letters.  Both programs use the same merge rules except     *)
(* where js tells them apart: js is TRUE in the verifier.  A member has    *)
(* the JSON type the protocol gives it or is null.                         *)
(***************************************************************************)
EXTENDS Integers, FiniteSets, Sequences, SequencesExt, TLC

CONSTANT Null

Empty == [k \in {} |-> Null]

\* get(key), where an absent member and null are treated alike (as_str, as_object,
\* as_array, isRecord)
Get(o, k) == IF k \in DOMAIN o THEN o[k] ELSE Null
Or(v, default) == IF v = Null THEN default ELSE v
Put(o, k, v) == [j \in DOMAIN o \cup {k} |-> IF j = k THEN v ELSE o[j]]
Without(o, keys) == Restrict(o, DOMAIN o \ keys)
NonNull(o) == Restrict(o, {k \in DOMAIN o : o[k] # Null})

Pick(o, keys) == Restrict(o, DOMAIN o \cap keys)

\* merge_value_object, mergeObject
Merge(target, source) ==
    [k \in DOMAIN source \cup DOMAIN target |->
        IF k \in DOMAIN source THEN source[k] ELSE target[k]]


\* The member of source, merged into o's if both are objects.
MergeNestedObject(o, field, source) ==
    IF field \notin DOMAIN source THEN o
    ELSE IF source[field] = Null THEN Put(o, field, Null)
    ELSE Put(o, field, Merge(Or(Get(o, field), Empty), source[field]))

AppendStringField(o, field, v) ==
    IF v = Null THEN o ELSE Put(o, field, Or(Get(o, field), <<>>) \o v)

SetStringField(o, field, v) == IF v = Null THEN o ELSE Put(o, field, v)

\* Make a long enough for position n.  The enclave fills it with objects, a
\* JavaScript array has holes, which are null when it is serialised.
Pad(js, a, n) ==
    [i \in 1..(IF n > Len(a) THEN n ELSE Len(a)) |->
        IF i <= Len(a) THEN a[i] ELSE IF js THEN Null ELSE Empty]

At(a, i) == Or(a[i], Empty)

\* What a stream has come to: the view's own members, those of the message (or
\* DashScope's output) inside it, the blocks by index (choices, candidates, output
\* items) and the text of Cohere's text-generation events.
NewState == [out |-> Empty, message |-> Empty, blocks |-> Empty, text |-> <<>>]

BlockOr(s, i, new) == IF i \in DOMAIN s.blocks THEN s.blocks[i] ELSE new
SetBlock(s, i, block) == [s EXCEPT !.blocks = Put(@, i, block)]
Count(s) == Cardinality(DOMAIN s.blocks)

\* into_values().collect(): a BTreeMap is ordered by index
Values(blocks) ==
    LET at == SetToSortSeq(DOMAIN blocks, <)
    IN  [n \in DOMAIN at |-> blocks[at[n]]]

\* Insert the blocks, if there are any, as member k.
WithBlocks(o, k, s) == IF s.blocks = Empty THEN o ELSE Put(o, k, Values(s.blocks))

\* iter().enumerate(), forEach: the elements of an array with their positions,
\* and who goes through them
Enumerated(js, array) == [n \in DOMAIN array |-> [js |-> js, raw |-> array[n], n |-> n - 1]]

--------------------------------------------------------------------------------
(* Merging.                                                                  *)

MergeToolCalls(js, current, delta) ==
    LET merge(calls, raw) ==
            LET i == Or(Get(raw, "index"), Len(calls)) + 1
                padded == Pad(js, calls, i)
                fn == Get(raw, "function")
                item == Merge(At(padded, i), Without(raw, {"index", "function"}))
                old == Or(Get(item, "function"), Empty)
                new == AppendStringField(AppendStringField(old, "name", Get(fn, "name")),
                                         "arguments", Get(fn, "arguments"))
            IN  [padded EXCEPT ![i] =
                    IF fn # Null THEN Put(item, "function", new)
                    ELSE IF js THEN Merge(item, Pick(raw, {"function"}))
                    ELSE item]
    IN  FoldLeft(merge, current, delta)

\* Mutant: the verifier starts an array whether or not there are tool calls.
WithToolCallsAlways(js, message, source) ==
    LET current == Or(Get(message, "tool_calls"), <<>>)
    IN  IF Get(source, "tool_calls") # Null
        THEN Put(message, "tool_calls", MergeToolCalls(js, current, source.tool_calls))
        ELSE IF js THEN Put(message, "tool_calls", current)
        ELSE message

\* tool_calls: null gives the message an empty array in the verifier.
WithToolCalls(js, message, source) ==
    LET current == Or(Get(message, "tool_calls"), <<>>)
    IN  IF Get(source, "tool_calls") # Null
        THEN Put(message, "tool_calls", MergeToolCalls(js, current, source.tool_calls))
        ELSE IF js /\ "tool_calls" \in DOMAIN source
        THEN Put(message, "tool_calls", current)
        ELSE message

AppendTexts(o, source) ==
    AppendStringField(AppendStringField(o, "content", Get(source, "content")),
                      "reasoning_content", Get(source, "reasoning_content"))

MergeOpenaiChatDelta(js, message, delta) ==
    LET roled == IF "role" \in DOMAIN message THEN message
                 ELSE SetStringField(message, "role", Get(delta, "role"))
    IN  WithToolCalls(js, AppendTexts(roled, delta), delta)

\* Mutant: the parts before are not kept.
MergeContentPartAlone(js, item, index, raw_part, field, added, whole) ==
    LET i == Or(index, 0) + 1
        padded == Pad(js, <<>>, i)
        part == AppendStringField(Merge(At(padded, i), raw_part), field, added)
    IN  Put(item, "content", [padded EXCEPT ![i] = SetStringField(part, field, whole)])

\* The part, at its index among the item's, with raw_part inserted and its text
\* extended or replaced.
MergeContentPart(js, item, index, raw_part, field, added, whole) ==
    LET content == Or(Get(item, "content"), <<>>)
        i == Or(index, Len(content)) + 1
        padded == Pad(js, content, i)
        part == AppendStringField(Merge(At(padded, i), raw_part), field, added)
    IN  Put(item, "content", [padded EXCEPT ![i] = SetStringField(part, field, whole)])

SeedAnthropicContentBlocks(s, content) ==
    [s EXCEPT !.blocks = @ @@ [i \in 0..(Len(content) - 1) |-> content[i + 1]]]

\* delta.type is the type without its suffix _delta.
MergeAnthropicContentDelta(block, delta) ==
    LET typed == IF "type" \in DOMAIN block THEN block
                 ELSE SetStringField(block, "type", Get(delta, "type"))
        append(b, f, d) == AppendStringField(b, f, Get(delta, d))
    IN  append(append(append(append(typed, "text", "text"), "thinking", "thinking"),
                      "signature", "signature"), "input_json", "partial_json")

\* Members in appended grow, other objects are merged, and anything but null
\* replaces what is there.
MergeSemantic(target, source, appended, objects) ==
    LET new == NonNull(source)
        member(k) == CASE k \in appended -> Or(Get(target, k), <<>>) \o new[k]
                       [] k \in objects -> Merge(Or(Get(target, k), Empty), new[k])
                       [] OTHER -> new[k]
    IN  Merge(target, [k \in DOMAIN new |-> member(k)])

MergeSemanticPart(target, source) ==
    MergeSemantic(target, source, {"text", "thinking", "signature"}, {"functionCall"})

MergeIndexedParts(js, existing, incoming) ==
    LET all == Pad(js, existing, Len(incoming))
    IN  [i \in DOMAIN all |-> IF i <= Len(incoming)
            THEN MergeSemanticPart(At(all, i), incoming[i]) ELSE all[i]]

MergeGeminiCandidate(js, target, source) ==
    LET old == Or(Get(target, "content"), Empty)
        new == source.content
        content == Merge(old, NonNull(Without(new, {"parts"})))
        parts == MergeIndexedParts(js, Or(Get(old, "parts"), <<>>), new.parts)
        others == Merge(target, NonNull(Without(source, {"index", "content"})))
    IN  IF Get(source, "content") = Null THEN others
        ELSE Put(others, "content",
                 IF Get(new, "parts") = Null THEN content ELSE Put(content, "parts", parts))

MergeDashscopeMessage(js, target, source) ==
    Merge(WithToolCalls(js, AppendTexts(target, source), source),
          NonNull(Without(source, {"content", "reasoning_content", "tool_calls"})))

MergeBedrockContentDelta(block, delta) ==
    LET texted == AppendStringField(block, "text", Get(delta, "text"))
        typed == IF "text" \in DOMAIN delta /\ "type" \notin DOMAIN block
                 THEN Put(texted, "type", "text") ELSE texted
        nested(b, k, appended) ==
            IF Get(delta, k) = Null THEN b
            ELSE Put(b, k, MergeSemantic(Or(Get(b, k), Empty), delta[k], appended, {}))
        objects == nested(nested(nested(typed, "reasoningContent", {"text", "signature"}),
                                 "toolUse", {"input"}), "citationsContent", {"text"})
    IN  Merge(objects, NonNull(Without(delta,
                {"text", "reasoningContent", "toolUse", "citationsContent"})))

MergeCohereContentBlock(s, i, raw) ==
    SetBlock(s, i, MergeSemanticPart(BlockOr(s, i, Empty), raw))

MergeCohereElement(s, e) == MergeCohereContentBlock(s, e.n, e.raw)

\* content is an array of blocks, one block, or text.
MergeCohereMessageDelta(s, raw) ==
    LET m == [s EXCEPT !.message = Merge(@, NonNull(Without(raw, {"content"})))]
        content == Or(Get(raw, "content"), Empty)
        last == IF Count(s) = 0 THEN 0 ELSE Count(s) - 1
    IN  CASE Get(raw, "content") = Null -> m
          [] "array" \in DOMAIN content ->
                FoldLeft(MergeCohereElement, m, Enumerated(FALSE, content.array))
          [] "string" \in DOMAIN content ->
                SetBlock(m, 0, AppendStringField(BlockOr(m, 0, [type |-> "text"]),
                                                 "text", content.string))
          [] OTHER -> MergeCohereContentBlock(m, Or(Get(content, "index"), last), content)

--------------------------------------------------------------------------------
(* apply and finish of each stream state.  aggregate_*_stream has the same    *)
(* loop body and the same end: it is their fold over all events.              *)

ChatKeys == {"model", "choices", "usage", "error"}
ResponsesKeys == {"model", "status", "output", "output_text", "usage", "error"}
AnthropicKeys == {"type", "role", "model", "content", "stop_reason", "usage", "error"}
GeminiKeys == {"candidates", "promptFeedback", "usageMetadata", "error", "modelVersion"}
DashscopeKeys == {"output", "usage", "request_id", "code", "message"}
BedrockKeys == {"output", "stopReason", "usage", "error"}
CohereKeys == {"message", "text", "finish_reason", "usage", "error"}

NewChoice(i) == [index |-> i, message |-> Empty]

\* A choice without index is taken for a new one by the enclave, and for the one
\* at its position by the verifier.
OpenaiChatChoice(s, e) ==
    LET i == Or(Get(e.raw, "index"), IF e.js THEN e.n ELSE Count(s))
        choice == BlockOr(s, i, NewChoice(i))
        merged == MergeOpenaiChatDelta(e.js, choice.message, Or(Get(e.raw, "delta"), Empty))
        message == Merge(merged, Or(Get(e.raw, "message"), Empty))
        ended == Merge(choice, NonNull(Pick(e.raw, {"finish_reason"})))
    IN  SetBlock(s, i, Merge(Put(ended, "message", message), Pick(e.raw, {"logprobs"})))

OpenaiChatApply(js, s, chunk) ==
    LET model == IF "model" \in DOMAIN s.out THEN Empty ELSE NonNull(Pick(chunk, {"model"}))
        start == [s EXCEPT !.out = Merge(Merge(@, model), Pick(chunk, {"usage", "error"}))]
    IN  FoldLeft(OpenaiChatChoice, start, Enumerated(js, Or(Get(chunk, "choices"), <<>>)))

OpenaiChatFinish(s) == WithBlocks(s.out, "choices", s)

\* The part type and the member that a family of text events is about.
TextEvents ==
    [output_text |-> [type |-> "output_text", field |-> "text"],
     refusal |-> [type |-> "refusal", field |-> "refusal"],
     reasoning_text |-> [type |-> "reasoning_text", field |-> "text"]]

\* event.type without its prefix and its suffix: event.done tells .done (or .added)
\* from .delta.
OpenaiResponsesApply(js, s, event) ==
    LET start == [s EXCEPT !.out =
                    Merge(@, Pick(Or(Get(event, "response"), Empty), ResponsesKeys))]
        i == Or(Get(event, "output_index"), Count(s))
        item == BlockOr(s, i, Empty)
        text == TextEvents[event.type]
        added == IF event.done THEN Null ELSE Get(event, "delta")
        whole(field) == IF event.done THEN Get(event, field) ELSE Null
    IN  CASE event.type = "output_item" ->
                SetBlock(start, i, Merge(item, Or(Get(event, "item"), Empty)))
          [] event.type = "content_part" ->
                SetBlock(start, i, MergeContentPart(js, item, Get(event, "content_index"),
                                        Or(Get(event, "part"), Empty), "text", Null, Null))
          [] event.type \in DOMAIN TextEvents ->
                SetBlock(start, i, MergeContentPart(js, item, Get(event, "content_index"),
                                        [type |-> text.type],
                                        text.field, added, whole(text.field)))
          [] event.type = "function_call_arguments" ->
                SetBlock(start, i, SetStringField(AppendStringField(item, "arguments", added),
                                                  "arguments", whole("arguments")))
          [] event.type = "completed" ->
                [start EXCEPT !.out = Merge([status |-> <<"completed">>], @)]
          [] event.type = "failed" ->
                [start EXCEPT !.out = Merge(@, Pick(event, {"error"}))]
          [] OTHER -> start

\* Items made from the deltas count only if no response object had output.
OpenaiResponsesFinish(s) ==
    IF Or(Get(s.out, "output"), <<>>) = <<>> THEN WithBlocks(s.out, "output", s) ELSE s.out

\* A message_delta without delta: the verifier leaves its usage out.
AnthropicMessagesApply(js, s, event) ==
    LET message == event.message
        delta == Get(event, "delta")
        i == Or(Get(event, "index"), Count(s))
    IN  CASE event.type = "message_start" /\ Get(event, "message") # Null ->
                SeedAnthropicContentBlocks(
                    [s EXCEPT !.out = Merge(@, Pick(message,
                        {"type", "role", "model", "stop_reason", "usage"}))],
                    Or(Get(message, "content"), <<>>))
          [] event.type = "content_block_start" /\ Get(event, "content_block") # Null ->
                SetBlock(s, i, event.content_block)
          [] event.type = "content_block_delta" /\ delta # Null ->
                SetBlock(s, i, MergeAnthropicContentDelta(BlockOr(s, i, Empty), delta))
          [] event.type = "message_delta" /\ (delta # Null \/ ~js) ->
                [s EXCEPT !.out = MergeNestedObject(
                    Merge(@, Pick(Or(delta, Empty), {"stop_reason"})), "usage", event)]
          [] event.type = "error" ->
                [s EXCEPT !.out = Put(@, "error",
                    IF "error" \in DOMAIN event /\ (event.error # Null \/ ~js)
                    THEN event.error ELSE event)]
          [] OTHER -> s

AnthropicMessagesFinish(s) == Pick(WithBlocks(s.out, "content", s), AnthropicKeys)

GeminiCandidate(s, e) ==
    LET i == Or(Get(e.raw, "index"), e.n)
    IN  SetBlock(s, i, MergeGeminiCandidate(e.js, BlockOr(s, i, [index |-> i]), e.raw))

GeminiGenerateContentApply(js, s, chunk) ==
    LET start == [s EXCEPT !.out = Merge(@, Pick(chunk, GeminiKeys \ {"candidates"}))]
    IN  FoldLeft(GeminiCandidate, start, Enumerated(js, Or(Get(chunk, "candidates"), <<>>)))

GeminiGenerateContentFinish(s) == WithBlocks(s.out, "candidates", s)

DashscopeChoice(s, e) ==
    LET i == Or(Get(e.raw, "index"), e.n)
        choice == BlockOr(s, i, NewChoice(i))
        message == MergeDashscopeMessage(e.js, choice.message, Or(Get(e.raw, "message"), Empty))
        both == MergeDashscopeMessage(e.js, message, Or(Get(e.raw, "delta"), Empty))
    IN  SetBlock(s, i, Merge(Put(choice, "message", both),
                       NonNull(Without(e.raw, {"index", "message", "delta"}))))

DashscopeGenerationApply(js, s, chunk) ==
    LET output == Or(Get(chunk, "output"), Empty)
        start == [s EXCEPT !.out = Merge(@, Pick(chunk, DashscopeKeys \ {"output"})),
                           !.message = Merge(@, Without(output, {"choices"}))]
    IN  FoldLeft(DashscopeChoice, start, Enumerated(js, Or(Get(output, "choices"), <<>>)))

DashscopeGenerationFinish(s) ==
    LET output == WithBlocks(s.message, "choices", s)
    IN  IF output = Empty THEN s.out ELSE Put(s.out, "output", output)

\* An event with "output": null has output for the enclave only.
BedrockConverseApply(js, s, event) ==
    LET object(k) == Or(Get(event, k), Empty)
        index(t, o) == Or(Get(o, "contentBlockIndex"), Count(t))
        start(t, o) == LET i == index(t, o)
                       IN  SetBlock(t, i, Merge(BlockOr(t, i, Empty),
                                                Or(Get(o, "start"), Empty)))
        grow(t, o) == LET i == index(t, o)
                      IN  SetBlock(t, i, MergeBedrockContentDelta(BlockOr(t, i, Empty),
                                                                  Or(Get(o, "delta"), Empty)))
        begun == IF Get(event, "contentBlockStart") = Null THEN s
                 ELSE start(s, event.contentBlockStart)
        grown == IF Get(event, "contentBlockDelta") = Null THEN begun
                 ELSE grow(begun, event.contentBlockDelta)
        members == Merge(Pick(object("messageStop"), {"stopReason"}),
                         Pick(object("metadata"), {"usage"}))
        hasOutput == "output" \in DOMAIN event /\ (event.output # Null \/ ~js)
    IN  [grown EXCEPT
            !.message = Merge(@, Pick(object("messageStart"), {"role"})),
            !.out = Merge(Merge(@, members),
                          Pick(event, IF hasOutput THEN BedrockKeys ELSE {"error"}))]

\* Mutant: the message takes the place of everything.
BedrockConverseFinishMessageOnly(s) ==
    LET message == WithBlocks(s.message, "content", s)
    IN  IF message = Empty THEN s.out
        ELSE Put(Without(s.out, {"error"}), "output", [message |-> message])

BedrockConverseFinish(s) ==
    LET message == WithBlocks(s.message, "content", s)
    IN  IF message = Empty \/ "output" \in DOMAIN s.out THEN s.out
        ELSE Put(s.out, "output", [message |-> message])

CohereChatApply(s, event) ==
    LET delta == Or(Get(event, "delta"), Empty)
        out == Merge(s.out, Pick(Or(Get(event, "response"), Empty), CohereKeys))
        start == [s EXCEPT !.out = out]
        merged == IF Get(delta, "message") = Null THEN start
                  ELSE MergeCohereMessageDelta(start, delta.message)
        end == IF event.type = "message-end" THEN Pick(delta, {"finish_reason", "usage"})
               ELSE Empty
        reason == Merge(Pick(end, {"finish_reason"}), Pick(event, {"finish_reason"}))
    IN  [merged EXCEPT
            !.message = Merge(@, reason),
            !.out = Merge(Merge(Merge(@, end), reason), Pick(event, {"error"})),
            !.text = IF event.type = "text-generation" THEN @ \o Or(Get(event, "text"), <<>>)
                     ELSE @]

CohereChatFinish(s) ==
    LET whole == s.blocks = Empty /\ s.text # <<>>
        message == IF whole
                   THEN Put(s.message, "content", <<[type |-> "text", text |-> s.text]>>)
                   ELSE WithBlocks(s.message, "content", s)
        out == IF whole THEN Put(s.out, "text", s.text) ELSE s.out
    IN  IF message = Empty \/ "message" \in DOMAIN out THEN out
        ELSE Put(out, "message", message)

--------------------------------------------------------------------------------
(* All events at once.                                                       *)

AggregateOpenaiChatStream(js, items) ==
    OpenaiChatFinish(FoldLeft(LAMBDA s, e : OpenaiChatApply(js, s, e), NewState, items))

AggregateOpenaiResponsesStream(js, items) ==
    OpenaiResponsesFinish(FoldLeft(LAMBDA s, e : OpenaiResponsesApply(js, s, e),
                                   NewState, items))

AggregateAnthropicMessagesStream(js, items) ==
    AnthropicMessagesFinish(FoldLeft(LAMBDA s, e : AnthropicMessagesApply(js, s, e),
                                     NewState, items))

AggregateGeminiGenerateContentStream(js, items) ==
    GeminiGenerateContentFinish(FoldLeft(LAMBDA s, e : GeminiGenerateContentApply(js, s, e),
                                         NewState, items))

AggregateDashscopeGenerationStream(js, items) ==
    DashscopeGenerationFinish(FoldLeft(LAMBDA s, e : DashscopeGenerationApply(js, s, e),
                                       NewState, items))

AggregateBedrockConverseStream(js, items) ==
    BedrockConverseFinish(FoldLeft(LAMBDA s, e : BedrockConverseApply(js, s, e),
                                   NewState, items))

AggregateCohereChatStream(items) ==
    CohereChatFinish(FoldLeft(CohereChatApply, NewState, items))

Protocols == {"openai.chat_completions", "openai.responses", "anthropic.messages",
              "google.gemini.generate_content", "alibaba.dashscope.generation",
              "aws.bedrock.converse", "cohere.chat"}

\* StreamFieldState::apply
Apply(protocol, s, event) ==
    CASE protocol = "openai.chat_completions" -> OpenaiChatApply(FALSE, s, event)
      [] protocol = "openai.responses" -> OpenaiResponsesApply(FALSE, s, event)
      [] protocol = "anthropic.messages" -> AnthropicMessagesApply(FALSE, s, event)
      [] protocol = "google.gemini.generate_content" ->
            GeminiGenerateContentApply(FALSE, s, event)
      [] protocol = "alibaba.dashscope.generation" -> DashscopeGenerationApply(FALSE, s, event)
      [] protocol = "aws.bedrock.converse" -> BedrockConverseApply(FALSE, s, event)
      [] protocol = "cohere.chat" -> CohereChatApply(s, event)

\* StreamFieldState::finish
Finish(protocol, s) ==
    CASE protocol = "openai.chat_completions" -> OpenaiChatFinish(s)
      [] protocol = "openai.responses" -> OpenaiResponsesFinish(s)
      [] protocol = "anthropic.messages" -> AnthropicMessagesFinish(s)
      [] protocol = "google.gemini.generate_content" -> GeminiGenerateContentFinish(s)
      [] protocol = "alibaba.dashscope.generation" -> DashscopeGenerationFinish(s)
      [] protocol = "aws.bedrock.converse" -> BedrockConverseFinish(s)
      [] protocol = "cohere.chat" -> CohereChatFinish(s)

\* The view of a list of events: by the verifier, or by the enclave from a body it
\* recognised too late.
Aggregate(js, protocol, items) ==
    CASE protocol = "openai.chat_completions" -> AggregateOpenaiChatStream(js, items)
      [] protocol = "openai.responses" -> AggregateOpenaiResponsesStream(js, items)
      [] protocol = "anthropic.messages" -> AggregateAnthropicMessagesStream(js, items)
      [] protocol = "google.gemini.generate_content" ->
            AggregateGeminiGenerateContentStream(js, items)
      [] protocol = "alibaba.dashscope.generation" ->
            AggregateDashscopeGenerationStream(js, items)
      [] protocol = "aws.bedrock.converse" -> AggregateBedrockConverseStream(js, items)
      [] protocol = "cohere.chat" -> AggregateCohereChatStream(items)

\* The view of a response that comes as one JSON document.
WholeView(protocol, document) ==
    Pick(document,
         CASE protocol = "openai.chat_completions" -> ChatKeys
           [] protocol = "openai.responses" -> ResponsesKeys
           [] protocol = "anthropic.messages" -> AnthropicKeys
           [] protocol = "google.gemini.generate_content" -> GeminiKeys
           [] protocol = "alibaba.dashscope.generation" -> DashscopeKeys
           [] protocol = "aws.bedrock.converse" -> BedrockKeys
           [] protocol = "cohere.chat" -> CohereKeys)

IsPresent(view, k) == Or(Get(view, k), <<>>) # <<>>

IsErrorResponseView(protocol, view) ==
    IF protocol = "alibaba.dashscope.generation"
    THEN IsPresent(view, "code") /\ IsPresent(view, "message")
    ELSE IsPresent(view, "error")

\* Each member of the policy, one of its alternatives, is there.
Required(protocol) ==
    CASE protocol = "openai.chat_completions" -> {"choices"}
      [] protocol = "openai.responses" -> {"output", "status"}
      [] protocol = "anthropic.messages" -> {"content"}
      [] protocol = "google.gemini.generate_content" -> {"candidates", "promptFeedback"}
      [] protocol = "cohere.chat" -> {"message", "text"}
      [] OTHER -> {"output"}

HasRequiredPresence(protocol, view) ==
    \/ IsErrorResponseView(protocol, view)
    \/ \E k \in Required(protocol) : IsPresent(view, k)
=============================================================================
