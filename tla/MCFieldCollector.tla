--------------------------- MODULE MCFieldCollector ---------------------------
(* Instances of FieldCollector for TLC.                                       *)
EXTENDS FieldCollector

Concat(parts, n) == {FlattenSeq(s) : s \in BoundedSeq(parts, n)}

DataLine(v) == <<"da", "ta:", "sp", v, "nl">>
EventOf(v) == DataLine(v) \o <<"nl">>

\* Parts of text bodies: events, CRLF endings, an object over two data lines,
\* a data line without its end, comments, JSON documents, chunks without index or
\* with null tool calls.
TextParts ==
    {EventOf("va"), EventOf("vd"), EventOf("vu"), EventOf("vn"), EventOf("done"), DataLine("vb"),
     <<"da", "ta:", "va", "cr", "nl">>, <<"cr", "nl">>,
     <<"da", "ta:", "{", "nl", "da", "ta:", "}", "nl", "nl">>,
     <<"da", "ta:", "ve">>, <<":", "x", "nl">>, <<"event:", "x", "nl">>,
     <<"va">>, <<"ve">>, <<"x", "nl">>, <<"bom">>, <<"sp">>}

Message(payload) ==
    <<IF payload = <<>> THEN "n4" ELSE IF Len(payload) = 1 THEN "n5" ELSE "n6",
      "n0", "crc">> \o payload \o <<"crc">>

\* Messages, one with a header, and broken ones: no JSON, a length below the
\* overhead or above the limit, headers longer than the message, a cut one.
MessageParts ==
    {Message(<<"va">>), Message(<<"vd">>), Message(<<>>), Message(<<"{", "}">>),
     Message(<<"sp">>), <<"n6", "n1", "crc", "x", "vb", "crc">>, Message(<<"x">>),
     <<"n3", "n0", "crc", "crc">>, <<"n7", "n0", "crc", "va", "va", "va", "crc">>,
     <<"n5", "n2", "crc", "va", "crc">>, <<"n5", "n0", "crc", "va">>, <<"n5", "n0">>}

In(protocol, ctypes, streams, bodies) ==
    [protocol : {protocol}, content_type : ctypes, stream : streams,
     request : {TRUE}, body : bodies]

MCInputs ==
    In("openai.chat_completions", {"sse", "other"}, {FALSE}, Concat(TextParts, 3))
    \cup In("openai.chat_completions", {"sse", "other"}, {TRUE}, Concat(TextParts, 2))
    \cup In("aws.bedrock.converse", {"sse", "other"}, {FALSE}, Concat(TextParts, 2))
    \cup In("aws.bedrock.converse", {"eventstream"}, {TRUE}, Concat(MessageParts, 3))
    \cup In("aws.bedrock.converse", {"eventstream", "other"}, BOOLEAN, Concat(MessageParts, 1))
    \cup {[protocol |-> "cohere.chat", content_type |-> "sse", stream |-> TRUE,
           request |-> FALSE, body |-> EventOf("va")]}

\* A comment longer than the verifier's window before the first event.
LateInputs ==
    In("openai.chat_completions", {"sse"}, {TRUE},
       {<<":", "x", "x", "x", "x", "x", "nl">> \o EventOf("va")})

\* A Bedrock event stream of two messages.
EventStreamInputs ==
    In("aws.bedrock.converse", {"eventstream"}, {TRUE},
       {Message(<<"va">>) \o Message(<<"vb">>)})

\* Two chunks whose choices name no index.
UnindexedInputs ==
    In("openai.chat_completions", {"sse"}, {TRUE}, {EventOf("vu") \o EventOf("vu")})

\* An SSE body longer than the capture, sniffed and delivered as one chunk.
OneChunkInputs ==
    In("openai.chat_completions", {"other"}, {FALSE},
       {EventOf("va") \o EventOf("vd") \o EventOf("vb")})

\* A chunk whose delta says "tool_calls": null.
NullCallsInputs ==
    In("openai.chat_completions", {"sse"}, {TRUE}, {EventOf("vn")})

DisagreeingInputs == LateInputs \cup EventStreamInputs \cup UnindexedInputs \cup OneChunkInputs
                     \cup NullCallsInputs
=============================================================================
