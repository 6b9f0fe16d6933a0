---------------------------- MODULE FieldCollector ----------------------------
(***************************************************************************)
(* FieldResponseCollector (src/enclave/src/main.rs): the enclave builds    *)
(* field claims from a response it forwards and does not keep.  push gets  *)
(* the body in the pieces the transport happened to deliver, finish makes  *)
(* the claims.  The verifier, who has the whole body, makes the view again *)
(* (FieldView).                                                            *)
(***************************************************************************)
EXTENDS FieldView

CONSTANTS
    Inputs,                    \* exchanges: protocol, content_type, stream, request, body
    MAX_FIELD_CLAIMS_CAPTURE,
    MaxPiece                   \* longest piece one push gets (bounds the model)

ASSUME CollectorAssumption ==
    /\ MAX_FIELD_CLAIMS_CAPTURE \in Nat
    /\ MaxPiece \in Nat \ {0}
    /\ MAX_STREAM_SNIFF_BYTES <= MAX_FIELD_CLAIMS_CAPTURE
ASSUME InputsAssumption == \A in \in Inputs : in.body \in Seq(STRING)

VARIABLES
    input,      \* the exchange
    rest,       \* the part of its body not yet pushed
    mode,       \* FieldResponseBody's variant, or "absent": new returned None
    body,       \* Sniffing: the captured body
    truncated,  \* Sniffing: the body was longer than the capture
    parser,     \* the SSE or event-stream parser and the StreamFieldState it feeds
    finished,   \* finish has returned
    claims      \* the view the claims are about; NoView: no claims

vars == <<input, rest, mode, body, truncated, parser, finished, claims>>

NewParser == [pending |-> <<>>, data_lines |-> <<>>, failed |-> FALSE, view |-> NoView]

\* FieldResponseCollector::new.  in.request: a protocol is detected and the
\* request has its required fields; in.stream: request_indicates_streaming.
NewMode(in) ==
    CASE ~in.request -> "absent"
      [] in.request /\ in.content_type = "sse" -> "Streaming"
      [] in.request /\ in.content_type # "sse" /\ in.protocol = "aws.bedrock.converse"
            /\ (in.content_type = "eventstream" \/ in.stream) -> "AwsEventStream"
      [] in.request /\ in.content_type # "sse" /\ in.protocol # "aws.bedrock.converse"
            /\ in.stream -> "Streaming"
      [] OTHER -> "Sniffing"

Init ==
    /\ input \in Inputs
    /\ rest = input.body
    /\ mode = NewMode(input)
    /\ body = <<>>
    /\ truncated = FALSE
    /\ parser = NewParser
    /\ finished = FALSE
    /\ claims = NoView

--------------------------------------------------------------------------------
(* SseEventParser.                                                           *)

Flush(p) ==
    LET data == Join(p.data_lines)
    IN  [p EXCEPT !.data_lines = <<>>,
                  !.view = IF p.data_lines # <<>> /\ Flushed(data, Blank)
                           THEN Apply(@, Json(data)) ELSE @]

ProcessLine(p, line) ==
    IF line = <<>> THEN Flush(p)
    ELSE IF IsPrefix(Data, line)
    THEN [p EXCEPT !.data_lines = Append(@, TrimStart(DataOf(line), Blank))]
    ELSE p

\* Mutant: if let for while let, so that a push takes one line at most.
SsePushOneLine(p, chunk) ==
    LET all == p.pending \o chunk
        n == SelectInSeq(all, LAMBDA x : x = "nl")
    IN  IF n = 0 THEN [p EXCEPT !.pending = all]
        ELSE ProcessLine([p EXCEPT !.pending = SubSeq(all, n + 1, Len(all))],
                         DropCr(SubSeq(all, 1, n - 1)))

SsePush(p, chunk) ==
    LET s == SplitAt(p.pending \o chunk, {"nl"})
    IN  FoldLeft(ProcessLine, [p EXCEPT !.pending = s.rest], DropEachCr(s.lines))

SseFinish(p) ==
    Flush(IF p.pending = <<>> THEN p
          ELSE ProcessLine([p EXCEPT !.pending = <<>>], p.pending))

--------------------------------------------------------------------------------
(* AwsEventStreamParser.  A message: its length, its headers' length and a   *)
(* checksum nobody checks, the headers, the payload, another checksum.       *)

PRELUDE == 3
OVERHEAD == 4

Fail(p) == [p EXCEPT !.failed = TRUE, !.pending = <<>>]

\* A turn of the loop in push; at a return it changes nothing more.
TakeMessage(p) ==
    LET total == U32(p.pending[1])
        headers == U32(p.pending[2])
        payload == SubSeq(p.pending, PRELUDE + headers + 1, total - 1)
        next == [p EXCEPT !.pending = SubSeq(@, total + 1, Len(@))]
    IN  IF p.failed \/ Len(p.pending) < PRELUDE THEN p
        ELSE IF \/ total < OVERHEAD
                \/ total > MAX_AWS_EVENTSTREAM_MESSAGE
                \/ headers > total - OVERHEAD
        THEN Fail(p)
        ELSE IF Len(p.pending) < total THEN p
        ELSE IF Trim(payload, Blank) = <<>> THEN next
        ELSE IF Json(payload) = "invalid" THEN Fail(p)
        ELSE [next EXCEPT !.view = ApplyBlock(@, Json(payload))]

\* A message has at least one word: the words pending bound the turns.
AwsPush(p, chunk) ==
    LET start == IF p.failed THEN p ELSE [p EXCEPT !.pending = @ \o chunk]
    IN  FoldLeft(LAMBDA q, w : TakeMessage(q), start, start.pending)

\* Mutant: what is left pending is forgotten.
AwsFinishLenient(p) == [p EXCEPT !.pending = <<>>]

AwsFinish(p) == IF p.pending = <<>> THEN p ELSE Fail(p)

--------------------------------------------------------------------------------
(* The collector.                                                            *)

Piece(n) == SubSeq(rest, 1, n)

PushStreaming(n) ==
    /\ mode = "Streaming"
    /\ parser' = SsePush(parser, Piece(n))
    /\ UNCHANGED <<mode, body, truncated>>

PushAwsEventStream(n) ==
    /\ mode = "AwsEventStream"
    /\ parser' = AwsPush(parser, Piece(n))
    /\ UNCHANGED <<mode, body, truncated>>

\* Mutant: the new parser gets the piece and not what was captured before it.
PushSniffingPiece(n) ==
    LET captured == IF truncated THEN body
                    ELSE Window(body \o Piece(n), MAX_FIELD_CLAIMS_CAPTURE)
    IN  /\ mode = "Sniffing"
        /\ \/ /\ BodyPrefixIndicatesSse(captured)
              /\ mode' = "Streaming"
              /\ parser' = SsePush(NewParser, Piece(n))
              /\ body' = <<>>
              /\ truncated' = FALSE
           \/ /\ ~BodyPrefixIndicatesSse(captured)
              /\ body' = captured
              /\ truncated' = (truncated \/ Len(body) + n > MAX_FIELD_CLAIMS_CAPTURE)
              /\ UNCHANGED <<mode, parser>>

\* capture_field_body, then the test for SSE over what is captured.  The variant
\* that recognition replaces is dropped, truncated with it.
PushSniffing(n) ==
    LET captured == IF truncated THEN body
                    ELSE Window(body \o Piece(n), MAX_FIELD_CLAIMS_CAPTURE)
    IN  /\ mode = "Sniffing"
        /\ \/ /\ BodyPrefixIndicatesSse(captured)
              /\ mode' = "Streaming"
              /\ parser' = SsePush(NewParser, captured)
              /\ body' = <<>>
              /\ truncated' = FALSE
           \/ /\ ~BodyPrefixIndicatesSse(captured)
              /\ body' = captured
              /\ truncated' = (truncated \/ Len(body) + n > MAX_FIELD_CLAIMS_CAPTURE)
              /\ UNCHANGED <<mode, parser>>

PushAbsent == mode = "absent" /\ UNCHANGED <<mode, body, truncated, parser>>

\* collector.push from the sink of handle or of AttestedH2Sink
Push(n) ==
    /\ ~finished
    /\ n <= Len(rest)
    /\ rest' = SubSeq(rest, n + 1, Len(rest))
    /\ \/ PushStreaming(n)
       \/ PushAwsEventStream(n)
       \/ PushSniffing(n)
       \/ PushAbsent
    /\ UNCHANGED <<input, finished, claims>>

\* The view finish hands to build_field_claims_from_views, which makes no claims
\* of a view without the required fields.
FinishView ==
    CASE mode = "Streaming" -> SseFinish(parser).view
      [] mode = "AwsEventStream" ->
            IF AwsFinish(parser).failed THEN NoView ELSE AwsFinish(parser).view
      [] mode = "Sniffing" -> IF truncated THEN NoView ELSE FieldViewOf(body)
      [] mode = "absent" -> NoView

Finish ==
    /\ ~finished
    /\ rest = <<>>
    /\ finished' = TRUE
    /\ claims' = FinishView
    /\ UNCHANGED <<input, rest, mode, body, truncated, parser>>

Next == (\E n \in 1..MaxPiece : Push(n)) \/ Finish

Spec == Init /\ [][Next]_vars

--------------------------------------------------------------------------------
(* Properties.                                                               *)

Symbols == Chunks \cup DOMAIN Word \cup JsBlank
    \cup {"da", "ta:", "event:", ":", "x", "done", "ve", "{", "}", "crc"}

\* What a slot's texts are made of.
Texts == {Chunk[c].text : c \in Chunks} \cup Chunks \cup {"e", "json"}
IsView(v) == DOMAIN v \subseteq Int /\ \A i \in DOMAIN v : v[i] \in Seq(Texts)

\* Every variable has its type.  The capture never outgrows its limit, and a
\* parser never keeps a whole line (or, once failed, anything) pending.
TypeOK ==
    /\ input.body \in Seq(Symbols) /\ IsSuffix(rest, input.body)
    /\ mode \in {"Streaming", "AwsEventStream", "Sniffing", "absent"}
    /\ body \in Seq(Symbols) /\ Len(body) <= MAX_FIELD_CLAIMS_CAPTURE
    /\ truncated \in BOOLEAN /\ finished \in BOOLEAN
    /\ parser.pending \in Seq(Symbols)
    /\ mode = "Streaming" => ~Contains(parser.pending, "nl")
    /\ parser.failed => parser.pending = <<>>
    /\ IsView(parser.view) /\ IsView(claims)

\* What the whole body would be claimed to say by parse_sse_data and field_view,
\* which see it at once.
WholeBodyView ==
    LET start == NewMode(input)
    IN  CASE \/ start = "Streaming"
             \/ start = "Sniffing" /\ BodyPrefixIndicatesSse(input.body) ->
                Aggregate(ParseSseData(input.body))
          [] /\ start = "Sniffing"
             /\ ~BodyPrefixIndicatesSse(input.body)
             /\ Len(input.body) <= MAX_FIELD_CLAIMS_CAPTURE -> FieldViewOf(input.body)
          [] OTHER -> NoView

\* Claims about an SSE or JSON response do not depend on where the transport cut
\* the body, in the middle of "data:", of a JSON text or of "\r\n" included:
\* push and finish compute what the whole-body functions do (main.rs:860-922
\* against 678-719).  It holds where PiecesFit does, and not for a piece that
\* overflows the capture while SSE is recognised (VerifierAgrees).
CutInvariant ==
    finished /\ NewMode(input) # "AwsEventStream" => claims = WholeBodyView

\* The payload of the message that starts at i.
PayloadAt(b, i) == SubSeq(b, i + PRELUDE + U32(b[i + 2]) + 1, i + U32(b[i + 1]) - 1)
IsBlank(payload) == Trim(payload, Blank) = <<>>

\* A message starts at i: its lengths fit and its payload is blank or JSON.
MessageAt(b, i) ==
    /\ Len(b) - i >= OVERHEAD
    /\ U32(b[i + 1]) \in OVERHEAD..MAX_AWS_EVENTSTREAM_MESSAGE
    /\ i + U32(b[i + 1]) <= Len(b)
    /\ U32(b[i + 2]) <= U32(b[i + 1]) - OVERHEAD
    /\ IsBlank(PayloadAt(b, i)) \/ Json(PayloadAt(b, i)) # "invalid"

\* starts is where the messages of b start, if b is nothing but messages.
Framing(b, starts) ==
    /\ b # <<>> => 0 \in starts
    /\ \A i \in starts :
          /\ MessageAt(b, i)
          /\ i + U32(b[i + 1]) \in starts \cup {Len(b)}
          /\ \A j \in starts : j <= i \/ j >= i + U32(b[i + 1])

\* What the messages that start in starts say, where they start.  A blank payload
\* and the words between say nothing.
Said(b, starts) ==
    [i \in 1..Len(b) |-> IF i - 1 \in starts /\ ~IsBlank(PayloadAt(b, i - 1))
                         THEN Json(PayloadAt(b, i - 1)) ELSE "invalid"]

\* A Bedrock event stream is claimed exactly when it is a concatenation of whole
\* messages with JSON payloads, and the claims are about these payloads in
\* their order, however push got the bytes: nothing is claimed of a stream that
\* ends in the middle of a message or has a broken one (main.rs:984-1050).
EventStreamExact ==
    finished /\ NewMode(input) = "AwsEventStream" =>
        LET b == input.body
            words == {i \in 0..(Len(b) - 1) : b[i + 1] \in DOMAIN Word}
            framings == {s \in SUBSET words : Framing(b, s)}
        IN  IF framings = {} THEN claims = NoView
            ELSE \E s \in framings : claims = Aggregate(Said(b, s))

VerifierView == JsFieldViewOf(input.protocol, input.body)

\* A piece that completes the sniffing window still fits the capture.
PiecesFit == MAX_STREAM_SNIFF_BYTES + MaxPiece <= MAX_FIELD_CLAIMS_CAPTURE

\* No chunk of the body is one that the two programs aggregate differently: a chat
\* choice that names no index, or whose delta says "tool_calls": null.
AggregatedAlike ==
    \/ input.protocol = "aws.bedrock.converse"
    \/ \A c \in Range(input.body) \cap Chunks :
          c \notin NullCalls /\ Chunk[c].index # -1


\* The verifier finds in the bytes the enclave forwarded the view the enclave
\* claimed ("the verifier must agree with the enclave on must_match fields").
VerifierAgrees == finished /\ HasRequiredPresence(claims) => claims = VerifierView
=============================================================================
