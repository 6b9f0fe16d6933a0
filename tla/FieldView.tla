------------------------------- MODULE FieldView -------------------------------
(***************************************************************************)
(* How a response body becomes the view that field claims hash, twice:     *)
(* in the enclave (src/enclave/src/main.rs) and in the verifier            *)
(* (src/verifier/field-proof.ts), which must find the same view.           *)
(*                                                                         *)
(* A body is a sequence of symbols, each a run of bytes no cut of which    *)
(* matters; "data:" is two symbols, so that it can be cut.  In an AWS      *)
(* event stream a symbol is one 32-bit word.  A view maps the slots of the *)
(* response (a choice's or content block's index, or the error) to text.   *)
(***************************************************************************)
EXTENDS Integers, Sequences, SequencesExt

CONSTANTS
    LOOKS_LIKE_SSE,              \* the 512 of looks_like_sse and looksLikeSse
    MAX_STREAM_SNIFF_BYTES,
    MAX_AWS_EVENTSTREAM_MESSAGE  \* in words

ASSUME WindowsAssumption ==
    /\ LOOKS_LIKE_SSE \in Nat
    /\ MAX_STREAM_SNIFF_BYTES \in Nat
    /\ MAX_AWS_EVENTSTREAM_MESSAGE \in Nat

Blank == {"sp", "nl", "cr"}      \* what Rust's trim and JSON skip
JsBlank == Blank \cup {"bom"}    \* JavaScript's trim also removes U+FEFF

\* JSON texts of one symbol: chunks of a response.  index -1: the chunk's
\* choice names no index.
Chunk ==
    [va |-> [index |-> 0, text |-> "a"],
     vb |-> [index |-> 0, text |-> "b"],
     vd |-> [index |-> 1, text |-> "d"],
     vu |-> [index |-> -1, text |-> "u"],
     vn |-> [index |-> 0, text |-> "n"]]
Chunks == DOMAIN Chunk
NullCalls == {"vn"}  \* chunks with "tool_calls": null beside their text

\* {"error": ...}: its slot holds the last one.
ErrorSlot == -1

\* The tool calls of choice 0.
CallsSlot == -2

\* The 32-bit words that count words.  Text read as a count is out of range:
\* four ASCII bytes are at least 2^24.
Word == [n0 |-> 0, n1 |-> 1, n2 |-> 2, n3 |-> 3, n4 |-> 4, n5 |-> 5, n6 |-> 6, n7 |-> 7]
U32(s) == IF s \in DOMAIN Word THEN Word[s] ELSE MAX_AWS_EVENTSTREAM_MESSAGE + 1

--------------------------------------------------------------------------------
(* Text.                                                                     *)

\* &s[..s.len().min(n)]
Window(s, n) == SubSeq(s, 1, IF Len(s) < n THEN Len(s) ELSE n)

\* s without its leading symbols of S.
TrimStart(s, S) ==
    LET n == SelectInSeq(s, LAMBDA x : x \notin S)
    IN  IF n = 0 THEN <<>> ELSE SubSeq(s, n, Len(s))

Trim(s, S) == Reverse(TrimStart(Reverse(TrimStart(s, S)), S))

\* The lines that end with a symbol of S, and what follows the last of them.
SplitAt(s, S) ==
    FoldLeft(LAMBDA a, x : IF x \in S
                 THEN [lines |-> Append(a.lines, a.rest), rest |-> <<>>]
                 ELSE [a EXCEPT !.rest = Append(@, x)],
             [lines |-> <<>>, rest |-> <<>>], s)

DropCr(line) == IF line # <<>> /\ Last(line) = "cr" THEN Front(line) ELSE line
DropEachCr(lines) == [i \in DOMAIN lines |-> DropCr(lines[i])]

\* str::lines: a last line without newline counts unless it is empty, and
\* keeps a carriage return.
Lines(s) ==
    LET p == SplitAt(s, {"nl"})
    IN  DropEachCr(p.lines) \o (IF p.rest = <<>> THEN <<>> ELSE <<p.rest>>)

Data == <<"da", "ta:">>
Event == <<"event:">>
IsFieldLine(line) == IsPrefix(Data, line) \/ IsPrefix(Event, line)
DataOf(line) == SubSeq(line, 3, Len(line))

\* data_lines.join("\n")
Join(lines) ==
    IF lines = <<>> THEN <<>>
    ELSE FoldLeft(LAMBDA a, l : a \o <<"nl">> \o l, Head(lines), Tail(lines))

\* serde_json and JSON.parse: a chunk, the error, the object without members,
\* or no JSON ("invalid", kept by both sides as an object no policy picks from).
Json(s) ==
    LET c == SelectSeq(s, LAMBDA x : x \notin Blank)
    IN  CASE c = <<"{", "}">> -> "empty"
          [] Len(c) = 1 /\ c[1] \in Chunks \cup {"ve"} -> c[1]
          [] OTHER -> "invalid"

\* Is the data of an event worth an item?
Flushed(data, S) == Trim(data, S) \notin {<<>>, <<"done">>}

--------------------------------------------------------------------------------
(* Views.                                                                    *)

NoView == [i \in {} |-> <<>>]

\* insert: slot i has these texts, whether or not it had others.
Insert(view, i, texts) == [j \in DOMAIN view \cup {i} |-> IF j = i THEN texts ELSE view[j]]

\* state.apply and one turn of the aggregators.  A choice without an index goes
\* to slot default.
ApplyAt(view, item, default) ==
    LET i == IF Chunk[item].index = -1 THEN default ELSE Chunk[item].index
        old == IF i \in DOMAIN view THEN view[i] ELSE <<>>
    IN  CASE item \in Chunks -> Insert(view, i, Append(old, Chunk[item].text))
          [] item = "ve" -> Insert(view, ErrorSlot, <<"e">>)
          [] OTHER -> view

Slots(view) == DOMAIN view \ {ErrorSlot}

\* BedrockConverseStreamState: content_blocks.len()
ApplyBlock(view, item) == ApplyAt(view, item, Cardinality(Slots(view)))

\* StreamFieldState::apply: choices.len() for chat, content_blocks.len() for
\* Bedrock blocks that come as SSE
Apply(view, item) == ApplyAt(view, item, Cardinality(Slots(view)))

Aggregate(items) == FoldLeft(Apply, NoView, items)

\* The view of a body that is one JSON document.  Its choices are not merged
\* into messages: no stream has the same ones.
PickJson(item) ==
    CASE item \in Chunks -> Insert(NoView, 0, <<"json", item>>)
      [] item = "ve" -> Insert(NoView, ErrorSlot, <<"e">>)
      [] OTHER -> NoView

\* Every required field is there, or an error is.
HasRequiredPresence(view) == view # NoView

--------------------------------------------------------------------------------
(* The enclave's whole-body functions.                                       *)

LooksLikeSse(body) ==
    LET w == Lines(Window(body, LOOKS_LIKE_SSE))
    IN  \E i \in DOMAIN w : IsFieldLine(w[i])

BodyPrefixIndicatesSse(body) ==
    LET t == TrimStart(Window(body, MAX_STREAM_SNIFF_BYTES), JsBlank)
    IN  IsFieldLine(t) \/ IsPrefix(<<":">>, t)

\* One line of parse_sse_data, acc = [data_lines, items].
FlushItems(acc) ==
    [data_lines |-> <<>>,
     items |-> IF acc.data_lines # <<>> /\ Flushed(Join(acc.data_lines), Blank)
               THEN Append(acc.items, Json(Join(acc.data_lines)))
               ELSE acc.items]

ParseSseData(body) ==
    LET line(acc, l) ==
            IF l = <<>> THEN FlushItems(acc)
            ELSE IF IsPrefix(Data, l)
            THEN [acc EXCEPT !.data_lines = Append(@, TrimStart(DataOf(l), Blank))]
            ELSE acc
    IN  FlushItems(FoldLeft(line, [data_lines |-> <<>>, items |-> <<>>], Lines(body))).items

FieldViewOf(body) ==
    IF LooksLikeSse(body) THEN Aggregate(ParseSseData(body)) ELSE PickJson(Json(body))

--------------------------------------------------------------------------------
(* The verifier's.                                                           *)

\* A ^ of a multiline regular expression matches after "\n" and after "\r".
JsLooksLikeSse(body) ==
    LET p == SplitAt(Window(body, LOOKS_LIKE_SSE), {"nl", "cr"})
        w == Append(p.lines, p.rest)
    IN  \E i \in DOMAIN w : IsFieldLine(w[i])

JsFlush(acc) ==
    [dataLines |-> <<>>,
     out |-> IF acc.dataLines # <<>> /\ Flushed(Join(acc.dataLines), JsBlank)
             THEN Append(acc.out, Json(Join(acc.dataLines)))
             ELSE acc.out]


JsParseSseData(body) ==
    LET p == SplitAt(body, {"nl"})
        line(acc, l) ==
            IF l = <<>> THEN JsFlush(acc)
            ELSE IF IsPrefix(Data, l)
            THEN [acc EXCEPT !.dataLines = Append(@, TrimStart(DataOf(l), JsBlank))]
            ELSE acc
    IN  JsFlush(FoldLeft(line, [dataLines |-> <<>>, out |-> <<>>],
                         DropEachCr(Append(p.lines, p.rest)))).out

\* aggregateOpenAIChatStream: the position of the choice in its chunk, and a
\* chunk has one choice here; tool_calls that are null start an empty array
JsApplyChoice(view, item) ==
    LET new == ApplyAt(view, item, 0)
    IN  IF item \in NullCalls THEN Insert(new, CallsSlot, <<>>) ELSE new

\* aggregateBedrockConverseStream: contentBlocks.size
JsApplyBlock(view, item) == ApplyAt(view, item, Cardinality(Slots(view)))

JsAggregate(protocol, items) ==
    IF protocol = "aws.bedrock.converse" THEN FoldLeft(JsApplyBlock, NoView, items)
    ELSE FoldLeft(JsApplyChoice, NoView, items)

JsFieldViewOf(protocol, body) ==
    IF JsLooksLikeSse(body) THEN JsAggregate(protocol, JsParseSseData(body))
    ELSE PickJson(Json(Trim(body, JsBlank)))
=============================================================================
