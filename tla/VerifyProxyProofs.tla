--------------------------- MODULE VerifyProxyProofs ---------------------------
(***************************************************************************)
(* Theorems about VerifyProxy, for every value of its constants: what      *)
(* --enforce lets through, that the pieces written join up, that a         *)
(* holdback as long as the proof keeps it from the client, and what a      *)
(* verdict "ok" says of the bytes the client has.                          *)
(***************************************************************************)
EXTENDS VerifyProxy, TLAPS

Spans == Int \X Int

TypeOK ==
    /\ enforce \in BOOLEAN /\ resp \in Responses
    /\ upstream \in {"request", "response", "ended", "failed", "destroyed"}
    /\ received \in 0..Total /\ forwarded \in Nat
    /\ status \in {0, 200, 502}
    /\ sent \in Seq(Spans)
    /\ ended \in BOOLEAN /\ client \in {"connected", "gone"}
    /\ verdict \in {"none", "unattested", "ok", "failed"} /\ warned \in BOOLEAN

-----------------------------------------------------------------------------
(* The inductive invariant.  Until the response has ended a buffering       *)
(* branch has written nothing and a streaming branch has written the        *)
(* response up to some byte, in pieces that join up; the end adds one       *)
(* piece; and a verdict "ok" is only given at the end, over a parsed proof. *)

Stream == Streams /\ resp.kind = "sse"
Plain  == Streams /\ resp.kind = "plain"

\* The client has the first m bytes of the response, in pieces that join up.
Follows(m) ==
    /\ Got = 1..m /\ Gapless
    /\ sent = <<>> <=> m = 0
    /\ sent # <<>> => sent[Len(sent)][2] = m

Buffered  == ~Streams /\ upstream # "ended" => sent = <<>>
Copied    == Plain => Follows(received)
Following == Stream /\ upstream # "ended" => Follows(forwarded)
Back      == Stream => forwarded = 0 \/ forwarded <= received - HOLDBACK

\* What a stream that ended has written.
Completed ==
    Stream /\ ~Replaced /\ upstream = "ended" =>
        /\ Got = 1..forwarded \cup (BodySpan[1] + forwarded)..BodySpan[2]
        /\ ByteExact
        /\ warned <=> forwarded > BodyLength

\* The same when the decoding replaced a byte: the rest of the decoded text.
Shifted ==
    Stream /\ Replaced /\ upstream = "ended" =>
        Got = 1..forwarded
              \cup {Decoded(i) : i \in (forwarded + 1)..(BodySpan[2] + 2)}

\* What a buffering branch has written at the end: the body, if anything.
Released ==
    ~Streams /\ upstream = "ended" =>
        /\ sent # <<>> => sent = <<BodySpan>>
        /\ verdict = "ok" => Got = BodySpan[1]..BodySpan[2]

\* Where the verdict comes from.
Judged ==
    /\ verdict = "ok" => upstream = "ended" /\ Parsed /\ ~Plain
    /\ enforce /\ (sent # <<>> \/ status = 200) => verdict = "ok"

\* The end of the response ends the client's.
Closed == upstream = "ended" => ended

IInv ==
    /\ TypeOK /\ Buffered /\ Copied /\ Following /\ Back
    /\ Completed /\ Shifted /\ Released /\ Judged /\ Closed

-----------------------------------------------------------------------------
(* The response, and what a write adds.                                     *)

\* The sizes are numbers, and the span taken for the body lies in the response.
LEMMA Sizes ==
    ASSUME resp \in Responses
    PROVE  /\ resp.keep \in Nat /\ resp.n \in Nat /\ resp.p \in Nat /\ Total \in Nat
           /\ resp.bad \in 0..resp.n /\ BadByte \in resp.keep..(resp.keep + resp.n)
           /\ Stripped \in {0, resp.keep}
           /\ BodySpan \in Spans /\ BodySpan[1] \in Nat /\ BodySpan[2] \in Nat
           /\ BodySpan[1] = IF Separated THEN Stripped + 1 ELSE 1
           /\ BodySpan[2] = IF Separated THEN resp.keep + resp.n ELSE Total
           /\ BodyLength = BodySpan[2] - BodySpan[1] + 1
<1>1. /\ resp.keep \in Nat /\ resp.n \in Nat /\ resp.p \in Nat
      /\ resp.bad \in Nat /\ resp.bad <= resp.n
  BY BoundsAssumption DEF Responses
<1>2. /\ Total \in Nat /\ Stripped \in {0, resp.keep}
      /\ BadByte \in resp.keep..(resp.keep + resp.n)
  BY <1>1 DEF Total, Stripped, BadByte
<1> QED
  BY <1>1, <1>2 DEF BodySpan, BodyLength, Spans

\* A response, and with it what the verifier makes of it, stays as it came.
LEMMA Fixed ==
    ASSUME UNCHANGED <<enforce, resp>>
    PROVE  UNCHANGED <<Total, Stripped, Separated, Parsed, BodySpan, BodyLength,
                       Verify, Streams, Stream, Plain, Body, Proof, Replaced, BadByte>>
BY DEF Total, Stripped, Separated, Parsed, BodySpan, BodyLength, Verify, Streams,
       Stream, Plain, Body, Proof, Replaced, BadByte

\* The client's bytes, one by one.
LEMMA GotBytes ==
    \A x : x \in Got <=> \E i \in 1..Len(sent) : x \in sent[i][1]..sent[i][2]
BY DEF Got

\* A write adds its span.
LEMMA WriteGot ==
    ASSUME sent \in Seq(Spans), NEW span \in Spans, Write(span)
    PROVE  sent' \in Seq(Spans) /\ Got' = Got \cup span[1]..span[2]
<1>0. span[1] \in Int /\ span[2] \in Int
  BY DEF Spans
<1>1. CASE span[2] < span[1]
  <2>1. sent' = sent /\ span[1]..span[2] = {}
    BY <1>0, <1>1 DEF Write
  <2>2. Got' = Got
    BY <2>1 DEF Got
  <2> QED
    BY <2>1, <2>2
<1>2. CASE ~(span[2] < span[1])
  <2>1. sent' = Append(sent, span)
    BY <1>2 DEF Write
  <2>2. /\ sent' \in Seq(Spans) /\ Len(sent) \in Nat /\ Len(sent') = Len(sent) + 1
        /\ sent'[Len(sent) + 1] = span
        /\ \A i \in 1..Len(sent) : sent'[i] = sent[i]
    BY <2>1
  <2>3. \A x : x \in Got' <=> \E i \in 1..Len(sent') : x \in sent'[i][1]..sent'[i][2]
    BY DEF Got
  <2>4. 1..Len(sent') = 1..Len(sent) \cup {Len(sent) + 1}
    BY <2>2
  <2>5. \A x : x \in Got' <=> x \in Got \/ x \in span[1]..span[2]
    BY <2>2, <2>3, <2>4, GotBytes
  <2> QED
    BY <2>2, <2>5
<1> QED
  BY <1>1, <1>2

\* A write that starts where the last one stopped leaves no gap.
LEMMA WriteGapless ==
    ASSUME sent \in Seq(Spans), NEW span \in Spans, Write(span), Gapless,
           sent # <<>> => span[1] = sent[Len(sent)][2] + 1
    PROVE  /\ Gapless'
           /\ span[1] <= span[2] =>
                  sent' # <<>> /\ sent'[Len(sent')][2] = span[2]
<1>0. span[1] \in Int /\ span[2] \in Int
  BY DEF Spans
<1>1. CASE span[2] < span[1]
  <2>1. sent' = sent
    BY <1>1 DEF Write
  <2> QED
    BY <1>0, <1>1, <2>1 DEF Gapless
<1>2. CASE ~(span[2] < span[1])
  <2>1. sent' = Append(sent, span)
    BY <1>2 DEF Write
  <2>2. /\ Len(sent) \in Nat /\ Len(sent') = Len(sent) + 1
        /\ sent'[Len(sent) + 1] = span /\ sent' # <<>>
        /\ \A i \in 1..Len(sent) : sent'[i] = sent[i]
    BY <2>1
  <2>3. ASSUME NEW i \in 1..(Len(sent') - 1)
        PROVE  sent'[i + 1][1] = sent'[i][2] + 1
    <3>1. i \in 1..Len(sent) /\ sent'[i] = sent[i]
      BY <2>2
    <3>2. CASE i < Len(sent)
      <4>1. i \in 1..(Len(sent) - 1) /\ i + 1 \in 1..Len(sent)
        BY <2>2, <3>1, <3>2
      <4> QED
        BY <2>2, <3>1, <4>1 DEF Gapless
    <3>3. CASE i = Len(sent)
      <4>1. sent # <<>>
        BY <2>2, <3>1
      <4> QED
        BY <2>2, <3>1, <3>3, <4>1
    <3> QED
      BY <2>2, <3>1, <3>2, <3>3
  <2> QED
    BY <2>2, <2>3 DEF Gapless
<1> QED
  BY <1>1, <1>2

\* A client that has the first m bytes and is written bytes m + 1 to l has the first l.
LEMMA FollowsWrite ==
    ASSUME sent \in Seq(Spans), NEW m \in Nat, NEW l \in Nat, m < l,
           Follows(m), Write(<<m + 1, l>>)
    PROVE  sent' \in Seq(Spans) /\ Follows(l)'
<1> DEFINE span == <<m + 1, l>>
<1>1. span \in Spans /\ span[1] = m + 1 /\ span[2] = l /\ span[1] <= span[2]
  BY DEF Spans
<1>2. Write(span)
  OBVIOUS
<1> HIDE DEF span
<1>3. sent' \in Seq(Spans) /\ Got' = Got \cup (m + 1)..l
  BY <1>1, <1>2, WriteGot
<1>4. Gapless' /\ sent' # <<>> /\ sent'[Len(sent')][2] = l
  BY <1>1, <1>2, WriteGapless DEF Follows
<1>5. Got' = 1..l
  BY <1>3 DEF Follows
<1> QED
  BY <1>3, <1>4, <1>5 DEF Follows

\* The end of a stream writes the rest of the body, from index forwarded on.
LEMMA FollowsEnd ==
    ASSUME sent \in Seq(Spans), NEW span \in Spans, Follows(forwarded), forwarded \in Nat,
           Write(span)
    PROVE  /\ sent' \in Seq(Spans)
           /\ Got' = 1..forwarded \cup span[1]..span[2]
           /\ span[1] = forwarded + 1 \/ forwarded = 0 => Gapless'
<1>1. sent' \in Seq(Spans) /\ Got' = 1..forwarded \cup span[1]..span[2]
  BY WriteGot DEF Follows
<1>2. ASSUME span[1] = forwarded + 1
      PROVE  Gapless'
  BY <1>2, WriteGapless DEF Follows
<1>3. ASSUME forwarded = 0
      PROVE  Gapless'
  BY <1>3, WriteGapless DEF Follows
<1> QED
  BY <1>1, <1>2, <1>3

-----------------------------------------------------------------------------
(* The steps.                                                               *)

\* Nothing was received and nothing was written.
LEMMA InvInit == Init => IInv
<1> SUFFICES ASSUME Init PROVE IInv
  OBVIOUS
<1>1. /\ resp \in Responses /\ enforce \in BOOLEAN /\ upstream = "request"
      /\ received = 0 /\ forwarded = 0 /\ status = 0 /\ sent = <<>>
      /\ ended = FALSE /\ client = "connected" /\ verdict = "none" /\ warned = FALSE
  BY DEF Init
<1>2. TypeOK
  <2>1. received \in 0..Total /\ forwarded \in Nat
    BY <1>1, Sizes
  <2>2. sent \in Seq(Spans)
    BY <1>1
  <2>3. ended \in BOOLEAN /\ warned \in BOOLEAN
    BY <1>1, Zenon
  <2> QED
    BY <1>1, <2>1, <2>2, <2>3 DEF TypeOK
<1>3. Got = {}
  BY <1>1, GotBytes
<1>4. Follows(0)
  BY <1>1, <1>3 DEF Follows, Gapless
<1> QED
  BY <1>1, <1>2, <1>4
     DEF IInv, Buffered, Copied, Following, Back, Completed, Shifted, Released, Judged,
         Closed

\* A step that writes nothing and does not take the response to its end keeps the
\* invariant: the head, a failure of the relay, the client that leaves.
LEMMA InvIdle ==
    ASSUME IInv, UNCHANGED <<enforce, resp, received, forwarded, sent, verdict, warned>>,
           upstream' \in {"response", "failed", "destroyed"}, upstream # "ended",
           status' = status \/ (status' = 200 /\ Streams) \/ status' = 502,
           ended' \in BOOLEAN, client' \in {"connected", "gone"}
    PROVE  IInv'
<1>0. UNCHANGED <<Total, Parsed, Streams, Stream, Plain>>
  BY Fixed
<1>1. TypeOK'
  BY <1>0 DEF IInv, TypeOK
<1>2. \A m : Follows(m) => Follows(m)'
  BY DEF Follows, Got, Gapless
<1>3. Buffered' /\ Copied' /\ Following' /\ Back'
  BY <1>0, <1>2 DEF IInv, Buffered, Copied, Following, Back
<1>4. Completed' /\ Shifted' /\ Released' /\ Closed'
  BY DEF Completed, Shifted, Released, Closed
<1>5. Judged'
  BY <1>0 DEF IInv, Judged, Streams
<1> QED
  BY <1>1, <1>3, <1>4, <1>5 DEF IInv

\* So does one that touches neither the response nor what was written.
LEMMA InvSame ==
    ASSUME IInv, UNCHANGED <<enforce, resp, upstream, received, forwarded, status, sent,
                             ended, verdict, warned>>,
           client' \in {"connected", "gone"}
    PROVE  IInv'
<1>0. UNCHANGED <<Total, Stripped, Parsed, BodySpan, BodyLength, Streams, Stream, Plain,
                  Replaced, BadByte>>
  BY Fixed
<1>1. TypeOK'
  BY <1>0 DEF IInv, TypeOK
<1>2. UNCHANGED <<Got, Gapless, Unshifted>>
  BY <1>0 DEF Got, Gapless, Unshifted
<1>3. \A m : Follows(m) => Follows(m)'
  BY <1>2 DEF Follows
<1>4. Buffered' /\ Copied' /\ Following' /\ Back'
  BY <1>0, <1>3 DEF IInv, Buffered, Copied, Following, Back
<1>5. Completed' /\ Shifted' /\ Released'
  <2>1. Completed' /\ Released'
    BY <1>0, <1>2 DEF IInv, Completed, Released, ByteExact
  <2>2. Shifted'
    BY <1>0, <1>2 DEF IInv, Shifted, Decoded
  <2> QED
    BY <2>1, <2>2
<1>6. Judged' /\ Closed'
  BY <1>0 DEF IInv, Judged, Closed
<1> QED
  BY <1>1, <1>4, <1>5, <1>6 DEF IInv

\* The response callback, up.on('error') and clientRes 'close'.
LEMMA InvEvents ==
    ASSUME IInv, ResponseHead \/ UpstreamFails \/ ClientCloses
    PROVE  IInv'
<1>1. CASE ResponseHead
  BY <1>1, InvIdle DEF ResponseHead, IInv, TypeOK
<1>2. CASE UpstreamFails
  BY <1>2, InvIdle DEF UpstreamFails, EndError, IInv, TypeOK
<1>3. CASE ClientCloses
  <2>1. /\ UNCHANGED <<enforce, resp, received, forwarded, status, sent, ended, verdict,
                      warned>>
        /\ client' = "gone" /\ upstream' = IF ended THEN upstream ELSE "destroyed"
    BY <1>3 DEF ClientCloses
  <2>2. CASE ended
    BY <2>1, <2>2, InvSame
  <2>3. CASE ~ended
    <3>1. upstream # "ended"
      BY <2>3 DEF IInv, Closed
    <3> QED
      BY <2>1, <2>3, <3>1, InvIdle DEF IInv, TypeOK
  <2> QED
    BY <2>2, <2>3
<1> QED
  BY <1>1, <1>2, <1>3

\* 'data': the bytes of a streaming branch follow those the client has.
LEMMA InvData ==
    ASSUME IInv, NEW k \in Nat, Data(k)
    PROVE  IInv'
<1>0. /\ resp \in Responses /\ sent \in Seq(Spans) /\ received \in Nat /\ forwarded \in Nat
      /\ Total \in Nat /\ HOLDBACK \in Nat /\ received <= Total
  BY Sizes, BoundsAssumption DEF IInv, TypeOK
<1>1. /\ upstream = "response" /\ k \in 1..(Total - received) /\ received' = received + k
      /\ UNCHANGED <<enforce, resp, upstream, status, ended, client, verdict, warned>>
  BY DEF Data
<1>2. UNCHANGED <<Total, Parsed, Streams, Stream, Plain>>
  BY <1>1, Fixed
<1>3. received' \in 0..Total' /\ received' \in Nat
  BY <1>0, <1>1, <1>2
<1>4. Completed' /\ Shifted' /\ Released' /\ Closed'
  BY <1>1 DEF Completed, Shifted, Released, Closed
<1>5. CASE Streams /\ resp.kind = "plain"
  <2>1. Write(<<received + 1, received + k>>) /\ UNCHANGED forwarded
    BY <1>5 DEF Data
  <2>2. Plain /\ Follows(received)
    BY <1>5 DEF IInv, Copied, Plain
  <2>3. Write(<<received + 1, received'>>) /\ received < received'
    BY <1>0, <1>1, <2>1
  <2>4. sent' \in Seq(Spans) /\ Follows(received)'
    BY <1>0, <1>3, <2>2, <2>3, FollowsWrite
  <2> QED
    BY <1>1, <1>2, <1>3, <1>4, <1>5, <2>1, <2>4
       DEF IInv, TypeOK, Buffered, Copied, Following, Back, Judged, Stream, Streams
<1>6. CASE Streams /\ resp.kind = "sse" /\ received + k - HOLDBACK > forwarded
  <2>1. Write(<<forwarded + 1, received + k - HOLDBACK>>)
        /\ forwarded' = received + k - HOLDBACK
    BY <1>0, <1>6 DEF Data
  <2>2. Stream /\ Follows(forwarded)
    BY <1>1, <1>6 DEF IInv, Following, Stream
  <2>3. forwarded' \in Nat /\ forwarded < forwarded' /\ forwarded' <= received' - HOLDBACK
    BY <1>0, <1>1, <1>6, <2>1
  <2>4. sent' \in Seq(Spans) /\ Follows(forwarded)'
    BY <1>0, <2>1, <2>2, <2>3, FollowsWrite
  <2> QED
    BY <1>1, <1>2, <1>3, <1>4, <1>6, <2>3, <2>4
       DEF IInv, TypeOK, Buffered, Copied, Following, Back, Judged, Plain, Streams
<1>7. CASE UNCHANGED <<sent, forwarded>> /\ ~Plain
  <2>1. \A m : Follows(m) => Follows(m)'
    BY <1>7 DEF Follows, Got, Gapless
  <2>2. Back'
    BY <1>0, <1>1, <1>2, <1>7 DEF IInv, Back
  <2> QED
    BY <1>1, <1>2, <1>3, <1>4, <1>7, <2>1, <2>2
       DEF IInv, TypeOK, Buffered, Copied, Following, Judged
<1> QED
  BY <1>5, <1>6, <1>7 DEF Data, Plain

\* A buffering branch reaches the end: the body goes out, or nothing does.
LEMMA InvRelease ==
    ASSUME IInv, ~Streams, upstream # "ended", upstream' = "ended", ended' = TRUE, Report,
           \/ status' = 200 /\ Write(BodySpan) /\ (enforce => Parsed /\ Verify = "ok")
           \/ Reply502 /\ ~(Parsed /\ Verify = "ok"),
           UNCHANGED <<enforce, resp, received, forwarded, client, warned>>
    PROVE  IInv'
<1>0. resp \in Responses /\ sent = <<>> /\ BodySpan \in Spans
  BY Sizes DEF IInv, TypeOK, Buffered
<1>1. UNCHANGED <<Total, Parsed, BodySpan, Streams, Stream, Plain>>
  BY Fixed
<1>2. Got = {}
  BY <1>0, GotBytes
<1>3. /\ sent' \in Seq(Spans) /\ (sent' # <<>> => sent' = <<BodySpan>>)
      /\ status' \in {200, 502}
      /\ verdict' = "ok" => Got' = BodySpan[1]..BodySpan[2]
      /\ enforce /\ (sent' # <<>> \/ status' = 200) => verdict' = "ok"
  <2>1. verdict' = "ok" <=> Parsed /\ Verify = "ok"
    BY DEF Report, Verify
  <2>2. CASE status' = 200 /\ Write(BodySpan) /\ (enforce => Parsed /\ Verify = "ok")
    <3>1. sent' \in Seq(Spans) /\ Got' = BodySpan[1]..BodySpan[2]
      BY <1>0, <1>2, <2>2, WriteGot
    <3>2. sent' # <<>> => sent' = <<BodySpan>>
      BY <1>0, <2>2 DEF Write
    <3> QED
      BY <2>1, <2>2, <3>1, <3>2
  <2>3. CASE Reply502 /\ ~(Parsed /\ Verify = "ok")
    BY <1>0, <2>1, <2>3 DEF Reply502
  <2> QED
    BY <2>2, <2>3
<1>4. verdict' \in {"none", "unattested", "ok", "failed"}
      /\ (verdict' = "ok" => Parsed)
  BY DEF Report, Verify
<1>5. TypeOK'
  <2>1. ended' \in BOOLEAN
    BY Zenon
  <2> QED
    BY <1>1, <1>3, <1>4, <2>1 DEF IInv, TypeOK
<1>6. Buffered' /\ Copied' /\ Following' /\ Back' /\ Completed' /\ Shifted'
  BY <1>1 DEF Buffered, Copied, Following, Back, Completed, Shifted, Stream, Plain
<1>7. Released'
  BY <1>1, <1>3 DEF Released
<1>8. Judged' /\ Closed'
  BY <1>1, <1>3, <1>4 DEF Judged, Closed, Plain
<1> QED
  BY <1>5, <1>6, <1>7, <1>8 DEF IInv

\* upRes 'end' of a stream: what is left of the body is written from index forwarded on.
LEMMA InvEndStream ==
    ASSUME IInv, EndStream
    PROVE  IInv'
<1>0. resp \in Responses /\ sent \in Seq(Spans) /\ forwarded \in Nat /\ Stream
  BY DEF IInv, TypeOK, EndStream, Stream, Streams
<1>1. /\ upstream = "response" /\ upstream' = "ended" /\ ended' = TRUE
      /\ Write(<<BodySpan[1] + forwarded, BodySpan[2]>>)
      /\ warned' = (forwarded > BodyLength) /\ Report
      /\ UNCHANGED <<enforce, resp, received, forwarded, status, client>>
  BY DEF EndStream
<1>2. UNCHANGED <<Total, Stripped, Parsed, BodySpan, BodyLength, Streams, Stream, Plain,
                  Replaced>>
  BY <1>1, Fixed
<1>3. BodySpan[1] \in Nat /\ BodySpan[2] \in Nat /\ Stripped \in Nat
      /\ (Stripped = 0 => BodySpan[1] = 1)
  BY <1>0, Sizes
<1> DEFINE span == <<BodySpan[1] + forwarded, BodySpan[2]>>
<1>4. /\ span \in Spans /\ Write(span)
      /\ span[1] = BodySpan[1] + forwarded /\ span[2] = BodySpan[2]
  BY <1>0, <1>1, <1>3 DEF Spans
<1> HIDE DEF span
<1>5. Follows(forwarded)
  BY <1>0, <1>1 DEF IInv, Following
<1>6. /\ sent' \in Seq(Spans)
      /\ Got' = 1..forwarded \cup (BodySpan[1] + forwarded)..BodySpan[2]
      /\ span[1] = forwarded + 1 \/ forwarded = 0 => Gapless'
  BY <1>0, <1>4, <1>5, FollowsEnd
<1>7. ByteExact'
  <2>1. Unshifted' => span[1] = forwarded + 1 \/ forwarded = 0
    BY <1>0, <1>1, <1>2, <1>3, <1>4 DEF Unshifted
  <2> QED
    BY <1>6, <2>1 DEF ByteExact
<1>8. verdict' \in {"none", "unattested", "ok", "failed"}
      /\ (verdict' = "ok" => Parsed)
  BY <1>1 DEF Report, Verify
<1>9. TypeOK'
  <2>1. ended' \in BOOLEAN
    BY <1>1, Zenon
  <2>2. warned' \in BOOLEAN
    BY <1>1
  <2> QED
    BY <1>1, <1>2, <1>6, <1>8, <2>1, <2>2 DEF IInv, TypeOK
<1>10. Buffered' /\ Copied' /\ Following' /\ Back'
  BY <1>0, <1>1, <1>2 DEF IInv, Buffered, Copied, Following, Back, Stream, Plain
<1>11. Completed' /\ Shifted' /\ Released'
  <2>1. ~Replaced'
    BY <1>2, Sizes DEF EndStream, Replaced
  <2> QED
    BY <1>0, <1>1, <1>2, <1>6, <1>7, <2>1 DEF Completed, Shifted, Released, Stream
<1>12. Judged' /\ Closed'
  BY <1>0, <1>1, <1>2, <1>8 DEF Judged, Closed, Stream, Plain, Streams
<1> QED
  BY <1>9, <1>10, <1>11, <1>12 DEF IInv

\* A byte of the response, or one of U+FFFD, is behind every byte of the decoded text.
LEMMA DecodedByte ==
    ASSUME resp \in Responses, NEW i \in Nat
    PROVE  /\ Decoded(i) \in Nat
           /\ i <= BodySpan[2] + 2 => Decoded(i) <= BodySpan[2]
BY Sizes DEF Decoded, BodySpan, Total

\* A text written byte by byte adds its bytes.
LEMMA TextGot ==
    ASSUME sent \in Seq(Spans), NEW text \in Seq(Spans), sent' = sent \o text,
           \A i \in 1..Len(text) : text[i][1] = text[i][2]
    PROVE  sent' \in Seq(Spans) /\ Got' = Got \cup {text[i][1] : i \in 1..Len(text)}
<1> DEFINE m == Len(text)
<1>1. m \in Nat /\ \A i \in 1..m : text[i][1] \in Int /\ text[i][1] = text[i][2]
  BY DEF Spans
<1>2. /\ sent' \in Seq(Spans) /\ Len(sent) \in Nat /\ Len(sent') = Len(sent) + m
      /\ \A i \in 1..Len(sent) : sent'[i] = sent[i]
      /\ \A i \in 1..m : sent'[Len(sent) + i] = text[i]
  OBVIOUS
<1> HIDE DEF m
<1>3. \A x : x \in Got' <=> \E i \in 1..Len(sent') : x \in sent'[i][1]..sent'[i][2]
  BY DEF Got
<1>4. ASSUME NEW x \in Got
      PROVE  x \in Got'
  <2>1. PICK i \in 1..Len(sent) : x \in sent[i][1]..sent[i][2]
    BY GotBytes
  <2>2. i \in 1..Len(sent') /\ sent'[i] = sent[i]
    BY <1>1, <1>2
  <2> QED
    BY <1>3, <2>1, <2>2
<1>5. ASSUME NEW i \in 1..m
      PROVE  text[i][1] \in Got'
  <2>1. Len(sent) + i \in 1..Len(sent') /\ sent'[Len(sent) + i] = text[i]
    BY <1>1, <1>2
  <2>2. text[i][1] \in text[i][1]..text[i][2]
    BY <1>1
  <2> QED
    BY <1>3, <2>1, <2>2
<1>6. ASSUME NEW x \in Got'
      PROVE  x \in Got \/ \E i \in 1..m : x = text[i][1]
  <2>1. PICK j \in 1..Len(sent') : x \in sent'[j][1]..sent'[j][2]
    BY <1>3
  <2>2. CASE j <= Len(sent)
    <3>1. j \in 1..Len(sent) /\ sent'[j] = sent[j]
      BY <1>2, <2>2
    <3> QED
      BY <2>1, <3>1, GotBytes
  <2>3. CASE j > Len(sent)
    <3>1. j - Len(sent) \in 1..m /\ Len(sent) + (j - Len(sent)) = j
      BY <1>1, <1>2, <2>3
    <3>2. PICK i \in 1..m : Len(sent) + i = j
      BY <3>1
    <3>3. sent'[j] = text[i] /\ text[i][1] \in Int /\ text[i][1] = text[i][2]
      BY <1>1, <1>2, <3>2
    <3>4. x = text[i][1]
      BY <2>1, <3>3
    <3> QED
      BY <3>4
  <2> QED
    BY <1>2, <2>2, <2>3
<1> QED
  BY <1>2, <1>4, <1>5, <1>6 DEF m

\* upRes 'end' of a stream with a byte that is not UTF-8.
LEMMA InvEndStreamBadUtf8 ==
    ASSUME IInv, EndStreamBadUtf8
    PROVE  IInv'
<1>0. resp \in Responses /\ sent \in Seq(Spans) /\ forwarded \in Nat /\ Stream /\ Replaced
  BY DEF IInv, TypeOK, EndStreamBadUtf8, Stream, Streams, Replaced
<1> DEFINE l    == DecodedLength - forwarded
           text == DecodedRest(forwarded)
<1>1. /\ upstream = "response" /\ upstream' = "ended" /\ ended' = TRUE
      /\ sent' = sent \o text
      /\ warned' = (forwarded > DecodedLength)
      /\ Report \/ verdict' = "failed"
      /\ UNCHANGED <<enforce, resp, received, forwarded, status, client>>
  BY DEF EndStreamBadUtf8
<1>2. UNCHANGED <<Total, Parsed, BodySpan, Streams, Stream, Plain, Replaced, BadByte>>
  BY <1>1, Fixed
<1>3. BodySpan[2] \in Nat /\ l \in Int /\ l = BodySpan[2] + 2 - forwarded
  <2>1. BodySpan[2] \in Nat
    BY <1>0, Sizes
  <2>2. l = BodySpan[2] + 2 - forwarded
    BY <1>0, <2>1 DEF DecodedLength
  <2> QED
    BY <1>0, <2>1, <2>2
<1>4. \A i \in 1..l : Decoded(forwarded + i) \in Int
  BY <1>0, <1>3, DecodedByte
<1>5. Follows(forwarded)
  BY <1>0, <1>1 DEF IInv, Following
<1>6. /\ text \in Seq(Spans) /\ 1..Len(text) = 1..l
      /\ \A i \in 1..l : /\ text[i][1] = Decoded(forwarded + i)
                          /\ text[i][2] = Decoded(forwarded + i)
  <2> DEFINE m == IF l > 0 THEN l ELSE 0
  <2>0. text = [i \in 1..l |-> <<Decoded(forwarded + i), Decoded(forwarded + i)>>]
    BY DEF DecodedRest
  <2> HIDE DEF l, text
  <2>1. m \in Nat /\ 1..l = 1..m
    BY <1>3
  <2>2. text \in [1..m -> Spans] /\ DOMAIN text = 1..l
    BY <1>4, <2>0, <2>1 DEF Spans
  <2>3. \A i \in 1..l : /\ text[i][1] = Decoded(forwarded + i)
                         /\ text[i][2] = Decoded(forwarded + i)
    BY <2>0
  <2> HIDE DEF m
  <2>4. text \in Seq(Spans)
    BY <2>1, <2>2
  <2> QED
    BY <2>2, <2>3, <2>4
<1>7. sent' \in Seq(Spans) /\ Got' = Got \cup {text[i][1] : i \in 1..Len(text)}
  <2> HIDE DEF text, l
  <2> QED
    BY <1>0, <1>1, <1>6, TextGot
<1> DEFINE rest == {Decoded(i) : i \in (forwarded + 1)..(BodySpan[2] + 2)}
<1>8. {text[i][1] : i \in 1..Len(text)} = rest
  <2> HIDE DEF text
  <2>1. ASSUME NEW i \in 1..Len(text)
        PROVE  text[i][1] \in rest
    <3>1. i \in 1..l
      BY <1>6
    <3>2. forwarded + i \in (forwarded + 1)..(BodySpan[2] + 2)
      BY <1>0, <1>3, <3>1
    <3> QED
      BY <1>6, <3>1, <3>2
  <2>2. ASSUME NEW j \in (forwarded + 1)..(BodySpan[2] + 2)
        PROVE  \E i \in 1..Len(text) : text[i][1] = Decoded(j)
    <3>1. j - forwarded \in 1..l /\ forwarded + (j - forwarded) = j
      BY <1>0, <1>3
    <3> QED
      BY <1>6, <3>1
  <2> QED
    BY <2>1, <2>2
<1> HIDE DEF text, l
<1>9. Shifted'
  <2>1. rest' = rest
    BY <1>1, <1>2 DEF Decoded
  <2>2. Got' = 1..forwarded \cup rest
    BY <1>5, <1>7, <1>8 DEF Follows
  <2> QED
    BY <1>1, <2>1, <2>2 DEF Shifted
<1>10. verdict' \in {"none", "unattested", "ok", "failed"}
      /\ (verdict' = "ok" => Parsed)
  BY <1>1 DEF Report, Verify
<1>11. TypeOK'
  <2>1. ended' \in BOOLEAN
    BY <1>1, Zenon
  <2>2. warned' \in BOOLEAN
    BY <1>1
  <2> QED
    BY <1>1, <1>2, <1>7, <1>10, <2>1, <2>2 DEF IInv, TypeOK
<1>12. Buffered' /\ Copied' /\ Following' /\ Back'
  BY <1>0, <1>1, <1>2 DEF IInv, Buffered, Copied, Following, Back, Stream, Plain
<1>13. Completed' /\ Released' /\ Judged' /\ Closed'
  BY <1>0, <1>1, <1>2, <1>10
     DEF Completed, Released, Judged, Closed, Stream, Plain, Streams
<1> QED
  BY <1>9, <1>11, <1>12, <1>13 DEF IInv

\* upRes 'end' of an ordinary response.
LEMMA InvEndPlain ==
    ASSUME IInv, EndPlain
    PROVE  IInv'
<1>1. /\ upstream' = "ended" /\ ended' = TRUE /\ verdict' = "unattested" /\ Plain
      /\ UNCHANGED <<enforce, resp, received, forwarded, status, sent, client, warned>>
  BY DEF EndPlain, Plain, Streams
<1>2. UNCHANGED <<Total, Parsed, Streams, Stream, Plain>>
  BY <1>1, Fixed
<1>3. TypeOK'
  <2>1. ended' \in BOOLEAN
    BY <1>1, Zenon
  <2> QED
    BY <1>1, <1>2, <2>1 DEF IInv, TypeOK
<1>4. \A m : Follows(m) => Follows(m)'
  BY <1>1 DEF Follows, Got, Gapless
<1>5. Copied'
  BY <1>1, <1>2, <1>4 DEF IInv, Copied
<1>6. Buffered' /\ Following' /\ Back' /\ Completed' /\ Shifted'
      /\ Released'
  BY <1>1, <1>2 DEF Buffered, Following, Back, Completed, Shifted, Released, Stream, Plain
<1>7. Judged' /\ Closed'
  BY <1>1, <1>2 DEF Judged, Closed, Plain, Streams
<1> QED
  BY <1>3, <1>5, <1>6, <1>7 DEF IInv

\* Every step keeps the invariant.
LEMMA InvNext == IInv /\ [Next]_vars => IInv'
<1> SUFFICES ASSUME IInv, [Next]_vars PROVE IInv'
  OBVIOUS
<1>1. CASE UNCHANGED vars
  BY <1>1, InvSame DEF vars, IInv, TypeOK
<1>2. CASE ResponseHead \/ UpstreamFails \/ ClientCloses
  BY <1>2, InvEvents
<1>3. ASSUME NEW k \in 1..(MaxKeep + MaxBody + MaxProof), Data(k)
      PROVE  IInv'
  BY <1>3, BoundsAssumption, InvData
<1>4. CASE EndEnforced
  BY <1>4, InvRelease DEF EndEnforced, Reply502, Streams
<1>5. CASE EndBuffered
  BY <1>5, InvRelease DEF EndBuffered, Streams
<1> QED
  BY <1>1, <1>2, <1>3, <1>4, <1>5, InvEndPlain, InvEndStream,
     InvEndStreamBadUtf8 DEF Next

-----------------------------------------------------------------------------
\* The inductive invariant holds in every reachable state.
THEOREM InvCorrect == Spec => []IInv
BY InvInit, InvNext, PTL DEF Spec

\* --enforce: nothing goes to the client, and no 200, before the response was verified;
\* then the whole body does, and no byte of the proof.
THEOREM EnforceCorrect == Spec => []EnforceReleasesVerified
<1>1. IInv => EnforceReleasesVerified
  <2> SUFFICES ASSUME IInv, enforce PROVE
          /\ sent # <<>> =>
                verdict = "ok" /\ Body \subseteq Got /\ Got \subseteq 1..(Total - resp.p)
          /\ status = 200 => verdict = "ok"
    BY DEF EnforceReleasesVerified
  <2>1. sent # <<>> \/ status = 200 => verdict = "ok"
    BY DEF IInv, Judged
  <2>2. ASSUME sent # <<>>
        PROVE  Body \subseteq Got /\ Got \subseteq 1..(Total - resp.p)
    <3>1. upstream = "ended" /\ Separated /\ ~Streams
      BY <2>1, <2>2 DEF IInv, Judged, Separated, Streams
    <3>2. Got = BodySpan[1]..BodySpan[2]
      BY <2>1, <2>2, <3>1 DEF IInv, Released
    <3>3. /\ resp.keep \in Nat /\ resp.n \in Nat /\ resp.p \in Nat
          /\ Stripped \in {0, resp.keep}
          /\ BodySpan[1] = Stripped + 1 /\ BodySpan[2] = resp.keep + resp.n
      BY <3>1, Sizes DEF IInv, TypeOK
    <3> QED
      BY <3>2, <3>3 DEF Body, Total
  <2> QED
    BY <2>1, <2>2
<1> QED
  BY <1>1, InvCorrect, PTL

\* The pieces written to a client join up, wherever 'data' events and the holdback cut the
\* response, unless keepalives were stripped from a stream already under way.
THEOREM ByteExactCorrect == Spec => []ByteExact
<1>1. IInv => ByteExact
  <2> SUFFICES ASSUME IInv PROVE ByteExact
    OBVIOUS
  <2>1. CASE Plain
    BY <2>1 DEF IInv, Copied, Follows, ByteExact
  <2>2. CASE Stream
    BY <2>2 DEF IInv, Following, Completed, Follows, ByteExact, Unshifted
  <2>3. CASE ~Streams
    <3>1. sent = <<>> \/ sent = <<BodySpan>>
      BY <2>3 DEF IInv, Buffered, Released
    <3>2. Len(<<>>) = 0 /\ Len(<<BodySpan>>) = 1
      OBVIOUS
    <3>3. Len(sent) = 0 \/ Len(sent) = 1
      BY <3>1, <3>2, Zenon
    <3>4. 1..(0 - 1) = {} /\ 1..(1 - 1) = {}
      OBVIOUS
    <3>5. 1..(Len(sent) - 1) = {}
      BY <3>3, <3>4, Zenon
    <3> QED
      BY <3>5 DEF ByteExact, Gapless
  <2> QED
    BY <2>1, <2>2, <2>3 DEF Plain, Stream, Streams
<1> QED
  BY <1>1, InvCorrect, PTL

\* A holdback at least as long as the proof keeps all of a proof that parses from the
\* client, also when the stream breaks or the client leaves.
THEOREM ProofHeldBackCorrect == Spec => []ProofHeldBack
<1>1. IInv => ProofHeldBack
  <2> SUFFICES ASSUME IInv, resp.kind = "sse", Separated, HOLDBACK >= resp.p
               PROVE  Got \cap Proof = {}
    BY DEF ProofHeldBack
  <2>1. /\ resp.keep \in Nat /\ resp.n \in Nat /\ resp.p \in Nat /\ HOLDBACK \in Nat
        /\ BodySpan[1] \in Nat /\ BodySpan[2] = resp.keep + resp.n
        /\ received \in 0..Total /\ forwarded \in Nat
    BY Sizes, BoundsAssumption DEF IInv, TypeOK
  <2>2. \A x \in Got : x \in Int /\ x <= resp.keep + resp.n
    <3>1. CASE ~Streams
      <4>1. sent = <<>> \/ sent = <<BodySpan>>
        BY <3>1 DEF IInv, Buffered, Released
      <4>2. Got \subseteq BodySpan[1]..BodySpan[2]
        BY <4>1, GotBytes
      <4> QED
        BY <2>1, <4>2
    <3>2. CASE Streams
      <4>1. Stream
        BY <3>2 DEF Stream
      <4>2. forwarded <= resp.keep + resp.n
        BY <2>1, <4>1 DEF IInv, Back, Total
      <4>3. ASSUME ~(Replaced /\ upstream = "ended")
            PROVE  Got \subseteq 1..forwarded \cup (BodySpan[1] + forwarded)..BodySpan[2]
        BY <4>1, <4>3 DEF IInv, Following, Completed, Follows
      <4>4. ASSUME Replaced, upstream = "ended"
            PROVE  \A x \in Got : x \in Nat /\ x <= resp.keep + resp.n
        <5>1. Got = 1..forwarded
                    \cup {Decoded(i) : i \in (forwarded + 1)..(BodySpan[2] + 2)}
          BY <4>1, <4>4 DEF IInv, Shifted
        <5>2. \A i \in (forwarded + 1)..(BodySpan[2] + 2) :
                  Decoded(i) \in Nat /\ Decoded(i) <= BodySpan[2]
          <6>1. resp \in Responses /\ BodySpan[2] \in Nat
            BY <2>1 DEF IInv, TypeOK
          <6>2. \A i \in (forwarded + 1)..(BodySpan[2] + 2) :
                    i \in Nat /\ i <= BodySpan[2] + 2
            BY <2>1, <6>1
          <6> QED
            BY <6>1, <6>2, DecodedByte
        <5> QED
          BY <2>1, <4>2, <5>1, <5>2
      <4> QED
        BY <2>1, <4>2, <4>3, <4>4
    <3> QED
      BY <3>1, <3>2
  <2> QED
    BY <2>1, <2>2 DEF Proof
<1> QED
  BY <1>1, InvCorrect, PTL

\* A verdict "ok" is about what the client has: the whole signed body, and beyond it only
\* keepalives or what a warning was given for, unless keepalives were stripped from a stream
\* already under way; of a stream that is not UTF-8 only the byte that is not can be missing.
THEOREM VerdictCorrect == Spec => []VerdictIsAboutDeliveredUnshifted
<1>0. ASSUME IInv, Replaced, verdict = "ok"
      PROVE  Body \ {BadByte} \subseteq Got
  <2>1. upstream = "ended" /\ Separated /\ Stream /\ resp \in Responses
    <3>1. resp \in Responses /\ resp.bad > 0
      BY <1>0 DEF IInv, TypeOK, Replaced
    <3>2. resp.kind = "sse"
      BY <3>1 DEF Responses
    <3> QED
      BY <1>0, <3>1, <3>2 DEF IInv, Judged, Separated, Stream, Streams, Replaced
  <2>2. /\ resp.keep \in Nat /\ resp.n \in Nat /\ forwarded \in Nat /\ BadByte \in Nat
        /\ BodySpan[2] = resp.keep + resp.n
    BY <1>0, <2>1, Sizes DEF IInv, TypeOK
  <2>3. Got = 1..forwarded
              \cup {Decoded(i) : i \in (forwarded + 1)..(BodySpan[2] + 2)}
    BY <1>0, <2>1 DEF IInv, Shifted
  <2>4. ASSUME NEW x \in Body, x # BadByte
        PROVE  x \in Got
    <3>1. x \in Nat /\ x > 0 /\ x <= BodySpan[2]
      BY <2>2 DEF Body
    <3>2. CASE x <= forwarded
      BY <2>2, <2>3, <3>1, <3>2
    <3>3. CASE x > forwarded /\ x < BadByte
      <4>1. x \in (forwarded + 1)..(BodySpan[2] + 2) /\ Decoded(x) = x
        BY <2>2, <3>1, <3>3 DEF Decoded
      <4> QED
        BY <2>3, <4>1
    <3>4. CASE x > forwarded /\ x > BadByte
      <4>1. x + 2 \in (forwarded + 1)..(BodySpan[2] + 2) /\ Decoded(x + 2) = x
        BY <2>2, <3>1, <3>4 DEF Decoded
      <4> QED
        BY <2>3, <4>1
    <3> QED
      BY <2>2, <2>4, <3>1, <3>2, <3>3, <3>4
  <2> QED
    BY <2>4
<1>1. IInv => VerdictIsAboutDeliveredUnshifted
  <2> SUFFICES ASSUME IInv, Unshifted, verdict = "ok"
               PROVE  /\ Body \subseteq Got
                      /\ Got \ Body # {} => warned \/ Got \ Body \subseteq 1..resp.keep
    BY <1>0 DEF VerdictIsAboutDeliveredUnshifted, VerdictIsAboutDelivered
  <2>1. upstream = "ended" /\ Separated /\ ~Plain
    BY DEF IInv, Judged, Separated
  <2>2. /\ resp.keep \in Nat /\ resp.n \in Nat /\ forwarded \in Nat
        /\ Stripped \in {0, resp.keep}
        /\ BodySpan[1] = Stripped + 1 /\ BodySpan[2] = resp.keep + resp.n
        /\ BodyLength = resp.keep + resp.n - Stripped
    <3>1. resp \in Responses /\ forwarded \in Nat
      BY DEF IInv, TypeOK
    <3>2. /\ resp.keep \in Nat /\ resp.n \in Nat /\ Stripped \in {0, resp.keep}
          /\ BodySpan[1] = Stripped + 1 /\ BodySpan[2] = resp.keep + resp.n
          /\ BodyLength = BodySpan[2] - BodySpan[1] + 1
      BY <2>1, <3>1, Sizes
    <3>3. Stripped \in Int /\ BodyLength = resp.keep + resp.n - (Stripped + 1) + 1
      BY <3>2
    <3>4. \A a, b, c \in Int : a + b - (c + 1) + 1 = a + b - c
      OBVIOUS
    <3> QED
      BY <3>1, <3>2, <3>3, <3>4
  <2>3. CASE ~Streams
    <3>1. Got = BodySpan[1]..BodySpan[2]
      BY <2>1, <2>3 DEF IInv, Released
    <3>2. Got = (Stripped + 1)..(resp.keep + resp.n)
      BY <2>2, <3>1
    <3>3. ASSUME NEW x \in Body PROVE x \in Got
      BY <2>2, <3>2 DEF Body
    <3>4. ASSUME NEW x \in Got, x \notin Body PROVE x \in 1..resp.keep
      BY <2>2, <3>2, <3>4 DEF Body
    <3> QED
      BY <3>3, <3>4
  <2>4. CASE Stream
    <3>1. /\ Got = 1..forwarded \cup (BodySpan[1] + forwarded)..BodySpan[2]
          /\ warned <=> forwarded > BodyLength
      BY <2>1, <2>4 DEF IInv, Completed, Unshifted
    <3>2. Body \subseteq Got
      BY <2>2, <3>1 DEF Body, Unshifted
    <3>3. ASSUME ~warned
          PROVE  Got \ Body \subseteq 1..resp.keep
      <4>1. forwarded <= BodyLength
        BY <2>2, <3>1, <3>3
      <4> QED
        BY <2>2, <3>1, <4>1 DEF Body
    <3> QED
      BY <3>2, <3>3
  <2> QED
    BY <2>1, <2>3, <2>4 DEF Stream, Plain, Streams
<1> QED
  BY <1>1, InvCorrect, PTL
===============================================================================
