------------------------------- MODULE Exchange -------------------------------
(***************************************************************************)
(* One exchange of the enclave (src/enclave/src/main.rs, handle() and what *)
(* the worker does with its result): read the request frames, fetch the    *)
(* upstream response through the egress, stream it to the relay while      *)
(* hashing it, and close with a trailer that carries the proof or says why *)
(* there is none.                                                          *)
(*                                                                         *)
(* Bytes of the upstream body are numbered 1, 2, 3 ...; a piece <<lo, hi>> *)
(* is what one call of the sink gets (empty when hi < lo).  The upstream   *)
(* answers with one response; the egress, which is not trusted, may end or *)
(* break the connection at any byte.                                       *)
(***************************************************************************)
EXTENDS Integers, Sequences

CONSTANTS
    Framings,   \* how the upstream may delimit its body
    Requests,   \* what the relay may send, see RequestKinds
    MaxBody,    \* longest body of an upstream response (bounds the model)
    MaxExcess,  \* bytes the upstream may send after its declared content-length
    MaxPieces,  \* most DATA frames of an h2 response (bounds the empty ones)
    MaxLine,    \* reads of an unfinished size line told apart (it may take more)
    OddSizes,   \* chunk sizes an upstream may declare without the bytes to match
    MAX_RESP,   \* the response cap
    USIZE       \* 2^w for the width w of usize

RequestKinds ==
    {"good", "head_unreadable", "not_a_head", "bad_json", "body_unreadable",
     "not_a_body", "bad_nonce", "crlf_line", "crlf_headers", "crlf_token",
     "crlf_ordered"}

ASSUME FramingsAssumption == Framings \subseteq {"chunked", "length", "close", "h2"}
ASSUME RequestsAssumption == Requests \subseteq RequestKinds
ASSUME SizesAssumption ==
    /\ MaxBody \in Nat /\ MaxExcess \in Nat /\ MaxPieces \in Nat
    /\ MaxLine \in Nat /\ MaxLine > 1
    /\ MAX_RESP \in Nat /\ USIZE \in Nat
    /\ MaxBody + MAX_RESP < USIZE
    /\ OddSizes \subseteq 1..(USIZE - 1)

VARIABLES
    pc,           \* where handle() is
    req,          \* the request the relay sent
    up,           \* the upstream's response: framing, length n, ctype, odd sizes
    backend,      \* ctx.backend
    pos,          \* body bytes consumed from the upstream
    total, need,  \* locals of stream_chunked and stream_plain
    line,         \* reads since the last CRLF, while a size line is looked for
    hashed,       \* the pieces fed to the hasher
    out,          \* frames written to the control stream
    stmt,         \* the pieces under the signed response hash
    resp_bytes_total, nsm_calls

given == <<req, up, backend>>
vars  == <<pc, given, pos, total, need, line, hashed, out, stmt,
           resp_bytes_total, nsm_calls>>

\* handle() returned Ok, Err (and the worker wrote its ERR frame), or panicked.
Ends  == {"ok", "failed", "panicked"}
Steps == {"head", "body", "validate", "connect", "tls", "send", "resp_head",
          "stream", "chunk", "plain", "h2", "join", "finish", "trailer", "err"}
         \cup Ends
\* "lost": nothing of the frame left; "torn": part of it did.
Cuts  == {"whole", "lost", "torn"}
Kinds == {"RESP_HEAD", "RESP_CHUNK", "proof", "proof_unavailable", "ERR"}

NoPiece == <<1, 0>>
Frame(kind, piece, cut) == [kind |-> kind, piece |-> piece, cut |-> cut]

\* odd: the upstream declares chunk sizes without the bytes to match.
Upstreams == [framing : Framings, n : 0..MaxBody, ctype : {"clean", "crlf"},
              odd : BOOLEAN]

Min2(a, b) == IF a < b THEN a ELSE b

-----------------------------------------------------------------------------
Init ==
    /\ pc = "head"
    /\ req \in Requests
    /\ up \in Upstreams
    /\ up.framing = "h2" => up.ctype = "clean"   \* an http::HeaderValue has no CR or LF
    /\ up.odd => up.framing = "chunked" /\ OddSizes # {}
    /\ backend \in {"local", "aliyun"}
    /\ pos = 0 /\ total = 0 /\ need = 0 /\ line = 0
    /\ hashed = <<>> /\ out = <<>> /\ stmt = <<>>
    /\ resp_bytes_total = 0 /\ nsm_calls = 0

\* The ? operator: leave handle() with Err.
Fail == pc' = "err"

\* handle() goes from one step to the next and touches nothing else.
Step(from, to) ==
    /\ pc = from /\ pc' = to
    /\ UNCHANGED <<given, line, pos, total, need, hashed, out, stmt,
                   resp_bytes_total, nsm_calls>>

\* write_frame: the whole frame, or an error after part of it (or nothing)
\* reached the stream.
WriteFrame(kind, piece, to) ==
    \/ /\ out' = Append(out, Frame(kind, piece, "whole"))
       /\ pc' = to
    \/ \E cut \in {"lost", "torn"} :
          /\ out' = Append(out, Frame(kind, piece, cut))
          /\ Fail

-----------------------------------------------------------------------------
(* The request.                                                             *)

\* read_frame(MAX_REQ_HEAD), its type, its JSON
ReadReqHead ==
    \/ /\ req \notin {"head_unreadable", "not_a_head", "bad_json"}
       /\ Step("head", "body")
    \/ /\ req \in {"head_unreadable", "not_a_head", "bad_json"}
       /\ Step("head", "err")

\* read_frame(MAX_REQ_FRAME), its type
ReadReqBody ==
    \/ /\ req \notin {"body_unreadable", "not_a_body"}
       /\ Step("body", "validate")
    \/ /\ req \in {"body_unreadable", "not_a_body"}
       /\ Step("body", "err")

\* nonce base64; no_crlf on host, method, path, headers and token, not on
\* headers_ordered
Validate ==
    \/ /\ req \in {"good", "crlf_ordered"}
       /\ Step("validate", "connect")
    \/ /\ req \notin {"good", "crlf_ordered"}
       /\ Step("validate", "err")

\* connect_egress: every candidate CID (or the qproxy) refused, or connected
ConnectEgress ==
    Step("connect", "tls") \/ Step("connect", "err")

\* The TLS stack of the profile; the h2 stack also insists on ALPN h2.
Handshake ==
    Step("tls", "send") \/ Step("tls", "err")

\* h1 writes the request head verbatim; the h2 builder refuses a header value
\* with CR or LF.
SendRequest ==
    \/ /\ ~(up.framing = "h2" /\ req = "crlf_ordered")
       /\ Step("send", "resp_head")
    \/ Step("send", "err")

-----------------------------------------------------------------------------
(* The response.                                                            *)

\* Mutant: reconnect for ever instead of failing.
NoResponseHeadRetries == Step("resp_head", "connect")

\* read_until_headers and parse_headers (or the h2 response future) fail ...
NoResponseHead == Step("resp_head", "err")

\* ... or RESP_HEAD is written.
WriteRespHead ==
    /\ pc = "resp_head"
    /\ WriteFrame("RESP_HEAD", NoPiece,
           CASE up.framing = "chunked" -> "chunk"
             [] up.framing = "h2"      -> "h2"
             [] OTHER                  -> "stream")
    /\ UNCHANGED <<given, line, pos, total, need, hashed, stmt, resp_bytes_total,
                   nsm_calls>>

\* Mutant: the error of write_frame is dropped.
SinkIgnoresError(k, to) ==
    LET piece == <<pos + 1, pos + k>>
    IN  /\ hashed' = Append(hashed, piece)
        /\ pos' = pos + k
        /\ \E cut \in Cuts : out' = Append(out, Frame("RESP_CHUNK", piece, cut))
        /\ pc' = to

\* Mutant: the bytes that came with the head are forwarded but not hashed.
SinkSkipsFirst(k, to) ==
    LET piece == <<pos + 1, pos + k>>
    IN  /\ hashed' = IF pos = 0 THEN hashed ELSE Append(hashed, piece)
        /\ pos' = pos + k
        /\ WriteFrame("RESP_CHUNK", piece, to)

\* The sink: hash first, then write RESP_CHUNK.
Sink(k, to) ==
    LET piece == <<pos + 1, pos + k>>
    IN  /\ hashed' = Append(hashed, piece)
        /\ pos' = pos + k
        /\ WriteFrame("RESP_CHUNK", piece, to)

\* A read that ends the exchange: closed, reset or timed out.
ReadFails(from) == Step(from, "err")

\* stream_chunked: a read that brought no CRLF to end the size line.  Nothing
\* limits the loop; past MaxLine reads the count goes round, so that each of
\* them stays a step.
ReadSizeLine ==
    /\ pc = "chunk" /\ need = 0
    /\ line' = IF line < MaxLine THEN line + 1 ELSE 1
    /\ UNCHANGED <<pc, given, pos, total, need, hashed, out, stmt,
                   resp_bytes_total, nsm_calls>>

\* The size line is there.  The upstream announces bytes it still has, or an odd
\* size; it announces 0 once it has sent everything.
ChunkSize(s) ==
    /\ pc = "chunk" /\ need = 0
    /\ s \in 1..(up.n - pos) \cup (IF up.odd THEN OddSizes ELSE {})
    /\ total' = (total + s) % USIZE
    /\ line' = 0
    /\ \/ total' > MAX_RESP /\ Fail /\ UNCHANGED need
       \/ total' <= MAX_RESP /\ need' = s /\ UNCHANGED pc
    /\ UNCHANGED <<given, pos, hashed, out, stmt, resp_bytes_total, nsm_calls>>

LastChunk ==
    /\ need = 0 /\ pos = up.n
    /\ Step("chunk", "finish")

\* while buf.len() < size + 2: the chunk and its CRLF are buffered.  When
\* size + 2 wraps the loop ends at once, with whatever the buffer holds.
ChunkBody ==
    LET want == (need + 2) % USIZE
    IN  /\ pc = "chunk" /\ need > 0
        /\ \/ /\ need <= up.n - pos /\ want = need + 2
              /\ Sink(need, "chunk")
           \/ /\ want < need
              /\ \E k \in want..(up.n - pos) : Sink(Min2(need, k), "chunk")
        /\ need' = 0
        /\ UNCHANGED <<given, line, total, stmt, resp_bytes_total, nsm_calls>>

\* Mutant: the end of the stream inside a chunk is taken for the last chunk.
ChunkCutShortEnds ==
    /\ pc = "chunk" /\ need > 0
    /\ \E k \in 0..(up.n - pos) : Sink(Min2(need, k), "finish")
    /\ need' = 0
    /\ UNCHANGED <<given, line, total, stmt, resp_bytes_total, nsm_calls>>

\* read returned 0 inside a chunk: the bytes at hand are still sunk; the next
\* size line then meets the end of the stream.
ChunkCutShort ==
    /\ pc = "chunk" /\ need > 0
    /\ \E k \in 0..(up.n - pos) : Sink(Min2(need, k), "err")
    /\ need' = 0
    /\ UNCHANGED <<given, line, total, stmt, resp_bytes_total, nsm_calls>>

\* Mutant: the bytes that came with the head are counted and not forwarded.
LengthInitialDrops(k) ==
    /\ pc = "stream" /\ up.framing = "length" /\ up.n <= MAX_RESP
    /\ pc' = "plain"
    /\ total' = Min2(k, up.n) /\ pos' = Min2(k, up.n)
    /\ UNCHANGED <<given, line, need, hashed, out, stmt, resp_bytes_total, nsm_calls>>

\* stream_plain, with a content-length: the declared length is checked first,
\* and of the k bytes that came with the head none beyond it is forwarded.
LengthInitial(k) ==
    LET first == Min2(k, up.n)
    IN  /\ pc = "stream" /\ up.framing = "length"
        /\ k \in 0..(up.n + MaxExcess)
        /\ \/ up.n > MAX_RESP /\ Fail /\ UNCHANGED <<pos, total, hashed, out>>
           \/ /\ up.n <= MAX_RESP /\ first = 0
              /\ pc' = "plain"
              /\ UNCHANGED <<pos, total, hashed, out>>
           \/ /\ up.n <= MAX_RESP /\ first > 0
              /\ total' = total + first
              /\ Sink(first, "plain")
        /\ UNCHANGED <<given, line, need, stmt, resp_bytes_total, nsm_calls>>

\* stream_plain, without one.
CloseInitial(k) ==
    /\ pc = "stream" /\ up.framing = "close"
    /\ k \in 0..up.n
    /\ total' = total + k
    /\ \/ k = 0 /\ pc' = "plain" /\ UNCHANGED <<pos, hashed, out>>
       \/ k > MAX_RESP /\ Fail /\ UNCHANGED <<pos, hashed, out>>
       \/ k \in 1..MAX_RESP /\ Sink(k, "plain")
    /\ UNCHANGED <<given, line, need, stmt, resp_bytes_total, nsm_calls>>

\* One read of stream_plain that returned bytes.
LengthRead(k) ==
    /\ pc = "plain" /\ up.framing = "length"
    /\ k \in 1..(up.n - total)
    /\ total' = total + k
    /\ Sink(k, "plain")
    /\ UNCHANGED <<given, line, need, stmt, resp_bytes_total, nsm_calls>>

\* Mutant: the cap is tested before the bytes are counted.
CloseReadLateCap(k) ==
    /\ pc = "plain" /\ up.framing = "close"
    /\ k \in 1..(up.n - pos)
    /\ total' = total + k
    /\ \/ total > MAX_RESP /\ Fail /\ UNCHANGED <<pos, hashed, out>>
       \/ total <= MAX_RESP /\ Sink(k, "plain")
    /\ UNCHANGED <<given, line, need, stmt, resp_bytes_total, nsm_calls>>

CloseRead(k) ==
    /\ pc = "plain" /\ up.framing = "close"
    /\ k \in 1..(up.n - pos)
    /\ total' = total + k
    /\ \/ total' > MAX_RESP /\ Fail /\ UNCHANGED <<pos, hashed, out>>
       \/ total' <= MAX_RESP /\ Sink(k, "plain")
    /\ UNCHANGED <<given, line, need, stmt, resp_bytes_total, nsm_calls>>

\* Mutant: the end of the stream ends a content-length body as well.
PlainEofIsEnd == total < up.n /\ Step("plain", "finish")

\* A read of stream_plain that failed; with a content-length the end of the
\* stream is a failure too, and nothing is read once everything has come.
PlainReadFails ==
    /\ up.framing = "length" => total < up.n
    /\ ReadFails("plain")

\* while total < cl: everything declared was forwarded.
LengthReached ==
    /\ up.framing = "length" /\ total = up.n
    /\ Step("plain", "finish")

\* Without a content-length Ok(0), UnexpectedEof and ConnectionAborted all end
\* the body, wherever they come.
CloseEof ==
    /\ up.framing = "close"
    /\ Step("plain", "finish")

\* h2_client::execute: the size is checked before the sink runs.
H2Data(k) ==
    /\ pc = "h2"
    /\ k \in 0..(up.n - pos) /\ Len(hashed) < MaxPieces
    /\ total' = total + k
    /\ \/ total' > MAX_RESP /\ Fail /\ UNCHANGED <<pos, hashed, out>>
       \/ total' <= MAX_RESP /\ Sink(k, "h2")
    /\ UNCHANGED <<given, line, need, stmt, resp_bytes_total, nsm_calls>>

\* Mutant: a reset of the stream is taken for its end.
H2EndOnReset == Step("h2", "join")

\* END_STREAM, then driver.join(): an error of the connection driver fails the
\* exchange although the whole body was forwarded.
H2End  == pos = up.n /\ Step("h2", "join")
H2Join == Step("join", "finish") \/ Step("join", "err")

-----------------------------------------------------------------------------
(* The trailer.                                                             *)

\* Finalise the hash, count the bytes.
Finish ==
    /\ pc = "finish" /\ pc' = "trailer"
    /\ resp_bytes_total' = resp_bytes_total + pos
    /\ UNCHANGED <<given, line, pos, total, need, hashed, out, stmt, nsm_calls>>

\* Mutant: attest() failed and handle() returns Ok without a trailer.
ProofUnavailableSilent == Step("trailer", "ok")

\* write_proof_unavailable_trailer: a content type with CR or LF, or no
\* evidence (attest() failed, the helper did not answer with a proof).
ProofUnavailable ==
    /\ pc = "trailer"
    /\ WriteFrame("proof_unavailable", NoPiece, "ok")
    /\ UNCHANGED <<given, line, pos, total, need, hashed, stmt, resp_bytes_total,
                   nsm_calls>>

\* write_attested_trailer: a statement is not made over a content type with
\* CR or LF.
ContentTypeOk == up.ctype = "clean"

\* write_local_attested_trailer, write_aliyun_vtpm_trailer: statement,
\* signature and evidence, then the frame.
WriteProof ==
    /\ pc = "trailer"
    /\ ContentTypeOk
    /\ stmt' = hashed
    /\ nsm_calls' = IF backend = "local" THEN nsm_calls + 1 ELSE nsm_calls
    /\ WriteFrame("proof", NoPiece, "ok")
    /\ UNCHANGED <<given, line, pos, total, need, hashed, resp_bytes_total>>

\* The worker, on Err: one best-effort ERR frame.
WriteErr ==
    /\ pc = "err" /\ pc' = "failed"
    /\ \E cut \in Cuts : out' = Append(out, Frame("ERR", NoPiece, cut))
    /\ UNCHANGED <<given, line, pos, total, need, hashed, stmt, resp_bytes_total,
                   nsm_calls>>

\* A panic anywhere in handle() is caught; no frame is written.
Panic ==
    /\ pc \notin Ends \cup {"err"}
    /\ Step(pc, "panicked")

-----------------------------------------------------------------------------
Request == ReadReqHead \/ ReadReqBody \/ Validate
Egress  == ConnectEgress \/ Handshake \/ SendRequest
           \/ NoResponseHead \/ WriteRespHead
Chunked == \/ \E s \in 1..MaxBody \cup OddSizes : ChunkSize(s)
           \/ ReadSizeLine \/ LastChunk \/ ChunkBody \/ ChunkCutShort
           \/ ReadFails("chunk")
Plain   == \/ \E k \in 0..(MaxBody + MaxExcess) :
                  \/ LengthInitial(k) \/ CloseInitial(k)
                  \/ LengthRead(k) \/ CloseRead(k)
           \/ LengthReached \/ CloseEof \/ PlainReadFails
H2      == \/ \E k \in 0..MaxBody : H2Data(k)
           \/ H2End \/ H2Join \/ ReadFails("h2")
Trailer == Finish \/ ProofUnavailable \/ WriteProof \/ WriteErr

Next == Request \/ Egress \/ Chunked \/ Plain \/ H2 \/ Trailer \/ Panic

Spec == Init /\ [][Next]_vars

\* Every read and write of the HTTP/1.1 path has a timeout, so handle() always
\* takes its next step, which may be one more read of a loop.  The h2 path turns its timeouts into Pending and waits
\* for the peer.
FairSpec == Spec /\ WF_vars(up.framing # "h2" /\ Next)

-----------------------------------------------------------------------------
(* Properties                                                               *)

Pieces   == Int \X Int
Trailers == {"proof", "proof_unavailable"}

TypeOK ==
    /\ pc \in Steps
    /\ req \in Requests
    /\ up \in Upstreams
    /\ backend \in {"local", "aliyun"}
    /\ pos \in Nat /\ total \in Nat /\ need \in Nat /\ line \in Nat
    /\ hashed \in Seq(Pieces) /\ stmt \in Seq(Pieces)
    /\ out \in Seq([kind : Kinds, piece : Pieces, cut : Cuts])
    /\ resp_bytes_total \in Nat /\ nsm_calls \in Nat

\* What the relay reads of the control stream is RESP_HEAD, RESP_CHUNKs and
\* then a trailer or ERR: the head is first, nothing follows a whole trailer
\* or an ERR, and after a frame that broke only the worker's ERR is tried.
WellFramed ==
    \A i \in 1..Len(out) :
        /\ out[i].kind = "RESP_HEAD" => i = 1
        /\ out[i].kind \notin {"RESP_HEAD", "ERR"} => out[1].kind = "RESP_HEAD"
        /\ i < Len(out) =>
              /\ out[i].kind # "ERR"
              /\ out[i].cut # "whole" \/ out[i].kind \in Trailers =>
                    out[i].cut # "whole" /\ out[i + 1].kind = "ERR"

\* handle() returns Ok, and the worker counts the exchange completed, exactly
\* when a whole trailer has reached the relay; a panic or an Err, wherever it
\* strikes, leaves the relay without one.
CompletedIffTrailer ==
    (pc = "ok") <=>
        \E i \in 1..Len(out) : out[i].kind \in Trailers /\ out[i].cut = "whole"

\* A proof that reached the relay.
Attested == Len(out) > 0 /\ out[Len(out)] = Frame("proof", NoPiece, "whole")

\* The response hash under the signature is over exactly the bytes the relay
\* was sent: the same pieces in the same order, each of them whole.
SignedIsForwarded ==
    Attested =>
        /\ Len(out) = Len(stmt) + 2
        /\ out[1] = Frame("RESP_HEAD", NoPiece, "whole")
        /\ \A i \in 1..Len(stmt) :
              out[i + 1] = Frame("RESP_CHUNK", stmt[i], "whole")

\* The pieces forwarded are consecutive pieces of the upstream body, from its
\* first byte on: none is skipped, sent twice or swapped on the way from the
\* first bytes, which came with the head, to the reads after them.
ForwardedInOrder ==
    \A i \in 1..Len(hashed) :
        hashed[i][1] = IF i = 1 THEN 1 ELSE hashed[i - 1][2] + 1

\* A body whose end the upstream marks (content-length, chunked, h2) is
\* attested only whole: an egress that cuts it makes the exchange fail.
DelimitedComplete ==
    Attested /\ up.framing # "close" => pos = up.n

\* No more than MAX_RESP bytes of a response are forwarded, whatever sizes the
\* upstream declares.
BodyWithinCap == pos <= MAX_RESP

\* At the cap and one above it no framing lets more than MAX_RESP bytes through,
\* when the sizes an upstream declares are those of the chunks it sends.
TrueSizesWithinCap == ~up.odd => BodyWithinCap

\* The upstream never ends a size line: stream_chunked goes on reading.
EndlessSizeLine == <>[](pc = "chunk" /\ line > 0)

\* An HTTP/1.1 exchange whose upstream declares the sizes it sends comes to an
\* end, unless one chunk-size line never does: that loop has no limit of its own,
\* everything else an upstream can drag out is stopped by a cap or a timeout.
\* With odd sizes the count wraps and the cap stops nothing, see BodyWithinCap.
Terminates ==
    <>(pc \in Ends) \/ EndlessSizeLine \/ up.framing = "h2" \/ up.odd

\* The inductive invariant behind SignedIsForwarded, ForwardedInOrder and
\* DelimitedComplete: nothing is written before the response head; while the
\* body streams, the frames written are the head and the hashed pieces, whole,
\* and the last piece ends where the upstream was read to; a delimited body
\* that has ended has been read to its end; there is no proof before Ok.
Before    == {"head", "body", "validate", "connect", "tls", "send", "resp_head"}
Streaming == {"stream", "chunk", "plain", "h2", "join", "finish", "trailer"}
Over      == {"join", "finish", "trailer", "ok"}

\* The last byte of a sequence of pieces.
Sunk(s)  == IF s = <<>> THEN 0 ELSE s[Len(s)][2]

Forwarded(s) ==
    /\ out[1] = Frame("RESP_HEAD", NoPiece, "whole")
    /\ \A i \in 1..Len(s) : out[i + 1] = Frame("RESP_CHUNK", s[i], "whole")

NothingYet == pc \in Before => out = <<>> /\ hashed = <<>> /\ total = 0
InStep     == pc \in Streaming => Len(out) = Len(hashed) + 1 /\ Forwarded(hashed)
ReadTo     == Sunk(hashed) = pos
LengthRun  == up.framing = "length" /\ pc \in {"stream", "plain"} => total = pos
EndReached == up.framing # "close" /\ pc \in Over => pos = up.n
NoProofYet == Attested => pc = "ok"

Signing ==
    /\ TypeOK
    /\ NothingYet
    /\ InStep
    /\ ReadTo
    /\ LengthRun
    /\ EndReached
    /\ NoProofYet
    /\ ForwardedInOrder
    /\ SignedIsForwarded

\* Behind WellFramed and CompletedIffTrailer: ERR is written last and once.
NoErrYet == pc # "failed" => \A i \in 1..Len(out) : out[i].kind # "ERR"
Framed   == WellFramed /\ CompletedIffTrailer /\ NoErrYet

\* Behind TrueSizesWithinCap: no more is forwarded than was counted, and what was
\* counted passed the cap, each reader in its own way.  A truthful chunked upstream
\* never wraps the count.
NotBegun     == /\ pc \in Before => need = 0
                /\ pc \in Before \cup {"stream"} => pos = 0
PlainCounted == pc \in {"stream", "plain", "h2"} => total = pos
ChunkCounted == pc = "chunk" /\ ~up.odd => pos + need <= total /\ total <= MAX_RESP
LengthFits   == pc = "plain" /\ up.framing = "length" => up.n <= MAX_RESP
WithinBody   == pos <= up.n
Capped       == /\ NotBegun /\ PlainCounted /\ ChunkCounted /\ LengthFits
                /\ WithinBody /\ TrueSizesWithinCap

\* The bytes in the whole RESP_CHUNK frames, and those under a signature.
Delivered == UNION {out[i].piece[1]..out[i].piece[2] :
                       i \in {j \in 1..Len(out) : /\ out[j].kind = "RESP_CHUNK"
                                                  /\ out[j].cut = "whole"}}
Signed    == UNION {stmt[i][1]..stmt[i][2] : i \in 1..Len(stmt)}

\* While the body streams the relay has a prefix of it, up to where it was read.
PrefixDelivered == pc \in Before \cup Streaming => Delivered = 1..pos

IInv == Signing /\ Framed /\ Capped /\ PrefixDelivered

\* The proof is over the whole response, whatever its framing.
AttestedIsComplete == Attested => pos = up.n

\* How the exchange ended, and what a proof the relay has vouches for.
Verdict == CASE Attested               -> "attested"
             [] pc = "ok" /\ ~Attested -> "disclaimed"
             [] pc \in Ends \ {"ok"}   -> "broken"
             [] OTHER                  -> "open"
Vouched == IF Attested THEN Signed ELSE {}

\* The exchange implements what a verifier may conclude from a proof.
Promise == INSTANCE Observation WITH
    length    <- up.n,
    marked    <- up.framing # "close",
    delivered <- Delivered,
    verdict   <- Verdict,
    signed    <- Vouched

ImplementsObservation == Promise!Spec
=============================================================================
