------------------------------ MODULE VerifyProxy ------------------------------
(***************************************************************************)
(* The local verifying proxy (src/verifier/tee-verify-proxy.ts): one       *)
(* exchange of createVerifyingProxy, with the callbacks of its two sockets *)
(* in any order.  Node runs a callback to its end, so each is one action.  *)
(*                                                                         *)
(* The relay's response is a run of bytes 1..Total: keepalive comments the *)
(* relay put in front, the upstream's body, and the proof.  A span         *)
(* <<lo, hi>> of it is what one clientRes.write or end gets.               *)
(***************************************************************************)
EXTENDS Integers, Sequences

CONSTANTS
    Kinds,      \* content types a response may have, see AllKinds
    MaxKeep,    \* bytes of transport keepalive comments in front (bounds the model)
    MaxBody,    \* bytes of the upstream's body (bounds the model)
    MaxProof,   \* bytes of the proof's carrier (bounds the model)
    MaxBad,     \* where in a streamed body a byte that is not UTF-8 may be
    HOLDBACK    \* opts.holdback

AllKinds == {"sse", "multipart", "json", "plain"}

ASSUME KindsAssumption == Kinds \subseteq AllKinds
ASSUME BoundsAssumption ==
    /\ MaxKeep \in Nat /\ MaxBody \in Nat /\ MaxProof \in Nat \ {0}
    /\ MaxBad \in Nat /\ HOLDBACK \in Nat

VARIABLES
    enforce,     \* opts.enforce
    resp,        \* the relay's response: kind, keep, n, bad, proof, p
    upstream,    \* "request", "response", "ended", "failed", "destroyed"
    received,    \* bytes of the response that 'data' has brought
    forwarded,   \* the local of the streaming branch
    status,      \* status line sent to the client: 0 (none), 200, 502
    sent,        \* spans of the response written to the client
    ended,       \* clientRes.end() was called
    client,      \* "connected", "gone"
    verdict,     \* what onVerdict reported: "none", "unattested", "ok", "failed"
    warned       \* onWarning was called

vars == <<enforce, resp, upstream, received, forwarded, status, sent, ended,
          client, verdict, warned>>

\* "none": no proof; "unavailable": tee.proof_unavailable in place of one;
\* "garbled": a carrier no parser accepts.  The others are parsed: "good" is
\* signed over exactly the body; "fields" has another body hash and field claims
\* that match; "untrusted" has the body's hash and fails another check; "bad"
\* has neither.
Proofs == {"none", "unavailable", "garbled", "good", "fields", "untrusted", "bad"}

\* bad: the body's byte that is not UTF-8, 0 when all of them are.
Responses ==
    {r \in [kind : Kinds, keep : 0..MaxKeep, n : 0..MaxBody, bad : 0..MaxBad,
            proof : Proofs, p : 0..MaxProof] :
        /\ r.bad <= r.n /\ (r.bad > 0 => r.kind = "sse")
        /\ (r.p = 0) <=> (r.proof = "none")
        /\ r.proof = "unavailable" => r.kind \in {"multipart", "json"}
        /\ r.keep > 0 => r.kind = "sse"}

Total == resp.keep + resp.n + resp.p

Init ==
    /\ enforce \in BOOLEAN
    /\ resp \in Responses
    /\ upstream = "request"
    /\ received = 0 /\ forwarded = 0 /\ status = 0
    /\ sent = <<>> /\ ended = FALSE /\ client = "connected"
    /\ verdict = "none" /\ warned = FALSE

-----------------------------------------------------------------------------
(* tee-verify-core.ts, as the proxy uses it.                                *)

\* A proof object comes out of the parser.
Parsed == resp.proof \in {"good", "fields", "untrusted", "bad"}

\* The carrier was recognised, so the body part has a content type of its own.
Separated == Parsed \/ resp.proof = "unavailable"

\* removeLeadingTransportKeepalivesIfSignedHashMatches: the keepalives are
\* dropped exactly when what remains has the signed hash.
Stripped == IF resp.proof \in {"good", "untrusted"} THEN resp.keep ELSE 0

\* parseTeeProofEvent, parseTeeProofCapture: the span of the response taken as
\* its body; everything, when no proof was found in it.  (Of a JSON envelope
\* the body is the other members, serialised again.)
BodySpan ==
    IF Separated THEN <<Stripped + 1, resp.keep + resp.n>>
                 ELSE <<1, Total>>

BodyLength == BodySpan[2] - BodySpan[1] + 1

\* verifyTeeExchange: with field claims the body hash is advisory.
Verify == IF resp.proof \in {"good", "fields"} THEN "ok" ELSE "failed"

Report == verdict' = IF Parsed THEN Verify ELSE "unattested"

-----------------------------------------------------------------------------
\* A write of no bytes leaves no trace.
Write(span) == sent' = IF span[2] < span[1] THEN sent ELSE Append(sent, span)

\* Answer the client with an error of the proxy's own.
Reply502 == status' = 502 /\ ended' = TRUE /\ UNCHANGED sent

\* up.on('error'), endError: too late for a status, the response just ends.
EndError ==
    /\ ended' = TRUE
    /\ status' = IF status = 0 THEN 502 ELSE status
    /\ UNCHANGED sent

Streams == ~enforce /\ resp.kind \in {"sse", "plain"}

\* The response callback: the streaming branches send the head at once.
ResponseHead ==
    /\ upstream = "request" /\ upstream' = "response"
    /\ status' = IF Streams THEN 200 ELSE status
    /\ UNCHANGED <<enforce, resp, received, forwarded, sent, ended, client,
                   verdict, warned>>

\* Mutant: forwarded is set to what was received.
DataSkips(k) ==
    /\ upstream = "response"
    /\ k \in 1..(Total - received)
    /\ received' = received + k
    /\ Streams /\ resp.kind = "sse"
    /\ received + k - HOLDBACK > forwarded
    /\ Write(<<forwarded + 1, received + k - HOLDBACK>>)
    /\ forwarded' = received + k
    /\ UNCHANGED <<enforce, resp, upstream, status, ended, client, verdict, warned>>

\* Mutant: one byte less is kept back.
DataOffByOne(k) ==
    /\ upstream = "response"
    /\ k \in 1..(Total - received)
    /\ received' = received + k
    /\ Streams /\ resp.kind = "sse"
    /\ received + k - HOLDBACK + 1 > forwarded
    /\ forwarded' = received + k - HOLDBACK + 1
    /\ Write(<<forwarded + 1, forwarded'>>)
    /\ UNCHANGED <<enforce, resp, upstream, status, ended, client, verdict, warned>>

\* upRes 'data'.  The streaming branch keeps the last HOLDBACK bytes back.
Data(k) ==
    /\ upstream = "response"
    /\ k \in 1..(Total - received)
    /\ received' = received + k
    /\ LET safeEnd == received + k - HOLDBACK
       IN  \/ /\ Streams /\ resp.kind = "plain"
              /\ Write(<<received + 1, received + k>>) /\ UNCHANGED forwarded
           \/ /\ Streams /\ resp.kind = "sse" /\ safeEnd > forwarded
              /\ Write(<<forwarded + 1, safeEnd>>) /\ forwarded' = safeEnd
           \/ /\ Streams => resp.kind = "sse" /\ safeEnd <= forwarded
              /\ UNCHANGED <<sent, forwarded>>
    /\ UNCHANGED <<enforce, resp, upstream, status, ended, client, verdict, warned>>

\* Mutant: only a proof that fails is refused, not a missing one.
EndEnforcedIfPresent ==
    /\ upstream = "response" /\ upstream' = "ended" /\ received = Total
    /\ enforce
    /\ Report
    /\ \/ ~(Parsed /\ Verify = "failed")
          /\ status' = 200 /\ Write(BodySpan) /\ ended' = TRUE
       \/ Parsed /\ Verify = "failed" /\ Reply502
    /\ UNCHANGED <<enforce, resp, received, forwarded, client, warned>>

\* upRes 'end', enforce: everything was buffered; nothing but a verified body
\* goes out.
EndEnforced ==
    /\ upstream = "response" /\ upstream' = "ended" /\ received = Total
    /\ enforce
    /\ Report
    /\ \/ Parsed /\ Verify = "ok"
          /\ status' = 200 /\ Write(BodySpan) /\ ended' = TRUE
       \/ ~(Parsed /\ Verify = "ok") /\ Reply502
    /\ UNCHANGED <<enforce, resp, received, forwarded, client, warned>>

\* upRes 'end', multipart and JSON envelope: the body goes out, whatever the
\* verdict; the whole capture if nothing was recognised in it.
EndBuffered ==
    /\ upstream = "response" /\ upstream' = "ended" /\ received = Total
    /\ ~enforce /\ resp.kind \in {"multipart", "json"}
    /\ Report
    /\ status' = 200 /\ Write(BodySpan) /\ ended' = TRUE
    /\ UNCHANGED <<enforce, resp, received, forwarded, client, warned>>

\* upRes 'end', ordinary response: no proof is looked for.
EndPlain ==
    /\ upstream = "response" /\ upstream' = "ended" /\ received = Total
    /\ ~enforce /\ resp.kind = "plain"
    /\ ended' = TRUE /\ verdict' = "unattested"
    /\ UNCHANGED <<enforce, resp, received, forwarded, status, sent, client, warned>>

\* Mutant: what was held back is dropped when a proof was found.
EndStreamForgetsTail ==
    /\ upstream = "response" /\ upstream' = "ended" /\ received = Total
    /\ ~enforce /\ resp.kind = "sse"
    /\ ended' = TRUE
    /\ Report
    /\ UNCHANGED <<enforce, resp, received, forwarded, status, sent, client, warned>>

\* upRes 'end', streaming: the rest of body from index forwarded on, which
\* counts bytes of the capture, not of the body.
EndStream ==
    /\ upstream = "response" /\ upstream' = "ended" /\ received = Total
    /\ ~enforce /\ resp.kind = "sse" /\ resp.bad = 0
    /\ warned' = (forwarded > BodyLength)
    /\ Write(<<BodySpan[1] + forwarded, BodySpan[2]>>)
    /\ ended' = TRUE
    /\ Report
    /\ UNCHANGED <<enforce, resp, received, forwarded, status, client>>

\* The byte of the response behind byte i of its decoded text: U+FFFD has three
\* bytes, none of them the response's, where the byte that is not UTF-8 was.
BadByte == resp.keep + resp.bad
Decoded(i) == CASE i < BadByte               -> i
                [] i \in BadByte..BadByte + 2 -> 0
                [] OTHER                     -> i - 2

\* The decoded body from index f on, byte by byte.
DecodedLength  == BodySpan[2] + 2
DecodedRest(f) == [i \in 1..(DecodedLength - f) |-> <<Decoded(f + i), Decoded(f + i)>>]

\* The same when acc.toString('utf8') has replaced a byte: the body is a piece of
\* the decoded text, two bytes longer, and has no signed hash, so no keepalive is
\* stripped and a proof over the body is left to its field claims, if it has any.
EndStreamBadUtf8 ==
    /\ upstream = "response" /\ upstream' = "ended" /\ received = Total
    /\ ~enforce /\ resp.kind = "sse" /\ resp.bad > 0
    /\ warned' = (forwarded > DecodedLength)
    /\ sent' = sent \o DecodedRest(forwarded)
    /\ ended' = TRUE
    /\ \/ Report
       \/ resp.proof = "good" /\ verdict' = "failed"
    /\ UNCHANGED <<enforce, resp, received, forwarded, status, client>>

\* The relay breaks the connection: 'error' of the request before the response,
\* of the response after it.
UpstreamFails ==
    /\ upstream \in {"request", "response"} /\ upstream' = "failed"
    /\ EndError
    /\ UNCHANGED <<enforce, resp, received, forwarded, client, verdict, warned>>

\* clientRes 'close' before the end: the upstream request is destroyed too.
ClientCloses ==
    /\ client = "connected" /\ client' = "gone"
    /\ upstream' = IF ended THEN upstream ELSE "destroyed"
    /\ UNCHANGED <<enforce, resp, received, forwarded, status, sent, ended,
                   verdict, warned>>

-----------------------------------------------------------------------------
Next ==
    \/ ResponseHead
    \/ \E k \in 1..(MaxKeep + MaxBody + MaxProof) : Data(k)
    \/ EndEnforced \/ EndBuffered \/ EndPlain \/ EndStream
    \/ EndStreamBadUtf8
    \/ UpstreamFails
    \/ ClientCloses

Spec == Init /\ [][Next]_vars

-----------------------------------------------------------------------------
(* Properties                                                               *)

\* The bytes the client has, as a set and counted with repetitions.
Got == UNION {sent[i][1]..sent[i][2] : i \in 1..Len(sent)}

\* Consecutive writes continue where the last one stopped.
Gapless ==
    \A i \in 1..(Len(sent) - 1) : sent[i + 1][1] = sent[i][2] + 1

Body  == (resp.keep + 1)..(resp.keep + resp.n)
Proof == (resp.keep + resp.n + 1)..Total

\* The streaming branch, with a byte its decoding replaces.
Replaced == ~enforce /\ resp.bad > 0

\* An index into the body is one into the capture, or nothing was forwarded yet.
Unshifted == ~Replaced /\ (Stripped = 0 \/ forwarded = 0)

\* The client's view of the response has no hole and no byte twice, wherever
\* 'data' events and the holdback cut it: the pieces written join up.  (Stripped
\* keepalives and bytes that are not UTF-8 shift the last of them.)
ByteExact == Unshifted => Gapless

\* --enforce: nothing of a response reaches the client before it was verified,
\* and then the whole body does and nothing of the proof, under a 200 status.
EnforceReleasesVerified ==
    enforce =>
        /\ sent # <<>> =>
              verdict = "ok" /\ Body \subseteq Got /\ Got \subseteq 1..(Total - resp.p)
        /\ status = 200 => verdict = "ok"

\* A verdict "ok" is about what the client got: the body it was given is the
\* body that was signed, nothing missing (what the holdback let slip of the
\* proof comes with a warning).
VerdictIsAboutDelivered ==
    verdict = "ok" =>
        /\ Body \subseteq Got
        /\ Got \ Body # {} => warned \/ Got \ Body \subseteq 1..resp.keep

\* The same, as long as no keepalive was stripped behind the streaming branch's
\* back and the stream is UTF-8; when it is not, an "ok" still means that only the
\* byte that is not UTF-8 can be missing, although every byte after it has moved.
VerdictIsAboutDeliveredUnshifted ==
    /\ Unshifted => VerdictIsAboutDelivered
    /\ Replaced /\ verdict = "ok" => Body \ {BadByte} \subseteq Got

\* A holdback at least as long as the proof keeps every byte of a proof that
\* can be parsed from the client of a stream, also when the stream breaks, the
\* client leaves or the decoded text is longer than what was received.
ProofHeldBack ==
    resp.kind = "sse" /\ Separated /\ HOLDBACK >= resp.p => Got \cap Proof = {}

\* A response that was handed to the client, to its end, was judged: the
\* verdict is reported.
EveryResponseReported ==
    ended /\ status = 200 => verdict # "none"
=============================================================================
