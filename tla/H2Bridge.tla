------------------------------- MODULE H2Bridge -------------------------------
(***************************************************************************)
(* The HTTP/2 path (src/enclave/src/h2_client.rs, execute): the worker     *)
(* sends the request and takes the response through handles of the h2      *)
(* library while a second thread, the driver, runs the connection over a   *)
(* blocking socket.  A driver that waits in read() writes nothing; the     *)
(* socket's read timeout, which BlockingIo turns into Pending and an       *)
(* immediate wake, is what lets it go on.                                  *)
(*                                                                         *)
(* The library (external: modelled from how execute uses it) reads until   *)
(* nothing is there, then writes what the handles have queued, and ends    *)
(* the connection once no handle is left.  Bytes are counted.  What        *)
(* Exchange does in one step per DATA frame is seen here from inside.      *)
(***************************************************************************)
EXTENDS Integers

CONSTANTS
    MaxRequest,  \* longest request body (bounds the model)
    MaxBody,     \* longest response body (bounds the model)
    PIECE,       \* most bytes given to send_data at once (16384)
    FirstCredit, \* bytes the peer accepts before it grants more
    WINDOW,      \* receive window the profile announces
    MAX_RESP     \* max_response_bytes

ASSUME BoundsAssumption == MaxRequest \in Nat /\ MaxBody \in Nat
ASSUME LimitsAssumption == PIECE \in Nat \ {0} /\ FirstCredit \in Nat
                           /\ WINDOW \in Nat \ {0} /\ MAX_RESP \in Nat

VARIABLES
    body,       \* length of the request body
    worker,     \* where execute is
    result,     \* what its closure has returned, and why
    offset,     \* request bytes given to send_data
    taken,      \* response bytes taken out of recv.data()
    forwarded,  \* response bytes through the sink
    released,   \* response bytes whose capacity was given back
    driver,     \* where the driver thread is
    flushed,    \* request bytes it has written; -1 before the headers
    announced,  \* capacity announced to the peer by WINDOW_UPDATE
    headed, received, end,  \* what the driver has read: head, body bytes, end
    peer,       \* the peer: its response's length, whether it reads and answers
    credit,     \* request bytes it accepts
    said,       \* whether it has sent the response's head
    sent, fin,  \* what it has sent: body bytes, end of stream
    up          \* whether the connection is up

workerVars == <<body, worker, result, offset, taken, forwarded, released>>
written    == <<flushed, announced>>
read       == <<headed, received, end>>
peerVars   == <<peer, credit, said, sent, fin, up>>
wire == <<driver, written, read, peerVars>>
vars == <<workerVars, wire>>

Min2(a, b) == IF a < b THEN a ELSE b

Init ==
    /\ body \in 0..MaxRequest
    /\ worker = "setup" /\ result = "none" /\ driver = "none"
    /\ offset = 0 /\ taken = 0 /\ forwarded = 0 /\ released = 0
    /\ flushed = -1 /\ announced = 0
    /\ headed = FALSE /\ received = 0 /\ end = "open"
    /\ peer \in [n : 0..MaxBody, reads : BOOLEAN, answers : BOOLEAN]
    /\ credit = FirstCredit
    /\ said = FALSE /\ sent = 0 /\ fin = "open" /\ up = TRUE

-----------------------------------------------------------------------------
(* The worker.                                                              *)

\* The closure returns: its handles are dropped, and the driver is joined.
Done(r) == result' = r /\ worker' = "join"

\* Settings, preface, request head; then the driver is spawned with the headers
\* queued ...
Setup ==
    /\ worker = "setup" /\ worker' = "send"
    /\ driver' = "write"
    /\ UNCHANGED <<body, result, offset, taken, forwarded, released, written, read, peerVars>>

\* ... or a setting, URI or header is refused, or the socket cannot be written.
SetupFails ==
    /\ worker = "setup" /\ worker' = "err"
    /\ result' = "setup"
    /\ UNCHANGED <<body, offset, taken, forwarded, released, wire>>

\* A stream that was reset or lost its connection: any handle may say so.
Broken == end = "reset" \/ driver \in {"ended", "failed"}

\* Mutant: as much as was reserved is sent.
SendBodyReserved ==
    /\ worker = "send" /\ offset < body
    /\ credit > offset /\ end # "reset"
    /\ offset' = offset + PIECE
    /\ UNCHANGED <<body, worker, result, taken, forwarded, released, wire>>

\* reserve_capacity, poll_capacity, send_data; END_STREAM goes with the last piece.
SendBody ==
    /\ worker = "send" /\ offset < body
    /\ credit > offset /\ end # "reset"
    /\ offset' = offset + Min2(Min2(body - offset, PIECE), credit - offset)
    /\ UNCHANGED <<body, worker, result, taken, forwarded, released, wire>>

SendBodyFails ==
    /\ worker = "send" /\ offset < body
    /\ Broken
    /\ Done("stream")
    /\ UNCHANGED <<body, offset, taken, forwarded, released, wire>>

\* The request is complete: drop(send_stream).
BodySent ==
    /\ worker = "send" /\ offset = body
    /\ worker' = "await"
    /\ UNCHANGED <<body, result, offset, taken, forwarded, released, wire>>

\* The response future, and sink.on_head.
TakeHead ==
    /\ worker = "await" /\ headed
    /\ \/ worker' = "data" /\ UNCHANGED result
       \/ Done("sink")
    /\ UNCHANGED <<body, offset, taken, forwarded, released, wire>>

\* Mutant: the capacity is released before the sink has run.
TakeChunkReleases(k) ==
    /\ worker = "data" /\ k <= received - taken
    /\ taken' = taken + k
    /\ released' = taken + k
    /\ worker' = "sink"
    /\ UNCHANGED <<body, result, offset, forwarded, wire>>

\* One DATA frame: it is counted, and then handed to the sink.
TakeChunk(k) ==
    /\ worker = "data" /\ k <= received - taken
    /\ taken' = taken + k
    /\ \/ taken' > MAX_RESP /\ Done("limit")
       \/ taken' <= MAX_RESP /\ worker' = "sink" /\ UNCHANGED result
    /\ UNCHANGED <<body, offset, forwarded, released, wire>>

\* Mutant: the capacity is never given back.
SinkChunkKeeps ==
    /\ worker = "sink" /\ worker' = "data"
    /\ forwarded' = taken
    /\ UNCHANGED <<body, result, offset, taken, released, wire>>

\* sink.on_chunk, which may wait for the relay; then release_capacity.
SinkChunk ==
    /\ worker = "sink"
    /\ \/ worker' = "data" /\ forwarded' = taken /\ released' = taken /\ UNCHANGED result
       \/ Done("sink") /\ UNCHANGED <<forwarded, released>>
    /\ UNCHANGED <<body, offset, taken, wire>>

\* recv.data() is None.
EndOfBody ==
    /\ worker = "data" /\ taken = received /\ end = "end"
    /\ Done("ok")
    /\ UNCHANGED <<body, offset, taken, forwarded, released, wire>>

\* The future or recv.data() is an error.
ResponseFails ==
    /\ \/ worker = "await" /\ (end = "reset" \/ (Broken /\ ~headed))
       \/ worker = "data" /\ (end = "reset" \/ (Broken /\ end = "open" /\ taken = received))
    /\ Done("stream")
    /\ UNCHANGED <<body, offset, taken, forwarded, released, wire>>

\* Mutant: how the driver ended is not looked at.
JoinIgnoresDriver ==
    /\ worker = "join" /\ driver \in {"ended", "failed"}
    /\ worker' = IF result = "ok" THEN "ok" ELSE "err"
    /\ UNCHANGED <<body, result, offset, taken, forwarded, released, wire>>

\* driver.join(): its error counts if the closure had none.
Join ==
    /\ worker = "join" /\ driver \in {"ended", "failed"}
    /\ worker' = IF result = "ok" /\ driver = "ended" THEN "ok" ELSE "err"
    /\ UNCHANGED <<body, result, offset, taken, forwarded, released, wire>>

-----------------------------------------------------------------------------
(* The driver.                                                              *)

\* The next thing on the socket.
Read ==
    /\ driver = "read"
    /\ \/ said /\ ~headed /\ headed' = TRUE /\ UNCHANGED <<received, end>>
       \/ headed /\ received < sent
          /\ \E k \in 1..MaxBody : k <= sent - received /\ received' = received + k
          /\ UNCHANGED <<headed, end>>
       \/ headed = said /\ received = sent /\ end # fin
          /\ end' = fin
          /\ UNCHANGED <<headed, received>>
    /\ UNCHANGED <<workerVars, driver, written, peerVars>>

AllRead == headed = said /\ received = sent /\ end = fin

\* The connection ends: with close_notify, which the library takes for an end, or
\* without it or by a reset, which may come before everything was read.
ReadEnds ==
    /\ driver = "read" /\ ~up
    /\ \/ AllRead /\ driver' = "ended"
       \/ driver' = "failed"
    /\ UNCHANGED <<workerVars, written, read, peerVars>>

\* Mutant: the read waits for the peer.
ReadTimesOutNever ==
    /\ driver = "read" /\ ~AllRead
    /\ driver' = "write"
    /\ UNCHANGED <<workerVars, written, read, peerVars>>

\* Mutant: a timeout is an error like any other.
ReadTimesOutFails ==
    /\ driver = "read" /\ AllRead /\ up
    /\ driver' = "failed"
    /\ UNCHANGED <<workerVars, written, read, peerVars>>

\* BlockingIo: nothing to read for 250 ms is Pending.
ReadTimesOut ==
    /\ driver = "read" /\ AllRead /\ up
    /\ driver' = "write"
    /\ UNCHANGED <<workerVars, written, read, peerVars>>

\* Mutant: sender lives until execute returns.
HandlesDroppedLate == worker \in {"ok", "err"}

\* drop(sender), drop(send_stream) and the end of the closure.
HandlesDropped == result # "none"

\* What the handles have queued is written.  A peer that does not read keeps the
\* write waiting: its timeouts are Pending too.
Write ==
    /\ driver = "write" /\ up /\ peer.reads
    /\ flushed' = offset
    /\ announced' = released
    /\ driver' = IF HandlesDropped THEN "ended" ELSE "read"
    /\ UNCHANGED <<workerVars, read, peerVars>>

WriteFails ==
    /\ driver = "write" /\ ~up
    /\ driver' = "failed"
    /\ UNCHANGED <<workerVars, written, read, peerVars>>

\* Its runtime cannot be built, or it panics: the socket goes with it.
DriverDies ==
    /\ driver \in {"read", "write"}
    /\ driver' = "failed"
    /\ up' = FALSE
    /\ UNCHANGED <<workerVars, written, read, peer, credit, said, sent, fin>>

-----------------------------------------------------------------------------
(* The peer.  It may answer before it has the whole request.                *)

Grant ==
    /\ up /\ flushed >= 0 /\ credit < body
    /\ credit' = credit + 1
    /\ UNCHANGED <<workerVars, driver, written, read, peer, said, sent, fin, up>>

Answer ==
    /\ up /\ flushed >= 0 /\ ~said /\ fin = "open"
    /\ said' = TRUE
    /\ UNCHANGED <<workerVars, driver, written, read, peer, credit, sent, fin, up>>

SendData ==
    /\ up /\ said /\ fin = "open"
    /\ sent < peer.n /\ sent < WINDOW + announced
    /\ sent' = sent + 1
    /\ UNCHANGED <<workerVars, driver, written, read, peer, credit, said, fin, up>>

EndStream ==
    /\ up /\ said /\ fin = "open" /\ sent = peer.n
    /\ fin' = "end"
    /\ UNCHANGED <<workerVars, driver, written, read, peer, credit, said, sent, up>>

Reset ==
    /\ up /\ flushed >= 0 /\ fin = "open"
    /\ fin' = "reset"
    /\ UNCHANGED <<workerVars, driver, written, read, peer, credit, said, sent, up>>

Close ==
    /\ up /\ up' = FALSE
    /\ UNCHANGED <<workerVars, driver, written, read, peer, credit, said, sent, fin>>

-----------------------------------------------------------------------------
Worker ==
    \/ Setup \/ SetupFails \/ SendBody \/ SendBodyFails \/ BodySent \/ TakeHead
    \/ \E k \in 1..MaxBody : TakeChunk(k)
    \/ SinkChunk \/ EndOfBody \/ ResponseFails \/ Join

Driver == Read \/ ReadEnds \/ ReadTimesOut \/ Write \/ WriteFails

Peer == Grant \/ Answer \/ SendData \/ EndStream

Next == Worker \/ Driver \/ DriverDies \/ Peer \/ Reset \/ Close

Spec == Init /\ [][Next]_vars

\* Two threads.  A peer that answers goes on until its response is over; any
\* other may be silent for ever.
FairSpec == Spec /\ WF_vars(Worker) /\ WF_vars(Driver) /\ WF_vars(peer.answers /\ Peer)

-----------------------------------------------------------------------------
(* Properties.                                                              *)

\* Every variable has its type; no more is sent of the request than it has and the
\* peer accepts.
TypeOK ==
    /\ body \in 0..MaxRequest
    /\ worker \in {"setup", "send", "await", "data", "sink", "join", "ok", "err"}
    /\ result \in {"none", "setup", "stream", "limit", "sink", "ok"}
    /\ driver \in {"none", "read", "write", "ended", "failed"}
    /\ offset \in 0..body /\ flushed \in -1..offset
    /\ credit \in Nat /\ offset <= credit
    /\ taken \in Nat /\ forwarded \in Nat /\ released \in Nat /\ announced \in Nat
    /\ headed \in BOOLEAN /\ received \in Nat /\ end \in {"open", "end", "reset"}
    /\ peer \in [n : 0..MaxBody, reads : BOOLEAN, answers : BOOLEAN]
    /\ said \in BOOLEAN /\ sent \in 0..MaxBody /\ fin \in {"open", "end", "reset"}
    /\ up \in BOOLEAN

\* "Apply downstream backpressure before giving the peer more receive capacity"
\* (h2_client.rs:263): however slow the relay is, the enclave holds no more of the
\* response than one receive window, in its buffers and on the way to them.
Backpressure == sent - forwarded <= WINDOW

\* execute returns Ok only for a response that its peer has ended, all of which is
\* through the sink, and only if the connection ended well (h2_client.rs:276-281).
OkIsWhole ==
    worker = "ok" => fin = "end" /\ forwarded = peer.n /\ driver = "ended"

\* The stream fails, and a whole response is given up for the driver's sake, only
\* when the peer has reset the stream or the connection is gone: silence, however
\* long, is no error (BlockingIo, h2_client.rs:25-47).
FailsForCause ==
    /\ result = "stream" => ~up \/ fin = "reset"
    /\ worker = "err" /\ result = "ok" => ~up

\* No response byte overtakes another on its way through the bridge.
InOrder ==
    /\ announced <= released /\ released <= forwarded /\ forwarded <= taken
    /\ taken <= received /\ received <= sent /\ sent <= WINDOW + announced
    /\ worker \in {"setup", "send", "await", "data"} => forwarded = taken

\* What is known of the end of the stream, and when a closure may have returned ok.
EndKnown ==
    /\ end \in {"open", fin}
    /\ end = "end" => received = sent
    /\ fin = "end" => sent = peer.n
    /\ result = "ok" => end = "end" /\ taken = received /\ forwarded = taken

\* Why the driver has ended, and where execute is with its closure's result.
DriverEnded ==
    /\ driver = "failed" => ~up
    /\ driver = "ended" => ~up \/ result # "none"
    /\ result = "none" <=> worker \notin {"join", "ok", "err"}
    /\ worker = "ok" => result = "ok" /\ driver = "ended"
    /\ worker = "err" /\ result = "ok" => driver = "failed"

\* The inductive invariant (execute, h2_client.rs:92-283): capacity follows the sink,
\* which follows the driver, which follows the peer.
IInv == TypeOK /\ InOrder /\ EndKnown /\ DriverEnded /\ FailsForCause

\* "stream completion can shut the driver down without leaking a thread"
\* (h2_client.rs:2-3): once the closure has returned, for whatever reason, the driver
\* ends and execute returns, even if the peer keeps the connection open and says
\* nothing more.
DriverShutsDown ==
    peer.reads /\ worker = "join" ~> worker \in {"ok", "err"}

\* A peer that grants capacity gets the whole request, although it may say nothing
\* before it has it and the driver is waiting to read from it.
RequestArrives ==
    peer.reads /\ worker # "setup" /\ credit >= body
        ~> flushed = body \/ fin = "reset" \/ ~up \/ worker = "err"

\* With a peer that reads and answers, execute returns, also when the response is
\* longer than the window or the limit and the answer comes before the request is
\* complete.
ExecuteReturns ==
    peer.reads /\ peer.answers ~> worker \in {"ok", "err"}
=============================================================================
