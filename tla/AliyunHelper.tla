----------------------------- MODULE AliyunHelper -----------------------------
(***************************************************************************)
(* Proofs from the vTPM: workers of the enclave call the helper process    *)
(* over a Unix socket (src/enclave/src/aliyun_helper.rs, request_proof),   *)
(* which answers each connection in a goroutine of its own and quotes      *)
(* under one mutex (src/aliyun-enclave/internal/helper).  The start script *)
(* starts the helper once and the relay when a health check has succeeded; *)
(* nothing starts the helper again.                                        *)
(*                                                                         *)
(* A call is one connection.  Timers are not modelled by their length: a   *)
(* read of a caller and the deadline of a goroutine may run out at any     *)
(* time, in any order.                                                     *)
(***************************************************************************)
EXTENDS Integers, FiniteSets

CONSTANTS
    Workers,   \* number of workers, each with at most one call pending
    MaxCalls   \* calls of a behaviour (bounds the model)

ASSUME WorkersAssumption == Workers \in Nat \ {0}
ASSUME MaxCallsAssumption == MaxCalls \in Nat

Calls == 1..MaxCalls
NoCall == 0

VARIABLES
    helper,   \* the helper process
    relay,    \* run.sh: "probing", then it has "started" /attest or "failed"
    made,     \* calls so far
    kind,     \* what each call asks
    call,     \* where its caller is
    got,      \* the proof request_proof returned
    request,  \* whether the request frame is in the socket
    reply,    \* the answer in the socket
    srv,      \* where its goroutine is
    resp,     \* the answer its goroutine has made
    expired,  \* whether its goroutine's deadline has passed
    mu,       \* the call whose goroutine holds s.mu
    vtpm      \* the call whose qualifying data the vTPM has last been given

process == <<helper, relay, made, kind>>
caller  == <<call, got, request>>
device  == <<mu, vtpm>>
vars    == <<process, caller, reply, srv, resp, expired, device>>

\* A proof request is complete, longer than 64 KiB, or lacks what HandleRequest
\* requires (a response without content type, status 0).
Kinds == {"proof", "too_large", "lacking", "health"}
Results == {"proof", "healthy", "error", "timeout"}
Goroutine == {"read", "handle", "lock", "quote", "reply"}

\* A proof, by the calls whose facts are in its statement and under its quote.
Proof(c, q) == [facts |-> c, quoted |-> q]
NoProof == Proof(NoCall, NoCall)
Proofs == [facts : Calls \cup {NoCall}, quoted : Calls \cup {NoCall}]

\* An answer: a Response, or one whose frame would be longer than 4 MiB.
Answer(is, p) == [is |-> is, proof |-> p]
Nothing == Answer("nothing", NoProof)
Failure == Answer("failure", NoProof)
Healthy == Answer("healthy", NoProof)
Answers == [is : {"nothing", "failure", "healthy", "proof", "huge"}, proof : Proofs]

Init ==
    /\ helper = "starting"
    /\ relay = "probing"
    /\ made = 0
    /\ kind = [c \in Calls |-> "none"]
    /\ call = [c \in Calls |-> "none"]
    /\ got = [c \in Calls |-> NoProof]
    /\ request = [c \in Calls |-> FALSE]
    /\ reply = [c \in Calls |-> Nothing]
    /\ srv = [c \in Calls |-> "none"]
    /\ resp = [c \in Calls |-> Nothing]
    /\ expired = [c \in Calls |-> FALSE]
    /\ mu = NoCall
    /\ vtpm = NoCall

-----------------------------------------------------------------------------
(* The helper process and the start script.                                *)

\* NewAliyunVTPM, NewServer and listenUnixSocket succeeded.
Listen ==
    /\ helper = "starting"
    /\ helper' = "listening"
    /\ UNCHANGED <<relay, made, kind, caller, reply, srv, resp, expired, device>>

\* Startup or Accept failed, or a goroutine panicked: every socket is closed, and
\* answers that were written can still be read.
Die ==
    /\ helper # "dead"
    /\ helper' = "dead"
    /\ srv' = [c \in Calls |-> IF srv[c] = "none" THEN "none" ELSE "closed"]
    /\ mu' = NoCall
    /\ UNCHANGED <<relay, made, kind, caller, reply, resp, expired, vtpm>>

\* run.sh: the last check failed and the helper has exited, or it was the hundredth
\* and the script kills the helper.
GiveUp ==
    /\ relay = "probing"
    /\ made > 0 /\ call[made] \in {"error", "timeout"}
    /\ relay' = "failed"
    /\ helper' = "dead"
    /\ srv' = [c \in Calls |-> IF srv[c] = "none" THEN "none" ELSE "closed"]
    /\ mu' = NoCall
    /\ UNCHANGED <<made, kind, caller, reply, resp, expired, vtpm>>

\* exec /attest
Ready ==
    /\ relay = "probing"
    /\ made > 0 /\ call[made] = "healthy"
    /\ relay' = "started"
    /\ UNCHANGED <<helper, made, kind, caller, reply, srv, resp, expired, device>>

-----------------------------------------------------------------------------
(* The caller: request_proof, or HealthCheck of the helper's command line.  *)

Pending == {c \in Calls : call[c] \in {"connected", "reading"}}

\* run.sh checks again after a check has failed.  Once the relay runs, each worker
\* has at most one call, and anybody may check.
MayCall(k) ==
    \/ /\ relay = "probing"
       /\ k = "health"
       /\ made > 0 => call[made] \in {"error", "timeout"}
    \/ /\ relay = "started"
       /\ k # "health" => Cardinality({d \in Pending : kind[d] # "health"}) < Workers

\* One call: connect fails if nobody listens.
Connect(k) ==
    LET c == made + 1
    IN  /\ made < MaxCalls
        /\ MayCall(k)
        /\ made' = c
        /\ kind' = [kind EXCEPT ![c] = k]
        /\ IF helper = "listening"
           THEN /\ call' = [call EXCEPT ![c] = "connected"]
                /\ srv' = [srv EXCEPT ![c] = "backlog"]
           ELSE /\ call' = [call EXCEPT ![c] = "error"]
                /\ UNCHANGED srv
        /\ UNCHANGED <<helper, relay, got, request, reply, resp, expired, device>>

Return(c, result) ==
    /\ call' = [call EXCEPT ![c] = result]
    /\ UNCHANGED <<process, request, reply, srv, resp, expired, device>>

\* write_frame: the limit is checked first, and a socket closed by the helper
\* cannot be written.  A frame below the limit fits the socket's buffer.
WriteRequest(c) ==
    /\ call[c] = "connected"
    /\ kind[c] # "too_large"
    /\ srv[c] # "closed"
    /\ call' = [call EXCEPT ![c] = "reading"]
    /\ request' = [request EXCEPT ![c] = TRUE]
    /\ UNCHANGED <<process, got, reply, srv, resp, expired, device>>

WriteRequestFails(c) ==
    /\ call[c] = "connected"
    /\ kind[c] = "too_large" \/ srv[c] = "closed"
    /\ Return(c, "error")
    /\ UNCHANGED got

\* read_frame, and what request_proof makes of the answer.
ReadReply(c) ==
    /\ call[c] = "reading"
    /\ reply[c] # Nothing
    /\ got' = [got EXCEPT ![c] = reply[c].proof]
    /\ Return(c, CASE reply[c].is = "proof" -> "proof"
                   [] reply[c].is = "healthy" /\ kind[c] = "health" -> "healthy"
                   [] OTHER -> "error")

\* Mutant: a closed socket is taken for an empty one.
ReadEndEarly(c) ==
    /\ call[c] = "reading"
    /\ srv[c] = "closed"
    /\ Return(c, "error")
    /\ UNCHANGED got

\* The helper closed the connection without an answer.
ReadEnd(c) ==
    /\ call[c] = "reading"
    /\ srv[c] = "closed"
    /\ reply[c] = Nothing
    /\ Return(c, "error")
    /\ UNCHANGED got

\* Mutant: only a connection the helper serves times out.
ReadTimesOutWhenServed(c) ==
    /\ call[c] = "reading"
    /\ srv[c] \in {"read", "handle"}
    /\ Return(c, "timeout")
    /\ UNCHANGED got

\* 30 seconds without a byte (2 seconds in all for a health check).
ReadTimesOut(c) ==
    /\ call[c] = "reading"
    /\ reply[c] = Nothing
    /\ Return(c, "timeout")
    /\ UNCHANGED got

-----------------------------------------------------------------------------
(* The helper: Serve, handle and HandleRequest.                             *)

\* A goroutine goes on to step to.
Go(c, to) ==
    /\ srv' = [srv EXCEPT ![c] = to]
    /\ UNCHANGED <<process, caller>>

Accept(c) ==
    /\ helper = "listening"
    /\ srv[c] = "backlog"
    /\ Go(c, "read")
    /\ UNCHANGED <<reply, resp, expired, device>>

\* conn.SetDeadline is called once, before the request is read.
Expire(c) ==
    /\ srv[c] \in Goroutine
    /\ ~expired[c]
    /\ expired' = [expired EXCEPT ![c] = TRUE]
    /\ UNCHANGED <<process, caller, reply, srv, resp, device>>

ReadRequest(c) ==
    /\ srv[c] = "read"
    /\ request[c]
    /\ ~expired[c]
    /\ Go(c, "handle")
    /\ UNCHANGED <<reply, resp, expired, device>>

\* End of file or deadline: handle answers bad_request, if anybody is there.
ReadRequestFails(c) ==
    /\ srv[c] = "read"
    /\ expired[c] \/ (~request[c] /\ call[c] \in Results)
    /\ resp' = [resp EXCEPT ![c] = Failure]
    /\ Go(c, "reply")
    /\ UNCHANGED <<reply, expired, device>>

\* What is decided before the lock.
HandleRequest(c) ==
    /\ srv[c] = "handle"
    /\ IF kind[c] = "proof"
       THEN Go(c, "lock") /\ UNCHANGED resp
       ELSE /\ resp' = [resp EXCEPT ![c] = IF kind[c] = "health" THEN Healthy ELSE Failure]
            /\ Go(c, "reply")
    /\ UNCHANGED <<reply, expired, device>>

\* Mutant: quotes run side by side.
LockUnlocked(c) ==
    /\ srv[c] = "lock"
    /\ mu' = c
    /\ vtpm' = c
    /\ Go(c, "quote")
    /\ UNCHANGED <<reply, resp, expired>>

\* s.mu.Lock(), and GenerateFromHashes up to the command it gives the vTPM.
Lock(c) ==
    /\ srv[c] = "lock"
    /\ mu = NoCall
    /\ mu' = c
    /\ vtpm' = c
    /\ Go(c, "quote")
    /\ UNCHANGED <<reply, resp, expired>>

\* Mutant: an error leaves the mutex locked.
QuoteFailsLocked(c) ==
    /\ srv[c] = "quote"
    /\ resp' = [resp EXCEPT ![c] = Failure]
    /\ Go(c, "reply")
    /\ UNCHANGED <<reply, expired, device>>

\* GenerateFromHashes returns an error.  The mutex is unlocked on every return.
QuoteFails(c) ==
    /\ srv[c] = "quote"
    /\ resp' = [resp EXCEPT ![c] = Failure]
    /\ mu' = NoCall
    /\ Go(c, "reply")
    /\ UNCHANGED <<reply, expired, vtpm>>

\* The vTPM answers for the data it was given last.
Quote(c) ==
    /\ srv[c] = "quote"
    /\ \E is \in {"proof", "huge"} :
            resp' = [resp EXCEPT ![c] = Answer(is, Proof(c, vtpm))]
    /\ mu' = NoCall
    /\ Go(c, "reply")
    /\ UNCHANGED <<reply, expired, vtpm>>

\* Mutant: the answer goes to the call that was made last.
ReplyToLast(c) ==
    /\ srv[c] = "reply"
    /\ reply' = IF ~expired[c] /\ call[made] \notin Results
                THEN [reply EXCEPT ![made] = resp[c]] ELSE reply
    /\ Go(c, "closed")
    /\ UNCHANGED <<resp, expired, device>>

\* writeResponse, whose error is ignored, and the deferred close.
Reply(c) ==
    /\ srv[c] = "reply"
    /\ reply' = IF expired[c] \/ call[c] \in Results \/ resp[c].is = "huge"
                THEN reply ELSE [reply EXCEPT ![c] = resp[c]]
    /\ Go(c, "closed")
    /\ UNCHANGED <<resp, expired, device>>

-----------------------------------------------------------------------------
CallerStep(c) ==
    WriteRequest(c) \/ WriteRequestFails(c) \/ ReadReply(c) \/ ReadEnd(c) \/ ReadTimesOut(c)

\* What a goroutine does without the vTPM.
ServerStep(c) ==
    ReadRequest(c) \/ ReadRequestFails(c) \/ HandleRequest(c) \/ Lock(c) \/ Reply(c)

Next ==
    \/ Listen \/ Die \/ GiveUp \/ Ready
    \/ \E k \in Kinds : Connect(k)
    \/ \E c \in Calls :
            CallerStep(c) \/ Accept(c) \/ Expire(c) \/ ServerStep(c) \/ Quote(c) \/ QuoteFails(c)

\* Sockets have timeouts and goroutines are scheduled; nothing is assumed of the
\* vTPM, of the start of the helper, or of new calls.
Fairness ==
    /\ \A c \in Calls : WF_vars(CallerStep(c))
    /\ \A c \in Calls : WF_vars(Accept(c)) /\ WF_vars(ServerStep(c))

Spec == Init /\ [][Next]_vars
FairSpec == Spec /\ Fairness

-----------------------------------------------------------------------------
(* Properties.                                                             *)

\* Every variable has its type, and a call that was not made has no state.
TypeOK ==
    /\ helper \in {"starting", "listening", "dead"}
    /\ relay \in {"probing", "started", "failed"}
    /\ made \in 0..MaxCalls
    /\ kind \in [Calls -> Kinds \cup {"none"}]
    /\ call \in [Calls -> Results \cup {"none", "connected", "reading"}]
    /\ got \in [Calls -> Proofs]
    /\ request \in [Calls -> BOOLEAN]
    /\ reply \in [Calls -> Answers]
    /\ srv \in [Calls -> Goroutine \cup {"none", "backlog", "closed"}]
    /\ resp \in [Calls -> Answers]
    /\ expired \in [Calls -> BOOLEAN]
    /\ mu \in Calls \cup {NoCall}
    /\ vtpm \in Calls \cup {NoCall}
    /\ \A c \in Calls : c > made =>
          /\ kind[c] = "none" /\ call[c] = "none" /\ srv[c] = "none"
          /\ resp[c] = Nothing /\ reply[c] = Nothing /\ ~request[c]

\* The proof a call returns was asked for by it, and statement and quote are about
\* that call's exchange: neither concurrent quotes nor answers that come after a
\* timeout mix calls (request_proof, HandleRequest; "并发请求在 fake attester 下不交叉",
\* concurrent requests do not cross, docs/aliyun-enclave-streaming-relay-design.md:654).
ProofIsForCall ==
    \A c \in Calls : call[c] = "proof" => kind[c] = "proof" /\ got[c] = Proof(c, c)

\* A complete request of the relay fails only when the helper process died, its
\* goroutine's deadline passed, the quote failed or the proof exceeds 4 MiB: no answer
\* that was made in time is lost, and the relay never calls a helper not yet ready.
ErrorHasCause ==
    \A c \in Calls : call[c] = "error" /\ kind[c] = "proof" =>
        helper = "dead" \/ expired[c] \/ resp[c].is \in {"failure", "huge"}

\* A goroutine in GetQuote holds the mutex, and the vTPM has its data.
HoldsDevice ==
    \A c \in Calls : srv[c] = "quote" => mu = c /\ vtpm = c

\* What a goroutine has made, or sent, is its own call's.
OwnAnswer ==
    \A c \in Calls :
        /\ reply[c] \in {Nothing, resp[c]}
        /\ reply[c] # Nothing => srv[c] = "closed"
        /\ resp[c].is = "nothing" => resp[c] = Nothing
        /\ srv[c] \in {"backlog", "read", "handle", "lock", "quote"} => resp[c] = Nothing
        /\ resp[c].is \in {"proof", "huge"} => resp[c].proof = Proof(c, c)
        /\ resp[c].is \in {"proof", "huge"} \/ srv[c] \in {"lock", "quote"} => kind[c] = "proof"
        /\ resp[c].is = "healthy" => kind[c] = "health"

\* Why a connection may be closed without an answer.
ClosedForCause ==
    \A c \in Calls :
        /\ srv[c] \in {"handle", "lock", "quote"} => request[c]
        /\ srv[c] = "reply" =>
              /\ resp[c] # Nothing
              /\ request[c] \/ expired[c] \/ call[c] \in Results
        /\ call[c] = "connected" => ~request[c] /\ reply[c] = Nothing
        /\ srv[c] = "closed" =>
              \/ helper = "dead" \/ expired[c] \/ call[c] \in Results
              \/ request[c] /\ (resp[c].is = "huge" \/ reply[c] # Nothing)

\* The relay, and every answer, come after the helper listens.
AfterListen ==
    /\ \A c \in Calls : srv[c] # "none" => helper # "starting"
    /\ \A c \in Calls : call[c] = "healthy" => srv[c] # "none"
    /\ relay = "started" => helper # "starting"

\* The inductive invariant: the mutex and the device go together, answers stay with
\* their calls, and a connection is closed without one only for a cause
\* (server.go:78-143).
IInv ==
    /\ TypeOK /\ HoldsDevice /\ OwnAnswer /\ ClosedForCause /\ AfterListen
    /\ ProofIsForCall /\ ErrorHasCause

\* Every call of a worker returns, whatever becomes of the helper and the vTPM: the
\* worker is not lost to the pool (set_read_timeout, aliyun_helper.rs:75).
EveryCallReturns ==
    \A c \in Calls : call[c] \in {"connected", "reading"} ~> call[c] \in Results

\* Only proofs wait for quotes.  A health check, and a request that is refused, are
\* answered even while a quote never returns (HandleRequest decides them before
\* s.mu.Lock, server.go:97-117); and if quotes return, every connection the helper
\* accepted is closed: errors and callers that have gone leave no goroutine waiting
\* for the mutex (server.go:119-120).
EveryGoroutineEnds ==
    /\ \A c \in Calls : srv[c] \in Goroutine /\ kind[c] # "proof" ~> srv[c] = "closed"
    /\ (\A c \in Calls : []<>(srv[c] # "quote"))
            => \A c \in Calls : srv[c] \in Goroutine ~> srv[c] = "closed"
=============================================================================
