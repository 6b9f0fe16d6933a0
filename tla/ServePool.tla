------------------------------ MODULE ServePool ------------------------------
(***************************************************************************)
(* The enclave's serving loop (src/enclave/src/main.rs): main() accepts    *)
(* connections and hands them to a pool of workers through a bounded       *)
(* sync_channel; worker() takes them one at a time, runs handle() under    *)
(* catch_unwind and keeps the shared Metrics.                              *)
(*                                                                         *)
(* Every access to a shared atomic is a step of its own, because every     *)
(* one of them can interleave with the steps of the other threads.  What   *)
(* handle() does to one connection is module Exchange; here it ends in one *)
(* of its three outcomes.                                                  *)
(***************************************************************************)
EXTENDS Integers, Sequences, FiniteSets

CONSTANTS
    Workers,     \* the N_WORKERS worker threads
    Conns,       \* the connections that will arrive (bounds the model)
    QUEUE_CAP,   \* capacity of the sync_channel
    None         \* no connection / no lock holder

ASSUME WorkersAssumption == IsFiniteSet(Workers)
ASSUME CapAssumption     == QUEUE_CAP \in Nat \ {0}
ASSUME NoneAssumption    == None \notin Workers /\ None \notin Conns

VARIABLES
    spawned,          \* workers whose thread was started
    apc, cur, q,      \* accept loop: program counter, its connection, its local q
    wpc, job,         \* worker: program counter and the connection it owns
    now, seen, res,   \* worker locals: in_flight after fetch_add, bump_max's m, handle's result
    rxlock,           \* holder of the Mutex around the Receiver
    queue,            \* contents of the channel
    queue_depth, queue_depth_max, in_flight, in_flight_max,
    accepted, shed, completed, failed, panicked,
    reply             \* how each connection ended, as its peer sees it

acceptVars  == <<apc, cur, q>>
workerVars  == <<wpc, job, now, seen, res>>
gauges      == <<queue_depth, queue_depth_max, in_flight, in_flight_max>>
totals      == <<accepted, shed, completed, failed, panicked>>
vars == <<spawned, acceptVars, workerVars, rxlock, queue, gauges, totals, reply>>

AcceptPC == {"accept", "bump", "send", "ok", "full", "shed", "busy"}
WorkerPC == {"lock", "recv", "dequeued", "enter", "load", "cas", "handle",
             "leave", "count", "err"}
Outcomes == {"completed", "failed", "panicked"}
Refusals == {"busy", "busy_lost"}
Replies  == {"none", "served", "err", "err_lost", "panic"} \cup Refusals

-----------------------------------------------------------------------------
\* A worker thread that could not be spawned is logged and left out.
Init ==
    /\ spawned \in SUBSET Workers
    /\ apc = "accept" /\ cur = None /\ q = 0
    /\ wpc  = [w \in Workers |-> "lock"]
    /\ job  = [w \in Workers |-> None]
    /\ now  = [w \in Workers |-> 0]
    /\ seen = [w \in Workers |-> 0]
    /\ res  = [w \in Workers |-> "completed"]
    /\ rxlock = None
    /\ queue = <<>>
    /\ queue_depth = 0 /\ queue_depth_max = 0
    /\ in_flight = 0   /\ in_flight_max = 0
    /\ accepted = 0 /\ shed = 0
    /\ completed = 0 /\ failed = 0 /\ panicked = 0
    /\ reply = [c \in Conns |-> "none"]

-----------------------------------------------------------------------------
(* The accept loop.  main() keeps its own Arc of the Receiver, so the       *)
(* channel never disconnects: try_send returns Ok or Full.                  *)

\* A connection not yet seen by the accept loop.
Arriving(c) ==
    /\ reply[c] = "none"
    /\ c # cur
    /\ \A i \in 1..Len(queue) : queue[i] # c
    /\ \A w \in Workers : job[w] # c

\* Mutant: the connection is not counted on arrival.
AcceptUncounted(c) ==
    /\ apc = "accept"
    /\ Arriving(c)
    /\ apc' = "bump" /\ cur' = c
    /\ UNCHANGED <<spawned, q, workerVars, rxlock, queue, gauges, totals, reply>>

\* let q = queue_depth.fetch_add(1) + 1
Accept(c) ==
    /\ apc = "accept"
    /\ Arriving(c)
    /\ apc' = "bump" /\ cur' = c
    /\ queue_depth' = queue_depth + 1
    /\ q' = queue_depth + 1
    /\ UNCHANGED <<spawned, workerVars, rxlock, queue, queue_depth_max,
                   in_flight, in_flight_max, totals, reply>>

\* bump_max(q, &queue_depth_max): the accept loop is its only writer.
BumpQueueMax ==
    /\ apc = "bump"
    /\ apc' = "send"
    /\ queue_depth_max' = IF q > queue_depth_max THEN q ELSE queue_depth_max
    /\ q' = 0
    /\ UNCHANGED <<spawned, cur, workerVars, rxlock, queue, queue_depth,
                   in_flight, in_flight_max, totals, reply>>

\* Mutant: one connection too many fits.
TrySendOffByOne ==
    /\ apc = "send"
    /\ \/ /\ Len(queue) <= QUEUE_CAP
          /\ queue' = Append(queue, cur)
          /\ cur' = None
          /\ apc' = "ok"
       \/ /\ Len(queue) > QUEUE_CAP
          /\ apc' = "full"
          /\ UNCHANGED <<queue, cur>>
    /\ UNCHANGED <<spawned, q, workerVars, rxlock, gauges, totals, reply>>

\* tx.try_send(s)
TrySend ==
    /\ apc = "send"
    /\ \/ /\ Len(queue) < QUEUE_CAP
          /\ queue' = Append(queue, cur)
          /\ cur' = None
          /\ apc' = "ok"
       \/ /\ Len(queue) >= QUEUE_CAP
          /\ apc' = "full"
          /\ UNCHANGED <<queue, cur>>
    /\ UNCHANGED <<spawned, q, workerVars, rxlock, gauges, totals, reply>>

CountAccepted ==
    /\ apc = "ok"
    /\ apc' = "accept"
    /\ accepted' = accepted + 1
    /\ UNCHANGED <<spawned, cur, q, workerVars, rxlock, queue, gauges,
                   shed, completed, failed, panicked, reply>>

\* Full: the depth counted on arrival is taken back first.
UndoDepth ==
    /\ apc = "full"
    /\ apc' = "shed"
    /\ queue_depth' = queue_depth - 1
    /\ UNCHANGED <<spawned, cur, q, workerVars, rxlock, queue, queue_depth_max,
                   in_flight, in_flight_max, totals, reply>>

CountShed ==
    /\ apc = "shed"
    /\ apc' = "busy"
    /\ shed' = shed + 1
    /\ UNCHANGED <<spawned, cur, q, workerVars, rxlock, queue, gauges,
                   accepted, completed, failed, panicked, reply>>

\* The ERR frame "busy" is best effort; the stream is dropped either way.
WriteBusy ==
    /\ apc = "busy"
    /\ apc' = "accept" /\ cur' = None
    /\ \E r \in Refusals : reply' = [reply EXCEPT ![cur] = r]
    /\ UNCHANGED <<spawned, q, workerVars, rxlock, queue, gauges, totals>>

-----------------------------------------------------------------------------
(* A worker.                                                                *)

Goto(w, from, to) == wpc[w] = from /\ wpc' = [wpc EXCEPT ![w] = to]

\* rx.lock().unwrap()
Lock(w) ==
    /\ w \in spawned
    /\ rxlock = None
    /\ Goto(w, "lock", "recv")
    /\ rxlock' = w
    /\ UNCHANGED <<spawned, acceptVars, job, now, seen, res, queue, gauges,
                   totals, reply>>

\* Mutant: the guard outlives the statement and is held while handle() runs.
RecvKeepsLock(w) ==
    /\ Goto(w, "recv", "dequeued")
    /\ queue # <<>>
    /\ job' = [job EXCEPT ![w] = Head(queue)]
    /\ queue' = Tail(queue)
    /\ UNCHANGED <<spawned, acceptVars, now, seen, res, rxlock, gauges, totals,
                   reply>>

\* .recv(), which blocks while the channel is empty; the guard is a temporary
\* of the statement and is dropped with it.
Recv(w) ==
    /\ Goto(w, "recv", "dequeued")
    /\ queue # <<>>
    /\ job' = [job EXCEPT ![w] = Head(queue)]
    /\ queue' = Tail(queue)
    /\ rxlock' = None
    /\ UNCHANGED <<spawned, acceptVars, now, seen, res, gauges, totals, reply>>

\* queue_depth.fetch_sub(1)
LeaveQueue(w) ==
    /\ Goto(w, "dequeued", "enter")
    /\ queue_depth' = queue_depth - 1
    /\ UNCHANGED <<spawned, acceptVars, job, now, seen, res, rxlock, queue,
                   queue_depth_max, in_flight, in_flight_max, totals, reply>>

\* let now = in_flight.fetch_add(1) + 1
EnterFlight(w) ==
    /\ Goto(w, "enter", "load")
    /\ in_flight' = in_flight + 1
    /\ now' = [now EXCEPT ![w] = in_flight + 1]
    /\ UNCHANGED <<spawned, acceptVars, job, seen, res, rxlock, queue,
                   queue_depth, queue_depth_max, in_flight_max, totals, reply>>

\* bump_max: let mut m = max.load(); while cur > m
BumpLoad(w) ==
    /\ Goto(w, "load", IF now[w] > in_flight_max THEN "cas" ELSE "handle")
    /\ seen' = [seen EXCEPT ![w] = in_flight_max]
    /\ UNCHANGED <<spawned, acceptVars, job, now, res, rxlock, queue, gauges,
                   totals, reply>>

\* Mutant: one attempt, no loop.
BumpOnce(w) ==
    /\ Goto(w, "cas", "handle")
    /\ in_flight_max' = IF in_flight_max = seen[w] THEN now[w] ELSE in_flight_max
    /\ UNCHANGED <<spawned, acceptVars, job, now, seen, res, rxlock, queue,
                   queue_depth, queue_depth_max, in_flight, totals, reply>>

\* bump_max: one compare_exchange_weak, which may also fail spuriously.
BumpCas(w) ==
    /\ \/ /\ in_flight_max = seen[w]
          /\ Goto(w, "cas", "handle")
          /\ in_flight_max' = now[w]
          /\ UNCHANGED seen
       \/ /\ Goto(w, "cas", IF now[w] > in_flight_max THEN "cas" ELSE "handle")
          /\ seen' = [seen EXCEPT ![w] = in_flight_max]
          /\ UNCHANGED in_flight_max
    /\ UNCHANGED <<spawned, acceptVars, job, now, res, rxlock, queue,
                   queue_depth, queue_depth_max, in_flight, totals, reply>>

\* Mutant: a panic is not caught and takes the worker thread with it.
HandleUnprotected(w) ==
    /\ \E r \in Outcomes :
          /\ Goto(w, "handle", IF r = "panicked" THEN "gone" ELSE "leave")
          /\ res' = [res EXCEPT ![w] = r]
    /\ now' = [now EXCEPT ![w] = 0]
    /\ seen' = [seen EXCEPT ![w] = 0]
    /\ UNCHANGED <<spawned, acceptVars, job, rxlock, queue, gauges,
                   totals, reply>>

\* catch_unwind(handle(...)): Ok(Ok), Ok(Err) or a caught panic.  bump_max has
\* returned: its locals are dead.
Handle(w) ==
    /\ Goto(w, "handle", "leave")
    /\ \E r \in Outcomes : res' = [res EXCEPT ![w] = r]
    /\ now' = [now EXCEPT ![w] = 0]
    /\ seen' = [seen EXCEPT ![w] = 0]
    /\ UNCHANGED <<spawned, acceptVars, job, rxlock, queue, gauges,
                   totals, reply>>

\* Mutant: the gauge is only taken back when the exchange succeeded.
LeaveFlightOnSuccess(w) ==
    /\ Goto(w, "leave", "count")
    /\ in_flight' = IF res[w] = "completed" THEN in_flight - 1 ELSE in_flight
    /\ UNCHANGED <<spawned, acceptVars, job, now, seen, res, rxlock, queue,
                   queue_depth, queue_depth_max, in_flight_max, totals, reply>>

\* in_flight.fetch_sub(1), whatever the outcome
LeaveFlight(w) ==
    /\ Goto(w, "leave", "count")
    /\ in_flight' = in_flight - 1
    /\ UNCHANGED <<spawned, acceptVars, job, now, seen, res, rxlock, queue,
                   queue_depth, queue_depth_max, in_flight_max, totals, reply>>

\* Mutant: a caught panic is logged and counted nowhere.
CountForgetsPanics(w) ==
    /\ Goto(w, "count", IF res[w] = "failed" THEN "err" ELSE "lock")
    /\ completed' = IF res[w] = "completed" THEN completed + 1 ELSE completed
    /\ failed' = IF res[w] = "failed" THEN failed + 1 ELSE failed
    /\ job' = IF res[w] = "failed" THEN job ELSE [job EXCEPT ![w] = None]
    /\ reply' = CASE res[w] = "completed" -> [reply EXCEPT ![job[w]] = "served"]
                  [] res[w] = "panicked"  -> [reply EXCEPT ![job[w]] = "panic"]
                  [] OTHER                -> reply
    /\ res' = [res EXCEPT ![w] = "completed"]
    /\ UNCHANGED <<spawned, acceptVars, now, seen, rxlock, queue, gauges,
                   accepted, shed, panicked>>

\* match res: one of the three totals; a panicked exchange gets no ERR frame,
\* its stream is dropped at the end of the iteration.
Count(w) ==
    /\ \/ /\ res[w] = "completed"
          /\ Goto(w, "count", "lock")
          /\ completed' = completed + 1
          /\ job' = [job EXCEPT ![w] = None]
          /\ reply' = [reply EXCEPT ![job[w]] = "served"]
          /\ UNCHANGED <<failed, panicked>>
       \/ /\ res[w] = "failed"
          /\ Goto(w, "count", "err")
          /\ failed' = failed + 1
          /\ UNCHANGED <<completed, panicked, job, reply>>
       \/ /\ res[w] = "panicked"
          /\ Goto(w, "count", "lock")
          /\ panicked' = panicked + 1
          /\ job' = [job EXCEPT ![w] = None]
          /\ reply' = [reply EXCEPT ![job[w]] = "panic"]
          /\ UNCHANGED <<completed, failed>>
    /\ res' = [res EXCEPT ![w] = "completed"]
    /\ UNCHANGED <<spawned, acceptVars, now, seen, rxlock, queue, gauges,
                   accepted, shed>>

\* let _ = write_frame(ERR, "enclave"): best effort.
WriteErr(w) ==
    /\ Goto(w, "err", "lock")
    /\ job' = [job EXCEPT ![w] = None]
    /\ \E r \in {"err", "err_lost"} :
           reply' = [reply EXCEPT ![job[w]] = r]
    /\ UNCHANGED <<spawned, acceptVars, now, seen, res, rxlock, queue, gauges,
                   totals>>

-----------------------------------------------------------------------------
AcceptLoop ==
    \/ BumpQueueMax \/ TrySend \/ CountAccepted
    \/ UndoDepth \/ CountShed \/ WriteBusy

\* Every step of a worker outside handle().
WorkerStep(w) ==
    \/ Lock(w) \/ Recv(w) \/ LeaveQueue(w) \/ EnterFlight(w)
    \/ BumpLoad(w) \/ BumpCas(w)
    \/ LeaveFlight(w) \/ Count(w) \/ WriteErr(w)

Next ==
    \/ \E c \in Conns : Accept(c)
    \/ AcceptLoop
    \/ \E w \in Workers : WorkerStep(w) \/ Handle(w)

Spec == Init /\ [][Next]_vars

(***************************************************************************)
(* Fairness.  The accept loop and the workers are OS threads and never     *)
(* stop between two instructions; a compare_exchange_weak cannot fail      *)
(* spuriously for ever (SF on its success).  Nothing obliges a peer to     *)
(* connect, so Accept has no fairness.                                     *)
(***************************************************************************)
CasSucceeds(w) == BumpCas(w) /\ wpc'[w] = "handle"

ThreadFairness ==
    /\ WF_vars(AcceptLoop)
    /\ \A w \in Workers : WF_vars(WorkerStep(w)) /\ SF_vars(CasSucceeds(w))

\* handle() need not return: the h2 path has no overall deadline.
HungSpec == Spec /\ ThreadFairness

-----------------------------------------------------------------------------
(* Properties                                                               *)

TypeOK ==
    /\ spawned \in SUBSET Workers
    /\ apc \in AcceptPC
    /\ cur \in Conns \cup {None}
    /\ apc \notin {"accept", "ok"} => cur \in Conns
    /\ q \in Int
    /\ wpc \in [Workers -> WorkerPC]
    /\ job \in [Workers -> Conns \cup {None}]
    /\ now \in [Workers -> Int]
    /\ seen \in [Workers -> Int]
    /\ res \in [Workers -> Outcomes]
    /\ rxlock \in Workers \cup {None}
    /\ queue \in Seq(Conns)
    /\ queue_depth \in Int /\ queue_depth_max \in Int
    /\ in_flight \in Int   /\ in_flight_max \in Int
    /\ accepted \in Nat /\ shed \in Nat
    /\ completed \in Nat /\ failed \in Nat /\ panicked \in Nat
    /\ reply \in [Conns -> Replies]

Dequeued  == {w \in Workers : wpc[w] \in {"dequeued"}}
InFlight  == {w \in Workers : wpc[w] \in {"load", "cas", "handle", "leave"}}
Unsettled == {w \in Workers : wpc[w] \in {"dequeued", "enter", "load", "cas",
                                          "handle", "leave", "count"}}
Bumping   == {w \in Workers : wpc[w] \in {"load", "cas"}}

\* The connection the accept loop has counted in queue_depth and not yet
\* queued or taken back.
Counted == IF apc \in {"bump", "send", "full"} THEN 1 ELSE 0

\* The gauges are unsigned: a fetch_sub below zero would wrap to 2^64 - 1.
\* They never go below zero although the accept loop counts a connection
\* before it is queued and a worker uncounts it after it was dequeued, and
\* they never exceed what the threads can hold.
GaugesBounded ==
    /\ queue_depth >= 0
    /\ queue_depth <= QUEUE_CAP + Cardinality(Workers) + 1
    /\ in_flight >= 0
    /\ in_flight <= Cardinality(Workers)

\* No connection is lost or counted twice between the accept loop and the
\* totals: what was accepted is what was settled, what waits in the channel
\* and what a worker still owns.
Conservation ==
    accepted + (IF apc = "ok" THEN 1 ELSE 0) =
        completed + failed + panicked + Len(queue) + Cardinality(Unsettled)

\* The high-water mark of concurrent exchanges is right whenever no worker is
\* inside bump_max: a racing store of a smaller value never hides a larger one.
HighWater ==
    Bumping = {} => in_flight <= in_flight_max

\* The inductive invariant behind the properties above: queue_depth is exactly
\* the queued connections, plus the ones a thread has counted and not queued
\* yet, or dequeued and not uncounted yet; in_flight is exactly the workers
\* between its fetch_add and its fetch_sub; a worker about to compare-exchange
\* would raise the mark it has seen; an in_flight above the mark is about to
\* be published by a worker inside bump_max.
DepthExact  == queue_depth = Len(queue) + Cardinality(Dequeued) + Counted
FlightExact == in_flight = Cardinality(InFlight)
CasRaises   == \A w \in Workers : wpc[w] = "cas" => now[w] > seen[w]
MarkPending == \/ in_flight <= in_flight_max
               \/ \E w \in Bumping : now[w] >= in_flight

Counting ==
    /\ TypeOK
    /\ Len(queue) <= QUEUE_CAP
    /\ DepthExact
    /\ FlightExact
    /\ Conservation
    /\ CasRaises
    /\ MarkPending

\* The inductive invariant behind the contract: a connection is in one place.  The
\* accept loop has one exactly between accept and try_send's Ok or the ERR frame, a
\* worker exactly outside lock and recv; nothing is queued twice, owned twice, or
\* still held by somebody after it was answered.
HasCur  == (cur = None) <=> (apc \in {"accept", "ok"})
HasJob  == \A w \in Workers : (job[w] = None) <=> (wpc[w] \in {"lock", "recv"})
Queued(c) == \E i \in 1..Len(queue) : queue[i] = c
Owned(c)  == \E w \in Workers : job[w] = c

QueuedOnce   == \A i, j \in 1..Len(queue) : queue[i] = queue[j] => i = j
OwnedOnce    == \A v, w \in Workers : job[v] = job[w] /\ job[v] # None => v = w
QueuedOnly   == \A c \in Conns : Queued(c) => c # cur /\ ~Owned(c)
OwnedOnly    == \A c \in Conns : Owned(c) => c # cur
AnsweredOnly == \A c \in Conns : reply[c] # "none" => c # cur /\ ~Queued(c) /\ ~Owned(c)

Placed ==
    /\ HasCur /\ HasJob
    /\ QueuedOnce /\ OwnedOnce
    /\ QueuedOnly /\ OwnedOnly /\ AnsweredOnly

IInv == Counting /\ Placed

\* bump_max never lowers the mark.
MaxMonotone == [][in_flight_max' >= in_flight_max]_in_flight_max

\* If every exchange returns (on the HTTP/1.1 path every read and write has a
\* timeout and every body a cap) and a worker was started, every connection the
\* accept loop has taken is answered: served, refused or failed.
EveryConnectionSettled ==
    (\A w \in Workers : []<>(wpc[w] # "handle")) =>
        \A c \in Conns :
            (cur = c) ~> (reply[c] # "none" \/ spawned = {})

\* Exchanges that never return do not keep a free worker from the channel: the
\* Receiver's mutex is not held while handle() runs, so a queued connection
\* waits for ever only if every worker is inside handle().
QueueServedByFreeWorker ==
    \A c \in Conns :
        (\E i \in 1..Len(queue) : queue[i] = c) ~>
            \/ \E w \in Workers : job[w] = c
            \/ \A w \in spawned : wpc[w] = "handle"

\* What the contract calls running, refused and over.  A connection is refused when
\* try_send has failed, before its ERR frame.
Running == {job[w] : w \in Workers} \ {None}
Refused == {c \in Conns : reply[c] \in Refusals} \cup
           (IF apc \in {"full", "shed", "busy"} THEN {cur} ELSE {})
Over    == {c \in Conns : reply[c] \notin Refusals \cup {"none"}}

\* The pool implements the contract its callers rely on: first come first
\* served, refused only when the channel is full, at most one exchange per
\* worker, every connection settled at most once.
Contract == INSTANCE PoolContract WITH
    Cap     <- QUEUE_CAP,
    Slots   <- Cardinality(Workers),
    waiting <- queue,
    running <- Running,
    refused <- Refused,
    over    <- Over

ImplementsContract == Contract!Spec
=============================================================================
