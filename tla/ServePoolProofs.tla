--------------------------- MODULE ServePoolProofs ---------------------------
(***************************************************************************)
(* Proofs about ServePool, for any finite set of workers, any set of       *)
(* connections and any queue capacity: its invariants, and that the pool   *)
(* implements PoolContract.                                                *)
(***************************************************************************)
EXTENDS ServePool, FiniteSetTheorems, TLAPS

(* Counting workers: a worker that enters or leaves a set of workers        *)
(* changes its cardinality by one.                                          *)
LEMMA CardType ==
    ASSUME NEW S \in SUBSET Workers
    PROVE  /\ IsFiniteSet(S)
           /\ Cardinality(S) \in Nat
           /\ Cardinality(S) <= Cardinality(Workers)
  BY WorkersAssumption, FS_Subset, FS_CardinalityType

\* A worker that enters a set of workers adds one to its size.
LEMMA CardAdd ==
    ASSUME NEW S \in SUBSET Workers, NEW w \in Workers, w \notin S
    PROVE  Cardinality(S \cup {w}) = Cardinality(S) + 1
  BY CardType, FS_AddElement

\* A worker that leaves a set of workers takes one from its size.
LEMMA CardRemove ==
    ASSUME NEW S \in SUBSET Workers, NEW w \in S
    PROVE  Cardinality(S \ {w}) = Cardinality(S) - 1
  BY CardType, FS_RemoveElement

-----------------------------------------------------------------------------
(* The type invariant is inductive on its own.                              *)
LEMMA TypeInit == Init => TypeOK
  BY DEF Init, TypeOK, AcceptPC, WorkerPC, Outcomes, Replies

\* Every step of the accept loop or of a worker keeps the types.
LEMMA TypeNext == TypeOK /\ [Next]_vars => TypeOK'
<1> SUFFICES ASSUME TypeOK, [Next]_vars PROVE TypeOK'
  OBVIOUS
<1> USE DEF TypeOK, AcceptPC, WorkerPC, Outcomes, Replies, Refusals
<1>1. ASSUME NEW c \in Conns, Accept(c) PROVE TypeOK'
  BY <1>1 DEF Accept, workerVars, totals
<1>2. CASE AcceptLoop
  <2>1. CASE BumpQueueMax  BY <2>1 DEF BumpQueueMax, workerVars, totals
  <2>2. CASE TrySend
    <3>0. cur \in Conns
      BY <2>2 DEF TrySend
    <3>1. queue' \in Seq(Conns) /\ cur' \in Conns \cup {None}
      <4>1. Append(queue, cur) \in Seq(Conns)
        BY <3>0
      <4>2. QED BY <2>2, <3>0, <4>1 DEF TrySend
    <3>2. /\ apc' \in AcceptPC
          /\ apc' \notin {"accept", "ok"} => cur' \in Conns
      BY <2>2 DEF TrySend
    <3>3. QED BY <2>2, <3>1, <3>2 DEF TrySend, workerVars, gauges, totals
  <2>3. CASE CountAccepted BY <2>3 DEF CountAccepted, workerVars, gauges
  <2>4. CASE UndoDepth     BY <2>4 DEF UndoDepth, workerVars, totals
  <2>5. CASE CountShed     BY <2>5 DEF CountShed, workerVars, gauges
  <2>6. CASE WriteBusy
    <3>1. PICK r \in Refusals : reply' = [reply EXCEPT ![cur] = r]
      BY <2>6 DEF WriteBusy
    <3>2. reply' \in [Conns -> Replies]
      BY <3>1
    <3>3. QED BY <2>6, <3>2 DEF WriteBusy, workerVars, gauges, totals
  <2>7. QED BY <1>2, <2>1, <2>2, <2>3, <2>4, <2>5, <2>6 DEF AcceptLoop
<1>3. ASSUME NEW w \in Workers, WorkerStep(w) \/ Handle(w) PROVE TypeOK'
  <2> USE DEF Goto, acceptVars, gauges, totals
  <2>1. CASE Lock(w)        BY <2>1 DEF Lock
  <2>2. CASE Recv(w)        BY <2>2 DEF Recv
  <2>3. CASE LeaveQueue(w)  BY <2>3 DEF LeaveQueue
  <2>4. CASE EnterFlight(w) BY <2>4 DEF EnterFlight
  <2>5. CASE BumpLoad(w)    BY <2>5 DEF BumpLoad
  <2>6. CASE BumpCas(w)
    <3>1. wpc' \in [Workers -> WorkerPC]
      BY <2>6 DEF BumpCas
    <3>2. in_flight_max' \in Int /\ seen' \in [Workers -> Int]
      BY <2>6 DEF BumpCas
    <3>3. QED BY <2>6, <3>1, <3>2 DEF BumpCas
  <2>7. CASE LeaveFlight(w) BY <2>7 DEF LeaveFlight
  <2>8. CASE Count(w)
    <3>1. reply' \in [Conns -> Replies]
      BY <2>8 DEF Count
    <3>2. job' \in [Workers -> Conns \cup {None}]
      BY <2>8 DEF Count
    <3>3. wpc' \in [Workers -> WorkerPC] /\ res' \in [Workers -> Outcomes]
      BY <2>8 DEF Count
    <3>4. completed' \in Nat /\ failed' \in Nat /\ panicked' \in Nat
      BY <2>8 DEF Count
    <3>5. UNCHANGED <<spawned, apc, cur, q, now, seen, rxlock, queue, gauges,
                      accepted, shed>>
      BY <2>8 DEF Count
    <3>6. QED BY <3>1, <3>2, <3>3, <3>4, <3>5
  <2>9. CASE WriteErr(w)
    <3>1. PICK r \in {"err", "err_lost"} : reply' = [reply EXCEPT ![job[w]] = r]
      BY <2>9 DEF WriteErr
    <3>2. reply' \in [Conns -> Replies]
      BY <3>1
    <3>3. QED BY <2>9, <3>2 DEF WriteErr
  <2>10. CASE Handle(w)
    <3>1. PICK r \in Outcomes : res' = [res EXCEPT ![w] = r]
      BY <2>10 DEF Handle
    <3>2. res' \in [Workers -> Outcomes]
      BY <3>1
    <3>3. QED BY <2>10, <3>2 DEF Handle
  <2>11. QED BY <1>3, <2>1, <2>2, <2>3, <2>4, <2>5, <2>6, <2>7, <2>8, <2>9,
                <2>10 DEF WorkerStep
<1>4. CASE UNCHANGED vars
  BY <1>4 DEF vars, acceptVars, workerVars, gauges, totals
<1>5. QED BY <1>1, <1>2, <1>3, <1>4 DEF Next

\* The state of every thread, gauge and total stays within its type.
THEOREM TypeCorrect == Spec => []TypeOK
  BY TypeInit, TypeNext, PTL DEF Spec

-----------------------------------------------------------------------------
(* The inductive invariant.                                                 *)

\* An idle pool satisfies the invariant: every count is zero.
LEMMA CountingInit == Init => Counting
<1> SUFFICES ASSUME Init PROVE Counting
  OBVIOUS
<1>1. TypeOK
  BY TypeInit
<1>2. Dequeued = {} /\ InFlight = {} /\ Unsettled = {}
  BY DEF Init, Dequeued, InFlight, Unsettled
<1>3. Cardinality({}) = 0
  BY FS_EmptySet
<1>4. QED
  BY <1>1, <1>2, <1>3, CapAssumption
     DEF Init, Counting, DepthExact, FlightExact, Conservation, CasRaises,
         MarkPending, Counted

\* A step of the accept loop moves no worker.
LEMMA CountingAccept ==
    ASSUME Counting, (\E c \in Conns : Accept(c)) \/ AcceptLoop
    PROVE  Counting'
<1>1. TypeOK'
  BY TypeNext DEF Counting, Next
<1>2. /\ UNCHANGED <<wpc, now, seen, in_flight, in_flight_max>>
      /\ UNCHANGED <<completed, failed, panicked>>
  BY DEF AcceptLoop, Accept, BumpQueueMax, TrySend, CountAccepted, UndoDepth,
         CountShed, WriteBusy, workerVars, gauges, totals
<1>3. UNCHANGED <<Dequeued, InFlight, Unsettled, Bumping>>
  BY <1>2 DEF Dequeued, InFlight, Unsettled, Bumping
<1>4. FlightExact' /\ CasRaises' /\ MarkPending'
  BY <1>2, <1>3 DEF Counting, FlightExact, CasRaises, MarkPending
<1>5. /\ Cardinality(Dequeued) \in Nat /\ Cardinality(Unsettled) \in Nat
  BY CardType DEF Dequeued, Unsettled
<1>6. Len(queue') <= QUEUE_CAP /\ DepthExact' /\ Conservation'
  <2> USE <1>2, <1>3, <1>5, CapAssumption
      DEF Counting, TypeOK, DepthExact, Conservation, Counted
  <2>1. ASSUME NEW c \in Conns, Accept(c)
        PROVE  Len(queue') <= QUEUE_CAP /\ DepthExact' /\ Conservation'
    BY <2>1 DEF Accept, totals
  <2>2. CASE BumpQueueMax   BY <2>2 DEF BumpQueueMax, totals
  <2>3. CASE TrySend
    <3>1. CASE Len(queue) < QUEUE_CAP
      <4>1. Len(queue') = Len(queue) + 1 /\ apc' = "ok"
        BY <2>3, <3>1 DEF TrySend
      <4>2. /\ apc = "send" /\ UNCHANGED <<queue_depth, accepted>>
            /\ Len(queue) \in Nat
        BY <2>3 DEF TrySend, gauges, totals
      <4>3. Len(queue') <= QUEUE_CAP
        BY <3>1, <4>1, <4>2
      <4>4. Counted = 1 /\ Counted' = 0
        BY <4>1, <4>2
      <4>5. DepthExact'
        BY <4>1, <4>2, <4>4
      <4>6. Conservation'
        BY <4>1, <4>2
      <4>7. QED BY <4>3, <4>5, <4>6
    <3>2. CASE ~(Len(queue) < QUEUE_CAP)
      BY <2>3, <3>2 DEF TrySend, gauges, totals
    <3>3. QED BY <3>1, <3>2
  <2>4. CASE CountAccepted  BY <2>4 DEF CountAccepted, gauges
  <2>5. CASE UndoDepth      BY <2>5 DEF UndoDepth, totals
  <2>6. CASE CountShed      BY <2>6 DEF CountShed, gauges
  <2>7. CASE WriteBusy      BY <2>7 DEF WriteBusy, gauges, totals
  <2>8. QED BY <2>1, <2>2, <2>3, <2>4, <2>5, <2>6, <2>7 DEF AcceptLoop
<1>7. QED BY <1>1, <1>4, <1>6 DEF Counting

\* A step of a worker moves that worker only.
LEMMA Moved ==
    ASSUME TypeOK, NEW w \in Workers, NEW from, NEW to, Goto(w, from, to)
    PROVE  /\ wpc[w] = from /\ wpc'[w] = to
           /\ \A v \in Workers : v # w => wpc'[v] = wpc[v]
  BY DEF Goto, TypeOK

\* A worker outside bump_max leaves the high-water mark as it is.
LEMMA MarksKept ==
    ASSUME Counting, NEW w \in Workers, NEW from, NEW to, Goto(w, from, to),
           from \notin {"load", "cas"}, to \notin {"load", "cas"},
           \A v \in Workers : v # w => now'[v] = now[v] /\ seen'[v] = seen[v],
           in_flight' \in Int, in_flight' <= in_flight,
           in_flight_max' = in_flight_max
    PROVE  CasRaises' /\ MarkPending'
<1>1. /\ wpc[w] = from /\ wpc'[w] = to
      /\ \A v \in Workers : v # w => wpc'[v] = wpc[v]
  BY Moved DEF Counting
<1>2. CasRaises'
  BY <1>1 DEF Counting, CasRaises
<1>3. MarkPending'
  <2>1. CASE in_flight <= in_flight_max
    BY <2>1 DEF Counting, TypeOK, MarkPending
  <2>2. ASSUME NEW v \in Bumping, now[v] >= in_flight PROVE MarkPending'
    <3>1. v \in Workers /\ v # w
      BY <1>1 DEF Bumping
    <3>2. v \in Bumping' /\ now'[v] = now[v]
      BY <1>1, <3>1 DEF Bumping
    <3>3. now[v] \in Int
      BY <3>1 DEF Counting, TypeOK
    <3>4. now'[v] >= in_flight'
      BY <2>2, <3>2, <3>3 DEF Counting, TypeOK
    <3>5. QED BY <3>2, <3>4 DEF MarkPending
  <2>3. QED BY <2>1, <2>2 DEF Counting, MarkPending
<1>4. QED BY <1>2, <1>3

\* The numbers of a state of the invariant are integers.
LEMMA Numbers ==
    ASSUME TypeOK
    PROVE  /\ Len(queue) \in Nat /\ QUEUE_CAP \in Nat
           /\ queue_depth \in Int /\ in_flight \in Int /\ in_flight_max \in Int
           /\ accepted \in Int /\ completed \in Int /\ failed \in Int
           /\ panicked \in Int
           /\ now \in [Workers -> Int] /\ seen \in [Workers -> Int]
           /\ Cardinality(Dequeued) \in Nat /\ Cardinality(InFlight) \in Nat
           /\ Cardinality(Unsettled) \in Nat
<1>1. queue \in Seq(Conns)
  BY DEF TypeOK
<1>2. Len(queue) \in Nat /\ QUEUE_CAP \in Nat
  BY <1>1, CapAssumption
<1>3. /\ Cardinality(Dequeued) \in Nat /\ Cardinality(InFlight) \in Nat
      /\ Cardinality(Unsettled) \in Nat
  BY CardType DEF Dequeued, InFlight, Unsettled
<1>4. QED BY <1>2, <1>3 DEF TypeOK

\* How the three counts follow a worker into and out of their sets.
LEMMA CardStep ==
    ASSUME NEW w \in Workers
    PROVE  /\ Dequeued' = Dequeued =>
                 Cardinality(Dequeued)' = Cardinality(Dequeued)
           /\ Dequeued' = Dequeued \cup {w} /\ w \notin Dequeued =>
                 Cardinality(Dequeued)' = Cardinality(Dequeued) + 1
           /\ Dequeued' = Dequeued \ {w} /\ w \in Dequeued =>
                 Cardinality(Dequeued)' = Cardinality(Dequeued) - 1
           /\ InFlight' = InFlight =>
                 Cardinality(InFlight)' = Cardinality(InFlight)
           /\ InFlight' = InFlight \cup {w} /\ w \notin InFlight =>
                 Cardinality(InFlight)' = Cardinality(InFlight) + 1
           /\ InFlight' = InFlight \ {w} /\ w \in InFlight =>
                 Cardinality(InFlight)' = Cardinality(InFlight) - 1
           /\ Unsettled' = Unsettled =>
                 Cardinality(Unsettled)' = Cardinality(Unsettled)
           /\ Unsettled' = Unsettled \cup {w} /\ w \notin Unsettled =>
                 Cardinality(Unsettled)' = Cardinality(Unsettled) + 1
           /\ Unsettled' = Unsettled \ {w} /\ w \in Unsettled =>
                 Cardinality(Unsettled)' = Cardinality(Unsettled) - 1
<1>1. /\ Dequeued \in SUBSET Workers /\ InFlight \in SUBSET Workers
      /\ Unsettled \in SUBSET Workers
  BY DEF Dequeued, InFlight, Unsettled
<1>2. QED BY <1>1, CardAdd, CardRemove

\* A step of a worker, one action at a time: <2>1 where it goes, <2>2 what it
\* assigns, <2>3 which sets of workers it enters and leaves.
LEMMA CountingWorker ==
    ASSUME Counting, NEW w \in Workers, WorkerStep(w) \/ Handle(w)
    PROVE  Counting'
<1> DEFINE Counts == /\ Len(queue') <= QUEUE_CAP
                     /\ DepthExact' /\ FlightExact' /\ Conservation'
<1>0. TypeOK
  BY DEF Counting
<1>t. TypeOK'
  BY <1>0, TypeNext DEF Next
<1>i. /\ Len(queue) <= QUEUE_CAP /\ DepthExact /\ FlightExact /\ Conservation
      /\ CasRaises /\ MarkPending
  BY DEF Counting
<1>1. CASE Lock(w)
  <2>1. Goto(w, "lock", "recv")
    BY <1>1 DEF Lock
  <2>2. UNCHANGED <<apc, now, seen, queue, queue_depth, in_flight,
                    in_flight_max, accepted, completed, failed, panicked>>
    BY <1>0, <1>1 DEF Lock, acceptVars, gauges, totals
  <2>3. /\ Dequeued' = Dequeued
        /\ InFlight' = InFlight
        /\ Unsettled' = Unsettled
    BY <1>0, <2>1, Moved DEF Dequeued, InFlight, Unsettled
  <2>4. Counts
    BY <1>0, <1>i, <2>2, <2>3, CardStep, Numbers
       DEF DepthExact, FlightExact, Conservation, Counted
  <2>5. CasRaises' /\ MarkPending'
    <3>1. /\ in_flight' \in Int /\ in_flight' <= in_flight
          /\ in_flight_max' = in_flight_max
          /\ \A v \in Workers : v # w => now'[v] = now[v] /\ seen'[v] = seen[v]
      BY <1>0, <2>2, Numbers
    <3>2. QED BY <2>1, <3>1, MarksKept
  <2>6. QED BY <1>t, <2>4, <2>5 DEF Counting
<1>2. CASE Recv(w)
  <2>1. Goto(w, "recv", "dequeued")
    BY <1>2 DEF Recv
  <2>2. /\ UNCHANGED <<apc, now, seen, queue_depth, in_flight,
                       in_flight_max, accepted, completed, failed, panicked>>
        /\ Len(queue') = Len(queue) - 1
    BY <1>0, <1>2 DEF Recv, acceptVars, gauges, totals, TypeOK
  <2>3. /\ Dequeued' = Dequeued \cup {w} /\ w \notin Dequeued
        /\ InFlight' = InFlight
        /\ Unsettled' = Unsettled \cup {w} /\ w \notin Unsettled
    BY <1>0, <2>1, Moved DEF Dequeued, InFlight, Unsettled
  <2>4. Counts
    <3>1. /\ Cardinality(Dequeued)' = Cardinality(Dequeued) + 1
          /\ Cardinality(InFlight)' = Cardinality(InFlight)
          /\ Cardinality(Unsettled)' = Cardinality(Unsettled) + 1
      BY <2>3, CardStep
    <3>2. Len(queue') <= QUEUE_CAP
      BY <1>0, <1>i, <2>2, Numbers
    <3>3. DepthExact'
      <4>1. Counted' = Counted /\ Counted \in Int
        BY <2>2 DEF Counted
      <4>2. queue_depth = Len(queue) + Cardinality(Dequeued) + Counted
        BY <1>i DEF DepthExact
      <4> DEFINE d == Cardinality(Dequeued)
      <4>n. Len(queue) \in Int /\ d \in Int
        BY <1>0, Numbers
      <4>d. d' = d + 1
        BY <3>1
      <4> HIDE DEF d
      <4>3. queue_depth' = Len(queue') + d' + Counted'
        BY <2>2, <4>1, <4>2, <4>n, <4>d DEF d
      <4>4. QED BY <4>3 DEF DepthExact, d
    <3>4. FlightExact'
      BY <1>0, <1>i, <2>2, <3>1, Numbers DEF FlightExact
    <3>5. Conservation'
      <4> DEFINE sent == IF apc = "ok" THEN 1 ELSE 0
      <4>1. sent' = sent /\ sent \in Int
        BY <2>2
      <4>2. accepted + sent =
              completed + failed + panicked + Len(queue) + Cardinality(Unsettled)
        BY <1>i DEF Conservation
      <4> DEFINE u == Cardinality(Unsettled)
      <4>n. /\ Len(queue) \in Int /\ u \in Int /\ accepted \in Int
            /\ completed \in Int /\ failed \in Int /\ panicked \in Int
        BY <1>0, Numbers
      <4>u. u' = u + 1
        BY <3>1
      <4> HIDE DEF sent, u
      <4>3. accepted' + sent' = completed' + failed' + panicked' + Len(queue') + u'
        BY <2>2, <4>1, <4>2, <4>n, <4>u DEF u
      <4>4. QED BY <4>3 DEF Conservation, sent, u
    <3>6. QED BY <3>2, <3>3, <3>4, <3>5
  <2>5. CasRaises' /\ MarkPending'
    <3>1. /\ in_flight' \in Int /\ in_flight' <= in_flight
          /\ in_flight_max' = in_flight_max
          /\ \A v \in Workers : v # w => now'[v] = now[v] /\ seen'[v] = seen[v]
      BY <1>0, <2>2, Numbers
    <3>2. QED BY <2>1, <3>1, MarksKept
  <2>6. QED BY <1>t, <2>4, <2>5 DEF Counting
<1>3. CASE LeaveQueue(w)
  <2>1. Goto(w, "dequeued", "enter")
    BY <1>3 DEF LeaveQueue
  <2>2. /\ queue_depth' = queue_depth - 1
        /\ UNCHANGED <<apc, now, seen, queue, in_flight,
                       in_flight_max, accepted, completed, failed, panicked>>
    BY <1>0, <1>3 DEF LeaveQueue, acceptVars, totals
  <2>3. /\ Dequeued' = Dequeued \ {w} /\ w \in Dequeued
        /\ InFlight' = InFlight
        /\ Unsettled' = Unsettled
    BY <1>0, <2>1, Moved DEF Dequeued, InFlight, Unsettled
  <2>4. Counts
    <3>1. /\ Cardinality(Dequeued)' = Cardinality(Dequeued) - 1
          /\ Cardinality(InFlight)' = Cardinality(InFlight)
          /\ Cardinality(Unsettled)' = Cardinality(Unsettled)
      BY <2>3, CardStep
    <3>2. Len(queue') <= QUEUE_CAP
      BY <1>0, <1>i, <2>2, Numbers
    <3>3. DepthExact'
      <4>1. Counted' = Counted /\ Counted \in Int
        BY <2>2 DEF Counted
      <4>2. queue_depth = Len(queue) + Cardinality(Dequeued) + Counted
        BY <1>i DEF DepthExact
      <4> DEFINE d == Cardinality(Dequeued)
      <4>n. Len(queue) \in Int /\ d \in Int
        BY <1>0, Numbers
      <4>d. d' = d - 1
        BY <3>1
      <4> HIDE DEF d
      <4>3. queue_depth' = Len(queue') + d' + Counted'
        BY <2>2, <4>1, <4>2, <4>n, <4>d DEF d
      <4>4. QED BY <4>3 DEF DepthExact, d
    <3>4. FlightExact'
      BY <1>0, <1>i, <2>2, <3>1, Numbers DEF FlightExact
    <3>5. Conservation'
      <4> DEFINE sent == IF apc = "ok" THEN 1 ELSE 0
      <4>1. sent' = sent /\ sent \in Int
        BY <2>2
      <4>2. accepted + sent =
              completed + failed + panicked + Len(queue) + Cardinality(Unsettled)
        BY <1>i DEF Conservation
      <4> DEFINE u == Cardinality(Unsettled)
      <4>n. /\ Len(queue) \in Int /\ u \in Int /\ accepted \in Int
            /\ completed \in Int /\ failed \in Int /\ panicked \in Int
        BY <1>0, Numbers
      <4>u. u' = u
        BY <3>1
      <4> HIDE DEF sent, u
      <4>3. accepted' + sent' = completed' + failed' + panicked' + Len(queue') + u'
        BY <2>2, <4>1, <4>2, <4>n, <4>u DEF u
      <4>4. QED BY <4>3 DEF Conservation, sent, u
    <3>6. QED BY <3>2, <3>3, <3>4, <3>5
  <2>5. CasRaises' /\ MarkPending'
    <3>1. /\ in_flight' \in Int /\ in_flight' <= in_flight
          /\ in_flight_max' = in_flight_max
          /\ \A v \in Workers : v # w => now'[v] = now[v] /\ seen'[v] = seen[v]
      BY <1>0, <2>2, Numbers
    <3>2. QED BY <2>1, <3>1, MarksKept
  <2>6. QED BY <1>t, <2>4, <2>5 DEF Counting
<1>4. CASE Handle(w)
  <2>1. Goto(w, "handle", "leave")
    BY <1>4 DEF Handle
  <2>2. /\ UNCHANGED <<apc, queue, queue_depth, in_flight,
                       in_flight_max, accepted, completed, failed, panicked>>
        /\ \A v \in Workers : v # w => now'[v] = now[v] /\ seen'[v] = seen[v]
    BY <1>0, <1>4 DEF Handle, acceptVars, gauges, totals, TypeOK
  <2>3. /\ Dequeued' = Dequeued
        /\ InFlight' = InFlight
        /\ Unsettled' = Unsettled
    BY <1>0, <2>1, Moved DEF Dequeued, InFlight, Unsettled
  <2>4. Counts
    BY <1>0, <1>i, <2>2, <2>3, CardStep, Numbers
       DEF DepthExact, FlightExact, Conservation, Counted
  <2>5. CasRaises' /\ MarkPending'
    <3>1. /\ in_flight' \in Int /\ in_flight' <= in_flight
          /\ in_flight_max' = in_flight_max
          /\ \A v \in Workers : v # w => now'[v] = now[v] /\ seen'[v] = seen[v]
      BY <1>0, <2>2, Numbers
    <3>2. QED BY <2>1, <3>1, MarksKept
  <2>6. QED BY <1>t, <2>4, <2>5 DEF Counting
<1>5. CASE LeaveFlight(w)
  <2>1. Goto(w, "leave", "count")
    BY <1>5 DEF LeaveFlight
  <2>2. /\ in_flight' = in_flight - 1
        /\ UNCHANGED <<apc, now, seen, queue, queue_depth,
                       in_flight_max, accepted, completed, failed, panicked>>
    BY <1>0, <1>5 DEF LeaveFlight, acceptVars, totals
  <2>3. /\ Dequeued' = Dequeued
        /\ InFlight' = InFlight \ {w} /\ w \in InFlight
        /\ Unsettled' = Unsettled
    BY <1>0, <2>1, Moved DEF Dequeued, InFlight, Unsettled
  <2>4. Counts
    BY <1>0, <1>i, <2>2, <2>3, CardStep, Numbers
       DEF DepthExact, FlightExact, Conservation, Counted
  <2>5. CasRaises' /\ MarkPending'
    <3>1. /\ in_flight' \in Int /\ in_flight' <= in_flight
          /\ in_flight_max' = in_flight_max
          /\ \A v \in Workers : v # w => now'[v] = now[v] /\ seen'[v] = seen[v]
      BY <1>0, <2>2, Numbers
    <3>2. QED BY <2>1, <3>1, MarksKept
  <2>6. QED BY <1>t, <2>4, <2>5 DEF Counting
<1>6. CASE WriteErr(w)
  <2>1. Goto(w, "err", "lock")
    BY <1>6 DEF WriteErr
  <2>2. UNCHANGED <<apc, now, seen, queue, queue_depth, in_flight,
                    in_flight_max, accepted, completed, failed, panicked>>
    BY <1>0, <1>6 DEF WriteErr, acceptVars, gauges, totals
  <2>3. /\ Dequeued' = Dequeued
        /\ InFlight' = InFlight
        /\ Unsettled' = Unsettled
    BY <1>0, <2>1, Moved DEF Dequeued, InFlight, Unsettled
  <2>4. Counts
    BY <1>0, <1>i, <2>2, <2>3, CardStep, Numbers
       DEF DepthExact, FlightExact, Conservation, Counted
  <2>5. CasRaises' /\ MarkPending'
    <3>1. /\ in_flight' \in Int /\ in_flight' <= in_flight
          /\ in_flight_max' = in_flight_max
          /\ \A v \in Workers : v # w => now'[v] = now[v] /\ seen'[v] = seen[v]
      BY <1>0, <2>2, Numbers
    <3>2. QED BY <2>1, <3>1, MarksKept
  <2>6. QED BY <1>t, <2>4, <2>5 DEF Counting
<1>7. CASE Count(w)
  <2>1. PICK to \in {"lock", "err"} : Goto(w, "count", to)
    BY <1>7 DEF Count
  <2>2. /\ UNCHANGED <<apc, now, seen, queue, queue_depth, in_flight,
                       in_flight_max, accepted>>
        /\ completed' + failed' + panicked' = completed + failed + panicked + 1
    <3>1. UNCHANGED <<apc, now, seen, queue, queue_depth, in_flight,
                      in_flight_max, accepted>>
      BY <1>7 DEF Count, acceptVars, gauges
    <3>2. \/ completed' = completed + 1 /\ failed' = failed /\ panicked' = panicked
          \/ completed' = completed /\ failed' = failed + 1 /\ panicked' = panicked
          \/ completed' = completed /\ failed' = failed /\ panicked' = panicked + 1
      BY <1>7 DEF Count
    <3>3. completed \in Int /\ failed \in Int /\ panicked \in Int
      BY <1>0, Numbers
    <3>4. completed' + failed' + panicked' = completed + failed + panicked + 1
      BY <3>2, <3>3
    <3>5. QED BY <3>1, <3>4
  <2>3. /\ Dequeued' = Dequeued
        /\ InFlight' = InFlight
        /\ Unsettled' = Unsettled \ {w} /\ w \in Unsettled
    BY <1>0, <2>1, Moved DEF Dequeued, InFlight, Unsettled
  <2>t. completed' \in Int /\ failed' \in Int /\ panicked' \in Int
    BY <1>t DEF TypeOK
  <2>4. Counts
    <3>1. /\ Cardinality(Dequeued)' = Cardinality(Dequeued)
          /\ Cardinality(InFlight)' = Cardinality(InFlight)
          /\ Cardinality(Unsettled)' = Cardinality(Unsettled) - 1
      BY <2>3, CardStep
    <3>2. Len(queue') <= QUEUE_CAP
      BY <1>0, <1>i, <2>2, Numbers
    <3>3. DepthExact'
      <4>1. Counted' = Counted /\ Counted \in Int
        BY <2>2 DEF Counted
      <4>2. queue_depth = Len(queue) + Cardinality(Dequeued) + Counted
        BY <1>i DEF DepthExact
      <4> DEFINE d == Cardinality(Dequeued)
      <4>n. Len(queue) \in Int /\ d \in Int
        BY <1>0, Numbers
      <4>d. d' = d
        BY <3>1
      <4> HIDE DEF d
      <4>3. queue_depth' = Len(queue') + d' + Counted'
        BY <2>2, <4>1, <4>2, <4>n, <4>d DEF d
      <4>4. QED BY <4>3 DEF DepthExact, d
    <3>4. FlightExact'
      BY <1>0, <1>i, <2>2, <3>1, Numbers DEF FlightExact
    <3>5. Conservation'
      <4> DEFINE sent == IF apc = "ok" THEN 1 ELSE 0
      <4>1. sent' = sent /\ sent \in Int
        BY <2>2
      <4>2. accepted + sent =
              completed + failed + panicked + Len(queue) + Cardinality(Unsettled)
        BY <1>i DEF Conservation
      <4> DEFINE u == Cardinality(Unsettled)
      <4>n. /\ Len(queue) \in Int /\ u \in Int /\ accepted \in Int
            /\ completed \in Int /\ failed \in Int /\ panicked \in Int
        BY <1>0, Numbers
      <4>u. u' = u - 1
        BY <3>1
      <4> HIDE DEF sent, u
      <4>3. accepted' + sent' = completed' + failed' + panicked' + Len(queue') + u'
        <5> DEFINE done == completed + failed + panicked
        <5>1. done \in Int /\ done' = done + 1
          BY <2>2, <4>n
        <5>2. accepted' = accepted /\ Len(queue') = Len(queue)
          BY <2>2
        <5>3. accepted + sent = done + Len(queue) + u
          BY <4>2 DEF u
        <5> HIDE DEF done
        <5>4. accepted' + sent' = done' + Len(queue') + u'
          BY <4>1, <4>n, <4>u, <5>1, <5>2, <5>3
        <5>5. QED BY <5>4 DEF done
      <4>4. QED BY <4>3 DEF Conservation, sent, u
    <3>6. QED BY <3>2, <3>3, <3>4, <3>5
  <2>5. CasRaises' /\ MarkPending'
    <3>1. /\ in_flight' \in Int /\ in_flight' <= in_flight
          /\ in_flight_max' = in_flight_max
          /\ \A v \in Workers : v # w => now'[v] = now[v] /\ seen'[v] = seen[v]
      BY <1>0, <2>2, Numbers
    <3>2. QED BY <2>1, <3>1, MarksKept
  <2>6. QED BY <1>t, <2>4, <2>5 DEF Counting
<1>8. CASE EnterFlight(w)
  <2>1. Goto(w, "enter", "load")
    BY <1>8 DEF EnterFlight
  <2>2. /\ in_flight' = in_flight + 1
        /\ now' = [now EXCEPT ![w] = in_flight + 1]
        /\ UNCHANGED <<apc, seen, queue, queue_depth,
                       in_flight_max, accepted, completed, failed, panicked>>
    BY <1>8 DEF EnterFlight, acceptVars, totals
  <2>3. /\ Dequeued' = Dequeued
        /\ InFlight' = InFlight \cup {w} /\ w \notin InFlight
        /\ Unsettled' = Unsettled
    BY <1>0, <2>1, Moved DEF Dequeued, InFlight, Unsettled
  <2>4. Counts
    BY <1>0, <1>i, <2>2, <2>3, CardStep, Numbers
       DEF DepthExact, FlightExact, Conservation, Counted
  <2>5. CasRaises'
    <3>1. ASSUME NEW v \in Workers, wpc'[v] = "cas" PROVE now'[v] > seen'[v]
      <4>1. v # w /\ wpc[v] = "cas"
        BY <1>0, <2>1, <3>1, Moved
      <4>2. now'[v] = now[v] /\ seen'[v] = seen[v]
        BY <1>0, <2>2, <4>1, Numbers
      <4>3. QED BY <1>i, <4>1, <4>2 DEF CasRaises
    <3>2. QED BY <3>1 DEF CasRaises
  <2>6. MarkPending'
    <3>1. w \in Bumping'
      BY <1>0, <2>1, Moved DEF Bumping
    <3>2. now'[w] >= in_flight'
      BY <1>0, <2>2, Numbers
    <3>3. QED BY <3>1, <3>2 DEF MarkPending
  <2>7. QED BY <1>t, <2>4, <2>5, <2>6 DEF Counting
<1>9. CASE BumpLoad(w)
  <2>1. PICK to \in {"cas", "handle"} :
            /\ Goto(w, "load", to)
            /\ to = IF now[w] > in_flight_max THEN "cas" ELSE "handle"
    BY <1>9 DEF BumpLoad
  <2>2. /\ seen' = [seen EXCEPT ![w] = in_flight_max]
        /\ UNCHANGED <<apc, now, queue, queue_depth, in_flight,
                       in_flight_max, accepted, completed, failed, panicked>>
    BY <1>9 DEF BumpLoad, acceptVars, gauges, totals
  <2>3. /\ Dequeued' = Dequeued
        /\ InFlight' = InFlight
        /\ Unsettled' = Unsettled
    BY <1>0, <2>1, Moved DEF Dequeued, InFlight, Unsettled
  <2>4. Counts
    BY <1>0, <1>i, <2>2, <2>3, CardStep, Numbers
       DEF DepthExact, FlightExact, Conservation, Counted
  <2>5. CasRaises'
    BY <1>0, <1>i, <2>1, <2>2, Moved, Numbers DEF CasRaises
  <2>6. MarkPending'
    <3>1. CASE in_flight <= in_flight_max
      BY <2>2, <3>1 DEF MarkPending
    <3>2. ASSUME NEW v \in Bumping, now[v] >= in_flight PROVE MarkPending'
      <4>1. /\ v \in Workers /\ now[v] \in Int /\ in_flight \in Int
            /\ in_flight_max \in Int
        BY <1>0, Numbers DEF Bumping
      <4>2. CASE v # w \/ to = "cas"
        <5>1. v \in Bumping'
          BY <1>0, <2>1, <4>1, <4>2, Moved DEF Bumping
        <5>2. QED BY <2>2, <3>2, <5>1 DEF MarkPending
      <4>3. CASE v = w /\ to = "handle"
        <5>1. ~(now[v] > in_flight_max)
          BY <2>1, <4>3
        <5>2. in_flight <= in_flight_max
          BY <3>2, <4>1, <5>1
        <5>3. QED BY <2>2, <5>2 DEF MarkPending
      <4>4. QED BY <4>2, <4>3
    <3>3. QED BY <1>i, <3>1, <3>2 DEF MarkPending
  <2>7. QED BY <1>t, <2>4, <2>5, <2>6 DEF Counting
<1>10. CASE BumpCas(w)
  <2>1. PICK to \in {"cas", "handle"} :
            /\ Goto(w, "cas", to)
            /\ \/ /\ in_flight_max = seen[w] /\ to = "handle"
                  /\ in_flight_max' = now[w] /\ seen' = seen
               \/ /\ to = IF now[w] > in_flight_max THEN "cas" ELSE "handle"
                  /\ seen' = [seen EXCEPT ![w] = in_flight_max]
                  /\ in_flight_max' = in_flight_max
    BY <1>10 DEF BumpCas
  <2>2. UNCHANGED <<apc, now, queue, queue_depth, in_flight,
                    accepted, completed, failed, panicked>>
    BY <1>10 DEF BumpCas, acceptVars, totals
  <2>3. /\ Dequeued' = Dequeued
        /\ InFlight' = InFlight
        /\ Unsettled' = Unsettled
    BY <1>0, <2>1, Moved DEF Dequeued, InFlight, Unsettled
  <2>4. Counts
    BY <1>0, <1>i, <2>2, <2>3, CardStep, Numbers
       DEF DepthExact, FlightExact, Conservation, Counted
  <2>5. CasRaises'
    <3>1. ASSUME NEW v \in Workers, wpc'[v] = "cas" PROVE now'[v] > seen'[v]
      <4>1. CASE v = w
        <5>1. to = "cas"
          BY <1>0, <2>1, <3>1, <4>1, Moved
        <5>2. now[w] > in_flight_max /\ seen' = [seen EXCEPT ![w] = in_flight_max]
          BY <2>1, <5>1
        <5>3. QED BY <1>0, <2>2, <4>1, <5>2, Numbers
      <4>2. CASE v # w
        <5>1. wpc[v] = "cas"
          BY <1>0, <2>1, <3>1, <4>2, Moved
        <5>2. seen'[v] = seen[v]
          BY <1>0, <2>1, <4>2, Numbers
        <5>3. QED BY <1>i, <2>2, <5>1, <5>2 DEF CasRaises
      <4>3. QED BY <4>1, <4>2
    <3>2. QED BY <3>1 DEF CasRaises
  <2>6. MarkPending'
    <3>1. wpc[w] = "cas"
      BY <1>0, <2>1, Moved
    <3>2. in_flight_max' \in Int /\ in_flight_max' >= in_flight_max
      BY <1>0, <1>i, <2>1, <3>1, Numbers DEF CasRaises
    <3>3. CASE in_flight <= in_flight_max
      BY <1>0, <2>2, <3>2, <3>3, Numbers DEF MarkPending
    <3>4. ASSUME NEW v \in Bumping, now[v] >= in_flight PROVE MarkPending'
      <4>1. /\ v \in Workers /\ now[v] \in Int /\ in_flight \in Int
            /\ in_flight_max \in Int
        BY <1>0, Numbers DEF Bumping
      <4>2. now' = now /\ in_flight' = in_flight
        BY <2>2
      <4>3. CASE v # w \/ to = "cas"
        <5>1. v \in Bumping'
          BY <1>0, <2>1, <4>1, <4>3, Moved DEF Bumping
        <5>2. QED BY <3>4, <4>2, <5>1 DEF MarkPending
      <4>4. CASE v = w /\ to = "handle"
        <5>1. in_flight_max' = now[v] \/ ~(now[v] > in_flight_max)
          BY <2>1, <4>4
        <5>2. in_flight <= in_flight_max'
          BY <3>2, <3>4, <4>1, <5>1
        <5>3. QED BY <4>2, <5>2 DEF MarkPending
      <4>5. QED BY <4>3, <4>4
    <3>5. QED BY <1>i, <3>3, <3>4 DEF MarkPending
  <2>7. QED BY <1>t, <2>4, <2>5, <2>6 DEF Counting
<1>11. QED
  BY <1>1, <1>2, <1>3, <1>4, <1>5, <1>6, <1>7, <1>8, <1>9, <1>10
     DEF WorkerStep

\* Every step keeps the invariant.
LEMMA CountingNext == Counting /\ [Next]_vars => Counting'
<1> SUFFICES ASSUME Counting, [Next]_vars PROVE Counting'
  OBVIOUS
<1>1. CASE UNCHANGED vars
  BY <1>1 DEF vars, acceptVars, workerVars, gauges, totals, Counting, TypeOK,
      DepthExact, FlightExact, Conservation, CasRaises, MarkPending, Counted,
      Dequeued, InFlight, Unsettled, Bumping
<1>2. CASE Next
  BY <1>2, CountingAccept, CountingWorker DEF Next
<1>3. QED BY <1>1, <1>2

\* The gauges, totals and marks agree with where the threads are, in every
\* reachable state.
THEOREM CountingCorrect == Spec => []Counting
  BY CountingInit, CountingNext, PTL DEF Spec

-----------------------------------------------------------------------------
\* Neither gauge can wrap below zero or run past what the threads can hold,
\* whatever the number of workers and the capacity of the channel.
THEOREM GaugesCorrect == Spec => []GaugesBounded
<1>1. Counting => GaugesBounded
  <2> SUFFICES ASSUME Counting PROVE GaugesBounded
    OBVIOUS
  <2>1. /\ Cardinality(Dequeued) <= Cardinality(Workers)
        /\ Cardinality(InFlight) <= Cardinality(Workers)
        /\ Cardinality(Workers) \in Nat
    BY CardType DEF Dequeued, InFlight
  <2>2. TypeOK
    BY DEF Counting
  <2>3. Counted \in 0..1
    BY DEF Counted
  <2>4. /\ Len(queue) \in Nat /\ QUEUE_CAP \in Nat
        /\ Cardinality(Dequeued) \in Nat /\ Cardinality(InFlight) \in Nat
    BY <2>2, Numbers
  <2>5. /\ Len(queue) <= QUEUE_CAP /\ DepthExact /\ FlightExact
    BY DEF Counting
  <2>6. QED
    BY <2>1, <2>3, <2>4, <2>5 DEF DepthExact, FlightExact, GaugesBounded
<1>2. QED BY <1>1, CountingCorrect, PTL

\* Every connection the accept loop queued is queued, owned by a worker or
\* counted in exactly one of the three totals.
THEOREM ConservationCorrect == Spec => []Conservation
<1>1. Counting => Conservation
  BY DEF Counting
<1>2. QED BY <1>1, CountingCorrect, PTL

\* Outside bump_max the high-water mark is no lower than in_flight.
THEOREM HighWaterCorrect == Spec => []HighWater
<1>1. Counting => HighWater
  BY DEF Counting, MarkPending, HighWater
<1>2. QED BY <1>1, CountingCorrect, PTL

\* No step lowers the high-water mark.
THEOREM MaxMonotoneCorrect == Spec => MaxMonotone
<1>1. Counting /\ [Next]_vars => [in_flight_max' >= in_flight_max]_in_flight_max
  <2> SUFFICES ASSUME Counting, Next, in_flight_max' # in_flight_max
               PROVE  in_flight_max' >= in_flight_max
    BY DEF vars, gauges
  <2>1. PICK w \in Workers : BumpCas(w)
    BY DEF Next, AcceptLoop, WorkerStep, Accept, BumpQueueMax, TrySend,
           CountAccepted, UndoDepth, CountShed, WriteBusy, Lock, Recv,
           LeaveQueue, EnterFlight, BumpLoad, Handle, LeaveFlight, Count,
           WriteErr, gauges
  <2>2. wpc[w] = "cas" /\ in_flight_max = seen[w] /\ in_flight_max' = now[w]
    BY <2>1 DEF BumpCas, Goto
  <2>3. now[w] > seen[w] /\ TypeOK
    BY <2>2 DEF Counting, CasRaises
  <2>4. QED BY <2>2, <2>3, Numbers
<1>2. QED BY <1>1, CountingCorrect, PTL DEF Spec, MaxMonotone

-----------------------------------------------------------------------------
(* The pool implements PoolContract.  The step from the atomics of the      *)
(* threads to the contract rests on every connection being in one place:    *)
(* with the accept loop, in the channel, with one worker, or answered.      *)

\* Nothing has arrived, nothing is held.
LEMMA PlacedInit == Init => Placed
  BY NoneAssumption
     DEF Init, Placed, HasCur, HasJob, QueuedOnce, OwnedOnce, QueuedOnly,
         OwnedOnly, AnsweredOnly, Queued, Owned

\* A step that moves no connection, and passes no point at which one is taken or
\* let go, keeps every connection in its place.
LEMMA PlaceKept ==
    ASSUME Placed, UNCHANGED <<cur, job, queue, reply>>,
           (apc' \in {"accept", "ok"}) <=> (apc \in {"accept", "ok"}),
           \A w \in Workers : (wpc'[w] \in {"lock", "recv"}) <=> (wpc[w] \in {"lock", "recv"})
    PROVE  Placed'
  BY DEF Placed, HasCur, HasJob, QueuedOnce, OwnedOnce, QueuedOnly, OwnedOnly,
         AnsweredOnly, Queued, Owned

\* The accept loop keeps every connection in its place: a connection it takes is
\* one that nobody has, and it gives it to the channel or answers it.
LEMMA PlacedAccept ==
    ASSUME TypeOK, Placed, AcceptLoop \/ \E c \in Conns : Accept(c)
    PROVE  Placed'
<1>1. ASSUME NEW c \in Conns, Accept(c) PROVE Placed'
  <2>1. /\ cur' = c /\ apc = "accept" /\ apc' = "bump"
        /\ reply[c] = "none" /\ ~Queued(c) /\ ~Owned(c)
        /\ UNCHANGED <<job, wpc, queue, reply>>
    BY <1>1 DEF Accept, Arriving, Queued, Owned, workerVars
  <2>2. \A d \in Conns : (Queued(d)' <=> Queued(d)) /\ (Owned(d)' <=> Owned(d))
    BY <2>1 DEF Queued, Owned
  <2>3. HasCur' /\ HasJob'
    BY <2>1, NoneAssumption DEF Placed, HasCur, HasJob
  <2>4. QueuedOnce' /\ OwnedOnce'
    BY <2>1 DEF Placed, QueuedOnce, OwnedOnce
  <2>5. QueuedOnly' /\ OwnedOnly' /\ AnsweredOnly'
    BY <2>1, <2>2 DEF Placed, QueuedOnly, OwnedOnly, AnsweredOnly
  <2> QED
    BY <2>3, <2>4, <2>5 DEF Placed
<1>2. CASE BumpQueueMax
  BY <1>2, PlaceKept DEF BumpQueueMax, workerVars
<1>3. CASE TrySend
  <2>0. apc = "send" /\ cur \in Conns /\ UNCHANGED <<job, wpc, reply>>
    BY <1>3 DEF TrySend, workerVars, TypeOK
  <2>1. CASE Len(queue) >= QUEUE_CAP /\ apc' = "full" /\ UNCHANGED <<queue, cur>>
    BY <2>0, <2>1, PlaceKept
  <2>2. CASE queue' = Append(queue, cur) /\ cur' = None /\ apc' = "ok"
    <3>1. /\ queue \in Seq(Conns) /\ Len(queue) \in Nat
          /\ Len(queue') = Len(queue) + 1 /\ queue'[Len(queue) + 1] = cur
          /\ \A i \in 1..Len(queue) : queue'[i] = queue[i]
      BY <2>0, <2>2 DEF TypeOK
    <3>2. ~Queued(cur) /\ ~Owned(cur) /\ reply[cur] = "none"
      BY <2>0 DEF Placed, QueuedOnly, OwnedOnly, AnsweredOnly
    <3>3. \A d \in Conns : Queued(d)' <=> Queued(d) \/ d = cur
      BY <3>1 DEF Queued
    <3>4. \A d \in Conns : (Owned(d)' <=> Owned(d)) /\ d # cur'
      BY <2>0, <2>2, NoneAssumption DEF Owned
    <3>5. HasCur' /\ HasJob' /\ OwnedOnce'
      BY <2>0, <2>2 DEF Placed, HasCur, HasJob, OwnedOnce
    <3>6. QueuedOnce'
      <4> SUFFICES ASSUME NEW i \in 1..Len(queue'), NEW j \in 1..Len(queue'),
                          queue'[i] = queue'[j]
                   PROVE  i = j
        BY DEF QueuedOnce
      <4>1. CASE i \in 1..Len(queue) /\ j \in 1..Len(queue)
        BY <3>1, <4>1 DEF Placed, QueuedOnce
      <4>2. CASE i = Len(queue) + 1 /\ j \in 1..Len(queue)
        BY <3>1, <3>2, <4>2 DEF Queued
      <4>3. CASE i \in 1..Len(queue) /\ j = Len(queue) + 1
        BY <3>1, <3>2, <4>3 DEF Queued
      <4> QED
        BY <3>1, <4>1, <4>2, <4>3
    <3>7. QueuedOnly' /\ OwnedOnly' /\ AnsweredOnly'
      BY <2>0, <3>2, <3>3, <3>4 DEF Placed, QueuedOnly, OwnedOnly, AnsweredOnly
    <3> QED
      BY <3>5, <3>6, <3>7 DEF Placed
  <2> QED
    BY <1>3, <2>1, <2>2 DEF TrySend
<1>4. CASE CountAccepted \/ UndoDepth \/ CountShed
  BY <1>4, PlaceKept DEF CountAccepted, UndoDepth, CountShed, workerVars
<1>5. CASE WriteBusy
  <2>1. /\ apc = "busy" /\ apc' = "accept" /\ cur \in Conns /\ cur' = None
        /\ UNCHANGED <<job, wpc, queue>>
    BY <1>5 DEF WriteBusy, workerVars, TypeOK
  <2>2. \A d \in Conns : d # cur => reply'[d] = reply[d]
    BY <1>5, <2>1 DEF WriteBusy, TypeOK
  <2>3. \A d \in Conns : (Queued(d)' <=> Queued(d)) /\ (Owned(d)' <=> Owned(d)) /\ d # cur'
    BY <2>1, NoneAssumption DEF Queued, Owned
  <2>4. ~Queued(cur) /\ ~Owned(cur)
    BY <2>1 DEF Placed, QueuedOnly, OwnedOnly
  <2>5. HasCur' /\ HasJob' /\ QueuedOnce' /\ OwnedOnce'
    BY <2>1 DEF Placed, HasCur, HasJob, QueuedOnce, OwnedOnce
  <2>6. QueuedOnly' /\ OwnedOnly' /\ AnsweredOnly'
    BY <2>1, <2>2, <2>3, <2>4 DEF Placed, QueuedOnly, OwnedOnly, AnsweredOnly
  <2> QED
    BY <2>5, <2>6 DEF Placed
<1> QED
  BY <1>1, <1>2, <1>3, <1>4, <1>5 DEF AcceptLoop
\* A worker keeps every connection in its place: it takes the head of the channel,
\* and lets go of a connection in the step that answers it.
LEMMA PlacedWorker ==
    ASSUME TypeOK, Placed, NEW w \in Workers, WorkerStep(w) \/ Handle(w)
    PROVE  Placed'
<1> USE DEF Goto
<1>0. wpc \in [Workers -> WorkerPC] /\ job \in [Workers -> Conns \cup {None}]
      /\ reply \in [Conns -> Replies] /\ queue \in Seq(Conns)
  BY DEF TypeOK
<1>1. CASE Lock(w)
  BY <1>0, <1>1, PlaceKept DEF Lock, acceptVars
<1>2. CASE LeaveQueue(w) \/ EnterFlight(w) \/ BumpLoad(w) \/ Handle(w) \/ LeaveFlight(w)
  BY <1>0, <1>2, PlaceKept
     DEF LeaveQueue, EnterFlight, BumpLoad, Handle, LeaveFlight, acceptVars
<1>3. CASE BumpCas(w)
  BY <1>0, <1>3, PlaceKept DEF BumpCas, acceptVars
<1>4. CASE Recv(w)
  <2> DEFINE c == Head(queue)
  <2>1. /\ wpc[w] = "recv" /\ wpc' = [wpc EXCEPT ![w] = "dequeued"]
        /\ queue # <<>> /\ job' = [job EXCEPT ![w] = c] /\ queue' = Tail(queue)
        /\ UNCHANGED <<apc, cur, reply>>
    BY <1>4 DEF Recv, acceptVars
  <2>2. /\ Len(queue) \in Nat /\ Len(queue) > 0 /\ c \in Conns /\ c = queue[1]
        /\ Len(queue') = Len(queue) - 1
        /\ \A i \in 1..Len(queue') : queue'[i] = queue[i + 1]
    BY <1>0, <2>1
  <2> HIDE DEF c
  <2>3. Queued(c) /\ c # cur /\ ~Owned(c) /\ reply[c] = "none"
    BY <2>2 DEF Placed, QueuedOnly, AnsweredOnly, Queued
  <2>4. job[w] = None
    BY <2>1 DEF Placed, HasJob
  <2>5. \A d \in Conns : Queued(d)' => Queued(d) /\ d # c
    <3> SUFFICES ASSUME NEW d \in Conns, NEW i \in 1..Len(queue'), queue'[i] = d
                 PROVE  Queued(d) /\ d # c
      BY DEF Queued
    <3>1. i + 1 \in 1..Len(queue) /\ queue[i + 1] = d /\ 1 \in 1..Len(queue) /\ i + 1 # 1
      BY <2>2
    <3> QED
      BY <2>2, <3>1 DEF Queued, Placed, QueuedOnce
  <2>6. \A d \in Conns : Owned(d)' <=> Owned(d) \/ d = c
    BY <1>0, <2>1, <2>4, NoneAssumption DEF Owned
  <2>7. HasCur' /\ HasJob'
    BY <1>0, <2>1, <2>2, NoneAssumption DEF Placed, HasCur, HasJob
  <2>8. QueuedOnce'
    <3> SUFFICES ASSUME NEW i \in 1..Len(queue'), NEW j \in 1..Len(queue'),
                        queue'[i] = queue'[j]
                 PROVE  i = j
      BY DEF QueuedOnce
    <3>1. i + 1 \in 1..Len(queue) /\ j + 1 \in 1..Len(queue) /\ queue[i + 1] = queue[j + 1]
      BY <2>2
    <3>2. i + 1 = j + 1
      BY <3>1 DEF Placed, QueuedOnce
    <3> QED
      BY <3>2
  <2>9. OwnedOnce'
    BY <1>0, <2>1, <2>3 DEF Placed, OwnedOnce, Owned
  <2>10. QueuedOnly' /\ OwnedOnly' /\ AnsweredOnly'
    BY <2>1, <2>3, <2>5, <2>6 DEF Placed, QueuedOnly, OwnedOnly, AnsweredOnly
  <2> QED
    BY <2>7, <2>8, <2>9, <2>10 DEF Placed
<1>5. ASSUME wpc[w] \in {"count", "err"}, wpc' = [wpc EXCEPT ![w] = "lock"],
             job' = [job EXCEPT ![w] = None],
             \A d \in Conns : d # job[w] => reply'[d] = reply[d],
             UNCHANGED <<apc, cur, queue>>
      PROVE  Placed'
  <2>1. job[w] \in Conns /\ Owned(job[w])
    BY <1>0, <1>5 DEF Placed, HasJob, Owned
  <2>2. \A d \in Conns : Queued(d)' <=> Queued(d)
    BY <1>5 DEF Queued
  <2>3. \A d \in Conns : Owned(d)' => Owned(d) /\ d # job[w]
    BY <1>0, <1>5, NoneAssumption DEF Owned, Placed, OwnedOnce
  <2>4. HasCur' /\ HasJob' /\ QueuedOnce'
    BY <1>0, <1>5 DEF Placed, HasCur, HasJob, QueuedOnce
  <2>5. OwnedOnce'
    BY <1>0, <1>5 DEF Placed, OwnedOnce
  <2>6. QueuedOnly' /\ OwnedOnly' /\ AnsweredOnly'
    BY <1>5, <2>1, <2>2, <2>3 DEF Placed, QueuedOnly, OwnedOnly, AnsweredOnly
  <2> QED
    BY <2>4, <2>5, <2>6 DEF Placed
<1>6. CASE Count(w)
  <2>1. CASE res[w] = "failed"
    BY <1>0, <1>6, <2>1, PlaceKept DEF Count, acceptVars
  <2>2. CASE res[w] # "failed"
    BY <1>0, <1>5, <1>6, <2>2 DEF Count, acceptVars
  <2> QED
    BY <2>1, <2>2
<1>7. CASE WriteErr(w)
  BY <1>0, <1>5, <1>7 DEF WriteErr, acceptVars
<1> QED
  BY <1>1, <1>2, <1>3, <1>4, <1>6, <1>7 DEF WorkerStep

\* Every step keeps every connection in its place.
LEMMA PlacedNext == TypeOK /\ Placed /\ [Next]_vars => Placed'
<1> SUFFICES ASSUME TypeOK, Placed, [Next]_vars PROVE Placed'
  OBVIOUS
<1>1. CASE UNCHANGED vars
  BY <1>1, PlaceKept DEF vars, acceptVars, workerVars
<1>2. CASE Next
  BY <1>2, PlacedAccept, PlacedWorker DEF Next
<1> QED
  BY <1>1, <1>2

\* The inductive invariant of the pool: counts agree with where the threads are,
\* and every connection is in one place.
THEOREM InvCorrect == Spec => []IInv
<1>1. Counting => TypeOK
  BY DEF Counting
<1>2. Counting /\ Placed => IInv
  BY DEF IInv
<1> QED
  BY <1>1, <1>2, PlacedInit, PlacedNext, CountingCorrect, PTL DEF Spec

-----------------------------------------------------------------------------
(* The refinement.                                                          *)

\* Nobody waits, runs, was refused or is over at the start.
LEMMA ContractInit == Init => Contract!Init
  BY DEF Init, Contract!Init, Running, Refused, Over, Refusals

\* A step that leaves the contract's variables alone stutters.
LEMMA Stutter ==
    ASSUME UNCHANGED <<queue, job, reply>>, UNCHANGED Refused
    PROVE  UNCHANGED Contract!vars
  BY DEF Contract!vars, Running, Over

\* A worker without a connection leaves a slot free.
LEMMA SlotFree ==
    ASSUME TypeOK, NEW w \in Workers, job[w] = None
    PROVE  Cardinality(Running) < Cardinality(Workers)
<1> DEFINE Busy == {v \in Workers : job[v] # None}
           f    == [v \in Busy |-> job[v]]
<1>1. Busy \in SUBSET Workers /\ IsFiniteSet(Busy) /\ w \notin Busy
  BY CardType
<1>2. f \in Surjection(Busy, Running)
  <2>1. f \in [Busy -> Running] /\ \A r \in Running : \E v \in Busy : f[v] = r
    BY DEF Running
  <2> QED
    BY <2>1 DEF Surjection
<1> HIDE DEF f
<1>3. Cardinality(Running) <= Cardinality(Busy)
  BY <1>1, <1>2, FS_Surjection
<1>4. IsFiniteSet(Running)
  BY <1>1, <1>2, FS_Surjection
<1>5. Cardinality(Busy \cup {w}) = Cardinality(Busy) + 1
  BY <1>1, CardAdd
<1>6. /\ Cardinality(Busy \cup {w}) <= Cardinality(Workers)
      /\ Cardinality(Workers) \in Nat /\ Cardinality(Busy) \in Nat
  BY <1>1, CardType
<1>7. Cardinality(Running) \in Nat
  BY <1>4, FS_CardinalityType
<1> QED
  BY <1>3, <1>5, <1>6, <1>7

\* The accept loop admits a connection, refuses one, or stutters: it is refused when
\* try_send finds the channel full, and stays so while it is told.
LEMMA ContractAccept ==
    ASSUME IInv, AcceptLoop \/ \E c \in Conns : Accept(c)
    PROVE  [Contract!Next]_(Contract!vars)
<1>0. TypeOK /\ Placed /\ Len(queue) <= QUEUE_CAP
  BY DEF IInv, Counting
<1>1. CASE \E c \in Conns : Accept(c)
  <2>1. UNCHANGED <<queue, job, reply>> /\ Refused' = Refused
    BY <1>1 DEF Accept, workerVars, Refused
  <2> QED
    BY <2>1, Stutter
<1>2. CASE BumpQueueMax \/ CountAccepted \/ UndoDepth \/ CountShed
  <2>1. UNCHANGED <<queue, job, reply>> /\ Refused' = Refused
    BY <1>2 DEF BumpQueueMax, CountAccepted, UndoDepth, CountShed, workerVars, Refused
  <2> QED
    BY <2>1, Stutter
<1>3. CASE TrySend
  <2>1. apc = "send" /\ cur \in Conns /\ UNCHANGED <<job, reply>>
    BY <1>0, <1>3 DEF TrySend, workerVars, TypeOK
  <2>2. ~Queued(cur) /\ ~Owned(cur) /\ reply[cur] = "none"
    BY <1>0, <2>1 DEF Placed, QueuedOnly, OwnedOnly, AnsweredOnly
  <2>3. Contract!Fresh(cur)
    BY <2>1, <2>2 DEF Contract!Fresh, Queued, Owned, Running, Refused, Over, Refusals
  <2>4. UNCHANGED <<Running, Over>>
    BY <2>1 DEF Running, Over
  <2>5. CASE Len(queue) < QUEUE_CAP /\ queue' = Append(queue, cur) /\ apc' = "ok"
    <3>1. Refused' = Refused
      BY <2>1, <2>5 DEF Refused
    <3>2. Contract!Admit(cur)
      BY <2>3, <2>4, <2>5, <3>1 DEF Contract!Admit
    <3> QED
      BY <2>1, <3>2 DEF Contract!Next
  <2>6. CASE Len(queue) >= QUEUE_CAP /\ apc' = "full" /\ UNCHANGED <<queue, cur>>
    <3>1. Refused' = Refused \cup {cur}
      BY <2>1, <2>6 DEF Refused
    <3>2. Len(queue) = QUEUE_CAP
      BY <1>0, <2>6, CapAssumption DEF TypeOK
    <3>3. Contract!Refuse(cur)
      BY <2>3, <2>4, <2>6, <3>1, <3>2 DEF Contract!Refuse
    <3> QED
      BY <2>1, <3>3 DEF Contract!Next
  <2> QED
    BY <1>3, <2>5, <2>6 DEF TrySend
<1>4. CASE WriteBusy
  <2>1. /\ apc = "busy" /\ apc' = "accept" /\ cur \in Conns
        /\ UNCHANGED <<queue, job>>
    BY <1>0, <1>4 DEF WriteBusy, workerVars, TypeOK
  <2>2. PICK r \in Refusals : reply' = [reply EXCEPT ![cur] = r]
    BY <1>4 DEF WriteBusy
  <2>3. reply[cur] = "none" /\ reply \in [Conns -> Replies]
    BY <1>0, <2>1 DEF Placed, AnsweredOnly, TypeOK
  <2>4. Refused' = Refused
    BY <2>1, <2>2, <2>3 DEF Refused
  <2>5. Over' = Over
    BY <2>1, <2>2, <2>3 DEF Over
  <2> QED
    BY <2>1, <2>4, <2>5 DEF Contract!vars, Running
<1> QED
  BY <1>1, <1>2, <1>3, <1>4 DEF AcceptLoop

\* A worker starts the head of the line in a free slot, finishes the connection it
\* owns, or stutters.
LEMMA ContractWorker ==
    ASSUME IInv, NEW w \in Workers, WorkerStep(w) \/ Handle(w)
    PROVE  [Contract!Next]_(Contract!vars)
<1> USE DEF Goto
<1>0. /\ TypeOK /\ Placed
      /\ wpc \in [Workers -> WorkerPC] /\ job \in [Workers -> Conns \cup {None}]
      /\ reply \in [Conns -> Replies] /\ queue \in Seq(Conns)
  BY DEF IInv, Counting, TypeOK
<1>1. CASE \/ Lock(w) \/ LeaveQueue(w) \/ EnterFlight(w) \/ BumpLoad(w)
           \/ Handle(w) \/ LeaveFlight(w) \/ BumpCas(w)
  <2>1. UNCHANGED <<queue, job, reply, apc, cur>>
    BY <1>1 DEF Lock, LeaveQueue, EnterFlight, BumpLoad, Handle, LeaveFlight,
                BumpCas, acceptVars
  <2>2. Refused' = Refused
    BY <2>1 DEF Refused
  <2> QED
    BY <2>1, <2>2, Stutter
<1>2. CASE Recv(w)
  <2>1. /\ wpc[w] = "recv" /\ queue # <<>>
        /\ job' = [job EXCEPT ![w] = Head(queue)] /\ queue' = Tail(queue)
        /\ UNCHANGED <<apc, cur, reply>>
    BY <1>2 DEF Recv, acceptVars
  <2>2. job[w] = None /\ Head(queue) \in Conns
    BY <1>0, <2>1 DEF Placed, HasJob
  <2>3. Running' = Running \cup {Head(queue)}
    BY <1>0, <2>1, <2>2, NoneAssumption DEF Running
  <2>4. Refused' = Refused /\ Over' = Over
    BY <2>1 DEF Refused, Over
  <2>5. Cardinality(Running) < Cardinality(Workers)
    BY <1>0, <2>2, SlotFree
  <2>6. Contract!Cardinality(Running) = Cardinality(Running)
    BY DEF Contract!Cardinality, Cardinality
  <2> QED
    BY <2>1, <2>3, <2>4, <2>5, <2>6 DEF Contract!Next, Contract!Start
<1>3. ASSUME wpc[w] \in {"count", "err"}, job' = [job EXCEPT ![w] = None],
             NEW r \in Replies \ (Refusals \cup {"none"}),
             reply' = [reply EXCEPT ![job[w]] = r],
             UNCHANGED <<apc, cur, queue>>
      PROVE  Contract!Next
  <2>1. job[w] \in Conns /\ reply[job[w]] = "none"
    BY <1>0, <1>3 DEF Placed, HasJob, AnsweredOnly, Owned
  <2>2. job[w] \in Running
    BY <2>1, NoneAssumption DEF Running
  <2>3. Running' = Running \ {job[w]}
    BY <1>0, <1>3, <2>1, NoneAssumption DEF Running, Placed, OwnedOnce
  <2>4. Over' = Over \cup {job[w]}
    BY <1>0, <1>3, <2>1 DEF Over
  <2>5. Refused' = Refused
    BY <1>0, <1>3, <2>1 DEF Refused, Refusals
  <2>6. Contract!Finish(job[w])
    BY <1>3, <2>2, <2>3, <2>4, <2>5 DEF Contract!Finish
  <2> QED
    BY <2>1, <2>6 DEF Contract!Next
<1>4. CASE Count(w)
  <2>1. CASE res[w] = "failed"
    <3>1. UNCHANGED <<queue, job, reply, apc, cur>>
      BY <1>4, <2>1 DEF Count, acceptVars
    <3>2. Refused' = Refused
      BY <3>1 DEF Refused
    <3> QED
      BY <3>1, <3>2, Stutter
  <2>2. CASE res[w] = "completed"
    BY <1>3, <1>4, <2>2 DEF Count, acceptVars, Replies, Refusals
  <2>3. CASE res[w] = "panicked"
    BY <1>3, <1>4, <2>3 DEF Count, acceptVars, Replies, Refusals
  <2> QED
    BY <1>4, <2>1, <2>2, <2>3 DEF Count
<1>5. CASE WriteErr(w)
  BY <1>3, <1>5 DEF WriteErr, acceptVars, Replies, Refusals
<1> QED
  BY <1>1, <1>2, <1>4, <1>5 DEF WorkerStep

\* The pool implements the contract: first come first served, refused only when the
\* channel is full, at most one exchange per worker, every connection settled at most
\* once, for every interleaving of the atomics.
THEOREM ContractCorrect == Spec => ImplementsContract
<1>1. IInv /\ [Next]_vars => [Contract!Next]_(Contract!vars)
  <2> SUFFICES ASSUME IInv, [Next]_vars PROVE [Contract!Next]_(Contract!vars)
    OBVIOUS
  <2>1. CASE UNCHANGED vars
    BY <2>1, Stutter DEF vars, acceptVars, workerVars, Refused
  <2>2. CASE Next
    BY <2>2, ContractAccept, ContractWorker DEF Next
  <2> QED
    BY <2>1, <2>2
<1> QED
  BY <1>1, ContractInit, InvCorrect, PTL DEF Spec, ImplementsContract, Contract!Spec
===============================================================================
