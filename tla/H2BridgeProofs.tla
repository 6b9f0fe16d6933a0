----------------------------- MODULE H2BridgeProofs -----------------------------
(***************************************************************************)
(* Theorems about H2Bridge, for every length of the bodies, piece, window, *)
(* credit and limit.                                                       *)
(***************************************************************************)
EXTENDS H2Bridge, TLAPS

USE BoundsAssumption, LimitsAssumption

\* Before anything is sent nothing is held, and nothing has ended.
LEMMA InitInv == Init => IInv
<1> SUFFICES ASSUME Init PROVE IInv
    OBVIOUS
<1>1. headed \in BOOLEAN /\ said \in BOOLEAN /\ up \in BOOLEAN
    BY Zenon DEF Init
<1>2. TypeOK
    BY <1>1 DEF Init, TypeOK
<1>3. InOrder /\ EndKnown /\ DriverEnded /\ FailsForCause
    BY DEF Init, InOrder, EndKnown, DriverEnded, FailsForCause
<1>4. QED
    BY <1>2, <1>3 DEF IInv

\* What the worker takes, forwards and releases, and why its closure returns.
LEMMA WorkerInv == IInv /\ Worker => IInv'
<1> SUFFICES ASSUME IInv, Worker PROVE IInv'
    OBVIOUS
<1> USE DEF IInv, TypeOK, InOrder, EndKnown, DriverEnded, FailsForCause,
            vars, workerVars, wire, written, read, peerVars
<1>1. CASE Setup
    BY <1>1 DEF Setup
<1>2. CASE SetupFails
    BY <1>2 DEF SetupFails
<1>3. CASE SendBody
    BY <1>3 DEF SendBody, Min2
<1>4. CASE SendBodyFails
    BY <1>4 DEF SendBodyFails, Done, Broken
<1>5. CASE BodySent
    BY <1>5 DEF BodySent
<1>6. CASE TakeHead
    BY <1>6 DEF TakeHead, Done
<1>7. ASSUME NEW k \in 1..MaxBody, TakeChunk(k) PROVE IInv'
    BY <1>7 DEF TakeChunk, Done
<1>8. CASE SinkChunk
    BY <1>8 DEF SinkChunk, Done
<1>9. CASE EndOfBody
    BY <1>9 DEF EndOfBody, Done
<1>10. CASE ResponseFails
    BY <1>10 DEF ResponseFails, Done, Broken
<1>11. CASE Join
    BY <1>11 DEF Join
<1>12. QED
    BY <1>1, <1>2, <1>3, <1>4, <1>5, <1>6, <1>7, <1>8, <1>9, <1>10, <1>11 DEF Worker

\* What the driver reads and writes, and why it ends.
LEMMA DriverInv == IInv /\ (Driver \/ DriverDies) => IInv'
<1> SUFFICES ASSUME IInv, Driver \/ DriverDies PROVE IInv'
    OBVIOUS
<1> USE DEF IInv, TypeOK, InOrder, EndKnown, DriverEnded, FailsForCause,
            vars, workerVars, wire, written, read, peerVars
<1>1. CASE Read
  <2>1. headed' \in BOOLEAN
    BY <1>1, Zenon DEF Read
  <2>2. TypeOK'
    BY <1>1, <2>1 DEF Read
  <2>3. (InOrder /\ EndKnown)'
    BY <1>1 DEF Read
  <2>4. (DriverEnded /\ FailsForCause)'
    BY <1>1 DEF Read
  <2>5. QED
    BY <2>2, <2>3, <2>4
<1>2. CASE ReadEnds
    BY <1>2 DEF ReadEnds, AllRead
<1>3. CASE ReadTimesOut
    BY <1>3 DEF ReadTimesOut, AllRead
<1>4. CASE Write
    BY <1>4 DEF Write, HandlesDropped
<1>5. CASE WriteFails
    BY <1>5 DEF WriteFails
<1>6. CASE DriverDies
  <2>1. up' \in BOOLEAN /\ ~up'
    BY <1>6, Zenon DEF DriverDies
  <2>2. QED
    BY <1>6, <2>1 DEF DriverDies
<1>7. QED
    BY <1>1, <1>2, <1>3, <1>4, <1>5, <1>6 DEF Driver

\* What the peer sends, within the window, and how it ends.
LEMMA PeerInv == IInv /\ (Peer \/ Reset \/ Close) => IInv'
<1> SUFFICES ASSUME IInv, Peer \/ Reset \/ Close PROVE IInv'
    OBVIOUS
<1> USE DEF IInv, TypeOK, InOrder, EndKnown, DriverEnded, FailsForCause,
            vars, workerVars, wire, written, read, peerVars
<1>1. CASE Grant
    BY <1>1 DEF Grant
<1>2. CASE Answer
    BY <1>2 DEF Answer
<1>3. CASE SendData
    BY <1>3 DEF SendData
<1>4. CASE EndStream
    BY <1>4 DEF EndStream
<1>5. CASE Reset
    BY <1>5 DEF Reset
<1>6. CASE Close
  <2>1. up' \in BOOLEAN /\ ~up'
    BY <1>6, Zenon DEF Close
  <2>2. QED
    BY <1>6, <2>1 DEF Close
<1>7. QED
    BY <1>1, <1>2, <1>3, <1>4, <1>5, <1>6 DEF Peer

\* No step leaves the inductive invariant.
LEMMA StepInv == IInv /\ [Next]_vars => IInv'
<1> SUFFICES ASSUME IInv, [Next]_vars PROVE IInv'
    OBVIOUS
<1>1. CASE UNCHANGED vars
    BY <1>1 DEF vars, workerVars, wire, written, read, peerVars, IInv, TypeOK, InOrder, EndKnown,
                DriverEnded, FailsForCause
<1>2. CASE Next
    BY <1>2, WorkerInv, DriverInv, PeerInv DEF Next
<1>3. QED
    BY <1>1, <1>2

\* The inductive invariant holds throughout execute (h2_client.rs:92-283).
THEOREM InvCorrect == Spec => []IInv
<1>1. Init => IInv
    BY InitInv
<1>2. IInv /\ [Next]_vars => IInv'
    BY StepInv
<1>3. QED
    BY <1>1, <1>2, PTL DEF Spec

\* Worker, driver and peer stay within their types, and no request byte is sent that
\* the peer does not accept (the send loop, h2_client.rs:219-235).
THEOREM TypeCorrect == Spec => []TypeOK
<1>1. IInv => TypeOK
    BY DEF IInv
<1>2. QED
    BY <1>1, InvCorrect, PTL

\* However slow the relay, the enclave never holds more than a window of the response:
\* capacity is released after the sink has run (h2_client.rs:264-267).
THEOREM BackpressureCorrect == Spec => []Backpressure
<1>1. IInv => Backpressure
    BY DEF IInv, TypeOK, InOrder, Backpressure
<1>2. QED
    BY <1>1, InvCorrect, PTL

\* execute returns Ok only for a response that was ended by its peer, is through the
\* sink, and whose connection ended well (driver.join, h2_client.rs:276-281).
THEOREM OkIsWholeCorrect == Spec => []OkIsWhole
<1>1. IInv => OkIsWhole
    BY DEF IInv, TypeOK, EndKnown, DriverEnded, OkIsWhole
<1>2. QED
    BY <1>1, InvCorrect, PTL

\* A silent peer never makes the stream fail: only a reset or the end of the
\* connection does (BlockingIo, h2_client.rs:25-47).
THEOREM FailsForCauseCorrect == Spec => []FailsForCause
<1>1. IInv => FailsForCause
    BY DEF IInv
<1>2. QED
    BY <1>1, InvCorrect, PTL
=============================================================================
