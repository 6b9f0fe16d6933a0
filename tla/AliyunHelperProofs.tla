-------------------------- MODULE AliyunHelperProofs --------------------------
(***************************************************************************)
(* Proofs about AliyunHelper, for any number of workers and calls.         *)
(***************************************************************************)
EXTENDS AliyunHelper, TLAPS

\* Calls are numbered from 1, so no call is NoCall.
LEMMA CallsAreNat == Calls \subseteq Nat /\ NoCall \notin Calls
  BY MaxCallsAssumption DEF Calls, NoCall

\* Every answer that a goroutine can make is an answer, and only the empty one is
\* Nothing.
LEMMA AnswerTypes ==
    /\ Nothing \in Answers /\ Failure \in Answers /\ Healthy \in Answers
    /\ Failure # Nothing /\ Healthy # Nothing
    /\ Nothing.is = "nothing" /\ Failure.is = "failure" /\ Healthy.is = "healthy"
    /\ NoProof \in Proofs
  BY DEF Nothing, Failure, Healthy, Answers, Answer, NoProof, Proof, Proofs

\* What the vTPM's answer becomes.
LEMMA QuoteTypes ==
    ASSUME NEW c \in Calls, NEW q \in Calls \cup {NoCall}, NEW is \in {"proof", "huge"}
    PROVE  /\ Proof(c, q) \in Proofs
           /\ Answer(is, Proof(c, q)) \in Answers
           /\ Answer(is, Proof(c, q)).is = is
           /\ Answer(is, Proof(c, q)).proof = Proof(c, q)
  BY DEF Answers, Answer, Proof, Proofs

LEMMA TypeInit == Init => TypeOK
  BY AnswerTypes, MaxCallsAssumption DEF Init, TypeOK, Calls

\* Every step of the script, a caller, the helper or a goroutine keeps the types.
LEMMA TypeNext == TypeOK /\ [Next]_vars => TypeOK'
<1> SUFFICES ASSUME TypeOK, [Next]_vars PROVE TypeOK'
  OBVIOUS
<1> USE CallsAreNat, AnswerTypes DEF process, caller, device
<1>1. CASE Listen  BY <1>1 DEF Listen, TypeOK
<1>2. CASE Die     BY <1>2 DEF Die, TypeOK
<1>3. CASE GiveUp  BY <1>3 DEF GiveUp, TypeOK
<1>4. CASE Ready   BY <1>4 DEF Ready, TypeOK
<1>5. ASSUME NEW k \in Kinds, Connect(k) PROVE TypeOK'
  <2>1. made + 1 \in Calls /\ made' = made + 1
    BY <1>5, MaxCallsAssumption DEF Connect, TypeOK, Calls
  <2>2. kind' \in [Calls -> Kinds \cup {"none"}]
    BY <1>5, <2>1 DEF Connect, TypeOK
  <2>3. /\ call' \in [Calls -> Results \cup {"none", "connected", "reading"}]
        /\ srv' \in [Calls -> Goroutine \cup {"none", "backlog", "closed"}]
    BY <1>5, <2>1 DEF Connect, TypeOK, Results
  <2>4. made' \in 0..MaxCalls
    BY <1>5, <2>1, MaxCallsAssumption DEF TypeOK, Connect
  <2>5. ASSUME NEW c \in Calls, c > made'
        PROVE  /\ kind'[c] = "none" /\ call'[c] = "none" /\ srv'[c] = "none"
               /\ resp'[c] = Nothing /\ reply'[c] = Nothing /\ ~request'[c]
    <3>1. c # made + 1 /\ c > made
      BY <2>1, <2>5 DEF TypeOK
    <3>2. QED BY <1>5, <2>1, <3>1 DEF Connect, TypeOK
  <2>6. QED BY <1>5, <2>2, <2>3, <2>4, <2>5 DEF Connect, TypeOK
<1>6. ASSUME NEW c \in Calls, CallerStep(c) PROVE TypeOK'
  <2> USE DEF TypeOK, Return, Results
  <2>1. CASE WriteRequest(c)      BY <2>1 DEF WriteRequest
  <2>2. CASE WriteRequestFails(c) BY <2>2 DEF WriteRequestFails
  <2>3. CASE ReadReply(c)
    <3>1. reply[c].proof \in Proofs
      BY DEF Answers
    <3>2. QED BY <2>3, <3>1 DEF ReadReply
  <2>4. CASE ReadEnd(c)           BY <2>4 DEF ReadEnd
  <2>5. CASE ReadTimesOut(c)      BY <2>5 DEF ReadTimesOut
  <2>6. QED BY <1>6, <2>1, <2>2, <2>3, <2>4, <2>5 DEF CallerStep
<1>7. ASSUME NEW c \in Calls,
             Accept(c) \/ Expire(c) \/ ServerStep(c) \/ Quote(c) \/ QuoteFails(c)
      PROVE  TypeOK'
  <2> USE DEF TypeOK, Go, Goroutine
  <2>1. CASE Accept(c)           BY <2>1 DEF Accept
  <2>2. CASE Expire(c)           BY <2>2 DEF Expire
  <2>3. CASE ReadRequest(c)      BY <2>3 DEF ReadRequest
  <2>4. CASE ReadRequestFails(c) BY <2>4 DEF ReadRequestFails
  <2>5. CASE HandleRequest(c)    BY <2>5 DEF HandleRequest
  <2>6. CASE Lock(c)             BY <2>6 DEF Lock
  <2>7. CASE Reply(c)            BY <2>7 DEF Reply
  <2>8. CASE QuoteFails(c)       BY <2>8 DEF QuoteFails
  <2>9. CASE Quote(c)
    <3>1. PICK is \in {"proof", "huge"} :
                resp' = [resp EXCEPT ![c] = Answer(is, Proof(c, vtpm))]
      BY <2>9 DEF Quote
    <3>2. QED BY <2>9, <3>1, QuoteTypes DEF Quote
  <2>10. QED BY <1>7, <2>1, <2>2, <2>3, <2>4, <2>5, <2>6, <2>7, <2>8, <2>9 DEF ServerStep
<1>8. CASE UNCHANGED vars
  BY <1>8 DEF vars, TypeOK
<1>9. QED
  BY <1>1, <1>2, <1>3, <1>4, <1>5, <1>6, <1>7, <1>8 DEF Next

\* Script, callers, goroutines and vTPM stay within their types.
THEOREM TypeCorrect == Spec => []TypeOK
  BY TypeInit, TypeNext, PTL DEF Spec

-----------------------------------------------------------------------------
(* The inductive invariant.                                                *)

\* Before any call nothing is held, made or closed.
LEMMA InvInit == Init => IInv
<1> SUFFICES ASSUME Init PROVE IInv
  OBVIOUS
<1>1. TypeOK
  BY TypeInit
<1>2. QED
  BY <1>1, AnswerTypes
     DEF Init, IInv, HoldsDevice, OwnAnswer, ClosedForCause, AfterListen,
         ProofIsForCall, ErrorHasCause

\* The script, the start and the end of the helper.  A dead helper is a cause.
LEMMA InvProcess ==
    ASSUME IInv, Listen \/ Die \/ GiveUp \/ Ready
    PROVE  IInv'
<1>1. TypeOK'
  BY TypeNext DEF IInv, Next
<1> USE AnswerTypes DEF IInv, process, caller, device
<1>2. HoldsDevice'
  BY DEF HoldsDevice, Listen, Die, GiveUp, Ready, TypeOK
<1>3. OwnAnswer'
  BY DEF OwnAnswer, Listen, Die, GiveUp, Ready, TypeOK
<1>4. ClosedForCause'
  BY DEF ClosedForCause, Listen, Die, GiveUp, Ready, TypeOK
<1>5. AfterListen'
  <2>1. CASE Listen BY <2>1 DEF AfterListen, Listen, TypeOK
  <2>2. CASE Die BY <2>2 DEF AfterListen, Die, TypeOK
  <2>3. CASE GiveUp BY <2>3 DEF AfterListen, GiveUp, TypeOK
  <2>4. CASE Ready
    <3>1. made \in Calls
      BY <2>4, MaxCallsAssumption DEF Ready, TypeOK, Calls
    <3>2. QED BY <2>4, <3>1 DEF AfterListen, Ready, TypeOK
  <2>5. QED BY <2>1, <2>2, <2>3, <2>4
<1>6. ProofIsForCall'
  BY DEF ProofIsForCall, Listen, Die, GiveUp, Ready
<1>7. ErrorHasCause'
  BY DEF ErrorHasCause, Listen, Die, GiveUp, Ready
<1>8. QED BY <1>1, <1>2, <1>3, <1>4, <1>5, <1>6, <1>7

\* A new call.  The relay calls only a helper that has listened, so that one that
\* refuses is dead.
LEMMA InvConnect ==
    ASSUME IInv, NEW k \in Kinds, Connect(k)
    PROVE  IInv'
<1>1. TypeOK'
  BY TypeNext DEF IInv, Next
<1> USE AnswerTypes DEF IInv, process, caller, device
<1>2. /\ made + 1 \in Calls
      /\ kind[made + 1] = "none" /\ call[made + 1] = "none" /\ srv[made + 1] = "none"
      /\ resp[made + 1] = Nothing /\ reply[made + 1] = Nothing /\ ~request[made + 1]
  BY MaxCallsAssumption DEF Connect, TypeOK, Calls
<1>3. HoldsDevice' /\ OwnAnswer'
  BY <1>2 DEF HoldsDevice, OwnAnswer, Connect, TypeOK
<1>4. ClosedForCause'
  BY <1>2 DEF ClosedForCause, Connect, TypeOK, Results
<1>5. AfterListen'
  BY <1>2 DEF AfterListen, Connect, TypeOK
<1>6. ProofIsForCall'
  BY <1>2 DEF ProofIsForCall, Connect, TypeOK
<1>7. ErrorHasCause'
  BY <1>2 DEF ErrorHasCause, AfterListen, Connect, MayCall, TypeOK
<1>8. QED BY <1>1, <1>3, <1>4, <1>5, <1>6, <1>7

\* A caller's step.  It fails for the cause its connection was closed for.
LEMMA InvCaller ==
    ASSUME IInv, NEW c \in Calls, CallerStep(c)
    PROVE  IInv'
<1>1. TypeOK'
  BY TypeNext DEF IInv, Next
<1> USE AnswerTypes DEF IInv, process, caller, device, CallerStep, Return,
        WriteRequest, WriteRequestFails, ReadReply, ReadEnd, ReadTimesOut, Results
<1>2. HoldsDevice' /\ OwnAnswer'
  BY DEF HoldsDevice, OwnAnswer
<1>4. ClosedForCause'
  BY DEF ClosedForCause, TypeOK
<1>5. AfterListen'
  BY DEF AfterListen, OwnAnswer, TypeOK
<1>6. ProofIsForCall'
  BY DEF ProofIsForCall, OwnAnswer, TypeOK
<1>7. ErrorHasCause'
  <2> USE DEF ErrorHasCause, TypeOK
  <2>1. CASE WriteRequest(c)      BY <2>1
  <2>2. CASE WriteRequestFails(c) BY <2>2 DEF ClosedForCause
  <2>3. CASE ReadReply(c)
    <3>1. reply[c] = resp[c] /\ resp[c].is # "nothing"
      BY <2>3 DEF OwnAnswer
    <3>2. resp[c].is \in {"failure", "healthy", "proof", "huge"}
      BY <3>1 DEF Answers
    <3>3. QED BY <2>3, <3>1, <3>2 DEF OwnAnswer
  <2>4. CASE ReadEnd(c)           BY <2>4 DEF ClosedForCause
  <2>5. CASE ReadTimesOut(c)      BY <2>5
  <2>6. QED BY <2>1, <2>2, <2>3, <2>4, <2>5
<1>8. QED BY <1>1, <1>2, <1>4, <1>5, <1>6, <1>7

\* A goroutine's step, with or without the vTPM.
LEMMA InvServer ==
    ASSUME IInv, NEW c \in Calls,
           Accept(c) \/ Expire(c) \/ ServerStep(c) \/ Quote(c) \/ QuoteFails(c)
    PROVE  IInv'
<1>1. TypeOK'
  BY TypeNext DEF IInv, Next
<1> USE AnswerTypes, CallsAreNat DEF IInv, process, caller, device, Go
<1>2. HoldsDevice'
  BY DEF HoldsDevice, TypeOK, Accept, Expire, ServerStep, Quote, QuoteFails,
         ReadRequest, ReadRequestFails, HandleRequest, Lock, Reply
<1>3. OwnAnswer'
  <2> USE DEF OwnAnswer, TypeOK
  <2>1. CASE Accept(c)           BY <2>1 DEF Accept
  <2>2. CASE Expire(c)           BY <2>2 DEF Expire
  <2>3. CASE ReadRequest(c)      BY <2>3 DEF ReadRequest
  <2>4. CASE ReadRequestFails(c) BY <2>4 DEF ReadRequestFails, AfterListen
  <2>5. CASE HandleRequest(c)    BY <2>5 DEF HandleRequest
  <2>6. CASE Lock(c)             BY <2>6 DEF Lock
  <2>7. CASE Reply(c)            BY <2>7 DEF Reply
  <2>8. CASE QuoteFails(c)       BY <2>8 DEF QuoteFails
  <2>9. CASE Quote(c)
    <3>1. PICK is \in {"proof", "huge"} :
                resp' = [resp EXCEPT ![c] = Answer(is, Proof(c, vtpm))]
      BY <2>9 DEF Quote
    <3>2. QED BY <2>9, <3>1, QuoteTypes DEF Quote, HoldsDevice
  <2>10. QED BY <2>1, <2>2, <2>3, <2>4, <2>5, <2>6, <2>7, <2>8, <2>9 DEF ServerStep
<1>4. ClosedForCause'
  <2> USE DEF ClosedForCause, TypeOK
  <2>1. CASE Accept(c)           BY <2>1 DEF Accept
  <2>2. CASE Expire(c)           BY <2>2 DEF Expire
  <2>3. CASE ReadRequest(c)      BY <2>3 DEF ReadRequest
  <2>4. CASE ReadRequestFails(c) BY <2>4 DEF ReadRequestFails
  <2>5. CASE HandleRequest(c)    BY <2>5 DEF HandleRequest
  <2>6. CASE Lock(c)             BY <2>6 DEF Lock
  <2>7. CASE Reply(c)            BY <2>7 DEF Reply, OwnAnswer
  <2>8. CASE QuoteFails(c)       BY <2>8 DEF QuoteFails
  <2>9. CASE Quote(c)
    <3>1. PICK is \in {"proof", "huge"} :
                resp' = [resp EXCEPT ![c] = Answer(is, Proof(c, vtpm))]
      BY <2>9 DEF Quote
    <3>2. QED BY <2>9, <3>1, QuoteTypes DEF Quote
  <2>10. QED BY <2>1, <2>2, <2>3, <2>4, <2>5, <2>6, <2>7, <2>8, <2>9 DEF ServerStep
<1>5. AfterListen'
  BY DEF AfterListen, TypeOK, Accept, Expire, ServerStep, Quote, QuoteFails,
         ReadRequest, ReadRequestFails, HandleRequest, Lock, Reply, Goroutine
<1>6. ProofIsForCall'
  BY DEF ProofIsForCall, Accept, Expire, ServerStep, Quote, QuoteFails,
         ReadRequest, ReadRequestFails, HandleRequest, Lock, Reply
<1>7. ErrorHasCause'
  <2> USE DEF ErrorHasCause, TypeOK
  <2>1. CASE Accept(c)           BY <2>1 DEF Accept
  <2>2. CASE Expire(c)           BY <2>2 DEF Expire
  <2>3. CASE ReadRequest(c)      BY <2>3 DEF ReadRequest
  <2>4. CASE ReadRequestFails(c) BY <2>4 DEF ReadRequestFails
  <2>5. CASE HandleRequest(c)    BY <2>5 DEF HandleRequest, OwnAnswer
  <2>6. CASE Lock(c)             BY <2>6 DEF Lock
  <2>7. CASE Reply(c)            BY <2>7 DEF Reply
  <2>8. CASE QuoteFails(c)       BY <2>8 DEF QuoteFails
  <2>9. CASE Quote(c)            BY <2>9 DEF Quote, OwnAnswer
  <2>10. QED BY <2>1, <2>2, <2>3, <2>4, <2>5, <2>6, <2>7, <2>8, <2>9 DEF ServerStep
<1>8. QED BY <1>1, <1>2, <1>3, <1>4, <1>5, <1>6, <1>7

\* Every step keeps the invariant.
LEMMA InvNext == IInv /\ [Next]_vars => IInv'
<1> SUFFICES ASSUME IInv, [Next]_vars PROVE IInv'
  OBVIOUS
<1>1. CASE UNCHANGED vars
  BY <1>1 DEF vars, process, caller, device, IInv, TypeOK, HoldsDevice, OwnAnswer,
              ClosedForCause, AfterListen, ProofIsForCall, ErrorHasCause
<1>2. CASE Next
  BY <1>2, InvProcess, InvConnect, InvCaller, InvServer DEF Next
<1>3. QED BY <1>1, <1>2

\* The inductive invariant holds of every behaviour: mutex and vTPM go together,
\* answers stay with their calls, connections close for a cause.
THEOREM InvCorrect == Spec => []IInv
  BY InvInit, InvNext, PTL DEF Spec

\* Whatever the interleaving of callers, goroutines, deadlines and the end of the
\* helper, a proof is returned only to the call whose exchange it is about.
THEOREM ProofIsForCallCorrect == Spec => []ProofIsForCall
<1>1. IInv => ProofIsForCall
  BY DEF IInv
<1>2. QED BY <1>1, InvCorrect, PTL

\* A complete request fails only because the helper died, a deadline passed, or the
\* quote failed or is too large.
THEOREM ErrorHasCauseCorrect == Spec => []ErrorHasCause
<1>1. IInv => ErrorHasCause
  BY DEF IInv
<1>2. QED BY <1>1, InvCorrect, PTL
=============================================================================
