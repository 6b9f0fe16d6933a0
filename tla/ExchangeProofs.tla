---------------------------- MODULE ExchangeProofs ----------------------------
(***************************************************************************)
(* Theorems about Exchange, for every value of its constants: the type     *)
(* invariant, and that a proof which reached the relay is over exactly the *)
(* bytes the relay was sent, in the upstream's order, and over all of them *)
(* when the upstream marked where its body ends; then the response cap,    *)
(* the framing of the control stream, that a trailer and Ok go together,   *)
(* and that the exchange implements Observation.                           *)
(***************************************************************************)
EXTENDS Exchange, TLAPS

FrameType == [kind : Kinds, piece : Pieces, cut : Cuts]

\* A frame built by Frame is one of the control stream's frames.
LEMMA FrameTyped ==
    ASSUME NEW kind \in Kinds, NEW piece \in Pieces, NEW cut \in Cuts
    PROVE  Frame(kind, piece, cut) \in FrameType
BY DEF Frame, FrameType

\* The empty piece is a piece.
LEMMA NoPieceTyped == NoPiece \in Pieces
BY DEF NoPiece, Pieces

\* What write_frame leaves of the control stream is still a sequence of frames,
\* and handle() is at one of its steps.
LEMMA WriteTyped ==
    ASSUME out \in Seq(FrameType), NEW kind \in Kinds, NEW piece \in Pieces,
           NEW to \in Steps, WriteFrame(kind, piece, to)
    PROVE  out' \in Seq(FrameType) /\ pc' \in Steps
<1>1. \A cut \in Cuts : Append(out, Frame(kind, piece, cut)) \in Seq(FrameType)
  <2>1. TAKE cut \in Cuts
  <2>2. Frame(kind, piece, cut) \in FrameType
    BY <2>1, FrameTyped
  <2> QED
    BY <2>2
<1>2. "err" \in Steps /\ {"whole", "lost", "torn"} = Cuts
  BY DEF Steps, Cuts
<1>3. CASE out' = Append(out, Frame(kind, piece, "whole")) /\ pc' = to
  BY <1>1, <1>2, <1>3
<1>4. CASE \E cut \in {"lost", "torn"} :
              out' = Append(out, Frame(kind, piece, cut)) /\ Fail
  <2>1. PICK cut \in {"lost", "torn"} :
              out' = Append(out, Frame(kind, piece, cut)) /\ Fail
    BY <1>4
  <2> QED
    BY <1>1, <1>2, <2>1 DEF Fail
<1> QED
  BY <1>3, <1>4 DEF WriteFrame

\* The sink keeps the types.
LEMMA SinkTyped ==
    ASSUME TypeOK, NEW k \in Nat, NEW to \in Steps, Sink(k, to)
    PROVE  /\ out' \in Seq(FrameType) /\ pc' \in Steps
           /\ hashed' \in Seq(Pieces) /\ pos' \in Nat
<1> DEFINE piece == <<pos + 1, pos + k>>
<1>1. pos \in Nat /\ hashed \in Seq(Pieces) /\ out \in Seq(FrameType)
  BY DEF TypeOK, FrameType
<1>2. piece \in Pieces
  BY <1>1 DEF Pieces
<1>3. hashed' = Append(hashed, piece) /\ pos' = pos + k
      /\ WriteFrame("RESP_CHUNK", piece, to)
  BY DEF Sink
<1> HIDE DEF piece
<1>4. "RESP_CHUNK" \in Kinds
  BY DEF Kinds
<1>5. out' \in Seq(FrameType) /\ pc' \in Steps
  BY <1>1, <1>2, <1>3, <1>4, WriteTyped
<1> QED
  BY <1>1, <1>2, <1>3, <1>5

\* The initial states are well typed.
LEMMA TypeInit == Init => TypeOK
BY DEF Init, TypeOK, Steps, Pieces

\* A step that moves pc only keeps the types.
LEMMA StepTyped ==
    ASSUME TypeOK, NEW from, NEW to \in Steps, Step(from, to)
    PROVE  TypeOK'
BY DEF TypeOK, Step, given

\* Every named step is one.
LEMMA StepNames ==
    /\ {"head", "body", "validate", "connect", "tls", "send", "resp_head",
        "stream", "chunk", "plain", "h2", "join", "finish", "trailer", "err",
        "ok", "failed", "panicked"} \subseteq Steps
    /\ {"RESP_HEAD", "RESP_CHUNK", "proof", "proof_unavailable", "ERR"} \subseteq Kinds
BY DEF Steps, Ends, Kinds

\* An action of handle() that writes one frame, or none, and counts keeps the
\* types.
LEMMA TypeFrom ==
    ASSUME TypeOK, UNCHANGED given,
           out' \in Seq(FrameType), pc' \in Steps,
           hashed' \in Seq(Pieces), stmt' \in Seq(Pieces),
           pos' \in Nat, total' \in Nat, need' \in Nat, line' \in Nat,
           resp_bytes_total' \in Nat, nsm_calls' \in Nat
    PROVE  TypeOK'
BY DEF TypeOK, given, FrameType

\* The request and egress steps keep the types.
LEMMA TypeFront ==
    ASSUME TypeOK, Request \/ Egress
    PROVE  TypeOK'
<1>1. CASE Request
  BY <1>1, StepTyped, StepNames DEF Request, ReadReqHead, ReadReqBody, Validate
<1>2. CASE ConnectEgress \/ Handshake \/ SendRequest \/ NoResponseHead
  BY <1>2, StepTyped, StepNames
     DEF ConnectEgress, Handshake, SendRequest, NoResponseHead
<1>3. CASE WriteRespHead
  <2> DEFINE to == CASE up.framing = "chunked" -> "chunk"
                     [] up.framing = "h2"      -> "h2"
                     [] OTHER                  -> "stream"
  <2>1. to \in Steps
    BY StepNames
  <2>2. WriteFrame("RESP_HEAD", NoPiece, to)
    BY <1>3 DEF WriteRespHead
  <2> HIDE DEF to
  <2>3. out \in Seq(FrameType) /\ "RESP_HEAD" \in Kinds
    BY StepNames DEF TypeOK, FrameType
  <2>4. out' \in Seq(FrameType) /\ pc' \in Steps
    BY <2>1, <2>2, <2>3, WriteTyped, NoPieceTyped
  <2> QED
    BY <1>3, <2>4, TypeFrom DEF WriteRespHead, TypeOK
<1> QED
  BY <1>1, <1>2, <1>3 DEF Egress

\* The chunked decoder keeps the types, wrapping included.
LEMMA TypeChunked ==
    ASSUME TypeOK, Chunked
    PROVE  TypeOK'
<1> USE SizesAssumption
<1>1. CASE \E s \in 1..MaxBody \cup OddSizes : ChunkSize(s)
  <2>1. PICK s \in 1..MaxBody \cup OddSizes : ChunkSize(s)
    BY <1>1
  <2>2. s \in Nat /\ total \in Nat /\ USIZE \in Nat /\ USIZE > 0
    BY DEF TypeOK
  <2>3. (total + s) % USIZE \in Nat
    BY <2>2
  <2>4. total' \in Nat
    BY <2>1, <2>3 DEF ChunkSize
  <2>5. need' \in Nat /\ pc' \in Steps
    BY <2>1, <2>2, StepNames DEF ChunkSize, Fail, TypeOK
  <2> QED
    BY <2>1, <2>4, <2>5, TypeFrom DEF ChunkSize, TypeOK, FrameType
<1>2. CASE LastChunk \/ ReadFails("chunk")
  BY <1>2, StepTyped, StepNames DEF LastChunk, ReadFails
<1>3. CASE ChunkBody
  <2>1. \E k \in Nat : Sink(k, "chunk")
    <3>1. CASE Sink(need, "chunk")
      BY <3>1 DEF TypeOK
    <3>2. CASE \E k \in ((need + 2) % USIZE)..(up.n - pos) : Sink(Min2(need, k), "chunk")
      <4>1. PICK k \in ((need + 2) % USIZE)..(up.n - pos) : Sink(Min2(need, k), "chunk")
        BY <3>2
      <4>2. need \in Nat /\ (need + 2) % USIZE \in Nat /\ up.n - pos \in Int
        BY DEF TypeOK, Upstreams
      <4>3. Min2(need, k) \in Nat
        BY <4>1, <4>2 DEF Min2
      <4> QED
        BY <4>1, <4>3
    <3> QED
      BY <1>3, <3>1, <3>2 DEF ChunkBody
  <2>2. PICK k \in Nat : Sink(k, "chunk")
    BY <2>1
  <2>3. /\ out' \in Seq(FrameType) /\ pc' \in Steps
        /\ hashed' \in Seq(Pieces) /\ pos' \in Nat
    BY <2>2, SinkTyped, StepNames
  <2> QED
    BY <1>3, <2>3, TypeFrom DEF ChunkBody, TypeOK
<1>4. CASE ChunkCutShort
  <2>1. PICK k \in 0..(up.n - pos) : Sink(Min2(need, k), "err")
    BY <1>4 DEF ChunkCutShort
  <2>2. Min2(need, k) \in Nat
    BY DEF Min2, TypeOK
  <2>3. /\ out' \in Seq(FrameType) /\ pc' \in Steps
        /\ hashed' \in Seq(Pieces) /\ pos' \in Nat
    BY <2>1, <2>2, SinkTyped, StepNames
  <2> QED
    BY <1>4, <2>3, TypeFrom DEF ChunkCutShort, TypeOK
<1>5. CASE ReadSizeLine
  <2>1. line' \in Nat
    BY <1>5 DEF ReadSizeLine, TypeOK
  <2> QED
    BY <1>5, <2>1 DEF ReadSizeLine, TypeOK, given
<1> QED
  BY <1>1, <1>2, <1>3, <1>4, <1>5 DEF Chunked

\* What a step that may call the sink does to the frames, the hash and pc.
Moves ==
    \/ UNCHANGED <<pos, hashed, out>> /\ pc' \in Steps
    \/ \E k \in Nat, to \in Steps : Sink(k, to)

\* Such a step keeps the types when its counters do.
LEMMA MovesTyped ==
    ASSUME TypeOK, Moves, total' \in Nat,
           UNCHANGED <<given, line, need, stmt, resp_bytes_total, nsm_calls>>
    PROVE  TypeOK'
<1>1. /\ out' \in Seq(FrameType) /\ pc' \in Steps
      /\ hashed' \in Seq(Pieces) /\ pos' \in Nat
  <2>1. CASE UNCHANGED <<pos, hashed, out>> /\ pc' \in Steps
    BY <2>1 DEF TypeOK, FrameType
  <2>2. CASE \E k \in Nat, to \in Steps : Sink(k, to)
    BY <2>2, SinkTyped
  <2> QED
    BY <2>1, <2>2 DEF Moves
<1> QED
  BY <1>1, TypeFrom DEF TypeOK

\* The plain reader keeps the types.
LEMMA TypePlain ==
    ASSUME TypeOK, Plain
    PROVE  TypeOK'
<1> USE SizesAssumption
<1>0. pos \in Nat /\ total \in Nat /\ up.n \in Nat /\ {"plain", "err"} \subseteq Steps
  BY StepNames DEF TypeOK, Upstreams
<1>1. ASSUME NEW k \in 0..(MaxBody + MaxExcess), LengthInitial(k)
      PROVE  TypeOK'
  <2>1. Min2(k, up.n) \in Nat
    BY <1>0 DEF Min2
  <2>2. Moves /\ total' \in Nat
    BY <1>0, <1>1, <2>1 DEF LengthInitial, Moves, Fail
  <2> QED
    BY <1>1, <2>2, MovesTyped DEF LengthInitial
<1>2. ASSUME NEW k \in 0..(MaxBody + MaxExcess), CloseInitial(k)
      PROVE  TypeOK'
  <2>1. Moves /\ total' \in Nat
    BY <1>0, <1>2 DEF CloseInitial, Moves, Fail
  <2> QED
    BY <1>2, <2>1, MovesTyped DEF CloseInitial
<1>3. ASSUME NEW k \in 0..(MaxBody + MaxExcess), LengthRead(k)
      PROVE  TypeOK'
  <2>1. Moves /\ total' \in Nat
    BY <1>0, <1>3 DEF LengthRead, Moves
  <2> QED
    BY <1>3, <2>1, MovesTyped DEF LengthRead
<1>4. ASSUME NEW k \in 0..(MaxBody + MaxExcess), CloseRead(k)
      PROVE  TypeOK'
  <2>1. Moves /\ total' \in Nat
    BY <1>0, <1>4 DEF CloseRead, Moves, Fail
  <2> QED
    BY <1>4, <2>1, MovesTyped DEF CloseRead
<1>5. CASE LengthReached \/ CloseEof \/ PlainReadFails
  BY <1>5, StepTyped, StepNames DEF LengthReached, CloseEof, PlainReadFails, ReadFails
<1> QED
  BY <1>1, <1>2, <1>3, <1>4, <1>5 DEF Plain

\* The h2 reader keeps the types.
LEMMA TypeH2 ==
    ASSUME TypeOK, H2
    PROVE  TypeOK'
<1>1. ASSUME NEW k \in 0..MaxBody, H2Data(k)
      PROVE  TypeOK'
  <2>1. k \in Nat /\ total \in Nat /\ {"h2", "err"} \subseteq Steps
    BY SizesAssumption, StepNames DEF TypeOK
  <2>2. Moves /\ total' \in Nat
    BY <1>1, <2>1 DEF H2Data, Moves, Fail
  <2> QED
    BY <1>1, <2>2, MovesTyped DEF H2Data
<1>2. CASE H2End \/ H2Join \/ ReadFails("h2")
  BY <1>2, StepTyped, StepNames DEF H2End, H2Join, ReadFails
<1> QED
  BY <1>1, <1>2 DEF H2

\* The trailer, the worker's ERR frame and a panic keep the types.
LEMMA TypeEnd ==
    ASSUME TypeOK, Trailer \/ Panic
    PROVE  TypeOK'
<1>0. out \in Seq(FrameType) /\ "ok" \in Steps
  BY StepNames DEF TypeOK, FrameType
<1>1. CASE Finish
  BY <1>1, StepNames DEF Finish, TypeOK, given
<1>2. CASE ProofUnavailable
  <2>1. out' \in Seq(FrameType) /\ pc' \in Steps
    BY <1>0, <1>2, WriteTyped, NoPieceTyped, StepNames DEF ProofUnavailable
  <2> QED
    BY <1>2, <2>1, TypeFrom DEF ProofUnavailable, TypeOK
<1>3. CASE WriteProof
  <2>1. out' \in Seq(FrameType) /\ pc' \in Steps
    BY <1>0, <1>3, WriteTyped, NoPieceTyped, StepNames DEF WriteProof
  <2>2. stmt' \in Seq(Pieces) /\ nsm_calls' \in Nat
    BY <1>3 DEF WriteProof, TypeOK
  <2> QED
    BY <1>3, <2>1, <2>2, TypeFrom DEF WriteProof, TypeOK
<1>4. CASE WriteErr
  <2>1. PICK cut \in Cuts : out' = Append(out, Frame("ERR", NoPiece, cut))
    BY <1>4 DEF WriteErr
  <2>2. Frame("ERR", NoPiece, cut) \in FrameType
    BY FrameTyped, NoPieceTyped, StepNames
  <2>3. out' \in Seq(FrameType) /\ pc' \in Steps
    BY <1>0, <1>4, <2>1, <2>2, StepNames DEF WriteErr
  <2> QED
    BY <1>4, <2>3, TypeFrom DEF WriteErr, TypeOK
<1>5. CASE Panic
  BY <1>5, StepTyped, StepNames DEF Panic
<1> QED
  BY <1>1, <1>2, <1>3, <1>4, <1>5 DEF Trailer

\* Every step keeps the types.
LEMMA TypeNext == TypeOK /\ [Next]_vars => TypeOK'
<1> SUFFICES ASSUME TypeOK, [Next]_vars PROVE TypeOK'
  OBVIOUS
<1>1. CASE UNCHANGED vars
  BY <1>1 DEF vars, given, TypeOK
<1>2. CASE Next
  BY <1>2, TypeFront, TypeChunked, TypePlain, TypeH2, TypeEnd DEF Next
<1> QED
  BY <1>1, <1>2

\* Type correctness of the exchange, wrapped chunk sizes included.
THEOREM TypeCorrect == Spec => []TypeOK
BY TypeInit, TypeNext, PTL DEF Spec

-----------------------------------------------------------------------------
(* The inductive invariant.  Its parts are shown for the three ways a step  *)
(* can touch the frames: not at all, through the sink, or with the head,    *)
(* the trailer or the ERR frame.                                            *)

\* The parts that say what was written and hashed.
FrameParts ==
    /\ NothingYet
    /\ InStep
    /\ ReadTo
    /\ NoProofYet
    /\ ForwardedInOrder
    /\ SignedIsForwarded

\* A step that writes and hashes nothing keeps them.
LEMMA MoveKeeps ==
    ASSUME Signing, pc # "ok", pc' # "ok",
           UNCHANGED <<given, pos, hashed, out, stmt>>,
           pc' \in Before => pc \in Before /\ total' = total,
           pc' \in Streaming => pc \in Streaming
    PROVE  FrameParts'
<1>1. ~Attested /\ ~Attested'
  BY DEF Signing, NoProofYet, Attested
<1>2. NothingYet'
  BY DEF Signing, NothingYet
<1>3. InStep'
  BY DEF Signing, InStep, Forwarded
<1>4. ReadTo'
  BY DEF Signing, ReadTo, Sunk
<1>5. ForwardedInOrder'
  BY DEF Signing, ForwardedInOrder
<1>6. SignedIsForwarded' /\ NoProofYet'
  BY <1>1 DEF SignedIsForwarded, NoProofYet
<1> QED
  BY <1>2, <1>3, <1>4, <1>5, <1>6 DEF FrameParts

\* A frame that is not a proof leaves the exchange unattested.
LEMMA NotAProof ==
    ASSUME out \in Seq(FrameType), NEW kind \in Kinds \ {"proof"},
           NEW piece \in Pieces, NEW cut \in Cuts,
           out' = Append(out, Frame(kind, piece, cut))
    PROVE  ~Attested'
<1>1. Len(out') = Len(out) + 1 /\ out'[Len(out')] = Frame(kind, piece, cut)
  BY DEF Frame
<1> QED
  BY <1>1 DEF Attested, Frame

\* The sink, called while the body streams, keeps the frame parts: the piece it
\* hashes starts where the last one ended, and is the one it writes.
LEMMA SinkKeeps ==
    ASSUME Signing, NEW k \in Nat, NEW to \in {"chunk", "plain", "h2", "err"},
           pc \in Streaming, Sink(k, to), UNCHANGED <<given, stmt>>
    PROVE  FrameParts'
<1> DEFINE piece == <<pos + 1, pos + k>>
<1>1. /\ pos \in Nat /\ hashed \in Seq(Pieces) /\ out \in Seq(FrameType)
      /\ Len(out) \in Nat /\ Len(hashed) \in Nat
  BY DEF Signing, TypeOK, FrameType
<1>2. piece \in Pieces /\ piece[1] = pos + 1 /\ piece[2] = pos + k
  BY <1>1 DEF Pieces
<1>3. /\ hashed' = Append(hashed, piece) /\ pos' = pos + k
      /\ WriteFrame("RESP_CHUNK", piece, to)
  BY DEF Sink
<1> HIDE DEF piece
<1>4. /\ Len(hashed') = Len(hashed) + 1
      /\ hashed'[Len(hashed) + 1] = piece
      /\ \A i \in 1..Len(hashed) : hashed'[i] = hashed[i]
  BY <1>1, <1>2, <1>3
<1>5. PICK cut \in Cuts :
          /\ out' = Append(out, Frame("RESP_CHUNK", piece, cut))
          /\ \/ cut = "whole" /\ pc' = to
             \/ pc' = "err"
  BY <1>3 DEF WriteFrame, Fail, Cuts
<1>6. ~Attested'
  <2>1. "RESP_CHUNK" \in Kinds \ {"proof"}
    BY DEF Kinds
  <2> QED
    BY <1>1, <1>2, <1>5, <2>1, NotAProof
<1>7. pc' \in {"chunk", "plain", "h2", "err"}
  BY <1>5
<1>8. NothingYet'
  BY <1>7 DEF NothingYet, Before
<1>9. InStep'
  <2> SUFFICES ASSUME pc' \in Streaming
               PROVE  Len(out') = Len(hashed') + 1 /\ Forwarded(hashed)'
    BY DEF InStep
  <2>1. cut = "whole"
    BY <1>5 DEF Streaming
  <2>2. Len(out) = Len(hashed) + 1 /\ Forwarded(hashed)
    BY DEF Signing, InStep
  <2>3. /\ Len(out') = Len(out) + 1
        /\ out'[Len(out) + 1] = Frame("RESP_CHUNK", piece, "whole")
        /\ \A i \in 1..Len(out) : out'[i] = out[i]
    <3>1. Frame("RESP_CHUNK", piece, "whole") \in FrameType
      BY <1>2, FrameTyped, StepNames DEF Cuts
    <3> QED
      BY <1>1, <1>5, <2>1, <3>1
  <2>4. out'[1] = Frame("RESP_HEAD", NoPiece, "whole")
    BY <1>1, <2>2, <2>3 DEF Forwarded
  <2>5. ASSUME NEW i \in 1..Len(hashed')
        PROVE  out'[i + 1] = Frame("RESP_CHUNK", hashed'[i], "whole")
    <3>1. CASE i = Len(hashed) + 1
      BY <1>1, <1>4, <2>2, <2>3, <3>1
    <3>2. CASE i \in 1..Len(hashed)
      <4>1. out[i + 1] = Frame("RESP_CHUNK", hashed[i], "whole")
        BY <2>2, <3>2 DEF Forwarded
      <4>2. out'[i + 1] = out[i + 1] /\ hashed'[i] = hashed[i]
        BY <1>1, <1>4, <2>2, <2>3, <3>2
      <4> QED
        BY <4>1, <4>2
    <3> QED
      BY <1>1, <1>4, <3>1, <3>2
  <2> QED
    BY <1>1, <1>4, <2>2, <2>3, <2>4, <2>5 DEF Forwarded
<1>10. ReadTo'
  <2>1. hashed' # <<>>
    BY <1>1, <1>4
  <2> QED
    BY <1>2, <1>3, <1>4, <2>1 DEF ReadTo, Sunk
<1>11. ForwardedInOrder'
  <2>1. Sunk(hashed) = pos /\ ForwardedInOrder
    BY DEF Signing, ReadTo
  <2>2. Len(hashed) = 0 => pos = 0
    BY <1>1, <2>1 DEF Sunk
  <2>3. Len(hashed) > 0 => hashed[Len(hashed)][2] = pos
    BY <1>1, <2>1 DEF Sunk
  <2> SUFFICES ASSUME NEW i \in 1..Len(hashed')
               PROVE  hashed'[i][1] = IF i = 1 THEN 1 ELSE hashed'[i - 1][2] + 1
    BY DEF ForwardedInOrder
  <2>4. CASE i = Len(hashed) + 1
    <3>1. CASE Len(hashed) = 0
      BY <1>2, <1>4, <2>2, <2>4, <3>1
    <3>2. CASE Len(hashed) > 0
      BY <1>1, <1>2, <1>4, <2>3, <2>4, <3>2
    <3> QED
      BY <1>1, <3>1, <3>2
  <2>5. CASE i \in 1..Len(hashed)
    <3>1. hashed[i][1] = IF i = 1 THEN 1 ELSE hashed[i - 1][2] + 1
      BY <2>1, <2>5 DEF ForwardedInOrder
    <3>2. hashed'[i] = hashed[i] /\ (i # 1 => hashed'[i - 1] = hashed[i - 1])
      BY <1>1, <1>4, <2>5
    <3> QED
      BY <3>1, <3>2
  <2> QED
    BY <1>1, <1>4, <2>4, <2>5
<1> QED
  BY <1>6, <1>8, <1>9, <1>10, <1>11 DEF FrameParts, NoProofYet, SignedIsForwarded

\* Initially nothing was read, hashed or written.
LEMMA SigningInit == Init => Signing
<1> SUFFICES ASSUME Init PROVE Signing
  OBVIOUS
<1>1. TypeOK
  BY TypeInit
<1>2. pc = "head" /\ out = <<>> /\ hashed = <<>> /\ total = 0 /\ pos = 0
  BY DEF Init
<1>3. NothingYet /\ InStep /\ LengthRun /\ EndReached
  BY <1>2 DEF NothingYet, InStep, LengthRun, EndReached, Streaming, Over
<1>4. ReadTo /\ ForwardedInOrder
  BY <1>2 DEF ReadTo, Sunk, ForwardedInOrder
<1>5. ~Attested
  BY <1>2 DEF Attested
<1> QED
  BY <1>1, <1>3, <1>4, <1>5 DEF Signing, NoProofYet, SignedIsForwarded

\* The invariant, from the frame parts and the two about where reading stands.
LEMMA SigningFrom ==
    ASSUME TypeOK', FrameParts', LengthRun', EndReached'
    PROVE  Signing'
BY DEF Signing, FrameParts

\* A quiet step from one point of handle() to another that is not past the end
\* of the body keeps the invariant.
LEMMA StepKeeps ==
    ASSUME Signing, NEW from, NEW to \in Steps \ {"ok"}, Step(from, to),
           from # "ok",
           to \in Before => from \in Before,
           to \in Streaming => from \in Streaming,
           to \in Over /\ up.framing # "close" => pos = up.n,
           to \in {"stream", "plain"} => from \in {"stream", "plain"}
    PROVE  Signing'
<1>1. TypeOK'
  BY StepTyped DEF Signing
<1>2. pc = from /\ pc' = to /\ UNCHANGED <<given, pos, total, hashed, out, stmt>>
  BY DEF Step
<1>3. FrameParts'
  BY <1>2, MoveKeeps
<1>4. LengthRun'
  BY <1>2 DEF Signing, LengthRun, given
<1>5. EndReached'
  BY <1>2 DEF EndReached, given
<1> QED
  BY <1>1, <1>3, <1>4, <1>5, SigningFrom

\* The request and egress steps; RESP_HEAD is the first frame.
LEMMA SigningFront ==
    ASSUME Signing, Request \/ Egress
    PROVE  Signing'
<1> USE StepNames DEF Before, Streaming, Over
<1>1. CASE ReadReqHead
  BY <1>1, StepKeeps DEF ReadReqHead
<1>2. CASE ReadReqBody
  BY <1>2, StepKeeps DEF ReadReqBody
<1>3. CASE Validate
  BY <1>3, StepKeeps DEF Validate
<1>4. CASE ConnectEgress \/ Handshake
  BY <1>4, StepKeeps DEF ConnectEgress, Handshake
<1>5. CASE SendRequest \/ NoResponseHead
  BY <1>5, StepKeeps DEF SendRequest, NoResponseHead
<1>6. CASE WriteRespHead
  <2> DEFINE to == CASE up.framing = "chunked" -> "chunk"
                     [] up.framing = "h2"      -> "h2"
                     [] OTHER                  -> "stream"
  <2>1. to \in {"chunk", "h2", "stream"}
    OBVIOUS
  <2>2. WriteFrame("RESP_HEAD", NoPiece, to)
    BY <1>6 DEF WriteRespHead
  <2> HIDE DEF to
  <2>3. PICK cut \in Cuts :
            /\ out' = Append(out, Frame("RESP_HEAD", NoPiece, cut))
            /\ \/ cut = "whole" /\ pc' = to
               \/ pc' = "err"
    BY <2>2 DEF WriteFrame, Fail, Cuts
  <2>4. /\ out = <<>> /\ hashed = <<>> /\ total = 0 /\ pos = 0
        /\ UNCHANGED <<given, pos, total, hashed, stmt>>
    <3>1. pc = "resp_head" /\ UNCHANGED <<given, pos, total, hashed, stmt>>
      BY <1>6 DEF WriteRespHead
    <3>2. out = <<>> /\ hashed = <<>> /\ total = 0
      BY <3>1 DEF Signing, NothingYet
    <3> QED
      BY <3>1, <3>2 DEF Signing, ReadTo, Sunk
  <2>5. TypeOK'
    BY TypeFront DEF Signing
  <2>6. ~Attested'
    <3>1. out \in Seq(FrameType) /\ "RESP_HEAD" \in Kinds \ {"proof"}
      BY DEF Signing, TypeOK, FrameType
    <3> QED
      BY <2>3, <3>1, NotAProof, NoPieceTyped
  <2>7. pc' \in {"chunk", "h2", "stream", "err"}
    BY <2>1, <2>3
  <2>8. InStep'
    <3>1. Len(out') = 1 /\ out'[1] = Frame("RESP_HEAD", NoPiece, cut)
      BY <2>3, <2>4
    <3>2. pc' \in Streaming => cut = "whole"
      BY <2>3
    <3>3. hashed' = <<>> /\ Len(hashed') = 0
      BY <2>4
    <3> QED
      BY <3>1, <3>2, <3>3 DEF InStep, Forwarded
  <2>9. ReadTo' /\ ForwardedInOrder'
    BY <2>4 DEF Signing, ReadTo, Sunk, ForwardedInOrder
  <2>10. NothingYet' /\ LengthRun' /\ EndReached'
    BY <2>4, <2>7 DEF NothingYet, LengthRun, EndReached
  <2> QED
    BY <2>5, <2>6, <2>8, <2>9, <2>10
       DEF Signing, NoProofYet, SignedIsForwarded
<1> QED
  BY <1>1, <1>2, <1>3, <1>4, <1>5, <1>6 DEF Request, Egress

\* The chunked decoder.
LEMMA SigningChunked ==
    ASSUME Signing, Chunked
    PROVE  Signing'
<1> USE StepNames DEF Before, Streaming, Over
<1>0. TypeOK'
  BY TypeChunked DEF Signing
<1>1. CASE \E s \in 1..MaxBody \cup OddSizes : ChunkSize(s)
  <2>1. PICK s \in 1..MaxBody \cup OddSizes : ChunkSize(s)
    BY <1>1
  <2>2. /\ pc = "chunk" /\ pc' \in {"chunk", "err"}
        /\ UNCHANGED <<given, pos, hashed, out, stmt>>
    BY <2>1 DEF ChunkSize, Fail
  <2>3. FrameParts'
    BY <2>2, MoveKeeps
  <2> QED
    BY <1>0, <2>2, <2>3, SigningFrom DEF LengthRun, EndReached
<1>2. CASE LastChunk
  BY <1>2, StepKeeps DEF LastChunk
<1>3. CASE ReadFails("chunk")
  BY <1>3, StepKeeps DEF ReadFails
<1>4. CASE ChunkBody \/ ChunkCutShort
  <2>1. /\ pc = "chunk" /\ UNCHANGED <<given, stmt>>
        /\ \E k \in Nat, to \in {"chunk", "err"} : Sink(k, to)
    <3>1. need \in Nat /\ (need + 2) % USIZE \in Nat /\ up.n - pos \in Int
      BY SizesAssumption DEF Signing, TypeOK, Upstreams
    <3>2. \A k \in Nat : Min2(need, k) \in Nat
      BY <3>1 DEF Min2
    <3>3. CASE ChunkBody
      BY <3>1, <3>2, <3>3 DEF ChunkBody
    <3>4. CASE ChunkCutShort
      BY <3>1, <3>2, <3>4 DEF ChunkCutShort
    <3> QED
      BY <1>4, <3>3, <3>4
  <2>2. PICK k \in Nat, to \in {"chunk", "err"} : Sink(k, to)
    BY <2>1
  <2>3. pc' \in {"chunk", "err"}
    BY <2>2 DEF Sink, WriteFrame, Fail
  <2>4. FrameParts'
    BY <2>1, <2>2, SinkKeeps
  <2> QED
    BY <1>0, <2>3, <2>4, SigningFrom DEF LengthRun, EndReached
<1>5. CASE ReadSizeLine
  <2>1. /\ pc = "chunk" /\ pc' = "chunk"
        /\ UNCHANGED <<given, pos, hashed, out, stmt>>
    BY <1>5 DEF ReadSizeLine
  <2>2. FrameParts'
    BY <2>1, MoveKeeps
  <2> QED
    BY <1>0, <2>1, <2>2, SigningFrom DEF LengthRun, EndReached
<1> QED
  BY <1>1, <1>2, <1>3, <1>4, <1>5 DEF Chunked

\* A step of a body reader that may call the sink and stays in the reader or
\* fails keeps the frame parts.
LEMMA ReaderKeeps ==
    ASSUME Signing, pc \in {"stream", "plain", "h2"}, UNCHANGED <<given, stmt>>,
           \/ UNCHANGED <<pos, hashed, out>> /\ pc' \in {"plain", "h2", "err"}
           \/ \E k \in Nat, to \in {"plain", "h2"} : Sink(k, to)
    PROVE  FrameParts' /\ pc' \in {"plain", "h2", "err"}
<1>1. CASE UNCHANGED <<pos, hashed, out>> /\ pc' \in {"plain", "h2", "err"}
  BY <1>1, MoveKeeps DEF Before, Streaming
<1>2. CASE \E k \in Nat, to \in {"plain", "h2"} : Sink(k, to)
  <2>1. PICK k \in Nat, to \in {"plain", "h2"} : Sink(k, to)
    BY <1>2
  <2>2. pc' \in {"plain", "h2", "err"}
    BY <2>1 DEF Sink, WriteFrame, Fail
  <2> QED
    BY <2>1, <2>2, SinkKeeps DEF Streaming
<1> QED
  BY <1>1, <1>2

\* The plain reader: with a content-length, total is what was read of the body.
LEMMA SigningPlain ==
    ASSUME Signing, Plain
    PROVE  Signing'
<1> USE SizesAssumption, StepNames DEF Before, Streaming, Over
<1>0. TypeOK'
  BY TypePlain DEF Signing
<1>1. pos \in Nat /\ total \in Nat /\ up.n \in Nat
  BY DEF Signing, TypeOK, Upstreams
<1>2. ASSUME NEW k \in 0..(MaxBody + MaxExcess), LengthInitial(k)
      PROVE  Signing'
  <2> DEFINE first == Min2(k, up.n)
  <2>1. first \in Nat
    BY <1>1 DEF Min2
  <2>2. total = pos
    BY <1>2 DEF LengthInitial, Signing, LengthRun
  <2>3. /\ pc = "stream" /\ UNCHANGED <<given, stmt>>
        /\ \/ UNCHANGED <<pos, total, hashed, out>> /\ pc' \in {"plain", "err"}
           \/ total' = total + first /\ Sink(first, "plain")
    BY <1>2 DEF LengthInitial, Fail
  <2> HIDE DEF first
  <2>4. total' = pos'
    BY <2>2, <2>3 DEF Sink
  <2>5. FrameParts' /\ pc' \in {"plain", "h2", "err"}
    BY <2>1, <2>3, ReaderKeeps
  <2> QED
    BY <1>0, <2>4, <2>5, SigningFrom DEF LengthRun, EndReached
<1>3. ASSUME NEW k \in 0..(MaxBody + MaxExcess), CloseInitial(k)
      PROVE  Signing'
  <2>1. /\ pc = "stream" /\ UNCHANGED <<given, stmt>> /\ up.framing = "close"
        /\ \/ UNCHANGED <<pos, hashed, out>> /\ pc' \in {"plain", "err"}
           \/ Sink(k, "plain")
    BY <1>3 DEF CloseInitial, Fail
  <2>2. FrameParts' /\ pc' \in {"plain", "h2", "err"}
    BY <2>1, ReaderKeeps
  <2> QED
    BY <1>0, <2>1, <2>2, SigningFrom DEF LengthRun, EndReached, given
<1>4. ASSUME NEW k \in 0..(MaxBody + MaxExcess), LengthRead(k)
      PROVE  Signing'
  <2>1. /\ pc = "plain" /\ UNCHANGED <<given, stmt>>
        /\ total' = total + k /\ Sink(k, "plain")
    BY <1>4 DEF LengthRead
  <2>2. total = pos
    BY <1>4 DEF LengthRead, Signing, LengthRun
  <2>3. total' = pos'
    BY <2>1, <2>2 DEF Sink
  <2>4. FrameParts' /\ pc' \in {"plain", "h2", "err"}
    BY <2>1, ReaderKeeps
  <2> QED
    BY <1>0, <2>3, <2>4, SigningFrom DEF LengthRun, EndReached
<1>5. ASSUME NEW k \in 0..(MaxBody + MaxExcess), CloseRead(k)
      PROVE  Signing'
  <2>1. /\ pc = "plain" /\ UNCHANGED <<given, stmt>> /\ up.framing = "close"
        /\ \/ UNCHANGED <<pos, hashed, out>> /\ pc' \in {"plain", "err"}
           \/ Sink(k, "plain")
    BY <1>5 DEF CloseRead, Fail
  <2>2. FrameParts' /\ pc' \in {"plain", "h2", "err"}
    BY <2>1, ReaderKeeps
  <2> QED
    BY <1>0, <2>1, <2>2, SigningFrom DEF LengthRun, EndReached, given
<1>6. CASE LengthReached
  <2>1. pc = "plain" /\ up.framing = "length" /\ total = up.n
    BY <1>6 DEF LengthReached, Step
  <2>2. pos = up.n
    BY <2>1 DEF Signing, LengthRun
  <2> QED
    BY <1>6, <2>2, StepKeeps DEF LengthReached
<1>7. CASE CloseEof
  BY <1>7, StepKeeps DEF CloseEof
<1>8. CASE PlainReadFails
  BY <1>8, StepKeeps DEF PlainReadFails, ReadFails
<1> QED
  BY <1>2, <1>3, <1>4, <1>5, <1>6, <1>7, <1>8 DEF Plain

\* The h2 reader.
LEMMA SigningH2 ==
    ASSUME Signing, H2
    PROVE  Signing'
<1> USE StepNames DEF Before, Streaming, Over
<1>0. TypeOK'
  BY TypeH2 DEF Signing
<1>1. ASSUME NEW k \in 0..MaxBody, H2Data(k)
      PROVE  Signing'
  <2>1. k \in Nat
    BY SizesAssumption
  <2>2. /\ pc = "h2" /\ UNCHANGED <<given, stmt>>
        /\ \/ UNCHANGED <<pos, hashed, out>> /\ pc' = "err"
           \/ Sink(k, "h2")
    BY <1>1 DEF H2Data, Fail
  <2>3. FrameParts'
    BY <2>1, <2>2, ReaderKeeps
  <2>4. pc' \in {"h2", "err"}
    BY <2>2 DEF Sink, WriteFrame, Fail
  <2> QED
    BY <1>0, <2>3, <2>4, SigningFrom DEF LengthRun, EndReached
<1>2. CASE H2End
  BY <1>2, StepKeeps DEF H2End
<1>3. CASE H2Join
  <2>1. pc = "join"
    BY <1>3 DEF H2Join, Step
  <2>2. up.framing # "close" => pos = up.n
    BY <2>1 DEF Signing, EndReached
  <2> QED
    BY <1>3, <2>2, StepKeeps DEF H2Join
<1>4. CASE ReadFails("h2")
  BY <1>4, StepKeeps DEF ReadFails
<1> QED
  BY <1>1, <1>2, <1>3, <1>4 DEF H2

\* The trailer: WriteProof is the only step that makes the exchange attested,
\* and it does so when the frames are in step with the hash.
LEMMA SigningEnd ==
    ASSUME Signing, Trailer \/ Panic
    PROVE  Signing'
<1> USE StepNames DEF Before, Streaming, Over
<1>0. TypeOK' /\ out \in Seq(FrameType) /\ hashed \in Seq(Pieces)
  BY TypeEnd DEF Signing, TypeOK, FrameType
<1>1. CASE Finish
  <2>1. /\ pc = "finish" /\ pc' = "trailer"
        /\ UNCHANGED <<given, pos, total, hashed, out, stmt>>
    BY <1>1 DEF Finish
  <2>2. FrameParts'
    BY <2>1, MoveKeeps
  <2> QED
    BY <1>0, <2>1, <2>2, SigningFrom DEF Signing, LengthRun, EndReached, given
<1>2. CASE ProofUnavailable
  <2>1. /\ pc = "trailer" /\ UNCHANGED <<given, pos, total, hashed, stmt>>
        /\ WriteFrame("proof_unavailable", NoPiece, "ok")
    BY <1>2 DEF ProofUnavailable
  <2>2. PICK cut \in Cuts :
            /\ out' = Append(out, Frame("proof_unavailable", NoPiece, cut))
            /\ pc' \in {"ok", "err"}
    BY <2>1 DEF WriteFrame, Fail, Cuts
  <2>3. ~Attested'
    <3>1. "proof_unavailable" \in Kinds \ {"proof"}
      OBVIOUS
    <3> QED
      BY <1>0, <2>2, <3>1, NotAProof, NoPieceTyped
  <2>4. NothingYet' /\ InStep' /\ LengthRun'
    BY <2>2 DEF NothingYet, InStep, LengthRun
  <2>5. ReadTo' /\ ForwardedInOrder' /\ EndReached'
    BY <2>1, <2>2 DEF Signing, ReadTo, Sunk, ForwardedInOrder, EndReached, given
  <2> QED
    BY <1>0, <2>3, <2>4, <2>5 DEF Signing, NoProofYet, SignedIsForwarded
<1>3. CASE WriteProof
  <2>1. /\ pc = "trailer" /\ UNCHANGED <<given, pos, total, hashed>>
        /\ stmt' = hashed /\ WriteFrame("proof", NoPiece, "ok")
    BY <1>3 DEF WriteProof
  <2>2. PICK cut \in Cuts :
            /\ out' = Append(out, Frame("proof", NoPiece, cut))
            /\ \/ cut = "whole" /\ pc' = "ok"
               \/ cut # "whole" /\ pc' = "err"
    BY <2>1 DEF WriteFrame, Fail, Cuts
  <2>3. /\ Len(out) \in Nat /\ Len(hashed) \in Nat
        /\ Len(out') = Len(out) + 1
        /\ out'[Len(out) + 1] = Frame("proof", NoPiece, cut)
        /\ \A i \in 1..Len(out) : out'[i] = out[i]
    <3>1. Frame("proof", NoPiece, cut) \in FrameType
      BY FrameTyped, NoPieceTyped
    <3> QED
      BY <1>0, <2>2, <3>1
  <2>4. NoProofYet'
    <3>1. ASSUME cut # "whole" PROVE ~Attested'
      BY <2>3, <3>1 DEF Attested, Frame
    <3> QED
      BY <2>2, <3>1 DEF NoProofYet
  <2>5. SignedIsForwarded'
    <3>1. Len(out) = Len(hashed) + 1 /\ Forwarded(hashed)
      BY <2>1 DEF Signing, InStep
    <3>2. Len(out') = Len(stmt') + 2
      BY <2>1, <2>3, <3>1
    <3>3. out'[1] = Frame("RESP_HEAD", NoPiece, "whole")
      BY <2>3, <3>1 DEF Forwarded
    <3>4. ASSUME NEW i \in 1..Len(stmt')
          PROVE  out'[i + 1] = Frame("RESP_CHUNK", stmt'[i], "whole")
      <4>1. i \in 1..Len(hashed) /\ i + 1 \in 1..Len(out)
        BY <2>1, <2>3, <3>1
      <4>2. out[i + 1] = Frame("RESP_CHUNK", hashed[i], "whole")
        BY <3>1, <4>1 DEF Forwarded
      <4> QED
        BY <2>1, <2>3, <4>1, <4>2
    <3> QED
      BY <3>2, <3>3, <3>4 DEF SignedIsForwarded
  <2>6. NothingYet' /\ InStep' /\ LengthRun'
    BY <2>2 DEF NothingYet, InStep, LengthRun
  <2>7. ReadTo' /\ ForwardedInOrder' /\ EndReached'
    BY <2>1, <2>2 DEF Signing, ReadTo, Sunk, ForwardedInOrder, EndReached, given
  <2> QED
    BY <1>0, <2>4, <2>5, <2>6, <2>7 DEF Signing
<1>4. CASE WriteErr
  <2>1. /\ pc = "err" /\ pc' = "failed"
        /\ UNCHANGED <<given, pos, total, hashed, stmt>>
    BY <1>4 DEF WriteErr
  <2>2. PICK cut \in Cuts : out' = Append(out, Frame("ERR", NoPiece, cut))
    BY <1>4 DEF WriteErr
  <2>3. ~Attested'
    <3>1. "ERR" \in Kinds \ {"proof"}
      OBVIOUS
    <3> QED
      BY <1>0, <2>2, <3>1, NotAProof, NoPieceTyped
  <2>4. NothingYet' /\ InStep' /\ LengthRun' /\ EndReached'
    BY <2>1 DEF NothingYet, InStep, LengthRun, EndReached
  <2>5. ReadTo' /\ ForwardedInOrder'
    BY <2>1 DEF Signing, ReadTo, Sunk, ForwardedInOrder
  <2> QED
    BY <1>0, <2>3, <2>4, <2>5 DEF Signing, NoProofYet, SignedIsForwarded
<1>5. CASE Panic
  <2>1. pc # "ok"
    BY <1>5 DEF Panic, Ends
  <2> QED
    BY <1>5, <2>1, StepKeeps DEF Panic
<1> QED
  BY <1>1, <1>2, <1>3, <1>4, <1>5 DEF Trailer

\* Every step keeps the invariant.
LEMMA SigningNext == Signing /\ [Next]_vars => Signing'
<1> SUFFICES ASSUME Signing, [Next]_vars PROVE Signing'
  OBVIOUS
<1>1. CASE UNCHANGED vars
  <2>1. UNCHANGED <<pc, given, pos, total, hashed, out, stmt>>
    BY <1>1 DEF vars
  <2>2. TypeOK'
    BY <1>1, TypeNext DEF Signing
  <2>3. NothingYet' /\ InStep' /\ ReadTo'
    BY <2>1 DEF Signing, NothingYet, InStep, Forwarded, ReadTo, Sunk
  <2>4. LengthRun' /\ EndReached' /\ NoProofYet'
    BY <2>1 DEF Signing, LengthRun, EndReached, NoProofYet, Attested, given
  <2>5. ForwardedInOrder' /\ SignedIsForwarded'
    BY <2>1 DEF Signing, ForwardedInOrder, SignedIsForwarded, Attested
  <2> QED
    BY <2>2, <2>3, <2>4, <2>5 DEF Signing
<1>2. CASE Next
  BY <1>2, SigningFront, SigningChunked, SigningPlain, SigningH2, SigningEnd DEF Next
<1> QED
  BY <1>1, <1>2

-----------------------------------------------------------------------------
\* The inductive invariant holds in every reachable state.
THEOREM SigningCorrect == Spec => []Signing
BY SigningInit, SigningNext, PTL DEF Spec

\* A proof that reached the relay signs exactly the pieces the relay was sent,
\* whatever the framing, the cuts of the control stream and the panics.
THEOREM SignedIsForwardedCorrect == Spec => []SignedIsForwarded
<1>1. Signing => SignedIsForwarded
  BY DEF Signing
<1> QED
  BY <1>1, SigningCorrect, PTL

\* No byte of the upstream body is skipped, repeated or reordered.
THEOREM InOrderCorrect == Spec => []ForwardedInOrder
<1>1. Signing => ForwardedInOrder
  BY DEF Signing
<1> QED
  BY <1>1, SigningCorrect, PTL

\* A body whose end the upstream marks is attested only whole.
THEOREM DelimitedCompleteCorrect == Spec => []DelimitedComplete
<1>1. Signing => DelimitedComplete
  BY DEF Signing, DelimitedComplete, NoProofYet, EndReached, Over
<1> QED
  BY <1>1, SigningCorrect, PTL

-----------------------------------------------------------------------------
(* The cap.                                                                 *)

\* Nothing was read, counted or announced.
LEMMA CappedInit == Init => Capped
BY SizesAssumption
   DEF Init, Upstreams, Capped, NotBegun, PlainCounted, ChunkCounted, LengthFits,
       WithinBody, TrueSizesWithinCap, BodyWithinCap

\* The numbers the readers compute with.
LEMMA Numerals ==
    ASSUME TypeOK
    PROVE  /\ pos \in Nat /\ total \in Nat /\ need \in Nat /\ up.n \in Nat
           /\ up.n <= MaxBody /\ MaxBody \in Nat /\ MAX_RESP \in Nat
           /\ USIZE \in Nat /\ USIZE > 0 /\ MaxBody + MAX_RESP < USIZE
BY SizesAssumption DEF TypeOK, Upstreams

\* A step that counts nothing and leaves the readers, or stays before them, keeps
\* the cap.
LEMMA CappedMove ==
    ASSUME Capped, UNCHANGED <<given, pos, total, need>>,
           pc' \notin {"stream", "chunk", "plain", "h2"},
           pc' \in Before => pc \in Before
    PROVE  Capped'
BY DEF Capped, NotBegun, PlainCounted, ChunkCounted, LengthFits, WithinBody,
       TrueSizesWithinCap, BodyWithinCap, given

\* A quiet step that leaves the readers, or stays before them.
LEMMA CappedStep ==
    ASSUME Capped, NEW from, NEW to, Step(from, to),
           to \notin {"stream", "chunk", "plain", "h2"},
           to \in Before => from \in Before
    PROVE  Capped'
BY CappedMove DEF Step

\* A call of the sink moves the position by the bytes it got, and handle() to the
\* next read or to its error exit.
LEMMA SinkMoves ==
    ASSUME NEW k, NEW to, Sink(k, to)
    PROVE  pos' = pos + k /\ pc' \in {to, "err"}
BY DEF Sink, WriteFrame, Fail

\* The request and the response head.
LEMMA CappedFront ==
    ASSUME Signing, Capped, Request \/ Egress
    PROVE  Capped'
<1>1. CASE Request
  BY <1>1, CappedStep DEF Request, ReadReqHead, ReadReqBody, Validate, Before
<1>2. CASE ConnectEgress \/ Handshake \/ SendRequest \/ NoResponseHead
  BY <1>2, CappedStep
     DEF ConnectEgress, Handshake, SendRequest, NoResponseHead, Before
<1>3. CASE WriteRespHead
  <2>1. /\ pc = "resp_head" /\ UNCHANGED <<given, pos, total, need>>
        /\ pc' \in {"chunk", "h2", "stream", "err"}
    BY <1>3 DEF WriteRespHead, WriteFrame, Fail
  <2>2. pos = 0 /\ need = 0 /\ total = 0
    BY <2>1 DEF Signing, NothingYet, Capped, NotBegun, Before
  <2>3. up.n \in Nat /\ MAX_RESP \in Nat
    BY Numerals DEF Signing
  <2> QED
    BY <2>1, <2>2, <2>3
       DEF Capped, NotBegun, PlainCounted, ChunkCounted, LengthFits, WithinBody,
           TrueSizesWithinCap, BodyWithinCap, Before, given
<1> QED
  BY <1>1, <1>2, <1>3 DEF Egress

\* The chunked reader: for truthful sizes the count does not wrap, so it bounds what
\* is forwarded, and it has passed the cap when a chunk is read.
LEMMA CappedChunked ==
    ASSUME Signing, Capped, Chunked
    PROVE  Capped'
<1>0. TypeOK
  BY DEF Signing
<1> USE Numerals DEF Before
<1>1. ASSUME NEW s \in 1..MaxBody \cup OddSizes, ChunkSize(s)
      PROVE  Capped'
  <2>1. /\ pc = "chunk" /\ pc' \in {"chunk", "err"} /\ UNCHANGED <<given, pos>>
        /\ total' = (total + s) % USIZE
        /\ pc' = "chunk" => total' <= MAX_RESP /\ need' = s
        /\ s \in 1..(up.n - pos) \/ up.odd
    BY <1>1 DEF ChunkSize, Fail
  <2>2. pc' = "chunk" /\ ~up.odd => pos' + need' <= total' /\ total' <= MAX_RESP
    <3> SUFFICES ASSUME pc' = "chunk", ~up.odd
                 PROVE  pos' + need' <= total' /\ total' <= MAX_RESP
      OBVIOUS
    <3>1. pos + need <= total /\ total <= MAX_RESP /\ s \in 1..(up.n - pos)
      BY <2>1 DEF Capped, ChunkCounted
    <3>2. total + s \in 0..(USIZE - 1)
      BY <1>0, <3>1
    <3>3. (total + s) % USIZE = total + s
      BY <1>0, <3>2
    <3> QED
      BY <1>0, <2>1, <3>1, <3>3
  <2>3. NotBegun' /\ PlainCounted' /\ ChunkCounted' /\ LengthFits'
    BY <2>1, <2>2 DEF NotBegun, PlainCounted, ChunkCounted, LengthFits, given
  <2>4. WithinBody' /\ TrueSizesWithinCap'
    BY <2>1 DEF Capped, WithinBody, TrueSizesWithinCap, BodyWithinCap, given
  <2> QED
    BY <2>3, <2>4 DEF Capped
<1>2. CASE LastChunk \/ ReadFails("chunk")
  BY <1>2, CappedStep DEF LastChunk, ReadFails
<1>3. ASSUME NEW k \in Nat, NEW to \in {"chunk", "err"}, Sink(k, to),
             k <= need, k <= up.n - pos, pc = "chunk", need' = 0,
             UNCHANGED <<given, total>>
      PROVE  Capped'
  <2>1. pos' = pos + k /\ pc' \in {"chunk", "err"}
    BY <1>3, SinkMoves
  <2>2. ~up.odd => pos + need <= total /\ total <= MAX_RESP
    BY <1>3 DEF Capped, ChunkCounted
  <2>3. WithinBody' /\ ChunkCounted' /\ TrueSizesWithinCap'
    BY <1>0, <1>3, <2>1, <2>2
       DEF WithinBody, ChunkCounted, TrueSizesWithinCap, BodyWithinCap, given
  <2>4. NotBegun' /\ PlainCounted' /\ LengthFits'
    BY <2>1 DEF NotBegun, PlainCounted, LengthFits
  <2> QED
    BY <2>3, <2>4 DEF Capped
<1>4. CASE ChunkBody
  <2>1. pc = "chunk" /\ need' = 0 /\ UNCHANGED <<given, total>>
    BY <1>4 DEF ChunkBody
  <2>2. CASE need <= up.n - pos /\ Sink(need, "chunk")
    BY <1>0, <1>3, <2>1, <2>2
  <2>3. CASE \E k \in ((need + 2) % USIZE)..(up.n - pos) : Sink(Min2(need, k), "chunk")
    <3>1. PICK k \in ((need + 2) % USIZE)..(up.n - pos) : Sink(Min2(need, k), "chunk")
      BY <2>3
    <3>2. (need + 2) % USIZE \in Nat
      BY <1>0
    <3>3. Min2(need, k) \in Nat /\ Min2(need, k) <= need /\ Min2(need, k) <= up.n - pos
      BY <1>0, <3>2 DEF Min2
    <3> QED
      BY <1>3, <2>1, <3>1, <3>3
  <2> QED
    BY <1>4, <2>2, <2>3 DEF ChunkBody
<1>5. CASE ChunkCutShort
  <2>1. PICK k \in 0..(up.n - pos) : Sink(Min2(need, k), "err")
    BY <1>5 DEF ChunkCutShort
  <2>2. Min2(need, k) \in Nat /\ Min2(need, k) <= need /\ Min2(need, k) <= up.n - pos
    BY <1>0 DEF Min2
  <2> QED
    BY <1>3, <1>5, <2>1, <2>2 DEF ChunkCutShort
<1>6. CASE ReadSizeLine
  BY <1>6 DEF ReadSizeLine, given, Capped, NotBegun, PlainCounted, ChunkCounted,
              LengthFits, WithinBody, TrueSizesWithinCap, BodyWithinCap
<1> QED
  BY <1>1, <1>2, <1>4, <1>5, <1>6 DEF Chunked

\* A read of the other readers that is counted and then given to the sink.
LEMMA CappedRead ==
    ASSUME Signing, Capped, pc \in {"stream", "plain", "h2"},
           NEW k \in Nat, NEW to \in {"plain", "h2"}, Sink(k, to),
           k <= up.n - pos, total' = total + k, UNCHANGED <<given, need>>,
           total' <= MAX_RESP,
           up.framing = "length" /\ to = "plain" => up.n <= MAX_RESP
    PROVE  Capped'
<1>0. TypeOK
  BY DEF Signing
<1>1. pos' = pos + k /\ pc' \in {to, "err"} /\ total = pos
  BY SinkMoves DEF Capped, PlainCounted
<1>2. PlainCounted' /\ WithinBody' /\ TrueSizesWithinCap'
  BY <1>0, <1>1, Numerals
     DEF PlainCounted, WithinBody, TrueSizesWithinCap, BodyWithinCap, given
<1>3. NotBegun' /\ ChunkCounted' /\ LengthFits'
  BY <1>1 DEF NotBegun, ChunkCounted, LengthFits, Before, given
<1> QED
  BY <1>2, <1>3 DEF Capped

\* A read of the other readers that brings nothing, or is over the cap.
LEMMA CappedIdle ==
    ASSUME Capped, pc \in {"stream", "plain", "h2"}, UNCHANGED <<given, pos, need>>,
           \/ pc' = "err"
           \/ /\ pc' = "plain" /\ total' = total
              /\ up.framing = "length" => up.n <= MAX_RESP
    PROVE  Capped'
BY DEF Capped, NotBegun, PlainCounted, ChunkCounted, LengthFits, WithinBody,
       TrueSizesWithinCap, BodyWithinCap, Before, given

\* The plain reader: a declared length is compared with the cap, an open one is
\* counted.
LEMMA CappedPlain ==
    ASSUME Signing, Capped, Plain
    PROVE  Capped'
<1>0. TypeOK
  BY DEF Signing
<1>1. /\ pos \in Nat /\ total \in Nat /\ up.n \in Nat /\ MAX_RESP \in Nat
      /\ pos <= up.n
      /\ pc \in {"stream", "plain"} => total = pos
      /\ pc = "stream" => pos = 0
      /\ pc = "plain" /\ up.framing = "length" => up.n <= MAX_RESP
  BY <1>0, Numerals DEF Capped, WithinBody, PlainCounted, NotBegun, LengthFits
<1>2. ASSUME NEW k \in 0..(MaxBody + MaxExcess), LengthInitial(k)
      PROVE  Capped'
  <2>1. k \in Nat /\ pc = "stream" /\ up.framing = "length"
    BY <1>2, SizesAssumption DEF LengthInitial
  <2>2. Min2(k, up.n) \in Nat /\ Min2(k, up.n) <= up.n
    BY <1>1, <2>1 DEF Min2
  <2>3. CASE up.n > MAX_RESP
    BY <1>1, <1>2, <2>1, <2>3, CappedIdle DEF LengthInitial, Fail
  <2>4. CASE up.n <= MAX_RESP /\ Min2(k, up.n) = 0
    BY <1>1, <1>2, <2>1, <2>4, CappedIdle DEF LengthInitial
  <2>5. CASE up.n <= MAX_RESP /\ Min2(k, up.n) > 0
    <3>1. /\ total' = total + Min2(k, up.n) /\ Sink(Min2(k, up.n), "plain")
          /\ UNCHANGED <<given, need>>
      BY <1>1, <1>2, <2>5 DEF LengthInitial
    <3>2. total' <= MAX_RESP /\ Min2(k, up.n) <= up.n - pos
      BY <1>1, <2>1, <2>2, <2>5, <3>1
    <3> QED
      BY <2>1, <2>2, <2>5, <3>1, <3>2, CappedRead
  <2> QED
    BY <1>1, <2>2, <2>3, <2>4, <2>5
<1>3. ASSUME NEW k \in 0..(MaxBody + MaxExcess), CloseInitial(k)
      PROVE  Capped'
  <2>1. /\ k \in 0..up.n /\ pc = "stream" /\ up.framing = "close"
        /\ total' = total + k /\ UNCHANGED <<given, need>>
    BY <1>3 DEF CloseInitial
  <2>2. CASE k = 0 /\ pc' = "plain" /\ UNCHANGED pos
    <3>1. total' = total
      BY <1>1, <2>1, <2>2
    <3> QED
      BY <2>1, <2>2, <3>1, CappedIdle
  <2>3. CASE pc' = "err" /\ UNCHANGED pos
    BY <2>1, <2>3, CappedIdle
  <2>4. CASE k \in 1..MAX_RESP /\ Sink(k, "plain")
    <3>1. k \in Nat /\ k <= up.n - pos /\ total' <= MAX_RESP
      BY <1>1, <2>1, <2>4
    <3> QED
      BY <2>1, <2>4, <3>1, CappedRead
  <2> QED
    BY <1>3, <2>2, <2>3, <2>4 DEF CloseInitial, Fail
<1>4. ASSUME NEW k \in 0..(MaxBody + MaxExcess), LengthRead(k)
      PROVE  Capped'
  <2>1. /\ k \in 1..(up.n - total) /\ pc = "plain" /\ up.framing = "length"
        /\ total' = total + k /\ Sink(k, "plain") /\ UNCHANGED <<given, need>>
    BY <1>4 DEF LengthRead
  <2>2. k \in Nat /\ k <= up.n - pos /\ total' <= MAX_RESP
    BY <1>1, <2>1
  <2> QED
    BY <1>1, <2>1, <2>2, CappedRead
<1>5. ASSUME NEW k \in 0..(MaxBody + MaxExcess), CloseRead(k)
      PROVE  Capped'
  <2>1. /\ k \in 1..(up.n - pos) /\ pc = "plain" /\ up.framing = "close"
        /\ UNCHANGED <<given, need>>
        /\ \/ pc' = "err" /\ UNCHANGED pos
           \/ total' = total + k /\ total' <= MAX_RESP /\ Sink(k, "plain")
    BY <1>5 DEF CloseRead, Fail
  <2>2. k \in Nat /\ k <= up.n - pos
    BY <1>1, <2>1
  <2> QED
    BY <2>1, <2>2, CappedRead, CappedIdle
<1>6. CASE LengthReached \/ CloseEof \/ PlainReadFails
  BY <1>6, CappedStep DEF LengthReached, CloseEof, PlainReadFails, ReadFails, Before
<1> QED
  BY <1>2, <1>3, <1>4, <1>5, <1>6 DEF Plain

\* The h2 reader counts before it forwards.
LEMMA CappedH2 ==
    ASSUME Signing, Capped, H2
    PROVE  Capped'
<1>1. ASSUME NEW k \in 0..MaxBody, H2Data(k)
      PROVE  Capped'
  <2>1. /\ k \in 0..(up.n - pos) /\ pc = "h2" /\ UNCHANGED <<given, need>>
        /\ \/ pc' = "err" /\ UNCHANGED pos
           \/ total' = total + k /\ total' <= MAX_RESP /\ Sink(k, "h2")
    BY <1>1 DEF H2Data, Fail
  <2>2. k \in Nat /\ k <= up.n - pos
    BY <2>1, Numerals DEF Signing
  <2> QED
    BY <2>1, <2>2, CappedRead, CappedIdle
<1>2. CASE H2End \/ H2Join \/ ReadFails("h2")
  BY <1>2, CappedStep DEF H2End, H2Join, ReadFails, Before
<1> QED
  BY <1>1, <1>2 DEF H2

\* Nothing is read any more.
LEMMA CappedEnd ==
    ASSUME Capped, Trailer \/ Panic
    PROVE  Capped'
<1>1. CASE Panic
  BY <1>1, CappedStep DEF Panic, Before
<1>2. CASE Trailer
  <2>1. UNCHANGED <<given, pos, total, need>> /\ pc' \in {"trailer", "ok", "err", "failed"}
    BY <1>2 DEF Trailer, Finish, ProofUnavailable, WriteProof, WriteErr, WriteFrame, Fail
  <2> QED
    BY <2>1, CappedMove DEF Before
<1> QED
  BY <1>1, <1>2

\* Every step keeps the cap.
LEMMA CappedNext == Signing /\ Capped /\ [Next]_vars => Capped'
<1> SUFFICES ASSUME Signing, Capped, [Next]_vars PROVE Capped'
  OBVIOUS
<1>1. CASE UNCHANGED vars
  BY <1>1 DEF vars, given, Capped, NotBegun, PlainCounted, ChunkCounted, LengthFits,
              WithinBody, TrueSizesWithinCap, BodyWithinCap
<1>2. CASE Next
  BY <1>2, CappedFront, CappedChunked, CappedPlain, CappedH2, CappedEnd DEF Next
<1> QED
  BY <1>1, <1>2

-----------------------------------------------------------------------------
(* What a step of handle() may do to the control stream.                    *)

\* It goes on, fails or panics, and writes and hashes nothing.
Quiet ==
    /\ pc \notin Ends \cup {"err"} /\ pc' \notin {"ok", "failed"}
    /\ UNCHANGED <<given, pos, hashed, out, stmt>>
    /\ pc' \in Streaming => pc \in Streaming
    /\ pc' \in Before => pc \in Before

\* It gives the sink bytes the upstream has.
Sinks ==
    /\ pc \in Streaming /\ UNCHANGED <<given, stmt>>
    /\ \E k \in 0..(up.n - pos), to \in {"chunk", "plain", "h2", "err"} : Sink(k, to)

\* A quiet step.
LEMMA StepQuiet ==
    ASSUME NEW from, NEW to, Step(from, to),
           from \notin Ends \cup {"err"}, to \notin {"ok", "failed"},
           to \in Streaming => from \in Streaming,
           to \in Before => from \in Before
    PROVE  Quiet
BY DEF Step, Quiet

\* A step of the chunked decoder is quiet or gives the sink bytes the upstream has,
\* for a wrapped size too.
LEMMA ChunkedForms ==
    ASSUME TypeOK, Chunked
    PROVE  Quiet \/ Sinks
<1> USE DEF Ends, Before, Streaming
<1>1. CASE \E s \in 1..MaxBody \cup OddSizes : ChunkSize(s)
  BY <1>1 DEF ChunkSize, Fail, Quiet
<1>2. CASE LastChunk \/ ReadFails("chunk")
  BY <1>2, StepQuiet DEF LastChunk, ReadFails
<1>3. CASE ChunkBody \/ ChunkCutShort
  <2>1. /\ pc = "chunk" /\ UNCHANGED <<given, stmt>>
        /\ \/ need <= up.n - pos /\ Sink(need, "chunk")
           \/ \E k \in ((need + 2) % USIZE)..(up.n - pos) : Sink(Min2(need, k), "chunk")
           \/ \E k \in 0..(up.n - pos) : Sink(Min2(need, k), "err")
    BY <1>3 DEF ChunkBody, ChunkCutShort
  <2>2. /\ need \in Nat /\ (need + 2) % USIZE \in Nat /\ up.n - pos \in Int
    BY Numerals
  <2>3. \A k \in 0..(up.n - pos) : Min2(need, k) \in 0..(up.n - pos)
    BY <2>2 DEF Min2
  <2>4. \E k \in 0..(up.n - pos), to \in {"chunk", "err"} : Sink(k, to)
    BY <2>1, <2>2, <2>3
  <2> QED
    BY <2>1, <2>4 DEF Sinks
<1>4. CASE ReadSizeLine
  BY <1>4 DEF ReadSizeLine, Quiet
<1> QED
  BY <1>1, <1>2, <1>3, <1>4 DEF Chunked

\* So is a step of the other readers.
LEMMA PlainForms ==
    ASSUME Signing, Capped, Plain \/ H2
    PROVE  Quiet \/ Sinks
<1> USE DEF Ends, Before, Streaming
<1>1. CASE LengthReached \/ CloseEof \/ PlainReadFails
  BY <1>1, StepQuiet DEF ReadFails, LengthReached, CloseEof, PlainReadFails
<1>2. CASE H2End \/ H2Join \/ ReadFails("h2")
  BY <1>2, StepQuiet DEF H2End, H2Join, ReadFails
<1>3. /\ pos \in Nat /\ total \in Nat /\ up.n \in Nat
      /\ pc \in {"stream", "plain"} => total = pos
      /\ pc = "stream" => pos = 0
  BY Numerals DEF Signing, Capped, PlainCounted, NotBegun
<1>4. ASSUME NEW k \in 0..(MaxBody + MaxExcess),
             LengthInitial(k) \/ CloseInitial(k) \/ LengthRead(k) \/ CloseRead(k)
      PROVE  Quiet \/ Sinks
  <2>1. Min2(k, up.n) \in 0..up.n
    BY <1>3, SizesAssumption DEF Min2
  <2>2. /\ pc \in {"stream", "plain"} /\ UNCHANGED <<given, stmt>>
        /\ \/ UNCHANGED <<pos, hashed, out>> /\ pc' \in {"plain", "err"}
           \/ pc = "stream" /\ Sink(Min2(k, up.n), "plain")
           \/ pc = "stream" /\ k \in 0..up.n /\ Sink(k, "plain")
           \/ pc = "plain" /\ k \in 1..(up.n - total) /\ Sink(k, "plain")
           \/ pc = "plain" /\ k \in 1..(up.n - pos) /\ Sink(k, "plain")
    BY <1>4 DEF LengthInitial, CloseInitial, LengthRead, CloseRead, Fail
  <2>3. \/ UNCHANGED <<pos, hashed, out>> /\ pc' \in {"plain", "err"}
        \/ \E m \in 0..(up.n - pos) : Sink(m, "plain")
    BY <1>3, <2>1, <2>2
  <2> QED
    BY <2>2, <2>3 DEF Quiet, Sinks
<1>5. ASSUME NEW k \in 0..MaxBody, H2Data(k)
      PROVE  Quiet \/ Sinks
  <2>1. /\ pc = "h2" /\ UNCHANGED <<given, stmt>> /\ k \in 0..(up.n - pos)
        /\ \/ UNCHANGED <<pos, hashed, out>> /\ pc' = "err"
           \/ Sink(k, "h2")
    BY <1>5 DEF H2Data, Fail
  <2> QED
    BY <2>1 DEF Quiet, Sinks
<1> QED
  BY <1>1, <1>2, <1>4, <1>5 DEF Plain, H2

\* The forms a step can have.
Forms ==
    \/ Quiet \/ Sinks \/ WriteRespHead
    \/ ProofUnavailable \/ WriteProof \/ WriteErr \/ UNCHANGED vars

\* There are no others.
LEMMA StepForms == Signing /\ Capped /\ [Next]_vars => Forms
<1> SUFFICES ASSUME Signing, Capped, [Next]_vars PROVE Forms
  OBVIOUS
<1> USE DEF Ends, Before, Streaming
<1>1. CASE Request
  BY <1>1, StepQuiet DEF Request, ReadReqHead, ReadReqBody, Validate, Forms
<1>2. CASE ConnectEgress \/ Handshake \/ SendRequest \/ NoResponseHead
  BY <1>2, StepQuiet DEF ConnectEgress, Handshake, SendRequest, NoResponseHead, Forms
<1>3. CASE Chunked \/ Plain \/ H2
  BY <1>3, ChunkedForms, PlainForms DEF Signing, Forms
<1>4. CASE Finish
  BY <1>4 DEF Finish, Quiet, Forms
<1>5. CASE Panic
  BY <1>5, StepQuiet DEF Panic, Forms
<1> QED
  BY <1>1, <1>2, <1>3, <1>4, <1>5 DEF Next, Egress, Trailer, Forms

-----------------------------------------------------------------------------
(* The control stream, one frame longer.                                    *)

\* The frames there were stay where they are.
LEMMA Appended ==
    ASSUME out \in Seq(FrameType), NEW f \in FrameType, out' = Append(out, f)
    PROVE  /\ Len(out) \in Nat /\ Len(out') = Len(out) + 1
           /\ out'[Len(out) + 1] = f
           /\ \A i \in 1..Len(out) : out'[i] = out[i]
OBVIOUS

\* While the body streams, all that was written is the head and chunks, whole.
LEMMA AllWhole ==
    ASSUME Signing, pc \in Streaming
    PROVE  /\ Len(out) > 0 /\ out[1].kind = "RESP_HEAD"
           /\ \A i \in 1..Len(out) : /\ out[i].cut = "whole"
                                     /\ out[i].kind \notin Trailers \cup {"ERR"}
<1>1. /\ Len(out) = Len(hashed) + 1 /\ Forwarded(hashed)
      /\ Len(hashed) \in Nat
  BY DEF Signing, InStep, TypeOK
<1>2. out[1].kind = "RESP_HEAD" /\ out[1].cut = "whole"
  BY <1>1 DEF Forwarded, Frame
<1>3. ASSUME NEW i \in 1..Len(out)
      PROVE  out[i].cut = "whole" /\ out[i].kind \notin Trailers \cup {"ERR"}
  <2>1. CASE i = 1
    BY <1>2, <2>1 DEF Trailers
  <2>2. CASE i # 1
    <3>1. i - 1 \in 1..Len(hashed) /\ i = (i - 1) + 1
      BY <1>1, <2>2
    <3>2. out[i] = Frame("RESP_CHUNK", hashed[i - 1], "whole")
      BY <1>1, <3>1 DEF Forwarded
    <3> QED
      BY <3>2 DEF Frame, Trailers
  <2> QED
    BY <2>1, <2>2
<1> QED
  BY <1>1, <1>2, <1>3

\* Which frame may follow what was written.
LEMMA WellFramedAppend ==
    ASSUME WellFramed, out \in Seq(FrameType), NEW f \in FrameType,
           out' = Append(out, f),
           \A i \in 1..Len(out) : out[i].kind # "ERR",
           \A i \in 1..Len(out) : out[i].kind \in Trailers => out[i].cut # "whole",
           f.kind = "RESP_HEAD" => Len(out) = 0,
           f.kind \notin {"RESP_HEAD", "ERR"} =>
               /\ Len(out) > 0 /\ out[1].kind = "RESP_HEAD"
               /\ \A i \in 1..Len(out) : out[i].cut = "whole"
    PROVE  WellFramed'
<1>1. /\ Len(out) \in Nat /\ Len(out') = Len(out) + 1
      /\ out'[Len(out) + 1] = f
      /\ \A i \in 1..Len(out) : out'[i] = out[i]
  BY Appended
<1> SUFFICES ASSUME NEW i \in 1..Len(out')
             PROVE  /\ out'[i].kind = "RESP_HEAD" => i = 1
                    /\ out'[i].kind \notin {"RESP_HEAD", "ERR"}
                           => out'[1].kind = "RESP_HEAD"
                    /\ i < Len(out') =>
                          /\ out'[i].kind # "ERR"
                          /\ out'[i].cut # "whole" \/ out'[i].kind \in Trailers =>
                                out'[i].cut # "whole" /\ out'[i + 1].kind = "ERR"
  BY DEF WellFramed
<1>2. CASE i = Len(out) + 1
  <2>1. out'[i] = f /\ ~(i < Len(out'))
    BY <1>1, <1>2
  <2>2. Len(out) > 0 => out'[1] = out[1]
    BY <1>1
  <2> QED
    BY <1>1, <1>2, <2>1, <2>2
<1>3. CASE i \in 1..Len(out)
  <2>1. out'[i] = out[i] /\ out'[1] = out[1]
    BY <1>1, <1>3
  <2>2. /\ out[i].kind = "RESP_HEAD" => i = 1
        /\ out[i].kind \notin {"RESP_HEAD", "ERR"} => out[1].kind = "RESP_HEAD"
        /\ out[i].kind # "ERR"
    BY <1>3 DEF WellFramed
  <2>3. ASSUME out[i].cut # "whole" \/ out[i].kind \in Trailers
        PROVE  out[i].cut # "whole" /\ out'[i + 1].kind = "ERR"
    <3>1. CASE i < Len(out)
      <4>1. out[i].cut # "whole" /\ out[i + 1].kind = "ERR"
        BY <1>3, <2>3, <3>1 DEF WellFramed
      <4>2. i + 1 \in 1..Len(out)
        BY <1>1, <1>3, <3>1
      <4> QED
        BY <4>1, <4>2
    <3>2. CASE i = Len(out)
      <4>1. out[i].cut # "whole"
        BY <1>3, <2>3
      <4>2. out'[i + 1] = f /\ Len(out) # 0
        BY <1>1, <1>3, <3>2
      <4> QED
        BY <1>3, <4>1, <4>2
    <3> QED
      BY <1>1, <1>3, <3>1, <3>2
  <2> QED
    BY <2>1, <2>2, <2>3
<1> QED
  BY <1>1, <1>2, <1>3

\* A frame added to a stream without a whole trailer: the exchange is complete
\* exactly if it is one.
LEMMA CompletedAppend ==
    ASSUME CompletedIffTrailer, pc # "ok", out \in Seq(FrameType), NEW f \in FrameType,
           out' = Append(out, f),
           pc' = "ok" <=> f.kind \in Trailers /\ f.cut = "whole"
    PROVE  CompletedIffTrailer'
<1>1. /\ Len(out) \in Nat /\ Len(out') = Len(out) + 1
      /\ out'[Len(out) + 1] = f
      /\ \A i \in 1..Len(out) : out'[i] = out[i]
  BY Appended
<1>2. \A i \in 1..Len(out) : ~(out[i].kind \in Trailers /\ out[i].cut = "whole")
  BY DEF CompletedIffTrailer
<1>3. (\E i \in 1..Len(out') : out'[i].kind \in Trailers /\ out'[i].cut = "whole")
      <=> f.kind \in Trailers /\ f.cut = "whole"
  <2>1. ASSUME f.kind \in Trailers, f.cut = "whole"
        PROVE  \E i \in 1..Len(out') : out'[i].kind \in Trailers /\ out'[i].cut = "whole"
    BY <1>1, <2>1
  <2>2. ASSUME NEW i \in 1..Len(out'), out'[i].kind \in Trailers, out'[i].cut = "whole"
        PROVE  f.kind \in Trailers /\ f.cut = "whole"
    <3>1. i \in 1..Len(out) \/ i = Len(out) + 1
      BY <1>1
    <3> QED
      BY <1>1, <1>2, <2>2, <3>1
  <2> QED
    BY <2>1, <2>2
<1> QED
  BY <1>3 DEF CompletedIffTrailer

\* An ERR is only ever the worker's.
LEMMA NoErrAppend ==
    ASSUME NoErrYet, pc # "failed", out \in Seq(FrameType), NEW f \in FrameType,
           out' = Append(out, f), f.kind = "ERR" => pc' = "failed"
    PROVE  NoErrYet'
<1>1. /\ Len(out) \in Nat /\ Len(out') = Len(out) + 1
      /\ out'[Len(out) + 1] = f
      /\ \A i \in 1..Len(out) : out'[i] = out[i]
  BY Appended
<1>2. \A i \in 1..Len(out') : i \in 1..Len(out) \/ i = Len(out) + 1
  BY <1>1
<1> QED
  BY <1>1, <1>2 DEF NoErrYet

\* The bytes delivered, one by one.
LEMMA DeliveredBytes ==
    \A x : x \in Delivered <=>
        \E i \in 1..Len(out) : /\ out[i].kind = "RESP_CHUNK" /\ out[i].cut = "whole"
                               /\ x \in out[i].piece[1]..out[i].piece[2]
BY DEF Delivered

\* A frame adds the bytes of its piece if it is a whole chunk, and none otherwise.
LEMMA DeliveredAppend ==
    ASSUME out \in Seq(FrameType), NEW f \in FrameType, out' = Append(out, f)
    PROVE  Delivered' = Delivered \cup (IF f.kind = "RESP_CHUNK" /\ f.cut = "whole"
                                        THEN f.piece[1]..f.piece[2] ELSE {})
<1>1. /\ Len(out) \in Nat /\ Len(out') = Len(out) + 1
      /\ out'[Len(out) + 1] = f
      /\ \A i \in 1..Len(out) : out'[i] = out[i]
  BY Appended
<1>2. \A x : x \in Delivered' <=>
        \E i \in 1..Len(out') : /\ out'[i].kind = "RESP_CHUNK" /\ out'[i].cut = "whole"
                                /\ x \in out'[i].piece[1]..out'[i].piece[2]
  BY DEF Delivered
<1> DEFINE In(g, x) == g.kind = "RESP_CHUNK" /\ g.cut = "whole"
                       /\ x \in g.piece[1]..g.piece[2]
<1>3. ASSUME NEW x
      PROVE  x \in Delivered' <=> x \in Delivered \/ In(f, x)
  <2>1. x \in Delivered' <=> \E i \in 1..Len(out') : In(out'[i], x)
    BY <1>2
  <2>2. x \in Delivered <=> \E i \in 1..Len(out) : In(out[i], x)
    BY DeliveredBytes
  <2> HIDE DEF In
  <2>3. 1..Len(out') = 1..Len(out) \cup {Len(out) + 1}
    BY <1>1
  <2> QED
    BY <1>1, <2>1, <2>2, <2>3
<1> QED
  BY <1>3

-----------------------------------------------------------------------------
(* The framing of the control stream and what it delivered.                 *)

\* The frame a step that writes leaves, whole when handle() goes on.
LEMMA FrameWritten ==
    ASSUME NEW kind \in Kinds, NEW piece \in Pieces, NEW to, WriteFrame(kind, piece, to)
    PROVE  \E cut \in Cuts :
               /\ Frame(kind, piece, cut) \in FrameType
               /\ out' = Append(out, Frame(kind, piece, cut))
               /\ \/ cut = "whole" /\ pc' = to
                  \/ cut # "whole" /\ pc' = "err"
BY FrameTyped DEF WriteFrame, Fail, Cuts

\* The piece of a call of the sink, and the frame it becomes.
LEMMA SinkWritten ==
    ASSUME Signing, NEW k \in Nat, NEW to, Sink(k, to)
    PROVE  \E cut \in Cuts :
               LET piece == <<pos + 1, pos + k>>
                   f     == Frame("RESP_CHUNK", piece, cut)
               IN  /\ f \in FrameType /\ out' = Append(out, f)
                   /\ pos' = pos + k
                   /\ \/ cut = "whole" /\ pc' = to
                      \/ cut # "whole" /\ pc' = "err"
<1>1. <<pos + 1, pos + k>> \in Pieces
  BY DEF Signing, TypeOK, Pieces
<1> QED
  BY <1>1, FrameWritten, StepNames DEF Sink

\* The frame of the response head.
LEMMA HeadWritten ==
    ASSUME WriteRespHead
    PROVE  \E f \in FrameType : /\ out' = Append(out, f) /\ f.kind = "RESP_HEAD"
                                /\ pc' \in {"chunk", "h2", "stream", "err"}
<1>1. \E to \in {"chunk", "h2", "stream"} : WriteFrame("RESP_HEAD", NoPiece, to)
  BY DEF WriteRespHead
<1> QED
  BY <1>1, FrameWritten, NoPieceTyped, StepNames DEF Frame

\* A quiet step keeps the framing.
LEMMA FramedQuiet ==
    ASSUME Framed, Quiet \/ UNCHANGED vars
    PROVE  Framed'
<1>1. CASE Quiet
  BY <1>1 DEF Quiet, Framed, WellFramed, CompletedIffTrailer, NoErrYet, Ends
<1>2. CASE UNCHANGED vars
  BY <1>2 DEF vars, Framed, WellFramed, CompletedIffTrailer, NoErrYet
<1> QED
  BY <1>1, <1>2

\* A frame keeps it when it is written where it belongs.
LEMMA FramedWrite ==
    ASSUME Signing, Framed, NEW f \in FrameType, out' = Append(out, f),
           pc \notin Ends, pc' # "failed" \/ f.kind = "ERR",
           f.kind = "ERR" => pc' = "failed",
           pc' = "ok" <=> f.kind \in Trailers /\ f.cut = "whole",
           f.kind = "RESP_HEAD" => pc \in Before,
           f.kind \notin {"RESP_HEAD", "ERR"} => pc \in Streaming
    PROVE  Framed'
<1>1. out \in Seq(FrameType) /\ pc # "ok" /\ pc # "failed"
  BY DEF Signing, TypeOK, FrameType, Ends
<1>2. CompletedIffTrailer'
  BY <1>1, CompletedAppend DEF Framed
<1>3. NoErrYet'
  BY <1>1, NoErrAppend DEF Framed
<1>4. WellFramed'
  <2>1. WellFramed /\ \A i \in 1..Len(out) : out[i].kind # "ERR"
    BY <1>1 DEF Framed, NoErrYet
  <2>2. \A i \in 1..Len(out) : out[i].kind \in Trailers => out[i].cut # "whole"
    BY <1>1 DEF Framed, CompletedIffTrailer
  <2>3. f.kind = "RESP_HEAD" => Len(out) = 0
    BY DEF Signing, NothingYet
  <2>4. f.kind \notin {"RESP_HEAD", "ERR"} =>
            /\ Len(out) > 0 /\ out[1].kind = "RESP_HEAD"
            /\ \A i \in 1..Len(out) : out[i].cut = "whole"
    BY AllWhole
  <2> QED
    BY <1>1, <2>1, <2>2, <2>3, <2>4, WellFramedAppend
<1> QED
  BY <1>2, <1>3, <1>4 DEF Framed

\* Every step keeps the framing.
LEMMA FramedNext == Signing /\ Framed /\ Capped /\ [Next]_vars => Framed'
<1> SUFFICES ASSUME Signing, Framed, Forms PROVE Framed'
  BY StepForms
<1> USE NoPieceTyped, StepNames DEF Ends, Before, Streaming, Trailers
<1>1. CASE Sinks
  <2>1. PICK k \in 0..(up.n - pos), to \in {"chunk", "plain", "h2", "err"} : Sink(k, to)
    BY <1>1 DEF Sinks
  <2>2. k \in Nat /\ pc \in Streaming
    BY <1>1, Numerals DEF Sinks, Signing
  <2>3. PICK cut \in Cuts :
            LET piece == <<pos + 1, pos + k>>
                f     == Frame("RESP_CHUNK", piece, cut)
            IN  /\ f \in FrameType /\ out' = Append(out, f)
                /\ pos' = pos + k
                /\ \/ cut = "whole" /\ pc' = to
                   \/ cut # "whole" /\ pc' = "err"
    BY <2>1, <2>2, SinkWritten
  <2> DEFINE f == Frame("RESP_CHUNK", <<pos + 1, pos + k>>, cut)
  <2>4. /\ f \in FrameType /\ out' = Append(out, f) /\ f.kind = "RESP_CHUNK"
        /\ pc' \in {"chunk", "plain", "h2", "err"}
    BY <2>3 DEF Frame
  <2> HIDE DEF f
  <2> QED
    BY <2>2, <2>4, FramedWrite
<1>2. CASE WriteRespHead
  <2>1. pc = "resp_head"
    BY <1>2 DEF WriteRespHead
  <2> QED
    BY <1>2, <2>1, HeadWritten, FramedWrite
<1>3. CASE ProofUnavailable \/ WriteProof
  <2>1. pc = "trailer"
    BY <1>3 DEF ProofUnavailable, WriteProof
  <2>2. PICK kind \in Trailers : WriteFrame(kind, NoPiece, "ok")
    BY <1>3 DEF ProofUnavailable, WriteProof
  <2>3. kind \in Kinds
    OBVIOUS
  <2>4. PICK cut \in Cuts :
            /\ Frame(kind, NoPiece, cut) \in FrameType
            /\ out' = Append(out, Frame(kind, NoPiece, cut))
            /\ \/ cut = "whole" /\ pc' = "ok"
               \/ cut # "whole" /\ pc' = "err"
    BY <2>2, <2>3, FrameWritten
  <2> DEFINE f == Frame(kind, NoPiece, cut)
  <2>5. /\ f \in FrameType /\ out' = Append(out, f) /\ f.kind \in Trailers
        /\ pc' \in {"ok", "err"} /\ (pc' = "ok" <=> f.cut = "whole")
    BY <2>4 DEF Frame
  <2> HIDE DEF f
  <2> QED
    BY <2>1, <2>5, FramedWrite
<1>4. CASE WriteErr
  <2>1. pc = "err" /\ pc' = "failed"
    BY <1>4 DEF WriteErr
  <2>2. PICK cut \in Cuts : out' = Append(out, Frame("ERR", NoPiece, cut))
    BY <1>4 DEF WriteErr
  <2>3. \E f \in FrameType : out' = Append(out, f) /\ f.kind = "ERR"
    <3>1. Frame("ERR", NoPiece, cut) \in FrameType
      BY FrameTyped
    <3> QED
      BY <2>2, <3>1 DEF Frame
  <2> QED
    BY <2>1, <2>3, FramedWrite
<1> QED
  BY <1>1, <1>2, <1>3, <1>4, FramedQuiet DEF Forms

\* Every step keeps what was delivered a prefix of the body.
LEMMA PrefixNext ==
    Signing /\ Capped /\ PrefixDelivered /\ [Next]_vars => PrefixDelivered'
<1> SUFFICES ASSUME Signing, PrefixDelivered, Forms PROVE PrefixDelivered'
  BY StepForms
<1>0. out \in Seq(FrameType) /\ pos \in Nat /\ up.n \in Nat
  BY Numerals DEF Signing, TypeOK, FrameType
<1>1. CASE Quiet \/ UNCHANGED vars
  BY <1>1 DEF Quiet, vars, PrefixDelivered, Delivered
<1>2. CASE Sinks
  <2>1. PICK k \in 0..(up.n - pos), to \in {"chunk", "plain", "h2", "err"} : Sink(k, to)
    BY <1>2 DEF Sinks
  <2>2. k \in Nat /\ pc \in Streaming
    BY <1>0, <1>2 DEF Sinks
  <2>3. PICK cut \in Cuts :
            LET piece == <<pos + 1, pos + k>>
                f     == Frame("RESP_CHUNK", piece, cut)
            IN  /\ f \in FrameType /\ out' = Append(out, f)
                /\ pos' = pos + k
                /\ \/ cut = "whole" /\ pc' = to
                   \/ cut # "whole" /\ pc' = "err"
    BY <2>1, <2>2, SinkWritten
  <2> SUFFICES ASSUME pc' \in Before \cup Streaming
               PROVE  Delivered' = 1..pos'
    BY DEF PrefixDelivered
  <2>4. cut = "whole"
    BY <2>3 DEF Before, Streaming
  <2> DEFINE f == Frame("RESP_CHUNK", <<pos + 1, pos + k>>, cut)
  <2>5. /\ f \in FrameType /\ out' = Append(out, f)
        /\ f.kind = "RESP_CHUNK" /\ f.cut = "whole"
        /\ f.piece[1] = pos + 1 /\ f.piece[2] = pos + k
    BY <2>3, <2>4 DEF Frame
  <2> HIDE DEF f
  <2>6. Delivered' = Delivered \cup (pos + 1)..(pos + k)
    BY <1>0, <2>5, DeliveredAppend
  <2>7. Delivered = 1..pos
    BY <2>2 DEF PrefixDelivered
  <2> QED
    BY <1>0, <2>2, <2>3, <2>6, <2>7
<1>3. CASE WriteRespHead
  <2>1. pc = "resp_head" /\ UNCHANGED pos
    BY <1>3 DEF WriteRespHead
  <2>2. Delivered' = Delivered
    BY <1>0, <1>3, HeadWritten, DeliveredAppend
  <2> QED
    BY <2>1, <2>2 DEF PrefixDelivered, Before
<1>4. CASE ProofUnavailable \/ WriteProof \/ WriteErr
  <2>1. pc' \in {"ok", "err", "failed"}
    BY <1>4 DEF ProofUnavailable, WriteProof, WriteErr, WriteFrame, Fail
  <2> QED
    BY <2>1 DEF PrefixDelivered, Before, Streaming
<1> QED
  BY <1>1, <1>2, <1>3, <1>4 DEF Forms

\* Initially nothing was written.
LEMMA FramedInit == Init => Framed /\ PrefixDelivered
<1> SUFFICES ASSUME Init PROVE Framed /\ PrefixDelivered
  OBVIOUS
<1>1. pc = "head" /\ out = <<>> /\ Len(out) = 0 /\ pos = 0
  BY DEF Init
<1>2. Framed
  BY <1>1 DEF Framed, WellFramed, CompletedIffTrailer, NoErrYet
<1>3. Delivered = {}
  BY <1>1, DeliveredBytes
<1> QED
  BY <1>1, <1>2, <1>3 DEF PrefixDelivered

\* The inductive invariant of the exchange: what is signed, how the control stream
\* is framed, what was counted and what was delivered.
THEOREM InvCorrect == Spec => []IInv
<1>1. Init => IInv
  BY SigningInit, CappedInit, FramedInit DEF IInv
<1>2. IInv /\ [Next]_vars => IInv'
  BY SigningNext, CappedNext, FramedNext, PrefixNext DEF IInv
<1> QED
  BY <1>1, <1>2, PTL DEF Spec

\* The control stream is RESP_HEAD, RESP_CHUNKs and one trailer or ERR, whatever
\* breaks; after a broken frame comes at most the worker's ERR.
THEOREM WellFramedCorrect == Spec => []WellFramed
<1>1. IInv => WellFramed
  BY DEF IInv, Framed
<1> QED
  BY <1>1, InvCorrect, PTL

\* handle() returns Ok exactly when a whole trailer was written.
THEOREM CompletedIffTrailerCorrect == Spec => []CompletedIffTrailer
<1>1. IInv => CompletedIffTrailer
  BY DEF IInv, Framed
<1> QED
  BY <1>1, InvCorrect, PTL

\* No framing lets more than MAX_RESP bytes through when the declared chunk sizes
\* are true.
THEOREM CapCorrect == Spec => []TrueSizesWithinCap
<1>1. IInv => TrueSizesWithinCap
  BY DEF IInv, Capped
<1> QED
  BY <1>1, InvCorrect, PTL

-----------------------------------------------------------------------------
(* The exchange implements Observation.                                     *)

\* How the verdict follows from where handle() is.
LEMMA VerdictAt ==
    ASSUME Signing
    PROVE  /\ pc \notin Ends => Verdict = "open" /\ Vouched = {}
           /\ pc \in Ends \ {"ok"} => Verdict = "broken" /\ Vouched = {}
           /\ pc = "ok" /\ ~Attested => Verdict = "disclaimed" /\ Vouched = {}
           /\ Attested => Verdict = "attested" /\ Vouched = Signed
BY DEF Signing, NoProofYet, Verdict, Vouched, Ends

\* A step that the observer does not see.
LEMMA Unseen ==
    ASSUME UNCHANGED given, Verdict' = Verdict, Vouched' = Vouched,
           Delivered' = Delivered
    PROVE  UNCHANGED Promise!vars
BY DEF Promise!vars, given

\* Nothing was delivered and nothing is decided.
LEMMA ObservationInit == Init => Promise!Init
<1> SUFFICES ASSUME Init PROVE Promise!Init
  OBVIOUS
<1>1. Signing /\ pc = "head" /\ Len(out) = 0
  BY SigningInit DEF Init
<1>2. Verdict = "open" /\ Vouched = {}
  BY <1>1, VerdictAt DEF Ends
<1>3. Delivered = {}
  BY <1>1, DeliveredBytes
<1>4. up.n \in Nat
  BY <1>1, Numerals DEF Signing
<1> QED
  BY <1>2, <1>3, <1>4 DEF Promise!Init

\* What is under the signature is what was delivered.
LEMMA SignedIsDelivered ==
    ASSUME Signing, pc \in Streaming, stmt' = hashed
    PROVE  Signed' = Delivered
<1>1. /\ Len(out) = Len(hashed) + 1 /\ Forwarded(hashed) /\ Len(hashed) \in Nat
  BY DEF Signing, InStep, TypeOK
<1>2. \A x : x \in Signed' <=> \E i \in 1..Len(hashed) : x \in hashed[i][1]..hashed[i][2]
  BY DEF Signed
<1>3. ASSUME NEW x, x \in Signed'
      PROVE  x \in Delivered
  <2>1. PICK i \in 1..Len(hashed) : x \in hashed[i][1]..hashed[i][2]
    BY <1>2, <1>3
  <2>2. i + 1 \in 1..Len(out) /\ out[i + 1] = Frame("RESP_CHUNK", hashed[i], "whole")
    BY <1>1 DEF Forwarded
  <2> QED
    BY <2>1, <2>2, DeliveredBytes DEF Frame
<1>4. ASSUME NEW x, x \in Delivered
      PROVE  x \in Signed'
  <2>1. PICK j \in 1..Len(out) : /\ out[j].kind = "RESP_CHUNK"
                                 /\ x \in out[j].piece[1]..out[j].piece[2]
    BY <1>4, DeliveredBytes
  <2>2. j # 1
    BY <1>1, <2>1 DEF Forwarded, Frame
  <2>3. j - 1 \in 1..Len(hashed) /\ j = (j - 1) + 1
    BY <1>1, <2>2
  <2>4. out[j] = Frame("RESP_CHUNK", hashed[j - 1], "whole")
    BY <1>1, <2>3 DEF Forwarded
  <2> QED
    BY <1>2, <2>1, <2>3, <2>4 DEF Frame
<1> QED
  BY <1>3, <1>4

\* A call of the sink delivers the next bytes of the body, or nothing when the frame
\* breaks.
LEMMA ObservationSinks ==
    ASSUME IInv, Signing', Sinks
    PROVE  [Promise!Next]_(Promise!vars)
<1>0. /\ Signing /\ out \in Seq(FrameType) /\ pos \in Nat /\ up.n \in Nat
      /\ pc \in Streaming /\ UNCHANGED given /\ pos <= up.n
  BY Numerals DEF IInv, Signing, TypeOK, FrameType, Sinks, Capped, WithinBody
<1>1. PICK k \in 0..(up.n - pos), to \in {"chunk", "plain", "h2", "err"} : Sink(k, to)
  BY DEF Sinks
<1>2. k \in Nat
  BY <1>0
<1>3. PICK cut \in Cuts :
          LET piece == <<pos + 1, pos + k>>
              f     == Frame("RESP_CHUNK", piece, cut)
          IN  /\ f \in FrameType /\ out' = Append(out, f)
              /\ pos' = pos + k
              /\ \/ cut = "whole" /\ pc' = to
                 \/ cut # "whole" /\ pc' = "err"
  BY <1>0, <1>1, <1>2, SinkWritten
<1>4. Verdict = "open" /\ Vouched = {} /\ Verdict' = "open" /\ Vouched' = {}
  <2>1. pc \notin Ends /\ pc' \notin Ends
    BY <1>0, <1>3 DEF Ends, Streaming
  <2>2. pc' \notin Ends => Verdict' = "open" /\ Vouched' = {}
    BY DEF Signing, NoProofYet, Verdict, Vouched, Ends
  <2> QED
    BY <1>0, <2>1, <2>2, VerdictAt
<1> DEFINE f == Frame("RESP_CHUNK", <<pos + 1, pos + k>>, cut)
<1>5. /\ f \in FrameType /\ out' = Append(out, f)
      /\ f.kind = "RESP_CHUNK" /\ f.cut = cut
      /\ f.piece[1] = pos + 1 /\ f.piece[2] = pos + k
  BY <1>3 DEF Frame
<1> HIDE DEF f
<1>6. CASE cut = "whole"
  <2>1. Delivered' = Delivered \cup (pos + 1)..(pos + k)
    BY <1>0, <1>5, <1>6, DeliveredAppend
  <2>2. Delivered = 1..pos
    BY <1>0 DEF IInv, PrefixDelivered
  <2>3. pos + k \in 0..up.n /\ Delivered \subseteq 1..(pos + k) /\ Delivered' = 1..(pos + k)
    BY <1>0, <1>2, <2>1, <2>2
  <2>4. Promise!Deliver
    BY <1>0, <1>4, <2>3 DEF Promise!Deliver, given
  <2> QED
    BY <2>4 DEF Promise!Next
<1>7. CASE cut # "whole"
  <2>1. Delivered' = Delivered
    BY <1>0, <1>5, <1>7, DeliveredAppend
  <2> QED
    BY <1>0, <1>4, <2>1, Unseen
<1> QED
  BY <1>6, <1>7

\* A trailer that arrives attests what was delivered, or disclaims; one that breaks
\* changes nothing for the observer.
LEMMA ObservationTrailer ==
    ASSUME IInv, Signing', ProofUnavailable \/ WriteProof
    PROVE  [Promise!Next]_(Promise!vars)
<1>0. /\ Signing /\ out \in Seq(FrameType) /\ pc = "trailer" /\ UNCHANGED <<given, pos>>
  BY DEF IInv, Signing, TypeOK, FrameType, ProofUnavailable, WriteProof
<1>1. Verdict = "open" /\ Vouched = {}
  BY <1>0, VerdictAt DEF Ends
<1>2. PICK kind \in Trailers : /\ WriteFrame(kind, NoPiece, "ok")
                               /\ kind = "proof" => stmt' = hashed
  BY DEF ProofUnavailable, WriteProof, Trailers
<1>3. kind \in Kinds
  BY StepNames DEF Trailers
<1>4. PICK cut \in Cuts :
          /\ Frame(kind, NoPiece, cut) \in FrameType
          /\ out' = Append(out, Frame(kind, NoPiece, cut))
          /\ \/ cut = "whole" /\ pc' = "ok"
             \/ cut # "whole" /\ pc' = "err"
  BY <1>2, <1>3, FrameWritten, NoPieceTyped
<1>5. Delivered' = Delivered
  <2>1. Frame(kind, NoPiece, cut).kind # "RESP_CHUNK"
    BY DEF Frame, Trailers
  <2> QED
    BY <1>0, <1>4, <2>1, DeliveredAppend
<1>6. Attested' <=> kind = "proof" /\ cut = "whole"
  <2>1. Len(out') = Len(out) + 1 /\ Len(out) \in Nat
        /\ out'[Len(out) + 1] = Frame(kind, NoPiece, cut)
    BY <1>0, <1>4, Appended
  <2>2. Frame(kind, NoPiece, cut) = Frame("proof", NoPiece, "whole")
            <=> kind = "proof" /\ cut = "whole"
    BY DEF Frame
  <2> QED
    BY <2>1, <2>2 DEF Attested
<1>7. CASE cut # "whole"
  <2>1. ~Attested' /\ pc' = "err"
    BY <1>4, <1>6, <1>7
  <2>2. Verdict' = "open" /\ Vouched' = {}
    BY <2>1 DEF Verdict, Vouched, Ends
  <2> QED
    BY <1>0, <1>1, <1>5, <2>2, Unseen
<1>8. CASE cut = "whole" /\ kind # "proof"
  <2>1. ~Attested' /\ pc' = "ok"
    BY <1>4, <1>6, <1>8
  <2>2. Verdict' = "disclaimed" /\ Vouched' = {}
    BY <2>1 DEF Verdict, Vouched, Ends
  <2>3. Promise!GiveUp
    BY <1>0, <1>1, <1>5, <2>2 DEF Promise!GiveUp, given
  <2> QED
    BY <2>3 DEF Promise!Next
<1>9. CASE cut = "whole" /\ kind = "proof"
  <2>1. Signed' = Delivered
    BY <1>0, <1>2, <1>9, SignedIsDelivered DEF Streaming
  <2>2. Attested' /\ pc' = "ok"
    BY <1>4, <1>6, <1>9
  <2>3. Verdict' = "attested" /\ Vouched' = Delivered
    BY <2>1, <2>2 DEF Verdict, Vouched, Ends
  <2>4. up.framing # "close" => Delivered = 1..up.n
    BY <1>0 DEF IInv, Signing, EndReached, Over, PrefixDelivered, Streaming
  <2>5. Promise!Attest
    BY <1>0, <1>1, <1>5, <2>3, <2>4 DEF Promise!Attest, given
  <2> QED
    BY <2>5 DEF Promise!Next
<1> QED
  BY <1>7, <1>8, <1>9

\* Every step of the exchange is a step of Observation, or one it does not see.
LEMMA ObservationNext ==
    IInv /\ [Next]_vars => [Promise!Next]_(Promise!vars)
<1> SUFFICES ASSUME IInv, [Next]_vars PROVE [Promise!Next]_(Promise!vars)
  OBVIOUS
<1>0. Signing /\ Forms /\ out \in Seq(FrameType)
  BY StepForms DEF IInv, Signing, TypeOK, FrameType
<1>1. Signing'
  BY SigningNext DEF IInv
<1>2. CASE Sinks
  BY <1>1, <1>2, ObservationSinks
<1>3. CASE ProofUnavailable \/ WriteProof
  BY <1>1, <1>3, ObservationTrailer
<1>4. CASE UNCHANGED vars
  BY <1>4, Unseen DEF vars, Verdict, Vouched, Attested, Signed, Delivered
<1>5. CASE Quiet
  <2>1. Delivered' = Delivered /\ UNCHANGED given
    BY <1>5 DEF Quiet, Delivered
  <2>2. pc \notin Ends /\ Verdict = "open" /\ Vouched = {}
    BY <1>0, <1>5, VerdictAt DEF Quiet
  <2>3. ~Attested'
    BY <1>0, <1>5, <2>2 DEF Quiet, Attested, Signing, NoProofYet, Ends
  <2>4. CASE pc' = "panicked"
    <3>1. Verdict' = "broken" /\ Vouched' = {}
      BY <2>3, <2>4 DEF Verdict, Vouched, Ends
    <3>2. Promise!GiveUp
      BY <2>1, <2>2, <3>1 DEF Promise!GiveUp, given
    <3> QED
      BY <3>2 DEF Promise!Next
  <2>5. CASE pc' # "panicked"
    <3>1. Verdict' = "open" /\ Vouched' = {}
      BY <1>5, <2>3, <2>5 DEF Quiet, Verdict, Vouched, Ends
    <3> QED
      BY <2>1, <2>2, <3>1, Unseen
  <2> QED
    BY <2>4, <2>5
<1>6. CASE WriteRespHead
  <2>1. pc = "resp_head" /\ UNCHANGED given /\ pc' \notin Ends
    BY <1>6, HeadWritten DEF WriteRespHead, Ends
  <2>2. Verdict = "open" /\ Vouched = {}
    BY <1>0, <2>1, VerdictAt DEF Ends
  <2>3. Verdict' = "open" /\ Vouched' = {}
    BY <1>1, <2>1 DEF Signing, NoProofYet, Verdict, Vouched, Ends
  <2>4. Delivered' = Delivered
    BY <1>0, <1>6, HeadWritten, DeliveredAppend
  <2> QED
    BY <2>1, <2>2, <2>3, <2>4, Unseen
<1>7. CASE WriteErr
  <2>1. pc = "err" /\ pc' = "failed" /\ UNCHANGED given
    BY <1>7 DEF WriteErr
  <2>2. Verdict = "open" /\ Vouched = {}
    BY <1>0, <2>1, VerdictAt DEF Ends
  <2>3. Verdict' = "broken" /\ Vouched' = {}
    BY <1>1, <2>1 DEF Signing, NoProofYet, Verdict, Vouched, Ends
  <2>4. PICK cut \in Cuts : out' = Append(out, Frame("ERR", NoPiece, cut))
    BY <1>7 DEF WriteErr
  <2>5. Frame("ERR", NoPiece, cut) \in FrameType
    BY FrameTyped, NoPieceTyped, StepNames
  <2>6. Frame("ERR", NoPiece, cut).kind # "RESP_CHUNK"
    BY DEF Frame
  <2>7. Delivered' = Delivered
    BY <1>0, <2>4, <2>5, <2>6, DeliveredAppend
  <2>8. Promise!GiveUp
    BY <2>1, <2>2, <2>3, <2>7 DEF Promise!GiveUp, given
  <2> QED
    BY <2>8 DEF Promise!Next
<1> QED
  BY <1>0, <1>2, <1>3, <1>4, <1>5, <1>6, <1>7 DEF Forms

\* The exchange implements what a verifier may conclude from a proof: the relay gets
\* a growing prefix of the upstream's body; a proof that reaches it is for exactly
\* that prefix, and for the whole body when its end is marked; and an exchange that
\* broke off or disclaimed is never attested.
THEOREM ObservationCorrect == Spec => ImplementsObservation
<1>1. Init => Promise!Init
  BY ObservationInit
<1>2. IInv /\ [Next]_vars => [Promise!Next]_(Promise!vars)
  BY ObservationNext
<1> QED
  BY <1>1, <1>2, InvCorrect, PTL DEF Spec, ImplementsObservation, Promise!Spec
===============================================================================
