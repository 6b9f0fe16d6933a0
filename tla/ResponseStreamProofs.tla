-------------------------- MODULE ResponseStreamProofs --------------------------
(***************************************************************************)
(* Theorems about ResponseStream, for streams of every length: an error    *)
(* the provider sends is in the view of the response wherever the stream   *)
(* ends, in each of the seven protocols.                                   *)
(***************************************************************************)
EXTENDS ResponseStream, SequenceTheorems, TLAPS

-----------------------------------------------------------------------------
(* Objects.                                                                 *)

\* The members K of an object o after it took in event e: those of e, if it has
\* them, and else what they were.
Follows(K, o, q, e) ==
    \A k \in K :
        /\ k \in DOMAIN e => k \in DOMAIN q /\ q[k] = e[k]
        /\ k \notin DOMAIN e /\ k \in DOMAIN o => k \in DOMAIN q /\ q[k] = o[k]

\* The members K are as they were.
Keeps(K, o, q) == \A k \in K : k \in DOMAIN o => k \in DOMAIN q /\ q[k] = o[k]

LEMMA MergeIs ==
    ASSUME NEW o, NEW source
    PROVE  /\ DOMAIN Merge(o, source) = DOMAIN source \cup DOMAIN o
           /\ \A k \in DOMAIN source : Merge(o, source)[k] = source[k]
           /\ \A k \in DOMAIN o \ DOMAIN source : Merge(o, source)[k] = o[k]
  BY DEF Merge

LEMMA PickIs ==
    ASSUME NEW o, NEW keys
    PROVE  /\ DOMAIN Pick(o, keys) = DOMAIN o \cap keys
           /\ \A k \in DOMAIN o \cap keys : Pick(o, keys)[k] = o[k]
  BY DEF Pick, Restrict

LEMMA EmptyIs == DOMAIN Empty = {}
  BY DEF Empty

LEMMA KeepsTwice ==
    ASSUME NEW K, NEW o, NEW p, NEW q, Keeps(K, o, p), Keeps(K, p, q)
    PROVE  Keeps(K, o, q)
  BY DEF Keeps

LEMMA KeepsFollows ==
    ASSUME NEW K, NEW o, NEW p, NEW q, NEW e, Keeps(K, o, p), Follows(K, p, q, e)
    PROVE  Follows(K, o, q, e)
  BY DEF Keeps, Follows

LEMMA MergeKeeps ==
    ASSUME NEW K, NEW o, NEW source, K \cap DOMAIN source = {}
    PROVE  Keeps(K, o, Merge(o, source))
  BY MergeIs DEF Keeps

LEMMA PutKeeps ==
    ASSUME NEW K, NEW o, NEW k, NEW v, k \notin K
    PROVE  Keeps(K, o, Put(o, k, v))
  BY DEF Keeps, Put

LEMMA MergeFollows ==
    ASSUME NEW K, NEW o, NEW e, NEW keys, K \subseteq keys
    PROVE  Follows(K, o, Merge(o, Pick(e, keys)), e)
<1> DEFINE x == Pick(e, keys)
<1>1. DOMAIN x = DOMAIN e \cap keys /\ \A k \in DOMAIN e \cap keys : x[k] = e[k]
  BY PickIs
<1> HIDE DEF x
<1> DEFINE q == Merge(o, x)
<1>2. /\ DOMAIN q = DOMAIN x \cup DOMAIN o
      /\ \A k \in DOMAIN x : q[k] = x[k]
      /\ \A k \in DOMAIN o \ DOMAIN x : q[k] = o[k]
  BY MergeIs
<1> HIDE DEF q
<1>3. ASSUME NEW k \in K PROVE
        /\ k \in DOMAIN e => k \in DOMAIN q /\ q[k] = e[k]
        /\ k \notin DOMAIN e /\ k \in DOMAIN o => k \in DOMAIN q /\ q[k] = o[k]
  BY <1>1, <1>2
<1>4. Follows(K, o, q, e)
  BY <1>3 DEF Follows
<1> QED
  BY <1>4 DEF q, x

LEMMA KeepsAbsent ==
    ASSUME NEW K, NEW o, NEW q, NEW e, Keeps(K, o, q), K \cap DOMAIN e = {}
    PROVE  Follows(K, o, q, e)
  BY DEF Keeps, Follows

-----------------------------------------------------------------------------
(* States.                                                                  *)

StateOf(o, m, b, t) == [out |-> o, message |-> m, blocks |-> b, text |-> t]
IsState(s) == s = StateOf(s.out, s.message, s.blocks, s.text)

LEMMA StateFields ==
    ASSUME NEW o, NEW m, NEW b, NEW t, NEW s, s = StateOf(o, m, b, t)
    PROVE  /\ IsState(s) /\ s.out = o /\ s.message = m /\ s.blocks = b /\ s.text = t
           /\ \A v : /\ [s EXCEPT !.out = v] = StateOf(v, m, b, t)
                     /\ [s EXCEPT !.message = v] = StateOf(o, v, b, t)
                     /\ [s EXCEPT !.blocks = v] = StateOf(o, m, v, t)
                     /\ [s EXCEPT !.text = v] = StateOf(o, m, b, v)
  BY DEF StateOf, IsState

LEMMA SetOut ==
    ASSUME NEW s, IsState(s), NEW v
    PROVE  IsState([s EXCEPT !.out = v]) /\ [s EXCEPT !.out = v].out = v
  BY DEF StateOf, IsState

LEMMA SetMessage ==
    ASSUME NEW s, IsState(s), NEW v
    PROVE  IsState([s EXCEPT !.message = v]) /\ [s EXCEPT !.message = v].out = s.out
  BY DEF StateOf, IsState

WithOut(s, v)            == [s EXCEPT !.out = v]
WithMessage(s, v)        == [s EXCEPT !.message = v]
WithText(s, v)           == [s EXCEPT !.text = v]
OutMessage(s, q, m)      == [s EXCEPT !.out = q, !.message = m]
MessageOut(s, q, m)      == [s EXCEPT !.message = m, !.out = q]
MessageOutText(s, q, m, t) == [s EXCEPT !.message = m, !.out = q, !.text = t]

LEMMA OneByOne ==
    ASSUME NEW o, NEW n, NEW b, NEW u, NEW s, s = StateOf(o, n, b, u), NEW q, NEW m, NEW t
    PROVE  /\ OutMessage(s, q, m) = WithMessage(WithOut(s, q), m)
           /\ MessageOut(s, q, m) = WithOut(WithMessage(s, m), q)
           /\ MessageOutText(s, q, m, t) = WithText(WithOut(WithMessage(s, m), q), t)
<1>1. OutMessage(s, q, m) = WithMessage(WithOut(s, q), m)
  BY DEF StateOf, OutMessage, WithOut, WithMessage
<1>2. MessageOut(s, q, m) = WithOut(WithMessage(s, m), q)
  BY DEF StateOf, MessageOut, WithOut, WithMessage
<1>3. MessageOutText(s, q, m, t) = WithText(WithOut(WithMessage(s, m), q), t)
  BY DEF StateOf, MessageOutText, WithOut, WithMessage, WithText
<1> QED
  BY <1>1, <1>2, <1>3

LEMMA SetSeveral ==
    ASSUME NEW s, IsState(s), NEW q, NEW m, NEW t
    PROVE  /\ IsState(OutMessage(s, q, m)) /\ OutMessage(s, q, m).out = q
           /\ IsState(MessageOut(s, q, m)) /\ MessageOut(s, q, m).out = q
           /\ IsState(MessageOutText(s, q, m, t)) /\ MessageOutText(s, q, m, t).out = q
<1>1. \A r, v : IsState(r) => /\ IsState(WithOut(r, v)) /\ WithOut(r, v).out = v
                             /\ IsState(WithMessage(r, v)) /\ WithMessage(r, v).out = r.out
                             /\ IsState(WithText(r, v)) /\ WithText(r, v).out = r.out
  BY DEF StateOf, IsState, WithOut, WithMessage, WithText
<1>2. /\ OutMessage(s, q, m) = WithMessage(WithOut(s, q), m)
      /\ MessageOut(s, q, m) = WithOut(WithMessage(s, m), q)
      /\ MessageOutText(s, q, m, t) = WithText(WithOut(WithMessage(s, m), q), t)
  <2> DEFINE o == s.out  n == s.message  b == s.blocks  u == s.text
  <2>1. s = StateOf(o, n, b, u)
    BY Zenon DEF IsState
  <2> HIDE DEF o, n, b, u
  <2> QED
    BY <2>1, OneByOne
<1>3. IsState(OutMessage(s, q, m)) /\ OutMessage(s, q, m).out = q
  BY <1>1, <1>2
<1>4. IsState(MessageOut(s, q, m)) /\ MessageOut(s, q, m).out = q
  BY <1>1, <1>2
<1>5. IsState(MessageOutText(s, q, m, t)) /\ MessageOutText(s, q, m, t).out = q
  BY <1>1, <1>2
<1> QED
  BY <1>3, <1>4, <1>5

LEMMA SetBlockIs ==
    ASSUME NEW s, IsState(s), NEW i, NEW b
    PROVE  IsState(SetBlock(s, i, b)) /\ SetBlock(s, i, b).out = s.out
<1> DEFINE v == Put(s.blocks, i, b)
<1>1. SetBlock(s, i, b) = [s EXCEPT !.blocks = v]
  BY Zenon DEF SetBlock
<1> HIDE DEF v
<1> QED
  BY <1>1 DEF StateOf, IsState

-----------------------------------------------------------------------------
(* Going through an array.  Its elements change blocks only.                *)

Choosing    == INSTANCE FoldLaws WITH Op <- OpenaiChatChoice
Candidating == INSTANCE FoldLaws WITH Op <- GeminiCandidate
Dashing     == INSTANCE FoldLaws WITH Op <- DashscopeChoice

LEMMA EnumeratedType ==
    ASSUME NEW D, NEW a \in Seq(D), NEW js
    PROVE  \E E : Enumerated(js, a) \in Seq(E)
<1> DEFINE x == Enumerated(js, a)
           E == {x[n] : n \in 1..Len(a)}
<1>1. DOMAIN x = 1..Len(a) /\ Len(a) \in Nat
  BY DEF Enumerated
<1>2. x = [n \in 1..Len(a) |-> x[n]]
  BY <1>1 DEF Enumerated
<1> HIDE DEF x
<1>3. x \in Seq(E)
  BY <1>1, <1>2
<1> QED
  BY <1>3 DEF x

LEMMA ChooseOut ==
    ASSUME NEW s, IsState(s), NEW e
    PROVE  /\ IsState(OpenaiChatChoice(s, e)) /\ OpenaiChatChoice(s, e).out = s.out
           /\ IsState(GeminiCandidate(s, e)) /\ GeminiCandidate(s, e).out = s.out
           /\ IsState(DashscopeChoice(s, e)) /\ DashscopeChoice(s, e).out = s.out
<1>1. \E i, b : OpenaiChatChoice(s, e) = SetBlock(s, i, b)
  BY Zenon DEF OpenaiChatChoice
<1>2. \E i, b : GeminiCandidate(s, e) = SetBlock(s, i, b)
  BY Zenon DEF GeminiCandidate
<1>3. \E i, b : DashscopeChoice(s, e) = SetBlock(s, i, b)
  BY Zenon DEF DashscopeChoice
<1> QED
  BY <1>1, <1>2, <1>3, SetBlockIs, Zenon

LEMMA ChatFold ==
    ASSUME NEW s, IsState(s), NEW E, NEW a \in Seq(E)
    PROVE  IsState(FoldLeft(OpenaiChatChoice, s, a)) /\ FoldLeft(OpenaiChatChoice, s, a).out = s.out
<1> DEFINE F(u) == Choosing!Fold(s, u)
           S == {u \in Seq(E) : IsState(F(u)) /\ F(u).out = s.out}
<1>1. <<>> \in S
  BY Choosing!FoldEmpty, EmptySeq
<1>2. ASSUME NEW u \in Seq(E), NEW x \in E, u \in S
      PROVE  Append(u, x) \in S
  <2>1. F(Append(u, x)) = OpenaiChatChoice(F(u), x)
    BY Choosing!FoldAppend
  <2>2. IsState(F(u)) /\ F(u).out = s.out
    BY <1>2
  <2>3. Append(u, x) \in Seq(E)
    BY AppendProperties
  <2> HIDE DEF F
  <2> QED
    BY <2>1, <2>2, <2>3, ChooseOut
<1> HIDE DEF S
<1>3. a \in S
  BY <1>1, <1>2, Choosing!SeqSet
<1>4. IsState(F(a)) /\ F(a).out = s.out
  BY <1>3 DEF S
<1>5. FoldLeft(OpenaiChatChoice, s, a) = F(a)
  BY Zenon DEF FoldLeft, MapThenFoldSet, Max, Choosing!Fold, Choosing!Largest
<1> QED
  BY <1>4, <1>5, Zenon

LEMMA GeminiFold ==
    ASSUME NEW s, IsState(s), NEW E, NEW a \in Seq(E)
    PROVE  IsState(FoldLeft(GeminiCandidate, s, a)) /\ FoldLeft(GeminiCandidate, s, a).out = s.out
<1> DEFINE F(u) == Candidating!Fold(s, u)
           S == {u \in Seq(E) : IsState(F(u)) /\ F(u).out = s.out}
<1>1. <<>> \in S
  BY Candidating!FoldEmpty, EmptySeq
<1>2. ASSUME NEW u \in Seq(E), NEW x \in E, u \in S
      PROVE  Append(u, x) \in S
  <2>1. F(Append(u, x)) = GeminiCandidate(F(u), x)
    BY Candidating!FoldAppend
  <2>2. IsState(F(u)) /\ F(u).out = s.out
    BY <1>2
  <2>3. Append(u, x) \in Seq(E)
    BY AppendProperties
  <2> HIDE DEF F
  <2> QED
    BY <2>1, <2>2, <2>3, ChooseOut
<1> HIDE DEF S
<1>3. a \in S
  BY <1>1, <1>2, Candidating!SeqSet
<1>4. IsState(F(a)) /\ F(a).out = s.out
  BY <1>3 DEF S
<1>5. FoldLeft(GeminiCandidate, s, a) = F(a)
  BY Zenon DEF FoldLeft, MapThenFoldSet, Max, Candidating!Fold, Candidating!Largest
<1> QED
  BY <1>4, <1>5, Zenon

LEMMA DashscopeFold ==
    ASSUME NEW s, IsState(s), NEW E, NEW a \in Seq(E)
    PROVE  IsState(FoldLeft(DashscopeChoice, s, a)) /\ FoldLeft(DashscopeChoice, s, a).out = s.out
<1> DEFINE F(u) == Dashing!Fold(s, u)
           S == {u \in Seq(E) : IsState(F(u)) /\ F(u).out = s.out}
<1>1. <<>> \in S
  BY Dashing!FoldEmpty, EmptySeq
<1>2. ASSUME NEW u \in Seq(E), NEW x \in E, u \in S
      PROVE  Append(u, x) \in S
  <2>1. F(Append(u, x)) = DashscopeChoice(F(u), x)
    BY Dashing!FoldAppend
  <2>2. IsState(F(u)) /\ F(u).out = s.out
    BY <1>2
  <2>3. Append(u, x) \in Seq(E)
    BY AppendProperties
  <2> HIDE DEF F
  <2> QED
    BY <2>1, <2>2, <2>3, ChooseOut
<1> HIDE DEF S
<1>3. a \in S
  BY <1>1, <1>2, Dashing!SeqSet
<1>4. IsState(F(a)) /\ F(a).out = s.out
  BY <1>3 DEF S
<1>5. FoldLeft(DashscopeChoice, s, a) = F(a)
  BY Zenon DEF FoldLeft, MapThenFoldSet, Max, Dashing!Fold, Dashing!Largest
<1> QED
  BY <1>4, <1>5, Zenon

-----------------------------------------------------------------------------
(* apply.                                                                   *)

IsArray(a) == \E D : a \in Seq(D)

\* A step of a stream state that takes the members K of event e over into out.
Takes(K, s, t, e) == IsState(t) /\ Follows(K, s.out, t.out, e)

LEMMA ChatTakes ==
    ASSUME NEW s, IsState(s), NEW e, IsArray(Or(Get(e, "choices"), <<>>))
    PROVE  Takes({"error"}, s, OpenaiChatApply(FALSE, s, e), e)
<1> DEFINE model == IF "model" \in DOMAIN s.out THEN Empty ELSE NonNull(Pick(e, {"model"}))
           o == Merge(s.out, model)
           q == Merge(o, Pick(e, {"usage", "error"}))
           start == [s EXCEPT !.out = q]
           a == Or(Get(e, "choices"), <<>>)
           x == Enumerated(FALSE, a)
<1>1. OpenaiChatApply(FALSE, s, e) = FoldLeft(OpenaiChatChoice, start, x)
  BY Zenon DEF OpenaiChatApply
<1>2. PICK E : x \in Seq(E)
  BY EnumeratedType DEF IsArray
<1>3. {"error"} \cap DOMAIN model = {}
  <2> DEFINE n == Pick(e, {"model"})
  <2>1. DOMAIN n \subseteq {"model"}
    BY PickIs
  <2> HIDE DEF n
  <2>2. DOMAIN NonNull(n) \subseteq DOMAIN n
    BY DEF NonNull, Restrict
  <2>3. model = Empty \/ model = NonNull(n)
    BY Zenon DEF n
  <2> HIDE DEF model
  <2> QED
    BY <2>1, <2>2, <2>3, EmptyIs
<1> HIDE DEF model, x
<1>4. Keeps({"error"}, s.out, o)
  BY <1>3, MergeKeeps
<1> HIDE DEF o
<1>5. Follows({"error"}, o, q, e)
  BY MergeFollows
<1>6. Follows({"error"}, s.out, q, e)
  BY <1>4, <1>5, KeepsFollows
<1> HIDE DEF q
<1>7. IsState(start) /\ start.out = q
  BY SetOut
<1> HIDE DEF start
<1>8. IsState(FoldLeft(OpenaiChatChoice, start, x)) /\ FoldLeft(OpenaiChatChoice, start, x).out = q
  BY <1>2, <1>7, ChatFold
<1> QED
  BY <1>1, <1>6, <1>8, Zenon DEF Takes

LEMMA GeminiTakes ==
    ASSUME NEW s, IsState(s), NEW e, IsArray(Or(Get(e, "candidates"), <<>>))
    PROVE  Takes({"error"}, s, GeminiGenerateContentApply(FALSE, s, e), e)
<1> DEFINE q == Merge(s.out, Pick(e, GeminiKeys \ {"candidates"}))
           start == [s EXCEPT !.out = q]
           x == Enumerated(FALSE, Or(Get(e, "candidates"), <<>>))
<1>1. GeminiGenerateContentApply(FALSE, s, e) = FoldLeft(GeminiCandidate, start, x)
  BY Zenon DEF GeminiGenerateContentApply
<1>2. PICK E : x \in Seq(E)
  BY EnumeratedType DEF IsArray
<1> HIDE DEF x
<1>3. {"error"} \subseteq GeminiKeys \ {"candidates"}
  BY DEF GeminiKeys
<1>4. Follows({"error"}, s.out, q, e)
  BY <1>3, MergeFollows
<1> HIDE DEF q
<1>5. IsState(start) /\ start.out = q
  BY SetOut
<1> HIDE DEF start
<1>6. IsState(FoldLeft(GeminiCandidate, start, x)) /\ FoldLeft(GeminiCandidate, start, x).out = q
  BY <1>2, <1>5, GeminiFold
<1> QED
  BY <1>1, <1>4, <1>6, Zenon DEF Takes

LEMMA DashscopeTakes ==
    ASSUME NEW s, IsState(s), NEW e,
           IsArray(Or(Get(Or(Get(e, "output"), Empty), "choices"), <<>>))
    PROVE  Takes({"code", "message"}, s, DashscopeGenerationApply(FALSE, s, e), e)
<1> DEFINE q == Merge(s.out, Pick(e, DashscopeKeys \ {"output"}))
           output == Or(Get(e, "output"), Empty)
           m == Merge(s.message, Without(output, {"choices"}))
           start == OutMessage(s, q, m)
           x == Enumerated(FALSE, Or(Get(output, "choices"), <<>>))
<1>1. DashscopeGenerationApply(FALSE, s, e) = FoldLeft(DashscopeChoice, start, x)
  BY Zenon DEF DashscopeGenerationApply, OutMessage
<1>2. PICK E : x \in Seq(E)
  BY EnumeratedType DEF IsArray
<1> HIDE DEF x, m
<1>3. {"code", "message"} \subseteq DashscopeKeys \ {"output"}
  BY DEF DashscopeKeys
<1>4. Follows({"code", "message"}, s.out, q, e)
  BY <1>3, MergeFollows
<1> HIDE DEF q
<1>5. IsState(start) /\ start.out = q
  BY SetSeveral
<1> HIDE DEF start
<1>6. IsState(FoldLeft(DashscopeChoice, start, x)) /\ FoldLeft(DashscopeChoice, start, x).out = q
  BY <1>2, <1>5, DashscopeFold
<1> QED
  BY <1>1, <1>4, <1>6, Zenon DEF Takes

LEMMA BedrockTakes ==
    ASSUME NEW s, IsState(s), NEW e
    PROVE  Takes({"error"}, s, BedrockConverseApply(FALSE, s, e), e)
<1> DEFINE object(k) == Or(Get(e, k), Empty)
           index(t, o) == Or(Get(o, "contentBlockIndex"), Count(t))
           start(t, o) == LET i == index(t, o)
                          IN  SetBlock(t, i, Merge(BlockOr(t, i, Empty),
                                                   Or(Get(o, "start"), Empty)))
           grow(t, o) == LET i == index(t, o)
                         IN  SetBlock(t, i, MergeBedrockContentDelta(BlockOr(t, i, Empty),
                                                                     Or(Get(o, "delta"), Empty)))
           begun == IF Get(e, "contentBlockStart") = Null THEN s
                    ELSE start(s, e.contentBlockStart)
           grown == IF Get(e, "contentBlockDelta") = Null THEN begun
                    ELSE grow(begun, e.contentBlockDelta)
           members == Merge(Pick(object("messageStop"), {"stopReason"}),
                            Pick(object("metadata"), {"usage"}))
           keys == IF "output" \in DOMAIN e /\ (e.output # Null \/ ~FALSE) THEN BedrockKeys
                   ELSE {"error"}
           o == Merge(grown.out, members)
           q == Merge(o, Pick(e, keys))
           m == Merge(grown.message, Pick(object("messageStart"), {"role"}))
           new == MessageOut(grown, q, m)
<1>1. BedrockConverseApply(FALSE, s, e) = new
  BY Zenon DEF BedrockConverseApply, MessageOut
<1>2. IsState(begun) /\ begun.out = s.out
  <2>1. begun = s \/ \E i, b : begun = SetBlock(s, i, b)
    BY Zenon
  <2> QED
    BY <2>1, SetBlockIs, Zenon
<1>3. IsState(grown) /\ grown.out = s.out
  <2>1. grown = begun \/ \E i, b : grown = SetBlock(begun, i, b)
    BY Zenon
  <2> QED
    BY <1>2, <2>1, SetBlockIs, Zenon
<1>4. {"error"} \cap DOMAIN members = {}
  <2> DEFINE x == Pick(object("messageStop"), {"stopReason"})
             y == Pick(object("metadata"), {"usage"})
  <2>1. DOMAIN x \subseteq {"stopReason"} /\ DOMAIN y \subseteq {"usage"}
    BY PickIs
  <2>2. members = Merge(x, y)
    OBVIOUS
  <2> HIDE DEF x, y, members
  <2> QED
    BY <2>1, <2>2, MergeIs
<1>5. {"error"} \subseteq keys
  BY DEF BedrockKeys
<1> HIDE DEF begun, grown, members, keys, m
<1>6. Keeps({"error"}, s.out, o)
  BY <1>3, <1>4, MergeKeeps
<1> HIDE DEF o
<1>7. Follows({"error"}, o, q, e)
  BY <1>5, MergeFollows
<1> HIDE DEF q
<1>8. Follows({"error"}, s.out, q, e)
  BY <1>6, <1>7, KeepsFollows
<1>9. IsState(new) /\ new.out = q
  BY <1>3, SetSeveral
<1> HIDE DEF new
<1> QED
  BY <1>1, <1>8, <1>9, Zenon DEF Takes

\* An event without response object merges nothing in its place.
LEMMA NoResponse ==
    ASSUME NEW K, NEW o, NEW e, NEW keys, "response" \notin DOMAIN e
    PROVE  Keeps(K, o, Merge(o, Pick(Or(Get(e, "response"), Empty), keys)))
<1> DEFINE r == Or(Get(e, "response"), Empty)
           x == Pick(r, keys)
<1>1. r = Empty
  BY Zenon DEF Get, Or
<1> HIDE DEF r
<1>2. DOMAIN x = {}
  BY <1>1, PickIs, EmptyIs
<1> HIDE DEF x
<1>3. Keeps(K, o, Merge(o, x))
  BY <1>2, MergeKeeps
<1> QED
  BY <1>3, Zenon DEF x, r

\* The content of a message, if there is one, is not an array.
NoArray(raw) == raw # Null => "array" \notin DOMAIN Or(Get(raw, "content"), Empty)

LEMMA CohereMessage ==
    ASSUME NEW s, IsState(s), NEW raw, "array" \notin DOMAIN Or(Get(raw, "content"), Empty)
    PROVE  IsState(MergeCohereMessageDelta(s, raw)) /\ MergeCohereMessageDelta(s, raw).out = s.out
<1> DEFINE v == Merge(s.message, NonNull(Without(raw, {"content"})))
           m == WithMessage(s, v)
           t == MergeCohereMessageDelta(s, raw)
           content == Or(Get(raw, "content"), Empty)
           last == IF Count(s) = 0 THEN 0 ELSE Count(s) - 1
           f  == FoldLeft(MergeCohereElement, m, Enumerated(FALSE, content.array))
           b2 == AppendStringField(BlockOr(m, 0, [type |-> "text"]), "text", content.string)
           i3 == Or(Get(content, "index"), last)
<1>1. IsState(m) /\ m.out = s.out
  <2> HIDE DEF v
  <2> QED
    BY DEF WithMessage, IsState, StateOf
<1>2. t = CASE Get(raw, "content") = Null -> m
            [] "array" \in DOMAIN content -> f
            [] "string" \in DOMAIN content -> SetBlock(m, 0, b2)
            [] OTHER -> MergeCohereContentBlock(m, i3, content)
  BY Zenon DEF MergeCohereMessageDelta, WithMessage
<1>3. \A i, r : \E b : MergeCohereContentBlock(m, i, r) = SetBlock(m, i, b)
  BY Zenon DEF MergeCohereContentBlock
<1> DEFINE null == Get(raw, "content") = Null
           array == "array" \in DOMAIN content
           string == "string" \in DOMAIN content
<1>4. ~array /\ (null => ~string)
  <2>1. null => content = Empty
    BY Zenon DEF Or
  <2> HIDE DEF content, null
  <2> QED
    BY <2>1, EmptyIs DEF content
<1>5. t = CASE null -> m [] array -> f [] string -> SetBlock(m, 0, b2)
            [] OTHER -> MergeCohereContentBlock(m, i3, content)
  BY <1>2
<1> HIDE DEF f, b2, i3, m, t, content, null, array, string
<1>6. t = m \/ t = SetBlock(m, 0, b2) \/ t = MergeCohereContentBlock(m, i3, content)
  <2>1. CASE null /\ ~array /\ ~string
    BY <1>5, <2>1, Zenon
  <2>2. CASE ~null /\ ~array /\ string
    BY <1>5, <2>2, Zenon
  <2>3. CASE ~null /\ ~array /\ ~string
    BY <1>5, <2>3, Zenon
  <2> QED
    BY <1>4, <2>1, <2>2, <2>3, Zenon
<1>7. t = m \/ \E i, b : t = SetBlock(m, i, b)
  BY <1>3, <1>6, Zenon
<1>8. \A i, b : IsState(SetBlock(m, i, b)) /\ SetBlock(m, i, b).out = m.out
  BY <1>1, SetBlockIs
<1>9. IsState(t) /\ t.out = s.out
  BY <1>1, <1>7, <1>8
<1> QED
  BY <1>9, Zenon DEF t

LEMMA CohereTakes ==
    ASSUME NEW s, IsState(s), NEW e,
           NoArray(Get(Or(Get(e, "delta"), Empty), "message"))
    PROVE  /\ IsState(CohereChatApply(s, e))
           /\ "response" \notin DOMAIN e => Follows({"error"}, s.out, CohereChatApply(s, e).out, e)
<1> DEFINE delta == Or(Get(e, "delta"), Empty)
           out == Merge(s.out, Pick(Or(Get(e, "response"), Empty), CohereKeys))
           start == WithOut(s, out)
           merged == IF Get(delta, "message") = Null THEN start
                     ELSE MergeCohereMessageDelta(start, delta.message)
           end == IF e.type = "message-end" THEN Pick(delta, {"finish_reason", "usage"})
                  ELSE Empty
           reason == Merge(Pick(end, {"finish_reason"}), Pick(e, {"finish_reason"}))
           o1 == Merge(merged.out, end)
           o2 == Merge(o1, reason)
           q == Merge(o2, Pick(e, {"error"}))
           m == Merge(merged.message, reason)
           t == IF e.type = "text-generation" THEN merged.text \o Or(Get(e, "text"), <<>>)
                ELSE merged.text
<1>1. CohereChatApply(s, e) = MessageOutText(merged, q, m, t)
  BY Zenon DEF CohereChatApply, MessageOutText, WithOut
<1>2. IsState(start) /\ start.out = out
  <2> HIDE DEF out
  <2> QED
    BY DEF WithOut, IsState, StateOf
<1>3. "response" \notin DOMAIN e => Keeps({"error"}, s.out, out)
  BY NoResponse
<1>4. {"error"} \cap DOMAIN end = {} /\ {"error"} \cap DOMAIN reason = {}
  <2>1. DOMAIN end \subseteq {"finish_reason", "usage"}
    <3> DEFINE y == Pick(delta, {"finish_reason", "usage"})
    <3>1. DOMAIN y \subseteq {"finish_reason", "usage"}
      BY PickIs
    <3>2. end = y \/ end = Empty
      BY Zenon
    <3> HIDE DEF y, end
    <3> QED
      BY <3>1, <3>2, EmptyIs
  <2> HIDE DEF end
  <2>2. DOMAIN reason \subseteq {"finish_reason"}
    <3> DEFINE x == Pick(end, {"finish_reason"})
               y == Pick(e, {"finish_reason"})
    <3>1. DOMAIN x \subseteq {"finish_reason"} /\ DOMAIN y \subseteq {"finish_reason"}
      BY PickIs
    <3>2. reason = Merge(x, y)
      OBVIOUS
    <3> HIDE DEF x, y, reason
    <3> QED
      BY <3>1, <3>2, MergeIs
  <2> HIDE DEF reason
  <2> QED
    BY <2>1, <2>2
<1> HIDE DEF out, start
<1>5. IsState(merged) /\ merged.out = out
  <2>1. Get(delta, "message") # Null => Get(delta, "message") = delta.message
    BY Zenon DEF Get
  <2>2. Get(delta, "message") # Null => "array" \notin DOMAIN Or(Get(delta.message, "content"), Empty)
    BY <2>1, Zenon DEF NoArray
  <2>3. CASE Get(delta, "message") = Null
    <3>1. merged = start
      BY <2>3, Zenon
    <3> QED
      BY <1>2, <3>1, Zenon
  <2>4. CASE Get(delta, "message") # Null
    <3>1. merged = MergeCohereMessageDelta(start, delta.message)
      BY <2>4, Zenon
    <3> QED
      BY <1>2, <2>2, <2>4, <3>1, CohereMessage, Zenon
  <2> QED
    BY <2>3, <2>4, Zenon
<1> HIDE DEF merged, end, reason, t, m
<1>6. Keeps({"error"}, out, o1)
  BY <1>4, <1>5, MergeKeeps
<1> HIDE DEF o1
<1>7. Keeps({"error"}, o1, o2)
  BY <1>4, MergeKeeps
<1> HIDE DEF o2
<1>8. Follows({"error"}, o2, q, e)
  BY MergeFollows
<1> HIDE DEF q
<1>9. "response" \notin DOMAIN e => Follows({"error"}, s.out, q, e)
  BY <1>3, <1>6, <1>7, <1>8, KeepsTwice, KeepsFollows, Zenon
<1>10. IsState(MessageOutText(merged, q, m, t)) /\ MessageOutText(merged, q, m, t).out = q
  BY <1>5, SetSeveral
<1> QED
  BY <1>1, <1>9, <1>10, Zenon

LEMMA ResponsesTakes ==
    ASSUME NEW s, IsState(s), NEW e
    PROVE  /\ IsState(OpenaiResponsesApply(FALSE, s, e))
           /\ "response" \notin DOMAIN e /\ ("error" \in DOMAIN e <=> e.type = "failed") =>
                Follows({"error"}, s.out, OpenaiResponsesApply(FALSE, s, e).out, e)
<1> DEFINE out == Merge(s.out, Pick(Or(Get(e, "response"), Empty), ResponsesKeys))
           start == WithOut(s, out)
           done == Merge([status |-> <<"completed">>], start.out)
           failed == Merge(start.out, Pick(e, {"error"}))
           t == OpenaiResponsesApply(FALSE, s, e)
<1>1. \/ e.type # "failed" /\ \E i, b : t = SetBlock(start, i, b)
      \/ e.type # "failed" /\ t = WithOut(start, done)
      \/ e.type = "failed" /\ t = WithOut(start, failed)
      \/ e.type # "failed" /\ t = start
  <2> DEFINE i == Or(Get(e, "output_index"), Count(s))
             item == BlockOr(s, i, Empty)
             text == TextEvents[e.type]
             added == IF e.done THEN Null ELSE Get(e, "delta")
             whole(field) == IF e.done THEN Get(e, field) ELSE Null
             b1 == Merge(item, Or(Get(e, "item"), Empty))
             b2 == MergeContentPart(FALSE, item, Get(e, "content_index"),
                                    Or(Get(e, "part"), Empty), "text", Null, Null)
             b3 == MergeContentPart(FALSE, item, Get(e, "content_index"),
                                    [type |-> text.type], text.field, added, whole(text.field))
             b4 == SetStringField(AppendStringField(item, "arguments", added),
                                  "arguments", whole("arguments"))
             texts == e.type \in DOMAIN TextEvents
  <2>1. t = CASE e.type = "output_item" -> SetBlock(start, i, b1)
              [] e.type = "content_part" -> SetBlock(start, i, b2)
              [] e.type \in DOMAIN TextEvents -> SetBlock(start, i, b3)
              [] e.type = "function_call_arguments" -> SetBlock(start, i, b4)
              [] e.type = "completed" -> WithOut(start, done)
              [] e.type = "failed" -> WithOut(start, failed)
              [] OTHER -> start
    BY Zenon DEF OpenaiResponsesApply, WithOut
  <2>2. /\ "failed" \notin DOMAIN TextEvents /\ "output_item" \notin DOMAIN TextEvents
        /\ "content_part" \notin DOMAIN TextEvents /\ "completed" \notin DOMAIN TextEvents
        /\ "function_call_arguments" \notin DOMAIN TextEvents
    BY DEF TextEvents
  <2>3. t = CASE e.type = "output_item" -> SetBlock(start, i, b1)
              [] e.type = "content_part" -> SetBlock(start, i, b2)
              [] texts -> SetBlock(start, i, b3)
              [] e.type = "function_call_arguments" -> SetBlock(start, i, b4)
              [] e.type = "completed" -> WithOut(start, done)
              [] e.type = "failed" -> WithOut(start, failed)
              [] OTHER -> start
    BY <2>1
  <2>4. /\ e.type = "failed" => ~texts
        /\ e.type = "output_item" => ~texts
        /\ e.type = "content_part" => ~texts
        /\ e.type = "completed" => ~texts
        /\ e.type = "function_call_arguments" => ~texts
    BY <2>2, Zenon
  <2> HIDE DEF texts, t, start, i, b1, b2, b3, b4, done, failed
  <2>5. CASE e.type = "failed"
    <3>1. t = WithOut(start, failed)
      BY <2>3, <2>4, <2>5, Zenon
    <3> QED
      BY <2>5, <3>1, Zenon
  <2>6. CASE e.type = "completed"
    <3>1. t = WithOut(start, done)
      BY <2>3, <2>4, <2>6, Zenon
    <3>2. e.type # "failed"
      BY <2>6, Zenon
    <3> QED
      BY <3>1, <3>2, Zenon
  <2>7. CASE e.type = "output_item"
    <3>1. t = SetBlock(start, i, b1)
      BY <2>3, <2>4, <2>7, Zenon
    <3>2. e.type # "failed"
      BY <2>7, Zenon
    <3> QED
      BY <3>1, <3>2, Zenon
  <2>8. CASE e.type = "content_part"
    <3>1. t = SetBlock(start, i, b2)
      BY <2>3, <2>4, <2>8, Zenon
    <3>2. e.type # "failed"
      BY <2>8, Zenon
    <3> QED
      BY <3>1, <3>2, Zenon
  <2>9. CASE e.type = "function_call_arguments"
    <3>1. t = SetBlock(start, i, b4)
      BY <2>3, <2>4, <2>9, Zenon
    <3>2. e.type # "failed"
      BY <2>9, Zenon
    <3> QED
      BY <3>1, <3>2, Zenon
  <2>10. CASE texts /\ e.type \notin {"failed", "completed", "output_item", "content_part",
                                      "function_call_arguments"}
    <3>1. t = SetBlock(start, i, b3)
      BY <2>3, <2>10, Zenon
    <3> QED
      BY <2>10, <3>1, Zenon
  <2>11. CASE ~texts /\ e.type \notin {"failed", "completed", "output_item", "content_part",
                                       "function_call_arguments"}
    <3>1. t = start
      BY <2>3, <2>11, Zenon
    <3> QED
      BY <2>11, <3>1, Zenon
  <2> QED
    BY <2>5, <2>6, <2>7, <2>8, <2>9, <2>10, <2>11, Zenon
<1>2. IsState(start) /\ start.out = out
  <2> HIDE DEF out
  <2> QED
    BY DEF WithOut, IsState, StateOf
<1>3. "response" \notin DOMAIN e => Keeps({"error"}, s.out, out)
  BY NoResponse
<1> HIDE DEF out, start
<1>4. Keeps({"error"}, out, done)
  <2> DEFINE c == [status |-> <<"completed">>]
  <2>1. DOMAIN c = {"status"}
    OBVIOUS
  <2>2. done = Merge(c, out)
    BY <1>2
  <2> HIDE DEF c, done
  <2>3. /\ DOMAIN Merge(c, out) = DOMAIN out \cup DOMAIN c
        /\ \A k \in DOMAIN out : Merge(c, out)[k] = out[k]
    BY MergeIs
  <2> QED
    BY <2>2, <2>3 DEF Keeps
<1>5. Follows({"error"}, out, failed, e)
  BY <1>2, MergeFollows
<1> HIDE DEF done, failed
<1>6. \A v : IsState(WithOut(start, v)) /\ WithOut(start, v).out = v
  BY <1>2 DEF WithOut, IsState, StateOf
<1>9. \A i, b : IsState(SetBlock(start, i, b)) /\ SetBlock(start, i, b).out = out
  BY <1>2, SetBlockIs
<1> HIDE DEF t
<1>7. IsState(t)
  BY <1>1, <1>2, <1>6, <1>9
<1>8. ASSUME "response" \notin DOMAIN e, "error" \in DOMAIN e <=> e.type = "failed"
      PROVE  Follows({"error"}, s.out, t.out, e)
  <2>1. CASE e.type = "failed"
    <3>1. t.out = failed
      BY <1>1, <1>6, <2>1, Zenon
    <3> QED
      BY <1>3, <1>5, <1>8, <3>1, KeepsFollows, Zenon
  <2>2. CASE e.type # "failed"
    <3>1. t.out = out \/ t.out = done
      BY <1>1, <1>2, <1>6, <1>9, <2>2
    <3>2. {"error"} \cap DOMAIN e = {}
      BY <1>8, <2>2
    <3>3. Keeps({"error"}, s.out, t.out)
      BY <1>3, <1>4, <1>8, <3>1, KeepsTwice, Zenon
    <3> QED
      BY <3>2, <3>3, KeepsAbsent, Zenon
  <2> QED
    BY <2>1, <2>2, Zenon
<1> QED
  BY <1>7, <1>8, Zenon DEF t

LEMMA AnthropicTakes ==
    ASSUME NEW s, IsState(s), NEW e
    PROVE  /\ IsState(AnthropicMessagesApply(FALSE, s, e))
           /\ ("error" \in DOMAIN e <=> e.type = "error") =>
                Follows({"error"}, s.out, AnthropicMessagesApply(FALSE, s, e).out, e)
<1> DEFINE t == AnthropicMessagesApply(FALSE, s, e)
           o1 == Merge(s.out, Pick(e.message, {"type", "role", "model", "stop_reason", "usage"}))
           delta == Get(e, "delta")
           o2 == Merge(s.out, Pick(Or(delta, Empty), {"stop_reason"}))
           o3 == MergeNestedObject(o2, "usage", e)
           x == IF "error" \in DOMAIN e /\ (e.error # Null \/ ~FALSE) THEN e.error ELSE e
           o4 == Put(s.out, "error", x)
           seeded(r) == SeedAnthropicContentBlocks(r, Or(Get(e.message, "content"), <<>>))
<1>1. \/ e.type # "error" /\ t = seeded(WithOut(s, o1))
      \/ e.type # "error" /\ \E i, b : t = SetBlock(s, i, b)
      \/ e.type # "error" /\ t = WithOut(s, o3)
      \/ e.type = "error" /\ t = WithOut(s, o4)
      \/ e.type # "error" /\ t = s
  BY Zenon DEF AnthropicMessagesApply, WithOut
<1>2. Keeps({"error"}, s.out, o1)
  <2> DEFINE y == Pick(e.message, {"type", "role", "model", "stop_reason", "usage"})
  <2>1. DOMAIN y \subseteq {"type", "role", "model", "stop_reason", "usage"}
    BY PickIs
  <2> HIDE DEF y
  <2>2. Keeps({"error"}, s.out, Merge(s.out, y))
    BY <2>1, MergeKeeps
  <2> QED
    BY <2>2 DEF y
<1>3. Keeps({"error"}, s.out, o3)
  <2> DEFINE y == Pick(Or(delta, Empty), {"stop_reason"})
  <2>1. DOMAIN y \subseteq {"stop_reason"}
    BY PickIs
  <2>2. o2 = Merge(s.out, y)
    OBVIOUS
  <2> HIDE DEF y, o2
  <2>3. Keeps({"error"}, s.out, o2)
    BY <2>1, <2>2, MergeKeeps
  <2>4. o3 = o2 \/ \E v : o3 = Put(o2, "usage", v)
    BY Zenon DEF MergeNestedObject
  <2>5. \A v : Keeps({"error"}, o2, Put(o2, "usage", v))
    BY PutKeeps
  <2> HIDE DEF o3
  <2> QED
    BY <2>3, <2>4, <2>5, KeepsTwice, Zenon
<1>4. "error" \in DOMAIN e => Follows({"error"}, s.out, o4, e)
  <2> SUFFICES ASSUME "error" \in DOMAIN e PROVE Follows({"error"}, s.out, o4, e)
    OBVIOUS
  <2>1. x = e["error"]
    BY Zenon
  <2> HIDE DEF x
  <2>2. "error" \in DOMAIN o4 /\ o4["error"] = x
    BY DEF Put
  <2> HIDE DEF o4
  <2> QED
    BY <2>1, <2>2 DEF Follows
<1> HIDE DEF o1, o2, o3, o4, x, delta
<1>5. \A v : IsState(WithOut(s, v)) /\ WithOut(s, v).out = v
  BY DEF WithOut, IsState, StateOf
<1>6. \A r : IsState(r) => IsState(seeded(r)) /\ seeded(r).out = r.out
  <2> SUFFICES ASSUME NEW r, IsState(r) PROVE IsState(seeded(r)) /\ seeded(r).out = r.out
    OBVIOUS
  <2>1. \E v : seeded(r) = [r EXCEPT !.blocks = v]
    BY Zenon DEF SeedAnthropicContentBlocks
  <2> HIDE DEF seeded
  <2> QED
    BY <2>1 DEF IsState, StateOf
<1>9. \A i, b : IsState(SetBlock(s, i, b)) /\ SetBlock(s, i, b).out = s.out
  BY SetBlockIs
<1> HIDE DEF t, seeded
<1>7. IsState(t)
  BY <1>1, <1>5, <1>6, <1>9
<1>8. ASSUME "error" \in DOMAIN e <=> e.type = "error"
      PROVE  Follows({"error"}, s.out, t.out, e)
  <2>1. CASE e.type = "error"
    <3>1. t.out = o4
      BY <1>1, <1>5, <2>1, Zenon
    <3> QED
      BY <1>4, <1>8, <2>1, <3>1, Zenon
  <2>2. CASE e.type # "error"
    <3>1. t.out = s.out \/ t.out = o1 \/ t.out = o3
      BY <1>1, <1>5, <1>6, <1>9, <2>2
    <3>2. {"error"} \cap DOMAIN e = {}
      BY <1>8, <2>2
    <3>3. Keeps({"error"}, s.out, s.out)
      BY DEF Keeps
    <3>4. Keeps({"error"}, s.out, t.out)
      BY <1>2, <1>3, <3>1, <3>3, Zenon
    <3> QED
      BY <3>2, <3>4, KeepsAbsent, Zenon
  <2> QED
    BY <2>1, <2>2, Zenon
<1> QED
  BY <1>7, <1>8, Zenon DEF t

-----------------------------------------------------------------------------
(* StreamFieldState::apply.                                                 *)

\* The members of the view that an error is in.
ErrKeys(p) == IF p = "alibaba.dashscope.generation" THEN {"code", "message"} ELSE {"error"}

\* An event has the JSON types the protocol gives its members.
Shaped(p, e) ==
    /\ p = "openai.chat_completions" => IsArray(Or(Get(e, "choices"), <<>>))
    /\ p = "google.gemini.generate_content" => IsArray(Or(Get(e, "candidates"), <<>>))
    /\ p = "alibaba.dashscope.generation" =>
          IsArray(Or(Get(Or(Get(e, "output"), Empty), "choices"), <<>>))
    /\ p = "cohere.chat" => NoArray(Get(Or(Get(e, "delta"), Empty), "message"))

\* An event does not bring a response object, and has an error if it is one.
Tame(p, e) ==
    /\ p \in {"openai.responses", "cohere.chat"} => "response" \notin DOMAIN e
    /\ p = "openai.responses" => ("error" \in DOMAIN e <=> e.type = "failed")
    /\ p = "anthropic.messages" => ("error" \in DOMAIN e <=> e.type = "error")

LEMMA ProtocolCases ==
    ASSUME NEW p \in Protocols
    PROVE  \/ p = "openai.chat_completions" \/ p = "openai.responses"
           \/ p = "anthropic.messages" \/ p = "google.gemini.generate_content"
           \/ p = "alibaba.dashscope.generation" \/ p = "aws.bedrock.converse"
           \/ p = "cohere.chat"
  BY DEF Protocols

LEMMA ApplyTakes ==
    ASSUME NEW p \in Protocols, NEW s, IsState(s), NEW e, Shaped(p, e)
    PROVE  /\ IsState(Apply(p, s, e))
           /\ Tame(p, e) => Follows(ErrKeys(p), s.out, Apply(p, s, e).out, e)
<1>1. CASE p = "openai.chat_completions"
  <2>1. Apply(p, s, e) = OpenaiChatApply(FALSE, s, e) /\ ErrKeys(p) = {"error"}
    BY <1>1, Zenon DEF Apply, ErrKeys
  <2>2. IsArray(Or(Get(e, "choices"), <<>>))
    BY <1>1, Zenon DEF Shaped
  <2> QED
    BY <2>1, <2>2, ChatTakes, Zenon DEF Takes
<1>2. CASE p = "openai.responses"
  <2>1. Apply(p, s, e) = OpenaiResponsesApply(FALSE, s, e) /\ ErrKeys(p) = {"error"}
    BY <1>2, Zenon DEF Apply, ErrKeys
  <2>2. Tame(p, e) => "response" \notin DOMAIN e /\ ("error" \in DOMAIN e <=> e.type = "failed")
    BY <1>2 DEF Tame
  <2> QED
    BY <2>1, <2>2, ResponsesTakes, Zenon
<1>3. CASE p = "anthropic.messages"
  <2>1. Apply(p, s, e) = AnthropicMessagesApply(FALSE, s, e) /\ ErrKeys(p) = {"error"}
    BY <1>3, Zenon DEF Apply, ErrKeys
  <2>2. Tame(p, e) => ("error" \in DOMAIN e <=> e.type = "error")
    BY <1>3 DEF Tame
  <2> QED
    BY <2>1, <2>2, AnthropicTakes, Zenon
<1>4. CASE p = "google.gemini.generate_content"
  <2>1. Apply(p, s, e) = GeminiGenerateContentApply(FALSE, s, e) /\ ErrKeys(p) = {"error"}
    BY <1>4, Zenon DEF Apply, ErrKeys
  <2>2. IsArray(Or(Get(e, "candidates"), <<>>))
    BY <1>4, Zenon DEF Shaped
  <2> QED
    BY <2>1, <2>2, GeminiTakes, Zenon DEF Takes
<1>5. CASE p = "alibaba.dashscope.generation"
  <2>1. Apply(p, s, e) = DashscopeGenerationApply(FALSE, s, e) /\ ErrKeys(p) = {"code", "message"}
    BY <1>5, Zenon DEF Apply, ErrKeys
  <2>2. IsArray(Or(Get(Or(Get(e, "output"), Empty), "choices"), <<>>))
    BY <1>5, Zenon DEF Shaped
  <2> QED
    BY <2>1, <2>2, DashscopeTakes, Zenon DEF Takes
<1>6. CASE p = "aws.bedrock.converse"
  <2>1. Apply(p, s, e) = BedrockConverseApply(FALSE, s, e) /\ ErrKeys(p) = {"error"}
    BY <1>6, Zenon DEF Apply, ErrKeys
  <2> QED
    BY <2>1, BedrockTakes, Zenon DEF Takes
<1>7. CASE p = "cohere.chat"
  <2>1. Apply(p, s, e) = CohereChatApply(s, e) /\ ErrKeys(p) = {"error"}
    BY <1>7, Zenon DEF Apply, ErrKeys
  <2>2. Tame(p, e) => "response" \notin DOMAIN e
    BY <1>7 DEF Tame
  <2>3. NoArray(Get(Or(Get(e, "delta"), Empty), "message"))
    BY <1>7, Zenon DEF Shaped
  <2> QED
    BY <2>1, <2>2, <2>3, CohereTakes, Zenon
<1> QED
  BY <1>1, <1>2, <1>3, <1>4, <1>5, <1>6, <1>7, ProtocolCases, Zenon

-----------------------------------------------------------------------------
(* The events.                                                              *)

\* An event that says nothing of an error.
Quiet(p, e) == Shaped(p, e) /\ Tame(p, e) /\ ErrKeys(p) \cap DOMAIN e = {}

LEMMA PlainQuiet ==
    ASSUME NEW p \in Protocols, NEW e, Shaped(p, e),
           "error" \notin DOMAIN e, "response" \notin DOMAIN e,
           "code" \notin DOMAIN e, "message" \notin DOMAIN e,
           p = "openai.responses" => e.type # "failed",
           p = "anthropic.messages" => e.type # "error"
    PROVE  Quiet(p, e)
  BY DEF Quiet, Tame, ErrKeys

LEMMA GetIs ==
    ASSUME NEW o, NEW k
    PROVE  /\ k \notin DOMAIN o => Get(o, k) = Null
           /\ k \in DOMAIN o => Get(o, k) = o[k]
           /\ \A v : Or(Null, v) = v
           /\ \A v : o # Null => Or(o, v) = o
  BY Zenon DEF Get, Or

LEMMA OneElement ==
    ASSUME NEW v
    PROVE  IsArray(<<v>>) /\ IsArray(<<>>) /\ IsArray(Or(<<v>>, <<>>)) /\ IsArray(Or(<<>>, <<>>))
<1>1. <<v>> \in Seq({v}) /\ <<>> \in Seq({v})
  BY EmptySeq
<1>2. IsArray(<<v>>) /\ IsArray(<<>>)
  BY <1>1, Zenon DEF IsArray
<1>3. /\ Or(<<v>>, <<>>) = <<v>> \/ Or(<<v>>, <<>>) = <<>>
      /\ Or(<<>>, <<>>) = <<>>
  BY Zenon DEF Or
<1> QED
  BY <1>2, <1>3

LEMMA NoChoices ==
    ASSUME NEW e, NEW k, k \notin DOMAIN e
    PROVE  IsArray(Or(Get(e, k), <<>>))
<1>1. Or(Get(e, k), <<>>) = <<>>
  BY Zenon DEF Get, Or
<1> QED
  BY <1>1, OneElement

LEMMA OneChoice ==
    ASSUME NEW e, NEW k, k \in DOMAIN e, NEW v, e[k] = <<v>>
    PROVE  IsArray(Or(Get(e, k), <<>>))
<1>1. Get(e, k) = <<v>>
  BY Zenon DEF Get
<1> QED
  BY <1>1, OneElement

\* An event without any of the members that have arrays in them.
LEMMA Bare ==
    ASSUME NEW p, NEW e, "choices" \notin DOMAIN e, "candidates" \notin DOMAIN e,
           "output" \notin DOMAIN e, "delta" \notin DOMAIN e
    PROVE  Shaped(p, e)
<1>1. IsArray(Or(Get(e, "choices"), <<>>)) /\ IsArray(Or(Get(e, "candidates"), <<>>))
  BY NoChoices
<1>2. Or(Get(e, "output"), Empty) = Empty /\ Or(Get(e, "delta"), Empty) = Empty
  BY Zenon DEF Get, Or
<1>3. IsArray(Or(Get(Empty, "choices"), <<>>)) /\ Get(Empty, "message") = Null
  BY EmptyIs, NoChoices, GetIs
<1>4. NoArray(Null)
  BY DEF NoArray
<1> QED
  BY <1>1, <1>2, <1>3, <1>4, Zenon DEF Shaped

\* What makes an event of each protocol quiet.
LEMMA ChatQuiet ==
    ASSUME NEW e, "error" \notin DOMAIN e,
           "choices" \notin DOMAIN e \/ \E v : e["choices"] = <<v>>
    PROVE  Quiet("openai.chat_completions", e)
<1>1. IsArray(Or(Get(e, "choices"), <<>>))
  BY NoChoices, OneChoice, Zenon
<1>2. Shaped("openai.chat_completions", e)
  BY <1>1, Zenon DEF Shaped
<1> QED
  BY <1>2 DEF Quiet, Tame, ErrKeys

LEMMA GeminiQuiet ==
    ASSUME NEW e, "error" \notin DOMAIN e,
           "candidates" \notin DOMAIN e \/ \E v : e["candidates"] = <<v>>
    PROVE  Quiet("google.gemini.generate_content", e)
<1>1. IsArray(Or(Get(e, "candidates"), <<>>))
  BY NoChoices, OneChoice, Zenon
<1>2. Shaped("google.gemini.generate_content", e)
  BY <1>1, Zenon DEF Shaped
<1> QED
  BY <1>2 DEF Quiet, Tame, ErrKeys

LEMMA DashscopeQuiet ==
    ASSUME NEW v
    PROVE  Quiet("alibaba.dashscope.generation", [output |-> [choices |-> <<v>>]])
<1> DEFINE o == [choices |-> <<v>>]
           e == [output |-> o]
<1>1. "choices" \in DOMAIN o /\ o["choices"] = <<v>>
  OBVIOUS
<1> HIDE DEF o
<1>2. DOMAIN e = {"output"} /\ e["output"] = o
  OBVIOUS
<1> HIDE DEF e
<1>3. Or(Get(e, "output"), Empty) \in {o, Empty}
  BY <1>2 DEF Or, Get
<1>4. IsArray(Or(Get(o, "choices"), <<>>)) /\ IsArray(Or(Get(Empty, "choices"), <<>>))
  BY <1>1, EmptyIs, NoChoices, OneChoice
<1>5. IsArray(Or(Get(Or(Get(e, "output"), Empty), "choices"), <<>>))
  BY <1>3, <1>4
<1>6. Shaped("alibaba.dashscope.generation", e)
  BY <1>5, Zenon DEF Shaped
<1>7. Quiet("alibaba.dashscope.generation", e)
  BY <1>2, <1>6 DEF Quiet, Tame, ErrKeys
<1> QED
  BY <1>7 DEF e, o

LEMMA ResponsesQuiet ==
    ASSUME NEW e, "error" \notin DOMAIN e, "response" \notin DOMAIN e, e.type # "failed"
    PROVE  Quiet("openai.responses", e)
<1>1. Shaped("openai.responses", e)
  BY Zenon DEF Shaped
<1> QED
  BY <1>1 DEF Quiet, Tame, ErrKeys

LEMMA AnthropicQuiet ==
    ASSUME NEW e, "error" \notin DOMAIN e, e.type # "error"
    PROVE  Quiet("anthropic.messages", e)
<1>1. Shaped("anthropic.messages", e)
  BY Zenon DEF Shaped
<1> QED
  BY <1>1 DEF Quiet, Tame, ErrKeys

LEMMA BedrockQuiet ==
    ASSUME NEW e, "error" \notin DOMAIN e
    PROVE  Quiet("aws.bedrock.converse", e)
<1>1. Shaped("aws.bedrock.converse", e)
  BY Zenon DEF Shaped
<1> QED
  BY <1>1 DEF Quiet, Tame, ErrKeys

LEMMA CohereQuiet ==
    ASSUME NEW e, "error" \notin DOMAIN e, "response" \notin DOMAIN e,
           \/ "delta" \notin DOMAIN e
           \/ \E c : e["delta"] = [message |-> [content |-> c]] /\ "array" \notin DOMAIN c
    PROVE  Quiet("cohere.chat", e)
<1> DEFINE delta == Or(Get(e, "delta"), Empty)
           raw == Get(delta, "message")
<1>1. NoArray(raw)
  <2>1. CASE delta = Empty
    BY <2>1, EmptyIs, Zenon DEF Get, NoArray
  <2>2. CASE delta # Empty
    <3>1. "delta" \in DOMAIN e /\ delta = e["delta"]
      BY <2>2, Zenon DEF Get, Or
    <3>2. PICK c : e["delta"] = [message |-> [content |-> c]] /\ "array" \notin DOMAIN c
      BY <3>1, Zenon
    <3> DEFINE m == [content |-> c]
    <3>3. DOMAIN m = {"content"} /\ m["content"] = c
      OBVIOUS
    <3> HIDE DEF m
    <3>4. delta = [message |-> m]
      BY <3>1, <3>2, Zenon DEF m
    <3> HIDE DEF delta
    <3>5. "message" \in DOMAIN delta /\ delta["message"] = m
      BY <3>4
    <3>6. raw = m
      BY <3>5, Zenon DEF Get
    <3>7. Or(Get(m, "content"), Empty) \in {c, Empty}
      BY <3>3 DEF Get, Or
    <3> HIDE DEF raw
    <3> QED
      BY <3>2, <3>6, <3>7, EmptyIs DEF NoArray
  <2> QED
    BY <2>1, <2>2, Zenon
<1>2. Shaped("cohere.chat", e)
  BY <1>1, Zenon DEF Shaped
<1> QED
  BY <1>2 DEF Quiet, Tame, ErrKeys

-----------------------------------------------------------------------------
(* The provider's events.                                                   *)

Fields == {"content", "tool_calls", "output_text", "refusal", "arguments", "thinking", "text",
           "input_json", "reasoningContent", "toolUse", "generated"}

IsSlot(s) == s.f \in Fields /\ \A k : [s EXCEPT !.k = k].f = s.f

LEMMA SlotsAre ==
    ASSUME NEW p \in Protocols, NEW s \in Slots(p)
    PROVE  IsSlot(s)
<1>2. \E i, k : \E f \in Fields : s = Slot(i, f, k)
  <2>1. CASE p = "openai.chat_completions"
    BY <2>1, Zenon DEF Slots, Fields
  <2>2. CASE p = "openai.responses"
    BY <2>2, Zenon DEF Slots, Fields
  <2>3. CASE p = "anthropic.messages"
    BY <2>3, Zenon DEF Slots, Fields
  <2>4. CASE p = "google.gemini.generate_content"
    BY <2>4, Zenon DEF Slots, Fields
  <2>5. CASE p = "alibaba.dashscope.generation"
    BY <2>5, Zenon DEF Slots, Fields
  <2>6. CASE p = "aws.bedrock.converse"
    BY <2>6, Zenon DEF Slots, Fields
  <2>7. CASE p = "cohere.chat"
    BY <2>7, Zenon DEF Slots, Fields
  <2> QED
    BY <2>1, <2>2, <2>3, <2>4, <2>5, <2>6, <2>7, ProtocolCases, Zenon
<1>3. PICK i, k, f : f \in Fields /\ s = Slot(i, f, k)
  BY <1>2, Zenon
<1> QED
  BY <1>3 DEF Slot, IsSlot

LEMMA DeltaQuiet ==
    ASSUME NEW p \in Protocols, NEW index, NEW s, s.f \in Fields, NEW x
    PROVE  Quiet(p, Delta(p, index, s, x))
<1> DEFINE e == Delta(p, index, s, x)
           c == Choice(index, s, x)
           parts == [k \in 1..(s.k + 1) |-> [text |-> IF k = s.k + 1 THEN x ELSE <<>>]]
<1>1. CASE p = "openai.chat_completions"
  <2>1. e = [choices |-> <<c>>, usage |-> Null]
    BY <1>1, Zenon DEF Delta
  <2> HIDE DEF c, e
  <2>2. DOMAIN e = {"choices", "usage"} /\ e["choices"] = <<c>>
    BY <2>1
  <2>3. "error" \notin DOMAIN e /\ \E v : e["choices"] = <<v>>
    BY <2>2
  <2> QED
    BY <1>1, <2>3, ChatQuiet, Zenon DEF e
<1>2. CASE p = "alibaba.dashscope.generation"
  <2>1. e = [output |-> [choices |-> <<c>>]]
    BY <1>2, Zenon DEF Delta
  <2> HIDE DEF c, e
  <2> QED
    BY <1>2, <2>1, DashscopeQuiet, Zenon DEF e
<1>3. CASE p = "openai.responses"
  <2> DEFINE type == IF s.f = "arguments" THEN "function_call_arguments" ELSE s.f
  <2>1. e = [type |-> type, done |-> FALSE, output_index |-> index, content_index |-> s.k,
             delta |-> x]
    BY <1>3, Zenon DEF Delta
  <2>2. type # "failed"
    <3>1. s.f # "failed"
      BY DEF Fields
    <3> QED
      BY <3>1, Zenon
  <2> HIDE DEF e, type
  <2>3. /\ DOMAIN e = {"type", "done", "output_index", "content_index", "delta"}
        /\ e.type = type
    BY <2>1
  <2>4. "error" \notin DOMAIN e /\ "response" \notin DOMAIN e
    BY <2>3
  <2> QED
    BY <1>3, <2>2, <2>3, <2>4, ResponsesQuiet, Zenon DEF e
<1>4. CASE p = "anthropic.messages"
  <2>1. PICK d : e = [type |-> "content_block_delta", index |-> index, delta |-> d]
    BY <1>4, Zenon DEF Delta
  <2> HIDE DEF e
  <2>2. "error" \notin DOMAIN e /\ e.type = "content_block_delta"
    BY <2>1
  <2>3. e.type # "error"
    BY <2>2, Zenon
  <2> QED
    BY <1>4, <2>2, <2>3, AnthropicQuiet, Zenon DEF e
<1>5. CASE p = "google.gemini.generate_content"
  <2>1. PICK v : e = [candidates |-> <<v>>]
    BY <1>5, Zenon DEF Delta
  <2> HIDE DEF e
  <2>2. DOMAIN e = {"candidates"} /\ e["candidates"] = <<v>>
    BY <2>1
  <2>3. "error" \notin DOMAIN e /\ \E w : e["candidates"] = <<w>>
    BY <2>2
  <2> QED
    BY <1>5, <2>3, GeminiQuiet, Zenon DEF e
<1>6. CASE p = "aws.bedrock.converse"
  <2>1. PICK v : e = [contentBlockDelta |-> v]
    BY <1>6, Zenon DEF Delta
  <2> HIDE DEF e
  <2>2. "error" \notin DOMAIN e
    BY <2>1
  <2> QED
    BY <1>6, <2>2, BedrockQuiet, Zenon DEF e
<1>7. CASE p = "cohere.chat"
  <2> DEFINE w == [index |-> index, text |-> x]
             d == [message |-> [content |-> w]]
  <2>1. e = [type |-> "content-delta", delta |-> d]
    BY <1>7, Zenon DEF Delta
  <2>2. "array" \notin DOMAIN w
    OBVIOUS
  <2> HIDE DEF e, w, d
  <2>3. "error" \notin DOMAIN e /\ "response" \notin DOMAIN e /\ e["delta"] = d
    BY <2>1
  <2>4. \E b : e["delta"] = [message |-> [content |-> b]] /\ "array" \notin DOMAIN b
    BY <2>2, <2>3, Zenon DEF d
  <2> QED
    BY <1>7, <2>3, <2>4, CohereQuiet, Zenon DEF e
<1> QED
  BY <1>1, <1>2, <1>3, <1>4, <1>5, <1>6, <1>7, ProtocolCases, Zenon

LEMMA StartQuiet ==
    ASSUME NEW p \in Protocols, NEW s, s.f \in Fields
    PROVE  Quiet(p, Start(p, s))
<1> DEFINE e == Start(p, s)
<1>1. CASE p = "openai.responses"
  <2>1. \/ \E i, v : e = [type |-> "output_item", output_index |-> i, item |-> v]
        \/ \E i, j, v : e = [type |-> "content_part", output_index |-> i, content_index |-> j,
                             part |-> v]
    <3>1. CASE s.f = "arguments"
      BY <1>1, <3>1, Zenon DEF Start
    <3>2. CASE s.f # "arguments"
      BY <1>1, <3>2, Zenon DEF Start
    <3> QED
      BY <3>1, <3>2, Zenon
  <2> HIDE DEF e
  <2>2. /\ "error" \notin DOMAIN e /\ "response" \notin DOMAIN e
        /\ e.type = "output_item" \/ e.type = "content_part"
    BY <2>1
  <2>3. e.type # "failed"
    BY <2>2, Zenon
  <2> QED
    BY <1>1, <2>2, <2>3, ResponsesQuiet, Zenon DEF e
<1>2. CASE p = "anthropic.messages"
  <2>1. PICK d : e = [type |-> "content_block_start", index |-> s.i, content_block |-> d]
    BY <1>2, Zenon DEF Start
  <2> HIDE DEF e
  <2>2. "error" \notin DOMAIN e /\ e.type = "content_block_start"
    BY <2>1
  <2>3. e.type # "error"
    BY <2>2, Zenon
  <2> QED
    BY <1>2, <2>2, <2>3, AnthropicQuiet, Zenon DEF e
<1>3. CASE p = "cohere.chat"
  <2> DEFINE w == [index |-> s.i, type |-> "text", text |-> <<>>]
             d == [message |-> [content |-> w]]
  <2>1. e = [type |-> "content-start", delta |-> d]
    BY <1>3, Zenon DEF Start
  <2>2. "array" \notin DOMAIN w
    OBVIOUS
  <2> HIDE DEF e, w, d
  <2>3. "error" \notin DOMAIN e /\ "response" \notin DOMAIN e /\ e["delta"] = d
    BY <2>1
  <2>4. \E b : e["delta"] = [message |-> [content |-> b]] /\ "array" \notin DOMAIN b
    BY <2>2, <2>3, Zenon DEF d
  <2> QED
    BY <1>3, <2>3, <2>4, CohereQuiet, Zenon DEF e
<1>4. CASE p = "aws.bedrock.converse" /\ s.f = "toolUse"
  <2>1. PICK v : e = [contentBlockStart |-> v]
    BY <1>4, Zenon DEF Start
  <2> HIDE DEF e
  <2>2. "error" \notin DOMAIN e
    BY <2>1
  <2> QED
    BY <1>4, <2>2, BedrockQuiet, Zenon DEF e
<1>5. CASE /\ p # "openai.responses" /\ p # "anthropic.messages" /\ p # "cohere.chat"
           /\ ~(p = "aws.bedrock.converse" /\ s.f = "toolUse")
  <2>1. e = Delta(p, s.i, s, <<>>)
    BY <1>5, Zenon DEF Start
  <2> QED
    BY <2>1, DeltaQuiet, Zenon DEF e
<1> QED
  BY <1>1, <1>2, <1>3, <1>4, <1>5, Zenon

LEMMA DoneQuiet ==
    ASSUME NEW s, s.f \in Fields
    PROVE  Quiet("openai.responses", Done(s))
<1> DEFINE type == IF s.f = "arguments" THEN "function_call_arguments" ELSE s.f
           r == [type |-> type, done |-> TRUE, output_index |-> s.i, content_index |-> s.k]
           k == IF s.f = "output_text" THEN "text" ELSE s.f
           v == sent[s]
           e == Put(r, k, v)
<1>1. Done(s) = e
  BY Zenon DEF Done
<1>2. s.f \notin {"failed", "error", "response", "type"}
  BY DEF Fields
<1>3. type # "failed" /\ k # "error" /\ k # "response" /\ k # "type"
  BY <1>2, Zenon
<1> HIDE DEF type, k, v
<1>4. DOMAIN r = {"type", "done", "output_index", "content_index"} /\ r.type = type
  OBVIOUS
<1> HIDE DEF r
<1>5. "error" \notin DOMAIN e /\ "response" \notin DOMAIN e /\ e.type = type
  BY <1>3, <1>4 DEF Put
<1> HIDE DEF e
<1> QED
  BY <1>1, <1>3, <1>5, ResponsesQuiet, Zenon

LEMMA GenerateQuiet ==
    ASSUME NEW x
    PROVE  Quiet("cohere.chat", [type |-> "text-generation", text |-> x])
<1> DEFINE e == [type |-> "text-generation", text |-> x]
<1>1. "error" \notin DOMAIN e /\ "response" \notin DOMAIN e /\ "delta" \notin DOMAIN e
  OBVIOUS
<1> HIDE DEF e
<1>2. Quiet("cohere.chat", e)
  BY <1>1, CohereQuiet
<1> QED
  BY <1>2 DEF e

LEMMA StraysQuiet ==
    ASSUME protocol \in Protocols, \A s \in Opened : IsSlot(s), NEW z \in Strays
    PROVE  Quiet(protocol, z.event)
<1> DEFINE of(kind, e) == [kind |-> kind, event |-> e]
           nullCalls(s) == [index |-> s.i, delta |-> [tool_calls |-> Null]]
           far(s) == [s EXCEPT !.k = @ + 2]
           about(s) == {of("no_index", Delta(protocol, Null, s, Piece)),
                        of("gap", Delta(protocol, s.i + 3, s, Piece)),
                        of("part_gap", Delta(protocol, s.i, far(s), Piece)),
                        of("null", Delta(protocol, s.i, s, Null)),
                        of("restart", Start(protocol, s))}
           chat(s) == [choices |-> <<nullCalls(s)>>]
           dash(s) == [output |-> [choices |-> <<nullCalls(s)>>]]
           no_delta == [type |-> "message_delta", usage |-> [output |-> 1]]
           no_output == [output |-> Null]
           extra == CASE protocol = "openai.chat_completions" ->
                            {of("null_calls", chat(s)) : s \in Opened}
                      [] protocol = "alibaba.dashscope.generation" ->
                            {of("null_calls", dash(s)) : s \in Opened}
                      [] protocol = "anthropic.messages" -> {of("no_delta", no_delta)}
                      [] protocol = "aws.bedrock.converse" -> {of("null_output", no_output)}
                      [] OTHER -> {}
<1>1. Strays = (UNION {about(s) : s \in Opened}) \cup extra
  BY Zenon DEF Strays
<1>2. \A kind, e : of(kind, e).event = e
  OBVIOUS
<1>3. ASSUME NEW s \in Opened PROVE s.f \in Fields /\ far(s).f \in Fields
  <2>1. IsSlot(s)
    BY <1>3
  <2> QED
    BY <2>1 DEF IsSlot
<1> HIDE DEF of, far
<1>4. ASSUME NEW s \in Opened, z \in about(s)
      PROVE  Quiet(protocol, z.event)
  <2>1. \/ \E index, x : z.event = Delta(protocol, index, s, x)
        \/ \E index, x : z.event = Delta(protocol, index, far(s), x)
        \/ z.event = Start(protocol, s)
    <3>1. \/ z = of("no_index", Delta(protocol, Null, s, Piece))
          \/ z = of("gap", Delta(protocol, s.i + 3, s, Piece))
          \/ z = of("part_gap", Delta(protocol, s.i, far(s), Piece))
          \/ z = of("null", Delta(protocol, s.i, s, Null))
          \/ z = of("restart", Start(protocol, s))
      BY <1>4
    <3>2. \/ z.event = Delta(protocol, Null, s, Piece)
          \/ z.event = Delta(protocol, s.i + 3, s, Piece)
          \/ z.event = Delta(protocol, s.i, far(s), Piece)
          \/ z.event = Delta(protocol, s.i, s, Null)
          \/ z.event = Start(protocol, s)
      BY <1>2, <3>1, Zenon
    <3> QED
      BY <3>2
  <2>2. /\ \A index, x : Quiet(protocol, Delta(protocol, index, s, x))
        /\ \A index, x : Quiet(protocol, Delta(protocol, index, far(s), x))
        /\ Quiet(protocol, Start(protocol, s))
    BY <1>3, DeltaQuiet, StartQuiet
  <2> QED
    BY <2>1, <2>2, Zenon
<1>5. ASSUME z \in extra
      PROVE  Quiet(protocol, z.event)
  <2> HIDE DEF chat, dash, no_delta, no_output
  <2>1. CASE protocol = "openai.chat_completions"
    <3>1. PICK s \in Opened : z = of("null_calls", chat(s))
      BY <1>5, <2>1, Zenon
    <3>2. z.event = chat(s)
      BY <1>2, <3>1, Zenon
    <3> DEFINE c == nullCalls(s)  e == chat(s)
    <3>3. e = [choices |-> <<c>>]
      BY DEF chat
    <3> HIDE DEF c, e
    <3>4. "error" \notin DOMAIN e /\ \E v : e["choices"] = <<v>>
      BY <3>3
    <3>5. Quiet("openai.chat_completions", e)
      BY <3>4, ChatQuiet, Zenon
    <3> QED
      BY <2>1, <3>2, <3>5, Zenon DEF e
  <2>2. CASE protocol = "alibaba.dashscope.generation"
    <3>1. PICK s \in Opened : z = of("null_calls", dash(s))
      BY <1>5, <2>2, Zenon
    <3>2. z.event = dash(s)
      BY <1>2, <3>1, Zenon
    <3> QED
      BY <2>2, <3>2, DashscopeQuiet, Zenon DEF dash
  <2>3. CASE protocol = "anthropic.messages"
    <3>1. z = of("no_delta", no_delta)
      BY <1>5, <2>3, Zenon
    <3>2. z.event = no_delta
      BY <1>2, <3>1, Zenon
    <3>3. "error" \notin DOMAIN no_delta /\ no_delta.type = "message_delta"
      BY DEF no_delta
    <3>4. no_delta.type # "error"
      BY <3>3, Zenon
    <3> QED
      BY <2>3, <3>2, <3>3, <3>4, AnthropicQuiet, Zenon
  <2>4. CASE protocol = "aws.bedrock.converse"
    <3>1. z = of("null_output", no_output)
      BY <1>5, <2>4, Zenon
    <3>2. z.event = no_output
      BY <1>2, <3>1, Zenon
    <3>3. "error" \notin DOMAIN no_output
      BY DEF no_output
    <3> QED
      BY <2>4, <3>2, <3>3, BedrockQuiet, Zenon
  <2> QED
    BY <1>5, <2>1, <2>2, <2>3, <2>4, Zenon
<1> QED
  <2> HIDE DEF about, extra
  <2> QED
    BY <1>1, <1>4, <1>5

\* The first event of a stream, and an error.
LEMMA OpeningShaped ==
    ASSUME NEW p \in Protocols
    PROVE  Shaped(p, Opening(p))
<1> DEFINE e == Opening(p)
<1>1. CASE p = "openai.chat_completions"
  <2>1. e = [model |-> <<"m">>, choices |-> <<>>, usage |-> Null]
    BY <1>1, Zenon DEF Opening
  <2> HIDE DEF e
  <2>2. "choices" \in DOMAIN e /\ e["choices"] = <<>>
    BY <2>1
  <2>3. Or(Get(e, "choices"), <<>>) = <<>>
    BY <2>2, Zenon DEF Get, Or
  <2>4. IsArray(Or(Get(e, "choices"), <<>>))
    BY <2>3, OneElement
  <2> QED
    BY <1>1, <2>4, Zenon DEF Shaped, e
<1>2. CASE p = "google.gemini.generate_content"
  <2>1. e = [modelVersion |-> <<"m">>]
    BY <1>2, Zenon DEF Opening
  <2> HIDE DEF e
  <2>2. /\ "choices" \notin DOMAIN e /\ "candidates" \notin DOMAIN e
        /\ "output" \notin DOMAIN e /\ "delta" \notin DOMAIN e
    BY <2>1
  <2> QED
    BY <2>2, Bare, Zenon DEF e
<1>3. CASE p = "alibaba.dashscope.generation"
  <2>1. e = [request_id |-> <<"r">>]
    BY <1>3, Zenon DEF Opening
  <2> HIDE DEF e
  <2>2. /\ "choices" \notin DOMAIN e /\ "candidates" \notin DOMAIN e
        /\ "output" \notin DOMAIN e /\ "delta" \notin DOMAIN e
    BY <2>1
  <2> QED
    BY <2>2, Bare, Zenon DEF e
<1>4. CASE p = "cohere.chat"
  <2> DEFINE m == [role |-> "a"]
             d == [message |-> m]
             delta == Or(Get(e, "delta"), Empty)
  <2>1. e = [type |-> "message-start", delta |-> d]
    BY <1>4, Zenon DEF Opening
  <2>2. "content" \notin DOMAIN m
    OBVIOUS
  <2> HIDE DEF m
  <2>3. DOMAIN d = {"message"} /\ d["message"] = m
    OBVIOUS
  <2> HIDE DEF d, e
  <2>4. DOMAIN e = {"type", "delta"} /\ e["delta"] = d
    BY <2>1
  <2>5. delta \in {d, Empty}
    BY <2>4 DEF Get, Or
  <2> HIDE DEF delta
  <2>6. Get(delta, "message") \in {m, Null}
    BY <2>3, <2>5, EmptyIs DEF Get
  <2>7. Or(Get(m, "content"), Empty) = Empty
    BY <2>2, Zenon DEF Get, Or
  <2>8. NoArray(Get(delta, "message"))
    BY <2>6, <2>7, EmptyIs DEF NoArray
  <2> QED
    BY <1>4, <2>8, Zenon DEF Shaped, delta, e
<1>5. CASE /\ p # "openai.chat_completions" /\ p # "google.gemini.generate_content"
           /\ p # "alibaba.dashscope.generation" /\ p # "cohere.chat"
  BY <1>5, Zenon DEF Shaped
<1> QED
  BY <1>1, <1>2, <1>3, <1>4, <1>5, Zenon

LEMMA ErrorIs ==
    ASSUME NEW p \in Protocols, NEW x
    PROVE  /\ Shaped(p, Error(p, x)) /\ Tame(p, Error(p, x))
           /\ \A k \in ErrKeys(p) : k \in DOMAIN Error(p, x) /\ Error(p, x)[k] = x
<1> DEFINE e == Error(p, x)
<1>1. CASE p = "alibaba.dashscope.generation"
  <2>1. e = [code |-> x, message |-> x]
    BY <1>1, Zenon DEF Error
  <2> HIDE DEF e
  <2>2. DOMAIN e = {"code", "message"} /\ e["code"] = x /\ e["message"] = x
    BY <2>1
  <2>3. ErrKeys(p) = {"code", "message"}
    BY <1>1, Zenon DEF ErrKeys
  <2>4. Shaped(p, e)
    BY <2>2, Bare
  <2>5. Tame(p, e)
    BY <1>1 DEF Tame
  <2>6. \A k \in ErrKeys(p) : k \in DOMAIN e /\ e[k] = x
    BY <2>2, <2>3
  <2> QED
    BY <2>4, <2>5, <2>6, Zenon DEF e
<1>2. CASE p # "alibaba.dashscope.generation"
  <2> DEFINE type == IF p = "openai.responses" THEN "failed" ELSE "error"
  <2>1. e = [type |-> type, error |-> x]
    BY <1>2, Zenon DEF Error
  <2>2. /\ p = "openai.responses" => type = "failed"
        /\ p = "anthropic.messages" => type = "error"
    BY Zenon
  <2> HIDE DEF e, type
  <2>3. DOMAIN e = {"type", "error"} /\ e["error"] = x /\ e.type = type
    BY <2>1
  <2>4. ErrKeys(p) = {"error"}
    BY <1>2, Zenon DEF ErrKeys
  <2>5. Shaped(p, e)
    BY <2>3, Bare
  <2>6. Tame(p, e)
    <3>1. "response" \notin DOMAIN e /\ "error" \in DOMAIN e
      BY <2>3
    <3> QED
      BY <2>2, <2>3, <3>1, Zenon DEF Tame
  <2>7. \A k \in ErrKeys(p) : k \in DOMAIN e /\ e[k] = x
    BY <2>3, <2>4
  <2> QED
    BY <2>5, <2>6, <2>7, Zenon DEF e
<1> QED
  BY <1>1, <1>2, Zenon

-----------------------------------------------------------------------------
(* finish.                                                                  *)

LEMMA WithBlocksKeeps ==
    ASSUME NEW K, NEW o, NEW k, NEW s, k \notin K
    PROVE  Keeps(K, o, WithBlocks(o, k, s))
<1>1. \A v : Keeps(K, o, Put(o, k, v))
  BY PutKeeps
<1>2. Keeps(K, o, o)
  BY DEF Keeps
<1>3. WithBlocks(o, k, s) = o \/ \E v : WithBlocks(o, k, s) = Put(o, k, v)
  BY Zenon DEF WithBlocks
<1> QED
  BY <1>1, <1>2, <1>3, Zenon

LEMMA FinishKeeps ==
    ASSUME NEW p \in Protocols, NEW s
    PROVE  Keeps(ErrKeys(p), s.out, Finish(p, s))
<1> DEFINE K == ErrKeys(p)
           t == Finish(p, s)
<1>0. Keeps(K, s.out, s.out)
  BY DEF Keeps
<1>1. \A k, v : k \notin K => Keeps(K, s.out, Put(s.out, k, v))
  BY PutKeeps
<1>2. \A k : k \notin K => Keeps(K, s.out, WithBlocks(s.out, k, s))
  BY WithBlocksKeeps
<1>3. CASE p = "alibaba.dashscope.generation"
  <2>1. t = s.out \/ \E v : t = Put(s.out, "output", v)
    BY <1>3, Zenon DEF Finish, DashscopeGenerationFinish
  <2>2. "output" \notin K
    BY <1>3 DEF ErrKeys
  <2> QED
    BY <1>0, <1>1, <2>1, <2>2, Zenon
<1>4. CASE p # "alibaba.dashscope.generation"
  <2>0. K = {"error"}
    BY <1>4, Zenon DEF ErrKeys
  <2>1. /\ "choices" \notin K /\ "output" \notin K /\ "content" \notin K /\ "candidates" \notin K
        /\ "message" \notin K /\ "text" \notin K
    BY <2>0
  <2> HIDE DEF K
  <2>2. CASE p = "openai.chat_completions"
    <3>1. t = WithBlocks(s.out, "choices", s)
      BY <2>2, Zenon DEF Finish, OpenaiChatFinish
    <3> QED
      BY <1>2, <2>1, <3>1, Zenon DEF K
  <2>3. CASE p = "openai.responses"
    <3>1. t = s.out \/ t = WithBlocks(s.out, "output", s)
      BY <2>3, Zenon DEF Finish, OpenaiResponsesFinish
    <3> QED
      BY <1>0, <1>2, <2>1, <3>1, Zenon DEF K
  <2>4. CASE p = "anthropic.messages"
    <3> DEFINE o == WithBlocks(s.out, "content", s)
    <3>1. t = Pick(o, AnthropicKeys)
      BY <2>4, Zenon DEF Finish, AnthropicMessagesFinish
    <3>2. Keeps(K, s.out, o)
      BY <1>2, <2>1
    <3> HIDE DEF o, t
    <3>3. Keeps(K, o, t)
      <4>1. /\ DOMAIN t = DOMAIN o \cap AnthropicKeys
            /\ \A k \in DOMAIN o \cap AnthropicKeys : t[k] = o[k]
        BY <3>1, PickIs
      <4>2. "error" \in AnthropicKeys
        BY DEF AnthropicKeys
      <4> QED
        BY <2>0, <4>1, <4>2 DEF Keeps
    <3> QED
      BY <3>2, <3>3, KeepsTwice, Zenon DEF K, t
  <2>5. CASE p = "google.gemini.generate_content"
    <3>1. t = WithBlocks(s.out, "candidates", s)
      BY <2>5, Zenon DEF Finish, GeminiGenerateContentFinish
    <3> QED
      BY <1>2, <2>1, <3>1, Zenon DEF K
  <2>6. CASE p = "aws.bedrock.converse"
    <3>1. t = s.out \/ \E v : t = Put(s.out, "output", v)
      BY <2>6, Zenon DEF Finish, BedrockConverseFinish
    <3> QED
      BY <1>0, <1>1, <2>1, <3>1, Zenon DEF K
  <2>7. CASE p = "cohere.chat"
    <3> DEFINE whole == s.blocks = Empty /\ s.text # <<>>
               o == IF whole THEN Put(s.out, "text", s.text) ELSE s.out
    <3>1. t = o \/ \E v : t = Put(o, "message", v)
      BY <2>7, Zenon DEF Finish, CohereChatFinish
    <3>2. o = s.out \/ \E v : o = Put(s.out, "text", v)
      BY Zenon
    <3> HIDE DEF o, t
    <3>3. Keeps(K, s.out, o)
      BY <1>0, <1>1, <2>1, <3>2, Zenon
    <3>4. \A v : Keeps(K, o, Put(o, "message", v))
      BY <2>1, PutKeeps
    <3> QED
      BY <3>1, <3>3, <3>4, KeepsTwice, Zenon DEF K, t
  <2> QED
    BY <1>4, <2>2, <2>3, <2>4, <2>5, <2>6, <2>7, ProtocolCases, Zenon DEF K, t
<1> QED
  BY <1>3, <1>4, Zenon

-----------------------------------------------------------------------------
(* The stream.                                                              *)

\* The members an error goes to hold the error sent last.
Held(v) == \A k \in ErrKeys(protocol) : k \in DOMAIN state.out /\ state.out[k] = v

\* The inductive invariant.  A provider that sent an error does not close the stream,
\* so nothing but errors touches the members of the view that hold it.
ErrorInv ==
    /\ protocol \in Protocols
    /\ \A s \in Opened : IsSlot(s)
    /\ ~closed => IsState(state)
    /\ error # Null => ~closed /\ error # <<>> /\ Held(error)

LEMMA EmitQuiet ==
    ASSUME ErrorInv, NEW e, Emit(e), Quiet(protocol, e)
    PROVE  /\ ~closed /\ protocol' = protocol /\ IsState(state')
           /\ error # Null => \A k \in ErrKeys(protocol) :
                                k \in DOMAIN state'.out /\ state'.out[k] = error
<1>1. /\ ~closed /\ protocol' = protocol /\ protocol \in Protocols /\ IsState(state)
      /\ state' = Apply(protocol, state, e)
  BY Zenon DEF ErrorInv, Emit
<1> DEFINE K == ErrKeys(protocol)
<1>2. Shaped(protocol, e) /\ Tame(protocol, e) /\ K \cap DOMAIN e = {}
  BY Zenon DEF Quiet
<1>3. IsState(state') /\ Follows(K, state.out, state'.out, e)
  BY <1>1, <1>2, ApplyTakes, Zenon
<1> HIDE DEF K
<1>4. Keeps(K, state.out, state'.out)
  BY <1>2, <1>3 DEF Follows, Keeps
<1>5. ASSUME error # Null
      PROVE  \A k \in K : k \in DOMAIN state'.out /\ state'.out[k] = error
  <2>1. \A k \in K : k \in DOMAIN state.out /\ state.out[k] = error
    BY <1>5, Zenon DEF ErrorInv, Held, K
  <2> QED
    BY <1>4, <2>1 DEF Keeps
<1> QED
  BY <1>1, <1>3, <1>5, Zenon DEF K

\* A step that emits a quiet event, and leaves error and closed alone.
LEMMA QuietStep ==
    ASSUME ErrorInv, NEW e, Emit(e), Quiet(protocol, e), UNCHANGED <<closed, error>>,
           \A s \in Opened' : IsSlot(s)
    PROVE  ErrorInv'
<1>1. /\ ~closed /\ protocol' = protocol /\ IsState(state') /\ closed' = closed /\ error' = error
      /\ error # Null => \A k \in ErrKeys(protocol) :
                              k \in DOMAIN state'.out /\ state'.out[k] = error
  BY EmitQuiet
<1>2. /\ protocol \in Protocols
      /\ error # Null => error # <<>>
  BY Zenon DEF ErrorInv
<1>3. error' # Null => Held(error)'
  BY <1>1, Zenon DEF Held
<1>4. ~closed' /\ (error' # Null => error' # <<>>) /\ protocol' \in Protocols
  BY <1>1, <1>2
<1>5. \A s \in Opened' : IsSlot(s)
  OBVIOUS
<1> QED
  BY <1>1, <1>3, <1>4, <1>5, Zenon DEF ErrorInv

LEMMA PutOpened ==
    ASSUME NEW s, IsSlot(s), \A t \in Opened : IsSlot(t), NEW v, sent' = Put(sent, s, v)
    PROVE  \A t \in Opened' : IsSlot(t)
<1>1. Opened' = Opened \cup {s}
  BY DEF Opened, Put
<1> QED
  BY <1>1

LEMMA ErrorInvInit == Init => ErrorInv
<1> SUFFICES ASSUME Init PROVE ErrorInv
  OBVIOUS
<1>1. /\ protocol \in Protocols /\ state = Apply(protocol, NewState, Opening(protocol))
      /\ sent = Empty /\ error = Null
  BY Zenon DEF Init
<1>2. IsState(NewState)
  BY DEF IsState, StateOf, NewState
<1>3. IsState(state)
  BY <1>1, <1>2, OpeningShaped, ApplyTakes, Zenon
<1>4. \A s \in Opened : IsSlot(s)
  BY <1>1, EmptyIs DEF Opened
<1> QED
  BY <1>1, <1>3, <1>4, Zenon DEF ErrorInv

LEMMA ErrorInvNext == ErrorInv /\ [Next]_vars => ErrorInv'
<1> SUFFICES ASSUME ErrorInv, [Next]_vars PROVE ErrorInv'
  OBVIOUS
<1> USE DEF ErrorInv
<1>0. protocol \in Protocols /\ (\A s \in Opened : IsSlot(s)) /\ (~closed => IsState(state))
  BY Zenon
<1>a. \A s : IsSlot(s) => s.f \in Fields
  BY Zenon DEF IsSlot
<1> HIDE DEF ErrorInv
<1>1. CASE \E s \in Slots(protocol) : OpenSlot(s)
  <2>1. PICK s \in Slots(protocol) : OpenSlot(s)
    BY <1>1, Zenon
  <2>2. /\ Emit(Start(protocol, s)) /\ sent' = Put(sent, s, <<>>)
        /\ UNCHANGED <<closed, error>>
    BY <2>1 DEF OpenSlot
  <2>3. IsSlot(s)
    BY <1>0, SlotsAre, Zenon
  <2>4. Quiet(protocol, Start(protocol, s))
    BY <1>0, <1>a, <2>3, StartQuiet, Zenon
  <2>5. \A t \in Opened' : IsSlot(t)
    BY <1>0, <2>2, <2>3, PutOpened
  <2> QED
    BY <2>2, <2>4, <2>5, QuietStep
<1>2. CASE \E s \in Opened : SendPiece(s)
  <2>1. PICK s \in Opened : SendPiece(s)
    BY <1>2, Zenon
  <2>2. PICK index : Emit(Delta(protocol, index, s, Piece))
    BY <2>1, Zenon DEF SendPiece
  <2>3. Opened' = Opened /\ UNCHANGED <<closed, error>>
    BY <2>1 DEF SendPiece, Opened
  <2>4. Quiet(protocol, Delta(protocol, index, s, Piece))
    BY <1>0, <1>a, DeltaQuiet, Zenon
  <2>5. \A t \in Opened' : IsSlot(t)
    BY <1>0, <2>3
  <2> QED
    BY <2>2, <2>3, <2>4, <2>5, QuietStep
<1>3. CASE \E s \in Opened : SendDone(s)
  <2>1. PICK s \in Opened : SendDone(s)
    BY <1>3, Zenon
  <2>2. protocol = "openai.responses" /\ Emit(Done(s)) /\ UNCHANGED <<closed, error, sent>>
    BY <2>1 DEF SendDone
  <2>3. Quiet(protocol, Done(s))
    BY <1>0, <1>a, <2>2, DoneQuiet, Zenon
  <2>4. \A t \in Opened' : IsSlot(t)
    BY <1>0, <2>2 DEF Opened
  <2> QED
    BY <2>2, <2>3, <2>4, QuietStep
<1>4. CASE Generate
  <2> DEFINE s == Slot(0, "generated", 0)
             e == [type |-> "text-generation", text |-> Piece]
  <2>1. protocol = "cohere.chat" /\ Emit(e)
    BY <1>4, Zenon DEF Generate
  <2>2. PICK v : sent' = Put(sent, s, v)
    BY <1>4, Zenon DEF Generate
  <2>3. UNCHANGED <<closed, error>>
    BY <1>4 DEF Generate
  <2>4. IsSlot(s)
    BY DEF Slot, IsSlot, Fields
  <2> HIDE DEF s
  <2>5. \A t \in Opened' : IsSlot(t)
    BY <1>0, <2>2, <2>4, PutOpened
  <2>6. Quiet(protocol, e)
    BY <2>1, GenerateQuiet, Zenon
  <2> HIDE DEF e
  <2> QED
    BY <2>1, <2>3, <2>5, <2>6, QuietStep
<1>5. CASE SendError
  <2> DEFINE x == Piece
             e == Error(protocol, x)
  <2>1. /\ Emit(e) /\ error' = x /\ closed' = closed /\ sent' = sent
    BY <1>5 DEF SendError
  <2>2. x # <<>>
    BY DEF Piece
  <2> HIDE DEF x
  <2>3. /\ Shaped(protocol, e) /\ Tame(protocol, e)
        /\ \A k \in ErrKeys(protocol) : k \in DOMAIN e /\ e[k] = x
    BY <1>0, ErrorIs
  <2> HIDE DEF e
  <2>4. ~closed /\ protocol' = protocol /\ state' = Apply(protocol, state, e)
    BY <2>1, Zenon DEF Emit
  <2>5. IsState(state') /\ Follows(ErrKeys(protocol), state.out, state'.out, e)
    BY <1>0, <2>3, <2>4, ApplyTakes, Zenon
  <2>6. \A k \in ErrKeys(protocol) : k \in DOMAIN state'.out /\ state'.out[k] = x
    BY <2>3, <2>5 DEF Follows
  <2>7. Held(error)'
    BY <2>1, <2>4, <2>6, Zenon DEF Held
  <2>8. \A t \in Opened' : IsSlot(t)
    BY <1>0, <2>1 DEF Opened
  <2> QED
    BY <1>0, <2>1, <2>2, <2>4, <2>5, <2>7, <2>8, Zenon DEF ErrorInv
<1>6. CASE Close
  <2>1. protocol' = protocol /\ error' = error /\ error = Null /\ closed' /\ sent' = sent
    BY <1>6 DEF Close, Emit
  <2>2. \A t \in Opened' : IsSlot(t)
    BY <1>0, <2>1 DEF Opened
  <2> QED
    BY <1>0, <2>1, <2>2, Zenon DEF ErrorInv
<1>7. CASE Stray
  <2>1. PICK z \in Strays : Emit(z.event)
    BY <1>7, Zenon DEF Stray
  <2>2. UNCHANGED <<closed, error, sent>>
    BY <1>7 DEF Stray
  <2>3. Quiet(protocol, z.event)
    BY <1>0, StraysQuiet
  <2>4. \A t \in Opened' : IsSlot(t)
    BY <1>0, <2>2 DEF Opened
  <2> QED
    BY <2>1, <2>2, <2>3, <2>4, QuietStep
<1>8. CASE UNCHANGED vars
  <2>1. /\ protocol' = protocol /\ state' = state /\ sent' = sent
        /\ closed' = closed /\ error' = error
    BY <1>8 DEF vars
  <2>2. Opened' = Opened
    BY <2>1 DEF Opened
  <2>3. Held(error)' <=> Held(error)
    BY <2>1 DEF Held
  <2> QED
    BY <2>1, <2>2, <2>3, Zenon DEF ErrorInv
<1> QED
  BY <1>1, <1>2, <1>3, <1>4, <1>5, <1>6, <1>7, <1>8, Zenon DEF Next

\* What the invariant says of the view, however far the stream has come.
LEMMA ErrorInvKept == ErrorInv => ErrorKept
<1> SUFFICES ASSUME ErrorInv, error # Null PROVE
        /\ IsErrorResponseView(protocol, View)
        /\ HasRequiredPresence(protocol, View)
        /\ View[IF protocol = "alibaba.dashscope.generation" THEN "code" ELSE "error"] = error
  BY Zenon DEF ErrorKept
<1>1. protocol \in Protocols /\ error # <<>> /\ Held(error)
  BY Zenon DEF ErrorInv
<1>2. Keeps(ErrKeys(protocol), state.out, View)
  BY <1>1, FinishKeeps, Zenon DEF View
<1>3. \A k \in ErrKeys(protocol) : k \in DOMAIN View /\ View[k] = error
  BY <1>1, <1>2, Zenon DEF Held, Keeps
<1>4. \A k \in ErrKeys(protocol) : IsPresent(View, k)
  BY <1>1, <1>3, Zenon DEF IsPresent, Get, Or
<1>5. /\ IsErrorResponseView(protocol, View)
      /\ View[IF protocol = "alibaba.dashscope.generation" THEN "code" ELSE "error"] = error
  <2>1. CASE protocol = "alibaba.dashscope.generation"
    <3>1. "code" \in ErrKeys(protocol) /\ "message" \in ErrKeys(protocol)
      BY <2>1 DEF ErrKeys
    <3> QED
      BY <1>3, <1>4, <2>1, <3>1, Zenon DEF IsErrorResponseView
  <2>2. CASE protocol # "alibaba.dashscope.generation"
    <3>1. "error" \in ErrKeys(protocol)
      BY <2>2 DEF ErrKeys
    <3> QED
      BY <1>3, <1>4, <2>2, <3>1, Zenon DEF IsErrorResponseView
  <2> QED
    BY <2>1, <2>2, Zenon
<1> QED
  BY <1>5, Zenon DEF HasRequiredPresence

\* In a stream of any length, in each of the seven protocols, an error the provider
\* sent is in the view the enclave would sign wherever the stream ends: none of the
\* events that may come after it, the stray ones included, takes it out or changes
\* it, and finish keeps it (the apply and finish functions, main.rs:1103-2600).
THEOREM ErrorKeptCorrect == Spec => []ErrorKept
  BY ErrorInvInit, ErrorInvNext, ErrorInvKept, PTL DEF Spec
===============================================================================
