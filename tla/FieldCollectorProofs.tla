-------------------------- MODULE FieldCollectorProofs --------------------------
(***************************************************************************)
(* Theorems about FieldCollector, for every body, every way to cut it into *)
(* pieces and every value of the constants.  First how a body is           *)
(* recognised as SSE, what is captured of one that is not, and what        *)
(* reaches the parser when the collector changes its mind.  Then that      *)
(* claims do not depend on where the transport cut the body: the SSE       *)
(* parser that is fed piece by piece is compared with the functions that   *)
(* read the whole body, and the event-stream parser with what makes a body *)
(* a sequence of messages.  What a fold over lines, words or items         *)
(* computes is proved with FoldLaws.                                       *)
(***************************************************************************)
EXTENDS FieldCollector, SequenceTheorems, FiniteSetTheorems, WellFoundedInduction, TLAPS

\* How much of the body was pushed, and what that is.
Taken  == Len(input.body) - Len(rest)
Pushed == SubSeq(input.body, 1, Taken)

-----------------------------------------------------------------------------
(* What is proved.                                                          *)

\* Whether the collector ends up as an SSE parser does not depend on where the
\* transport cut the body: the test made after every piece over what was captured
\* (main.rs:871-884) comes out as one test of the whole body would.
ModeExact ==
    finished =>
        (mode = "Streaming" <=>
            \/ NewMode(input) = "Streaming"
            \/ NewMode(input) = "Sniffing" /\ BodyPrefixIndicatesSse(input.body))

\* A body that is not recognised as SSE is claimed as the whole-body functions
\* would, if it fits the capture, and not at all otherwise.
BufferedExact ==
    finished /\ mode \in {"Sniffing", "absent"} => claims = WholeBodyView

\* A piece pushed to a collector that sniffs is no longer than what the capture
\* leaves beyond the sniffing limit.  Pieces pushed later may have any length.
PieceFits ==
    mode = "Sniffing" =>
        MAX_STREAM_SNIFF_BYTES + (Len(rest) - Len(rest')) <= MAX_FIELD_CLAIMS_CAPTURE

\* The collector changes its mind without losing a byte when the piece that makes
\* it do so fits: the new parser gets everything pushed so far.
SwitchKeepsAll ==
    [][mode = "Sniffing" /\ mode' = "Streaming" /\ PieceFits
        => parser' = SsePush(NewParser, Pushed')]_vars

-----------------------------------------------------------------------------
(* The inductive invariant.                                                 *)

\* rest is what follows the part of the body that was pushed.
Cursor ==
    /\ input \in Inputs /\ rest \in Seq(STRING) /\ Len(rest) <= Len(input.body)
    /\ rest = SubSeq(input.body, Taken + 1, Len(input.body))

\* While the collector sniffs it has captured what was pushed, up to the limit,
\* and none of it looks like SSE.
Captured ==
    mode = "Sniffing" =>
        /\ body = Window(Pushed, MAX_FIELD_CLAIMS_CAPTURE)
        /\ truncated <=> Taken > MAX_FIELD_CLAIMS_CAPTURE
        /\ ~BodyPrefixIndicatesSse(Pushed)

\* The collector is what new made it, or was turned into an SSE parser by a body
\* that looks like SSE.
Modes ==
    \/ mode = NewMode(input)
    \/ NewMode(input) = "Sniffing" /\ mode = "Streaming" /\ BodyPrefixIndicatesSse(Pushed)

Outcome == finished => rest = <<>> /\ claims = FinishView

IInv == Cursor /\ Captured /\ Modes /\ Outcome

-----------------------------------------------------------------------------
(* Recognising SSE.                                                         *)

\* The first symbol of s that is not blank is the n-th.
FirstAt(s, n) ==
    n \in 1..Len(s) /\ s[n] \notin JsBlank /\ \A i \in 1..(n - 1) : s[i] \in JsBlank

\* An SSE field starts at n.
FieldAt(s, n) ==
    \/ n + 1 <= Len(s) /\ s[n] = "da" /\ s[n + 1] = "ta:"
    \/ s[n] \in {"event:", ":"}

\* A nonempty set of natural numbers has a least element.
LEMMA MinExists ==
    ASSUME NEW S, S \subseteq Nat, S # {}
    PROVE  Min(S) \in S /\ \A y \in S : Min(S) <= y
<1> DEFINE R == OpToRel(<, Nat)
<1>1. IsWellFoundedOn(R, Nat)
  BY NatLessThanWellFounded
<1> HIDE DEF R
<1>2. PICK x \in S : \A y \in S : <<y, x>> \notin R
  BY <1>1, WFMin
<1>3. \A y \in S : ~(y < x)
  BY <1>2 DEF R, OpToRel
<1>4. \A y \in S : x <= y
  BY <1>3
<1> QED
  BY <1>4 DEF Min

\* TrimStart starts at the first symbol that is not blank.
LEMMA TrimStartsAt ==
    ASSUME NEW s \in Seq(STRING)
    PROVE  \/ /\ TrimStart(s, JsBlank) = <<>>
              /\ \A i \in 1..Len(s) : s[i] \in JsBlank
           \/ \E n \in 1..Len(s) :
                 FirstAt(s, n) /\ TrimStart(s, JsBlank) = SubSeq(s, n, Len(s))
<1> DEFINE I == {i \in 1..Len(s) : s[i] \notin JsBlank}
           n == IF I # {} THEN Min(I) ELSE 0
<1>1. TrimStart(s, JsBlank) = IF n = 0 THEN <<>> ELSE SubSeq(s, n, Len(s))
  BY Zenon DEF TrimStart, SelectInSeq
<1>2. Len(s) \in Nat
  OBVIOUS
<1>3. CASE I = {}
  BY <1>1, <1>3
<1>4. CASE I # {}
  <2>1. Min(I) \in I /\ \A y \in I : Min(I) <= y
    <3>1. I \subseteq Nat
      BY <1>2
    <3> HIDE DEF I
    <3> QED
      BY <1>4, <3>1, MinExists
  <2>4. n = Min(I)
    BY <1>4
  <2> HIDE DEF n
  <2>2. n \in 1..Len(s) /\ s[n] \notin JsBlank /\ n # 0
    BY <1>2, <2>1, <2>4
  <2>3. \A i \in 1..(n - 1) : s[i] \in JsBlank
    BY <1>2, <2>1, <2>2, <2>4
  <2> QED
    BY <1>1, <2>2, <2>3 DEF FirstAt
<1> QED
  BY <1>3, <1>4

\* A short text starts t when its symbols are the first of t.
LEMMA PrefixOne ==
    ASSUME NEW S, NEW t \in Seq(S), NEW a \in S
    PROVE  IsPrefix(<<a>>, t) <=> 1 <= Len(t) /\ t[1] = a
<1>0. <<a>> \in Seq(S) /\ Len(<<a>>) = 1 /\ <<a>>[1] = a
  OBVIOUS
<1>1. SubSeq(<<a>>, 1, 1) = <<a>>
  BY <1>0, SubSeqFull
<1>2. ASSUME 1 <= Len(t)
      PROVE  SubSeq(t, 1, 1) = <<a>> <=> t[1] = a
  <2>1. t[1] \in S
    BY <1>2
  <2>2. /\ SubSeq(t, 1, 1) \in Seq(S)
        /\ Len(SubSeq(t, 1, 1)) = 1
        /\ SubSeq(t, 1, 1)[1] = t[1]
    <3>1. \A i \in 1..1 : t[i] \in S
      BY <2>1
    <3> QED
      BY <3>1, SubSeqProperties
  <2>3. ASSUME t[1] = a PROVE SubSeq(t, 1, 1) = <<a>>
    <3> DEFINE q == SubSeq(t, 1, 1)
               p == <<a>>
    <3>1. /\ q \in Seq(S) /\ Len(q) = 1
          /\ p \in Seq(S) /\ Len(p) = 1 /\ q[1] = p[1]
      BY <1>0, <2>2, <2>3
    <3> HIDE DEF p, q
    <3>2. \A i \in 1..1 : q[i] = p[i]
      BY <3>1
    <3>3. q = p
      BY <3>1, <3>2, SeqEqual
    <3> QED
      BY <3>3 DEF p, q
  <2> QED
    BY <1>0, <2>2, <2>3
<1> QED
  BY <1>0, <1>1, <1>2 DEF IsPrefix

LEMMA PrefixTwo ==
    ASSUME NEW S, NEW t \in Seq(S), NEW a \in S, NEW b \in S
    PROVE  IsPrefix(<<a, b>>, t) <=> 2 <= Len(t) /\ t[1] = a /\ t[2] = b
<1> DEFINE p == <<a, b>>
<1>0. p \in Seq(S) /\ Len(p) = 2 /\ p[1] = a /\ p[2] = b
  OBVIOUS
<1> HIDE DEF p
<1>1. SubSeq(p, 1, 2) = p
  BY <1>0, SubSeqFull
<1>2. ASSUME 2 <= Len(t)
      PROVE  SubSeq(t, 1, 2) = p <=> t[1] = a /\ t[2] = b
  <2>1. \A i \in 1..2 : t[i] \in S
    BY <1>2
  <2>2. /\ SubSeq(t, 1, 2) \in Seq(S)
        /\ Len(SubSeq(t, 1, 2)) = 2
        /\ SubSeq(t, 1, 2)[1] = t[1]
        /\ SubSeq(t, 1, 2)[2] = t[2]
    <3> DEFINE q == SubSeq(t, 1, 2)
    <3>1. q \in Seq(S) /\ Len(q) = 2 /\ \A i \in 1..2 : q[i] = t[1 + i - 1]
      BY <2>1, SubSeqProperties
    <3> HIDE DEF q
    <3>2. q[1] = t[1] /\ q[2] = t[2]
      BY <3>1
    <3> QED
      BY <3>1, <3>2 DEF q
  <2>3. ASSUME t[1] = a, t[2] = b PROVE SubSeq(t, 1, 2) = p
    <3> DEFINE q == SubSeq(t, 1, 2)
    <3>1. q \in Seq(S) /\ Len(q) = 2 /\ q[1] = p[1] /\ q[2] = p[2]
      BY <1>0, <2>2, <2>3
    <3> HIDE DEF q
    <3>2. \A i \in 1..2 : q[i] = p[i]
      BY <3>1
    <3>3. q = p
      BY <1>0, <3>1, <3>2, SeqEqual
    <3> QED
      BY <3>3 DEF q
  <2> QED
    BY <1>0, <2>2, <2>3
<1>3. IsPrefix(p, t) <=> Len(p) <= Len(t) /\ SubSeq(p, 1, Len(p)) = SubSeq(t, 1, Len(p))
  BY DEF IsPrefix
<1>4. IsPrefix(p, t) <=> 2 <= Len(t) /\ t[1] = a /\ t[2] = b
  BY <1>0, <1>1, <1>2, <1>3
<1> QED
  BY <1>4 DEF p

\* What follows the blanks starts with an SSE field exactly when the field stands
\* at the first symbol that is not blank.
LEMMA TrimmedField ==
    ASSUME NEW s \in Seq(STRING)
    PROVE  LET t == TrimStart(s, JsBlank)
           IN  IsFieldLine(t) \/ IsPrefix(<<":">>, t)
                 <=> \E n \in 1..Len(s) : FirstAt(s, n) /\ FieldAt(s, n)
<1> DEFINE t == TrimStart(s, JsBlank)
<1>1. ASSUME t \in Seq(STRING)
      PROVE  IsFieldLine(t) \/ IsPrefix(<<":">>, t)
               <=> \/ 2 <= Len(t) /\ t[1] = "da" /\ t[2] = "ta:"
                   \/ 1 <= Len(t) /\ t[1] \in {"event:", ":"}
  <2> HIDE DEF t
  <2> DEFINE T == STRING \cup {"da", "ta:", "event:", ":"}
  <2>0. "da" \in T /\ "ta:" \in T /\ "event:" \in T /\ ":" \in T
    OBVIOUS
  <2>1. t \in Seq(T)
    BY <1>1, SeqMonotonic
  <2> HIDE DEF T
  <2>2. IsPrefix(Data, t) <=> 2 <= Len(t) /\ t[1] = "da" /\ t[2] = "ta:"
    BY <2>0, <2>1, PrefixTwo DEF Data
  <2>3. IsPrefix(Event, t) <=> 1 <= Len(t) /\ t[1] = "event:"
    BY <2>0, <2>1, PrefixOne DEF Event
  <2>4. IsPrefix(<<":">>, t) <=> 1 <= Len(t) /\ t[1] = ":"
    BY <2>0, <2>1, PrefixOne
  <2> QED
    BY <2>2, <2>3, <2>4 DEF IsFieldLine
<1>2. CASE t = <<>> /\ \A i \in 1..Len(s) : s[i] \in JsBlank
  <2>1. t \in Seq(STRING) /\ Len(t) = 0
    BY <1>2, EmptySeq
  <2>2. ~(IsFieldLine(t) \/ IsPrefix(<<":">>, t))
    BY <1>1, <2>1
  <2>3. \A n \in 1..Len(s) : ~FirstAt(s, n)
    BY <1>2 DEF FirstAt
  <2> QED
    BY <2>2, <2>3
<1>3. ASSUME NEW n \in 1..Len(s), FirstAt(s, n), t = SubSeq(s, n, Len(s))
      PROVE  IsFieldLine(t) \/ IsPrefix(<<":">>, t)
               <=> \E m \in 1..Len(s) : FirstAt(s, m) /\ FieldAt(s, m)
  <2>0. n \in Int /\ Len(s) \in Nat /\ n <= Len(s)
    BY <1>3
  <2>1. \A i \in n..Len(s) : s[i] \in STRING
    BY <2>0, <1>3
  <2>2. /\ t \in Seq(STRING)
        /\ Len(t) = Len(s) - n + 1
        /\ \A i \in 1..(Len(s) - n + 1) : t[i] = s[n + i - 1]
    BY <1>3, <2>0, <2>1, SubSeqProperties
  <2> HIDE DEF t
  <2>3. t[1] = s[n]
    BY <2>0, <2>2
  <2>4. n + 1 <= Len(s) => t[2] = s[n + 1]
    BY <2>0, <2>2
  <2>5. IsFieldLine(t) \/ IsPrefix(<<":">>, t) <=> FieldAt(s, n)
    BY <1>1, <2>0, <2>2, <2>3, <2>4 DEF FieldAt
  <2>6. ASSUME NEW m \in 1..Len(s), FirstAt(s, m)
        PROVE  m = n
    BY <1>3, <2>0, <2>6 DEF FirstAt
  <2> QED
    BY <1>3, <2>5, <2>6
<1> QED
  BY <1>2, <1>3, TrimStartsAt

-----------------------------------------------------------------------------
(* The window.                                                              *)

\* The symbols of a sequence behind the j-th, up to the k-th.
LEMMA SliceProperties ==
    ASSUME NEW s \in Seq(STRING), NEW k \in 0..Len(s), NEW j \in 0..k
    PROVE  /\ SubSeq(s, j + 1, k) \in Seq(STRING)
           /\ Len(SubSeq(s, j + 1, k)) = k - j
           /\ \A i \in 1..(k - j) : SubSeq(s, j + 1, k)[i] = s[j + i]
<1> DEFINE p == SubSeq(s, j + 1, k)
<1>1. k \in Nat /\ j \in Nat /\ j <= k /\ j + 1 \in Int /\ k \in Int /\ Len(s) \in Nat
  OBVIOUS
<1>2. \A i \in (j + 1)..k : s[i] \in STRING
  BY <1>1
<1>3. /\ p \in Seq(STRING)
      /\ Len(p) = IF j + 1 <= k THEN k - (j + 1) + 1 ELSE 0
      /\ \A i \in 1..(k - (j + 1) + 1) : p[i] = s[j + 1 + i - 1]
  BY <1>1, <1>2, SubSeqProperties
<1> HIDE DEF p
<1>4. Len(p) = k - j
  <2>1. (IF j + 1 <= k THEN k - (j + 1) + 1 ELSE 0) = k - j
    BY <1>1
  <2> QED
    BY <1>3, <2>1
<1>5. ASSUME NEW i \in 1..(k - j) PROVE p[i] = s[j + i]
  <2>1. i \in 1..(k - (j + 1) + 1) /\ j + 1 + i - 1 = j + i
    BY <1>1
  <2> QED
    BY <1>3, <2>1
<1>6. p \in Seq(STRING)
  BY <1>3
<1> QED
  BY <1>4, <1>5, <1>6 DEF p

\* The first k symbols of a sequence.
LEMMA PrefixProperties ==
    ASSUME NEW s \in Seq(STRING), NEW k \in 0..Len(s)
    PROVE  /\ SubSeq(s, 1, k) \in Seq(STRING)
           /\ Len(SubSeq(s, 1, k)) = k
           /\ \A i \in 1..k : SubSeq(s, 1, k)[i] = s[i]
<1> DEFINE p == SubSeq(s, 1, k)
<1>1. k \in Nat /\ 0 \in 0..k /\ 0 + 1 = 1 /\ k - 0 = k
  OBVIOUS
<1>2. /\ SubSeq(s, 0 + 1, k) \in Seq(STRING)
      /\ Len(SubSeq(s, 0 + 1, k)) = k - 0
      /\ \A i \in 1..(k - 0) : SubSeq(s, 0 + 1, k)[i] = s[0 + i]
  BY <1>1, SliceProperties
<1>3. p \in Seq(STRING) /\ Len(p) = k /\ \A i \in 1..k : p[i] = s[0 + i]
  BY <1>1, <1>2
<1> HIDE DEF p
<1>4. ASSUME NEW i \in 1..k PROVE p[i] = s[i]
  <2>1. 0 + i = i
    BY <1>1
  <2> QED
    BY <1>3, <2>1
<1> QED
  BY <1>3, <1>4 DEF p

\* BodyPrefixIndicatesSse, symbol by symbol.
SseAt(s, n) ==
    /\ FirstAt(s, n) /\ n <= MAX_STREAM_SNIFF_BYTES
    /\ \/ /\ n + 1 <= Len(s) /\ n + 1 <= MAX_STREAM_SNIFF_BYTES
          /\ s[n] = "da" /\ s[n + 1] = "ta:"
       \/ s[n] \in {"event:", ":"}

LEMMA Recognised ==
    ASSUME NEW s \in Seq(STRING)
    PROVE  BodyPrefixIndicatesSse(s) <=> \E n \in 1..Len(s) : SseAt(s, n)
<1> DEFINE k == IF Len(s) < MAX_STREAM_SNIFF_BYTES THEN Len(s) ELSE MAX_STREAM_SNIFF_BYTES
           w == SubSeq(s, 1, k)
<1>0. Len(s) \in Nat /\ MAX_STREAM_SNIFF_BYTES \in Nat
  BY WindowsAssumption
<1>1. k \in 0..Len(s) /\ k <= MAX_STREAM_SNIFF_BYTES
  BY <1>0
<1>2. \A n \in 1..Len(s) : n <= k <=> n <= MAX_STREAM_SNIFF_BYTES
  BY <1>0
<1>3. w = Window(s, MAX_STREAM_SNIFF_BYTES)
  BY DEF Window
<1> HIDE DEF k
<1>4. w \in Seq(STRING) /\ Len(w) = k /\ \A i \in 1..k : w[i] = s[i]
  BY <1>1, PrefixProperties
<1> HIDE DEF w
<1>5. BodyPrefixIndicatesSse(s) <=> \E n \in 1..Len(w) : FirstAt(w, n) /\ FieldAt(w, n)
  BY <1>3, <1>4, TrimmedField DEF BodyPrefixIndicatesSse
<1>6. ASSUME NEW n \in 1..k
      PROVE  FirstAt(w, n) /\ FieldAt(w, n) <=> SseAt(s, n)
  <2>1. n \in 1..Len(s) /\ w[n] = s[n] /\ n <= MAX_STREAM_SNIFF_BYTES
    BY <1>0, <1>1, <1>2, <1>4
  <2>2. n + 1 <= k <=> n + 1 <= Len(s) /\ n + 1 <= MAX_STREAM_SNIFF_BYTES
    BY <1>0, <1>1, <1>2
  <2>3. n + 1 <= k => w[n + 1] = s[n + 1]
    BY <1>1, <1>4
  <2>4. \A i \in 1..(n - 1) : w[i] = s[i]
    BY <1>1, <1>4
  <2>5. FirstAt(w, n) <=> FirstAt(s, n)
    BY <1>4, <2>1, <2>4 DEF FirstAt
  <2> QED
    BY <1>4, <2>1, <2>2, <2>3, <2>5 DEF FieldAt, SseAt
<1>7. \A n \in 1..Len(s) : SseAt(s, n) => n \in 1..k
  BY <1>0, <1>1, <1>2 DEF SseAt
<1> QED
  BY <1>0, <1>1, <1>4, <1>5, <1>6, <1>7

\* Once a body is seen to be SSE more of it does not change that, and what stands
\* beyond the sniffing limit does not matter.
LEMMA RecognisedPrefix ==
    ASSUME NEW s \in Seq(STRING), NEW k \in 0..Len(s)
    PROVE  /\ BodyPrefixIndicatesSse(SubSeq(s, 1, k)) => BodyPrefixIndicatesSse(s)
           /\ MAX_STREAM_SNIFF_BYTES <= k /\ BodyPrefixIndicatesSse(s)
                => BodyPrefixIndicatesSse(SubSeq(s, 1, k))
<1> DEFINE p == SubSeq(s, 1, k)
<1>0. Len(s) \in Nat /\ MAX_STREAM_SNIFF_BYTES \in Nat
  BY WindowsAssumption
<1>1. p \in Seq(STRING) /\ Len(p) = k /\ \A i \in 1..k : p[i] = s[i]
  BY PrefixProperties
<1> HIDE DEF p
<1>2. ASSUME NEW n \in 1..k
      PROVE  /\ p[n] = s[n]
             /\ FirstAt(p, n) <=> FirstAt(s, n)
             /\ n + 1 <= k => p[n + 1] = s[n + 1]
  <2>1. n \in 1..Len(s) /\ n \in 1..Len(p)
    BY <1>0, <1>1
  <2>2. \A i \in 1..(n - 1) : p[i] = s[i]
    BY <1>1
  <2>3. p[n] = s[n] /\ (n + 1 <= k => p[n + 1] = s[n + 1])
    BY <1>1
  <2> QED
    BY <2>1, <2>2, <2>3 DEF FirstAt
<1>3. ASSUME BodyPrefixIndicatesSse(p)
      PROVE  BodyPrefixIndicatesSse(s)
  <2>1. PICK n \in 1..k : SseAt(p, n)
    BY <1>1, <1>3, Recognised
  <2>2. n \in 1..Len(s) /\ SseAt(s, n)
    BY <1>0, <1>1, <1>2, <2>1 DEF SseAt
  <2> QED
    BY <2>2, Recognised
<1>4. ASSUME MAX_STREAM_SNIFF_BYTES <= k, BodyPrefixIndicatesSse(s)
      PROVE  BodyPrefixIndicatesSse(p)
  <2>1. PICK n \in 1..Len(s) : SseAt(s, n)
    BY <1>4, Recognised
  <2>2. n \in 1..k
    BY <1>0, <1>4, <2>1 DEF SseAt
  <2>3. SseAt(p, n)
    BY <1>0, <1>1, <1>2, <1>4, <2>1, <2>2 DEF SseAt
  <2> QED
    BY <1>1, <2>2, <2>3, Recognised
<1> QED
  BY <1>3, <1>4 DEF p

\* A piece of n symbols, cut off r, which is b without its first k symbols.
Cuts(b, k, r, n) ==
    /\ Len(r) = Len(b) - k
    /\ SubSeq(r, n + 1, Len(r)) \in Seq(STRING)
    /\ Len(SubSeq(r, n + 1, Len(r))) = Len(r) - n
    /\ SubSeq(r, n + 1, Len(r)) = SubSeq(b, k + n + 1, Len(b))
    /\ SubSeq(b, 1, k) \o SubSeq(r, 1, n) = SubSeq(b, 1, k + n)

LEMMA CutProperties ==
    ASSUME NEW b \in Seq(STRING), NEW k \in 0..Len(b),
           NEW r, r = SubSeq(b, k + 1, Len(b)), NEW n \in 1..Len(r)
    PROVE  Cuts(b, k, r, n)
<1> DEFINE l == Len(b)
<1>0. l \in Nat /\ l \in 0..Len(b) /\ k \in 0..l /\ k \in Nat
  OBVIOUS
<1>1. r \in Seq(STRING) /\ Len(r) = l - k /\ \A i \in 1..(l - k) : r[i] = b[k + i]
  BY <1>0, SliceProperties
<1>2. /\ n \in Nat /\ n >= 1 /\ n <= l - k
      /\ k + n \in Nat /\ k + n \in 0..l /\ k \in 0..(k + n)
      /\ Len(r) \in 0..Len(r) /\ n \in 0..Len(r)
  BY <1>0, <1>1
<1> DEFINE q == SubSeq(r, n + 1, Len(r))
           x == SubSeq(b, k + n + 1, l)
           y == SubSeq(r, 1, n)
           z == SubSeq(b, k + 1, k + n)
<1>3. q \in Seq(STRING) /\ Len(q) = Len(r) - n /\ \A i \in 1..(Len(r) - n) : q[i] = r[n + i]
  BY <1>1, <1>2, SliceProperties
<1>4. x \in Seq(STRING) /\ Len(x) = l - (k + n)
      /\ \A i \in 1..(l - (k + n)) : x[i] = b[k + n + i]
  BY <1>0, <1>2, SliceProperties
<1>5. y \in Seq(STRING) /\ Len(y) = n /\ \A i \in 1..n : y[i] = r[i]
  BY <1>1, <1>2, PrefixProperties
<1>6. z \in Seq(STRING) /\ Len(z) = k + n - k /\ \A i \in 1..(k + n - k) : z[i] = b[k + i]
  BY <1>2, SliceProperties
<1>7. SubSeq(b, 1, k) \o z = SubSeq(b, 1, k + n)
  <2>1. 1 \in 1..(Len(b) + 1) /\ k \in (1 - 1)..Len(b) /\ k + n \in k..Len(b)
    BY <1>0, <1>2
  <2> QED
    BY <2>1, ConcatAdjacentSubSeq
<1> HIDE DEF q, x, y, z, l
<1>8. q = x
  <2>1. Len(r) - n = l - (k + n)
    BY <1>0, <1>1, <1>2
  <2>2. ASSUME NEW i \in 1..(l - (k + n)) PROVE q[i] = x[i]
    <3>1. n + i \in 1..(l - k) /\ k + (n + i) = k + n + i
      BY <1>0, <1>2
    <3>2. r[n + i] = b[k + n + i]
      BY <1>1, <3>1
    <3> QED
      BY <1>3, <1>4, <2>1, <3>2
  <2> QED
    BY <1>3, <1>4, <2>1, <2>2, SeqEqual
<1>9. y = z
  <2>1. k + n - k = n
    BY <1>0, <1>2
  <2>2. ASSUME NEW i \in 1..n PROVE y[i] = z[i]
    <3>1. i \in 1..(l - k)
      BY <1>0, <1>2
    <3>2. r[i] = b[k + i]
      BY <1>1, <3>1
    <3> QED
      BY <1>5, <1>6, <2>1, <3>2
  <2> QED
    BY <1>5, <1>6, <2>1, <2>2, SeqEqual
<1>10. SubSeq(b, 1, k) \o y = SubSeq(b, 1, k + n)
  BY <1>7, <1>9
<1> QED
  BY <1>1, <1>3, <1>8, <1>10 DEF Cuts, q, x, y, l

\* A window is a prefix, the whole of a sequence that fits, and as good as the
\* sequence to tell SSE.
LEMMA WindowProperties ==
    ASSUME NEW s \in Seq(STRING)
    PROVE  /\ Window(s, MAX_FIELD_CLAIMS_CAPTURE) \in Seq(STRING)
           /\ Len(s) <= MAX_FIELD_CLAIMS_CAPTURE => Window(s, MAX_FIELD_CLAIMS_CAPTURE) = s
           /\ Len(s) > MAX_FIELD_CLAIMS_CAPTURE =>
                Window(s, MAX_FIELD_CLAIMS_CAPTURE) = SubSeq(s, 1, MAX_FIELD_CLAIMS_CAPTURE)
           /\ BodyPrefixIndicatesSse(Window(s, MAX_FIELD_CLAIMS_CAPTURE))
                <=> BodyPrefixIndicatesSse(s)
<1> DEFINE C == MAX_FIELD_CLAIMS_CAPTURE
<1>0. C \in Nat /\ Len(s) \in Nat /\ MAX_STREAM_SNIFF_BYTES \in Nat /\ MAX_STREAM_SNIFF_BYTES <= C
  BY CollectorAssumption, WindowsAssumption
<1>1. CASE Len(s) <= C
  <2>1. Window(s, C) = SubSeq(s, 1, Len(s))
    BY <1>0, <1>1 DEF Window
  <2>2. Window(s, C) = s
    BY <2>1, SubSeqFull
  <2> QED
    BY <1>0, <1>1, <2>2
<1>2. CASE Len(s) > C
  <2>1. Window(s, C) = SubSeq(s, 1, C) /\ C \in 0..Len(s)
    BY <1>0, <1>2 DEF Window
  <2>2. /\ BodyPrefixIndicatesSse(SubSeq(s, 1, C)) <=> BodyPrefixIndicatesSse(s)
        /\ SubSeq(s, 1, C) \in Seq(STRING)
    BY <1>0, <2>1, PrefixProperties, RecognisedPrefix
  <2> QED
    BY <1>0, <1>2, <2>1, <2>2
<1> QED
  BY <1>0, <1>1, <1>2

\* The capture so far, and a piece: what the capture of both together would be.
LEMMA WindowGrows ==
    ASSUME NEW b \in Seq(STRING), NEW k \in 0..Len(b), NEW m \in k..Len(b), NEW piece,
           SubSeq(b, 1, k) \o piece = SubSeq(b, 1, m)
    PROVE  Window(SubSeq(b, 1, m), MAX_FIELD_CLAIMS_CAPTURE) =
             IF k > MAX_FIELD_CLAIMS_CAPTURE
             THEN Window(SubSeq(b, 1, k), MAX_FIELD_CLAIMS_CAPTURE)
             ELSE Window(Window(SubSeq(b, 1, k), MAX_FIELD_CLAIMS_CAPTURE) \o piece,
                         MAX_FIELD_CLAIMS_CAPTURE)
<1> DEFINE C == MAX_FIELD_CLAIMS_CAPTURE
           p == SubSeq(b, 1, k)
           q == SubSeq(b, 1, m)
<1>0. C \in Nat /\ Len(b) \in Nat /\ k \in Nat /\ m \in Nat /\ k <= m /\ m <= Len(b)
      /\ m \in 0..Len(b)
  BY CollectorAssumption
<1>1. p \in Seq(STRING) /\ Len(p) = k /\ \A i \in 1..k : p[i] = b[i]
  BY PrefixProperties
<1>2. q \in Seq(STRING) /\ Len(q) = m /\ \A i \in 1..m : q[i] = b[i]
  BY <1>0, PrefixProperties
<1>3. CASE k > C
  <2> HIDE DEF C, p, q
  <2>0. \A s \in Seq(STRING) : Len(s) > C => Window(s, C) = SubSeq(s, 1, C)
    BY WindowProperties DEF C
  <2>1. Window(p, C) = SubSeq(p, 1, C) /\ Window(q, C) = SubSeq(q, 1, C)
    BY <1>0, <1>1, <1>2, <1>3, <2>0
  <2>2. C \in 0..Len(p) /\ C \in 0..Len(q)
    BY <1>0, <1>1, <1>2, <1>3
  <2>3. /\ SubSeq(p, 1, C) \in Seq(STRING) /\ Len(SubSeq(p, 1, C)) = C
        /\ \A i \in 1..C : SubSeq(p, 1, C)[i] = p[i]
    BY <1>1, <2>2, PrefixProperties
  <2>4. /\ SubSeq(q, 1, C) \in Seq(STRING) /\ Len(SubSeq(q, 1, C)) = C
        /\ \A i \in 1..C : SubSeq(q, 1, C)[i] = q[i]
    BY <1>2, <2>2, PrefixProperties
  <2>5. \A i \in 1..C : p[i] = q[i]
    BY <1>0, <1>1, <1>2, <1>3
  <2>6. SubSeq(p, 1, C) = SubSeq(q, 1, C)
    <3> DEFINE u == SubSeq(p, 1, C)
               v == SubSeq(q, 1, C)
    <3>1. /\ u \in Seq(STRING) /\ v \in Seq(STRING) /\ Len(u) = C /\ Len(v) = C
          /\ \A i \in 1..C : u[i] = v[i]
      BY <2>3, <2>4, <2>5
    <3> HIDE DEF u, v
    <3>2. u = v
      BY <3>1, SeqEqual
    <3> QED
      BY <3>2 DEF u, v
  <2> QED
    BY <1>3, <2>1, <2>6 DEF C, p, q
<1>4. CASE k <= C
  <2>1. Window(p, C) = p
    BY <1>0, <1>1, <1>4, WindowProperties
  <2>2. p \o piece = q /\ ~(k > C)
    BY <1>0, <1>4
  <2>3. Window(q, C) = Window(Window(p, C) \o piece, C)
    BY <2>1, <2>2, Zenon
  <2> HIDE DEF p, q
  <2>4. Window(q, C) = IF k > C THEN Window(p, C) ELSE Window(Window(p, C) \o piece, C)
    BY <2>2, <2>3, Zenon
  <2> QED
    BY <2>4, Zenon DEF p, q
<1> QED
  BY <1>0, <1>3, <1>4

-----------------------------------------------------------------------------
(* The steps.                                                               *)

LEMMA BodyType ==
    Cursor => /\ input.body \in Seq(STRING) /\ Len(input.body) \in Nat
              /\ Taken \in 0..Len(input.body) /\ Pushed \in Seq(STRING) /\ Len(Pushed) = Taken
<1> SUFFICES ASSUME Cursor
             PROVE  /\ input.body \in Seq(STRING) /\ Len(input.body) \in Nat
                    /\ Taken \in 0..Len(input.body)
                    /\ Pushed \in Seq(STRING) /\ Len(Pushed) = Taken
  OBVIOUS
<1>1. input.body \in Seq(STRING)
  BY InputsAssumption DEF Cursor
<1>2. Len(input.body) \in Nat /\ Len(rest) \in Nat /\ Len(rest) <= Len(input.body)
  BY <1>1 DEF Cursor
<1>3. Taken \in 0..Len(input.body)
  BY <1>2 DEF Taken
<1>4. Pushed \in Seq(STRING) /\ Len(Pushed) = Taken
  BY <1>1, <1>3, PrefixProperties DEF Pushed
<1> QED
  BY <1>1, <1>2, <1>3, <1>4

LEMMA InitInv == Init => IInv
<1> SUFFICES ASSUME Init PROVE IInv
  OBVIOUS
<1>1. input.body \in Seq(STRING) /\ Len(input.body) \in Nat
  BY InputsAssumption DEF Init
<1>2. Taken = 0
  BY <1>1 DEF Init, Taken
<1>3. Cursor
  <2>1. SubSeq(input.body, 1, Len(input.body)) = input.body
    BY <1>1, SubSeqFull
  <2>2. Taken + 1 = 1
    BY <1>2
  <2> QED
    BY <1>1, <2>1, <2>2 DEF Init, Cursor
<1>4. Pushed = <<>>
  BY <1>1, <1>2, SubSeqEmpty DEF Pushed
<1>5. Pushed \in Seq(STRING) /\ Len(Pushed) = 0
  BY <1>2, <1>3, BodyType
<1>6. ASSUME NEW s \in Seq(STRING), Len(s) = 0
      PROVE  ~BodyPrefixIndicatesSse(s) /\ Window(s, MAX_FIELD_CLAIMS_CAPTURE) = s
  <2>1. \A n \in 1..Len(s) : FALSE
    BY <1>6
  <2>2. ~BodyPrefixIndicatesSse(s)
    BY <2>1, Recognised
  <2>3. Len(s) <= MAX_FIELD_CLAIMS_CAPTURE
    BY <1>6, CollectorAssumption
  <2> QED
    BY <2>2, <2>3, WindowProperties
<1>7. ~BodyPrefixIndicatesSse(Pushed) /\ Window(Pushed, MAX_FIELD_CLAIMS_CAPTURE) = Pushed
  BY <1>5, <1>6
<1>8. Captured
  BY <1>2, <1>4, <1>7, CollectorAssumption DEF Init, Captured
<1> QED
  BY <1>3, <1>8 DEF IInv, Init, Modes, Outcome

\* A push moves the cursor by the piece.
LEMMA PushCursor ==
    ASSUME Cursor, NEW n \in 1..MaxPiece, Push(n)
    PROVE  /\ Cursor' /\ Taken' = Taken + n
           /\ Pushed' = SubSeq(input.body, 1, Taken + n)
           /\ Pushed \o Piece(n) = SubSeq(input.body, 1, Taken + n)
           /\ Taken + n <= Len(input.body)
<1> DEFINE b == input.body
           k == Taken
<1>0. b \in Seq(STRING) /\ k \in 0..Len(b) /\ Len(b) \in Nat
  BY BodyType
<1>1. n \in Nat \ {0} /\ n <= Len(rest) /\ Len(rest) \in Nat
  BY CollectorAssumption DEF Cursor, Push
<1>2. n \in 1..Len(rest)
  BY <1>1
<1>3. /\ Len(rest) = Len(b) - k
      /\ SubSeq(rest, n + 1, Len(rest)) \in Seq(STRING)
      /\ Len(SubSeq(rest, n + 1, Len(rest))) = Len(rest) - n
      /\ SubSeq(rest, n + 1, Len(rest)) = SubSeq(b, k + n + 1, Len(b))
      /\ SubSeq(b, 1, k) \o SubSeq(rest, 1, n) = SubSeq(b, 1, k + n)
  <2>1. rest \in Seq(STRING) /\ rest = SubSeq(b, k + 1, Len(b))
    BY DEF Cursor
  <2> HIDE DEF b, k
  <2>2. Cuts(b, k, rest, n)
    BY <1>0, <1>2, <2>1, CutProperties, Zenon
  <2> QED
    BY <2>2, Zenon DEF Cuts
<1>4. rest' = SubSeq(rest, n + 1, Len(rest)) /\ input' = input
  BY DEF Push
<1>5. rest' \in Seq(STRING) /\ Len(rest') = Len(b) - k - n /\ Len(rest') \in Nat
  BY <1>0, <1>1, <1>3, <1>4
<1>6. Taken' = k + n
  <2>1. Taken' = Len(b) - Len(rest')
    BY <1>4 DEF Taken
  <2> HIDE DEF k, b
  <2> QED
    BY <1>0, <1>1, <1>5, <2>1
<1>7. Cursor'
  <2>1. rest' = SubSeq(b, Taken' + 1, Len(b))
    BY <1>3, <1>4, <1>6
  <2>2. Len(rest') <= Len(b)
    BY <1>0, <1>1, <1>5
  <2>3. input' \in Inputs
    BY <1>4 DEF Cursor
  <2> QED
    BY <1>4, <1>5, <2>1, <2>2, <2>3 DEF Cursor
<1>8. Pushed' = SubSeq(b, 1, k + n)
  BY <1>4, <1>6 DEF Pushed
<1>9. Pushed \o Piece(n) = SubSeq(b, 1, k + n)
  BY <1>3 DEF Pushed, Piece
<1>10. k + n <= Len(b)
  BY <1>0, <1>1, <1>3
<1> QED
  BY <1>6, <1>7, <1>8, <1>9, <1>10

\* What a sniffing push captures, and what it can tell from it.
LEMMA PushCaptured ==
    ASSUME Cursor, Captured, mode = "Sniffing", NEW n \in 1..MaxPiece, Push(n),
           NEW captured, captured = IF truncated THEN body
                                    ELSE Window(body \o Piece(n), MAX_FIELD_CLAIMS_CAPTURE)
    PROVE  /\ captured = Window(Pushed', MAX_FIELD_CLAIMS_CAPTURE)
           /\ BodyPrefixIndicatesSse(captured) <=> BodyPrefixIndicatesSse(Pushed')
           /\ Taken' <= MAX_FIELD_CLAIMS_CAPTURE => captured = Pushed'
           /\ (truncated \/ Len(body) + n > MAX_FIELD_CLAIMS_CAPTURE)
                <=> Taken' > MAX_FIELD_CLAIMS_CAPTURE
<1> DEFINE b == input.body
           k == Taken
           m == Taken + n
           C == MAX_FIELD_CLAIMS_CAPTURE
<1>0. b \in Seq(STRING) /\ k \in 0..Len(b) /\ Len(b) \in Nat /\ C \in Nat /\ n \in Nat \ {0}
  BY BodyType, CollectorAssumption
<1>1. /\ Taken' = m /\ Pushed' = SubSeq(b, 1, m) /\ m <= Len(b) /\ m \in k..Len(b)
      /\ SubSeq(b, 1, k) \o Piece(n) = SubSeq(b, 1, m)
  BY <1>0, PushCursor DEF Pushed
<1>2. body = Window(SubSeq(b, 1, k), C) /\ (truncated <=> k > C)
  BY DEF Captured, Pushed
<1>3. captured = Window(SubSeq(b, 1, m), C)
  <2>1. captured = IF k > C THEN Window(SubSeq(b, 1, k), C)
                   ELSE Window(Window(SubSeq(b, 1, k), C) \o Piece(n), C)
    BY <1>2, Zenon
  <2> DEFINE x == Piece(n)
  <2> HIDE DEF b, k, m, x
  <2>2. SubSeq(b, 1, k) \o x = SubSeq(b, 1, m)
    BY <1>1 DEF x
  <2>3. captured = IF k > C THEN Window(SubSeq(b, 1, k), C)
                   ELSE Window(Window(SubSeq(b, 1, k), C) \o x, C)
    BY <2>1, Zenon DEF x
  <2>4. Window(SubSeq(b, 1, m), C) = IF k > C THEN Window(SubSeq(b, 1, k), C)
                   ELSE Window(Window(SubSeq(b, 1, k), C) \o x, C)
    BY <1>0, <1>1, <2>2, WindowGrows
  <2> QED
    BY <2>3, <2>4, Zenon
<1>4. ASSUME NEW s \in Seq(STRING)
      PROVE  /\ BodyPrefixIndicatesSse(Window(s, C)) <=> BodyPrefixIndicatesSse(s)
             /\ Len(s) <= C => Window(s, C) = s
  BY WindowProperties
<1>5. SubSeq(b, 1, m) \in Seq(STRING) /\ Len(SubSeq(b, 1, m)) = m
  BY <1>0, <1>1, PrefixProperties
<1>6. BodyPrefixIndicatesSse(captured) <=> BodyPrefixIndicatesSse(Pushed')
  <2> DEFINE w == SubSeq(b, 1, m)
  <2>1. w \in Seq(STRING) /\ captured = Window(w, C) /\ Pushed' = w
    BY <1>1, <1>3, <1>5, Zenon
  <2> HIDE DEF w
  <2>2. BodyPrefixIndicatesSse(captured) <=> BodyPrefixIndicatesSse(w)
    BY <1>4, <2>1, Zenon
  <2> QED
    BY <2>1, <2>2, Zenon
<1>7. m <= C => captured = Pushed'
  <2> DEFINE w == SubSeq(b, 1, m)
  <2>1. w \in Seq(STRING) /\ Len(w) = m /\ captured = Window(w, C) /\ Pushed' = w
    BY <1>1, <1>3, <1>5, Zenon
  <2> HIDE DEF w
  <2> QED
    BY <1>4, <2>1
<1>8. (truncated \/ Len(body) + n > C) <=> m > C
  <2>1. CASE k > C
    BY <1>0, <1>2, <2>1
  <2>2. CASE k <= C
    <3>1. SubSeq(b, 1, k) \in Seq(STRING) /\ Len(SubSeq(b, 1, k)) = k
      BY <1>0, PrefixProperties
    <3>2. Len(body) = k
      BY <1>2, <1>4, <2>2, <3>1
    <3>3. ~truncated
      BY <1>0, <1>2, <2>2
    <3> QED
      BY <3>2, <3>3
  <2> QED
    BY <1>0, <2>1, <2>2
<1> QED
  BY <1>1, <1>3, <1>6, <1>7, <1>8

\* Of two parts of a body, the longer is recognised when the shorter is; and the
\* other way round from the sniffing limit on.
LEMMA RecognisedGrows ==
    ASSUME NEW b \in Seq(STRING), NEW k \in 0..Len(b), NEW m \in k..Len(b)
    PROVE  /\ BodyPrefixIndicatesSse(SubSeq(b, 1, k)) => BodyPrefixIndicatesSse(SubSeq(b, 1, m))
           /\ MAX_STREAM_SNIFF_BYTES <= k /\ BodyPrefixIndicatesSse(SubSeq(b, 1, m))
                => BodyPrefixIndicatesSse(SubSeq(b, 1, k))
<1> DEFINE p == SubSeq(b, 1, k)
           q == SubSeq(b, 1, m)
           r == SubSeq(q, 1, k)
<1>0. Len(b) \in Nat /\ k \in Nat /\ m \in Nat /\ k <= m /\ m \in 0..Len(b)
  OBVIOUS
<1>1. p \in Seq(STRING) /\ Len(p) = k /\ \A i \in 1..k : p[i] = b[i]
  BY PrefixProperties
<1>2. q \in Seq(STRING) /\ Len(q) = m /\ \A i \in 1..m : q[i] = b[i]
  BY <1>0, PrefixProperties
<1> HIDE DEF p, q
<1>3. k \in 0..Len(q)
  BY <1>0, <1>2
<1>4. r \in Seq(STRING) /\ Len(r) = k /\ \A i \in 1..k : r[i] = q[i]
  BY <1>2, <1>3, PrefixProperties
<1>5. /\ BodyPrefixIndicatesSse(r) => BodyPrefixIndicatesSse(q)
      /\ MAX_STREAM_SNIFF_BYTES <= k /\ BodyPrefixIndicatesSse(q) => BodyPrefixIndicatesSse(r)
  BY <1>2, <1>3, RecognisedPrefix
<1> HIDE DEF r
<1>6. \A i \in 1..k : r[i] = p[i]
  BY <1>0, <1>1, <1>2, <1>4
<1>7. r = p
  BY <1>1, <1>4, <1>6, SeqEqual
<1> QED
  BY <1>5, <1>7 DEF p, q

\* What a push leaves recognised, and what it newly recognises.
LEMMA PushRecognised ==
    ASSUME Cursor, NEW n \in 1..MaxPiece, Push(n)
    PROVE  /\ BodyPrefixIndicatesSse(Pushed) => BodyPrefixIndicatesSse(Pushed')
           /\ ~BodyPrefixIndicatesSse(Pushed) /\ BodyPrefixIndicatesSse(Pushed')
                => Taken < MAX_STREAM_SNIFF_BYTES
<1> DEFINE b == input.body
           k == Taken
           m == Taken + n
<1>1. b \in Seq(STRING) /\ k \in 0..Len(b) /\ Len(b) \in Nat /\ m \in k..Len(b)
  BY BodyType, PushCursor
<1>2. Pushed = SubSeq(b, 1, k) /\ Pushed' = SubSeq(b, 1, m)
  BY PushCursor DEF Pushed
<1> HIDE DEF b, k, m
<1>3. /\ BodyPrefixIndicatesSse(SubSeq(b, 1, k)) => BodyPrefixIndicatesSse(SubSeq(b, 1, m))
      /\ MAX_STREAM_SNIFF_BYTES <= k /\ BodyPrefixIndicatesSse(SubSeq(b, 1, m))
           => BodyPrefixIndicatesSse(SubSeq(b, 1, k))
  BY <1>1, RecognisedGrows
<1>4. MAX_STREAM_SNIFF_BYTES <= k \/ k < MAX_STREAM_SNIFF_BYTES
  BY <1>1, WindowsAssumption
<1> QED
  BY <1>2, <1>3, <1>4, Zenon DEF k

LEMMA PushInv ==
    ASSUME IInv, NEW n \in 1..MaxPiece, Push(n)
    PROVE  IInv'
<1>1. Cursor' /\ input' = input
  BY PushCursor DEF IInv, Push
<1>2. Outcome'
  BY DEF Outcome, Push
<1>3. BodyPrefixIndicatesSse(Pushed) => BodyPrefixIndicatesSse(Pushed')
  BY PushRecognised DEF IInv
<1>4. CASE mode # "Sniffing" /\ mode' = mode
  <2>1. Captured'
    BY <1>4 DEF Captured
  <2>2. Modes'
    BY <1>1, <1>3, <1>4 DEF IInv, Modes
  <2> QED
    BY <1>1, <1>2, <2>1, <2>2 DEF IInv
<1>5. CASE PushSniffing(n)
  <2> DEFINE captured == IF truncated THEN body
                         ELSE Window(body \o Piece(n), MAX_FIELD_CLAIMS_CAPTURE)
  <2>1. /\ captured = Window(Pushed', MAX_FIELD_CLAIMS_CAPTURE)
        /\ BodyPrefixIndicatesSse(captured) <=> BodyPrefixIndicatesSse(Pushed')
        /\ (truncated \/ Len(body) + n > MAX_FIELD_CLAIMS_CAPTURE)
             <=> Taken' > MAX_FIELD_CLAIMS_CAPTURE
    BY <1>5, PushCaptured DEF IInv, PushSniffing
  <2>2. NewMode(input) = "Sniffing"
    BY <1>5 DEF IInv, Modes, PushSniffing
  <2>3. CASE BodyPrefixIndicatesSse(captured)
    <3>1. mode' = "Streaming"
      BY <1>5, <2>3 DEF PushSniffing
    <3>2. Captured' /\ Modes'
      BY <1>1, <2>1, <2>2, <2>3, <3>1 DEF Captured, Modes
    <3> QED
      BY <1>1, <1>2, <3>2 DEF IInv
  <2>4. CASE ~BodyPrefixIndicatesSse(captured)
    <3>1. /\ mode' = "Sniffing" /\ body' = captured
          /\ truncated' = (truncated \/ Len(body) + n > MAX_FIELD_CLAIMS_CAPTURE)
      BY <1>5, <2>4 DEF PushSniffing
    <3> HIDE DEF captured
    <3>2. Captured'
      BY <2>1, <2>4, <3>1 DEF Captured
    <3>3. Modes'
      BY <1>1, <2>2, <3>1 DEF Modes
    <3> QED
      BY <1>1, <1>2, <3>2, <3>3 DEF IInv
  <2> QED
    BY <2>3, <2>4
<1> QED
  BY <1>4, <1>5 DEF Push, PushStreaming, PushAwsEventStream, PushAbsent

LEMMA StepInv == IInv /\ [Next]_vars => IInv'
<1> SUFFICES ASSUME IInv, [Next]_vars PROVE IInv'
  OBVIOUS
<1>1. ASSUME NEW n \in 1..MaxPiece, Push(n) PROVE IInv'
  BY <1>1, PushInv
<1>2. CASE Finish
  <2>1. /\ UNCHANGED <<input, rest, mode, body, truncated, parser>>
        /\ rest' = <<>> /\ claims' = FinishView
    BY <1>2 DEF Finish
  <2>2. Taken' = Taken /\ Pushed' = Pushed
    BY <2>1 DEF Taken, Pushed
  <2>3. Cursor'
    BY <2>1, <2>2 DEF IInv, Cursor
  <2>4. Captured' /\ Modes'
    BY <2>1, <2>2 DEF IInv, Captured, Modes
  <2>5. FinishView' = FinishView
    BY <2>1, Zenon DEF FinishView
  <2>6. Outcome'
    BY <2>1, <2>5 DEF Outcome
  <2> QED
    BY <2>3, <2>4, <2>6 DEF IInv
<1>3. CASE UNCHANGED vars
  <2>1. UNCHANGED <<input, rest, mode, body, truncated, parser, finished, claims>>
    BY <1>3 DEF vars
  <2>2. Taken' = Taken /\ Pushed' = Pushed
    BY <2>1 DEF Taken, Pushed
  <2>3. FinishView' = FinishView
    BY <2>1, Zenon DEF FinishView
  <2>4. Cursor' /\ Captured' /\ Modes' /\ Outcome'
    BY <2>1, <2>2, <2>3 DEF IInv, Cursor, Captured, Modes, Outcome
  <2> QED
    BY <2>4 DEF IInv
<1> QED
  BY <1>1, <1>2, <1>3 DEF Next

\* The cursor, the capture, the mode and the outcome are what IInv says in every
\* state of the collector.
THEOREM InvCorrect == Spec => []IInv
  BY InitInv, StepInv, PTL DEF Spec

-----------------------------------------------------------------------------
(* The results.                                                             *)

\* After finish the whole body was pushed.
LEMMA AllPushed == IInv /\ finished => Pushed = input.body
<1> SUFFICES ASSUME IInv, finished PROVE Pushed = input.body
  OBVIOUS
<1>1. input.body \in Seq(STRING) /\ Len(input.body) \in Nat
  BY BodyType DEF IInv
<1>2. Len(rest) = 0
  BY EmptySeq DEF IInv, Outcome
<1>3. Taken = Len(input.body)
  BY <1>1, <1>2 DEF Taken
<1> QED
  BY <1>1, <1>3, SubSeqFull DEF Pushed

LEMMA InvModeExact == IInv => ModeExact
<1> SUFFICES ASSUME IInv, finished
             PROVE  mode = "Streaming" <=>
                      \/ NewMode(input) = "Streaming"
                      \/ NewMode(input) = "Sniffing" /\ BodyPrefixIndicatesSse(input.body)
  BY DEF ModeExact
<1>1. Pushed = input.body
  BY AllPushed
<1>2. Captured /\ Modes
  BY DEF IInv
<1>3. mode = "Sniffing" => ~BodyPrefixIndicatesSse(input.body)
  BY <1>1, <1>2 DEF Captured
<1>4. \/ mode = NewMode(input)
      \/ NewMode(input) = "Sniffing" /\ mode = "Streaming" /\ BodyPrefixIndicatesSse(input.body)
  BY <1>1, <1>2 DEF Modes
<1> QED
  BY <1>3, <1>4

\* The collector parses a body as SSE exactly when the whole body asks for it,
\* whatever pieces push got (main.rs:860-885).
THEOREM ModeExactCorrect == Spec => []ModeExact
  BY InvCorrect, InvModeExact, PTL

LEMMA InvBufferedExact == IInv => BufferedExact
<1> SUFFICES ASSUME IInv, finished, mode \in {"Sniffing", "absent"}
             PROVE  claims = WholeBodyView
  BY DEF BufferedExact
<1>1. Pushed = input.body
  BY AllPushed
<1>2. Cursor /\ Captured /\ Modes /\ claims = FinishView
  BY DEF IInv, Outcome
<1>3. mode = NewMode(input)
  BY <1>2 DEF Modes
<1>4. CASE mode = "absent"
  <2>1. FinishView = NoView
    BY <1>4, Zenon DEF FinishView
  <2>2. WholeBodyView = NoView
    BY <1>3, <1>4, Zenon DEF WholeBodyView
  <2> QED
    BY <1>2, <2>1, <2>2
<1>5. CASE mode = "Sniffing"
  <2>1. /\ body = Window(input.body, MAX_FIELD_CLAIMS_CAPTURE)
        /\ truncated <=> Taken > MAX_FIELD_CLAIMS_CAPTURE
        /\ ~BodyPrefixIndicatesSse(input.body)
    BY <1>1, <1>2, <1>5 DEF Captured
  <2>2. input.body \in Seq(STRING) /\ Len(input.body) = Taken /\ Taken \in Nat
    BY <1>1, <1>2, BodyType
  <2>3. ASSUME NEW s \in Seq(STRING), Len(s) <= MAX_FIELD_CLAIMS_CAPTURE
        PROVE  Window(s, MAX_FIELD_CLAIMS_CAPTURE) = s
    BY <2>3, WindowProperties
  <2>4. FinishView = IF truncated THEN NoView ELSE FieldViewOf(body)
    BY <1>5, Zenon DEF FinishView
  <2>5. CASE Taken <= MAX_FIELD_CLAIMS_CAPTURE
    <3>1. body = input.body /\ ~truncated /\ Len(input.body) <= MAX_FIELD_CLAIMS_CAPTURE
      BY <2>1, <2>2, <2>3, <2>5, CollectorAssumption
    <3>2. WholeBodyView = FieldViewOf(input.body)
      BY <1>3, <1>5, <2>1, <3>1, Zenon DEF WholeBodyView
    <3> QED
      BY <1>2, <2>4, <3>1, <3>2, Zenon
  <2>6. CASE Taken > MAX_FIELD_CLAIMS_CAPTURE
    <3>1. truncated /\ ~(Len(input.body) <= MAX_FIELD_CLAIMS_CAPTURE)
      BY <2>1, <2>2, <2>6, CollectorAssumption
    <3>2. WholeBodyView = NoView
      BY <1>3, <1>5, <2>1, <3>1, Zenon DEF WholeBodyView
    <3> QED
      BY <1>2, <2>4, <3>1, <3>2, Zenon
  <2> QED
    BY <2>2, <2>5, <2>6, CollectorAssumption
<1> QED
  BY <1>4, <1>5

\* A response that is not SSE is claimed as its whole body would be, or, beyond the
\* capture, not at all: never as a part of it (main.rs:887-909).
THEOREM BufferedExactCorrect == Spec => []BufferedExact
  BY InvCorrect, InvBufferedExact, PTL

LEMMA PieceLength ==
    ASSUME Cursor, NEW n \in 1..MaxPiece, Push(n)
    PROVE  Len(rest) - Len(rest') = n
<1>1. rest \in Seq(STRING) /\ n \in 1..Len(rest) /\ rest' = SubSeq(rest, n + 1, Len(rest))
  BY CollectorAssumption DEF Cursor, Push
<1>2. Len(rest') = Len(rest) - n
  BY <1>1
<1> QED
  BY <1>1, <1>2

LEMMA SwitchStep ==
    ASSUME PieceFits, IInv, Next, mode = "Sniffing", mode' = "Streaming"
    PROVE  parser' = SsePush(NewParser, Pushed')
<1>1. ~Finish
  BY DEF Finish
<1>2. PICK n \in 1..MaxPiece : Push(n)
  BY <1>1 DEF Next
<1>3. PushSniffing(n)
  BY <1>2 DEF Push, PushStreaming, PushAwsEventStream, PushAbsent
<1> DEFINE captured == IF truncated THEN body
                       ELSE Window(body \o Piece(n), MAX_FIELD_CLAIMS_CAPTURE)
<1>4. BodyPrefixIndicatesSse(captured) /\ parser' = SsePush(NewParser, captured)
  BY <1>3 DEF PushSniffing
<1>5. /\ BodyPrefixIndicatesSse(captured) <=> BodyPrefixIndicatesSse(Pushed')
      /\ Taken' <= MAX_FIELD_CLAIMS_CAPTURE => captured = Pushed'
  BY <1>2, PushCaptured DEF IInv
<1>6. ~BodyPrefixIndicatesSse(Pushed)
  BY DEF IInv, Captured
<1>7. Taken < MAX_STREAM_SNIFF_BYTES
  BY <1>2, <1>4, <1>5, <1>6, PushRecognised DEF IInv
<1>8. Taken' = Taken + n /\ Taken \in Nat
  BY <1>2, PushCursor, BodyType DEF IInv
<1>9. Taken' <= MAX_FIELD_CLAIMS_CAPTURE
  <2>1. Len(rest) - Len(rest') = n
    BY <1>2, PieceLength DEF IInv
  <2> QED
    BY <1>7, <1>8, <2>1, CollectorAssumption, WindowsAssumption DEF PieceFits
<1> QED
  BY <1>4, <1>5, <1>9, Zenon

\* When the piece that makes the collector recognise SSE is no longer than what the
\* capture leaves beyond the sniffing limit, the parser that takes over gets every
\* byte pushed so far, whatever the other pieces are (main.rs:876-882).
THEOREM SwitchCorrect == Spec => SwitchKeepsAll
<1> DEFINE Kept == mode = "Sniffing" /\ mode' = "Streaming" /\ PieceFits
                   => parser' = SsePush(NewParser, Pushed')
<1>1. IInv /\ [Next]_vars => [Kept]_vars
  BY SwitchStep
<1> QED
  BY <1>1, InvCorrect, PTL DEF Spec, SwitchKeepsAll

-----------------------------------------------------------------------------
(* Wherever the body is cut.                                                *)

Text == Seq(STRING)

-----------------------------------------------------------------------------
(* The folds of the model, as instances of the laws.                        *)

SplitStep(a, x) ==
    IF x \in {"nl"} THEN [lines |-> Append(a.lines, a.rest), rest |-> <<>>]
    ELSE [a EXCEPT !.rest = Append(@, x)]

ItemStep(acc, l) ==
    IF l = <<>> THEN FlushItems(acc)
    ELSE IF IsPrefix(Data, l)
    THEN [acc EXCEPT !.data_lines = Append(@, TrimStart(DataOf(l), Blank))]
    ELSE acc

Splitting   == INSTANCE FoldLaws WITH Op <- SplitStep
Items       == INSTANCE FoldLaws WITH Op <- ItemStep
Processing  == INSTANCE FoldLaws WITH Op <- ProcessLine
Aggregating == INSTANCE FoldLaws WITH Op <- Apply

NewSplit == [lines |-> <<>>, rest |-> <<>>]
NewItems == [data_lines |-> <<>>, items |-> <<>>]

\* The lines of a text, and the items they make, before anything is flushed at its
\* end.
Split(s) == SplitAt(s, {"nl"})
ItemsOf(lines) == Items!Fold(NewItems, lines)

LEMMA SplitIsFold ==
    ASSUME NEW s
    PROVE  Split(s) = Splitting!Fold(NewSplit, s)
  BY Zenon DEF Split, SplitAt, SplitStep, NewSplit, FoldLeft, MapThenFoldSet, Max,
               Splitting!Fold, Splitting!Largest

LEMMA AggregateIsFold ==
    ASSUME NEW items
    PROVE  Aggregate(items) = Aggregating!Fold(NoView, items)
  BY Zenon DEF Aggregate, FoldLeft, MapThenFoldSet, Max,
               Aggregating!Fold, Aggregating!Largest

LEMMA ProcessIsFold ==
    ASSUME NEW p, NEW lines
    PROVE  FoldLeft(ProcessLine, p, lines) = Processing!Fold(p, lines)
  BY Zenon DEF FoldLeft, MapThenFoldSet, Max, Processing!Fold, Processing!Largest

LEMMA ParseIsFold ==
    ASSUME NEW s
    PROVE  ParseSseData(s) = FlushItems(ItemsOf(Lines(s))).items
  BY Zenon DEF ParseSseData, ItemsOf, ItemStep, NewItems, FoldLeft, MapThenFoldSet, Max,
               Items!Fold, Items!Largest

-----------------------------------------------------------------------------
(* Lines.                                                                   *)

Splits == [lines : Seq(Text), rest : Text]

\* No line is longer than it should be: what is left over has no newline.
NoNewline(s) == \A i \in 1..Len(s) : s[i] # "nl"

LEMMA TextAppend ==
    ASSUME NEW s \in Text, NEW x \in STRING
    PROVE  /\ Append(s, x) \in Text /\ Len(s) \in Nat /\ Len(Append(s, x)) = Len(s) + 1
           /\ \A i \in 1..Len(s) : Append(s, x)[i] = s[i]
           /\ Append(s, x)[Len(s) + 1] = x
<1>1. ASSUME NEW S, NEW t \in Seq(S), NEW y \in S
      PROVE  /\ Append(t, y) \in Seq(S) /\ Len(t) \in Nat /\ Len(Append(t, y)) = Len(t) + 1
             /\ \A i \in 1..Len(t) : Append(t, y)[i] = t[i]
             /\ Append(t, y)[Len(t) + 1] = y
  BY AppendProperties, LenProperties
<1> QED
  BY <1>1, Zenon DEF Text

LEMMA LinesAppend ==
    ASSUME NEW p \in Seq(Text), NEW q \in Seq(Text), NEW r \in Text
    PROVE  Append(p \o q, r) = p \o Append(q, r)
  OBVIOUS

LEMMA SplitStepType ==
    ASSUME NEW a \in Splits, NEW x \in STRING
    PROVE  /\ SplitStep(a, x) \in Splits
           /\ x = "nl" => SplitStep(a, x) = [lines |-> Append(a.lines, a.rest), rest |-> <<>>]
           /\ x # "nl" => SplitStep(a, x) = [lines |-> a.lines, rest |-> Append(a.rest, x)]
           /\ NoNewline(a.rest) => NoNewline(SplitStep(a, x).rest)
<1>1. a.lines \in Seq(Text) /\ a.rest \in Text /\ <<>> \in Text
  BY EmptySeq DEF Splits, Text
<1>2. Append(a.lines, a.rest) \in Seq(Text) /\ Append(a.rest, x) \in Text
  BY <1>1 DEF Text
<1>3. CASE x = "nl"
  <2>1. SplitStep(a, x) = [lines |-> Append(a.lines, a.rest), rest |-> <<>>]
    BY <1>3 DEF SplitStep
  <2>2. NoNewline(<<>>)
    BY DEF NoNewline
  <2> QED
    BY <1>1, <1>2, <1>3, <2>1, <2>2 DEF Splits
<1>4. CASE x # "nl"
  <2>1. SplitStep(a, x) = [a EXCEPT !.rest = Append(a.rest, x)]
    BY <1>4 DEF SplitStep
  <2>2. SplitStep(a, x) = [lines |-> a.lines, rest |-> Append(a.rest, x)]
    BY <2>1 DEF Splits
  <2>3. NoNewline(a.rest) => NoNewline(Append(a.rest, x))
    BY <1>1, <1>4, AppendProperties DEF NoNewline, Text
  <2> QED
    BY <1>1, <1>2, <1>4, <2>2, <2>3 DEF Splits
<1> QED
  BY <1>3, <1>4

LEMMA SplitFoldType ==
    ASSUME NEW a \in Splits, NoNewline(a.rest), NEW s \in Text
    PROVE  Splitting!Fold(a, s) \in Splits /\ NoNewline(Splitting!Fold(a, s).rest)
<1> DEFINE F(u) == Splitting!Fold(a, u)
           S == {u \in Text : F(u) \in Splits /\ NoNewline(F(u).rest)}
<1>1. <<>> \in S
  BY Splitting!FoldEmpty, EmptySeq DEF Text
<1>2. ASSUME NEW u \in Seq(STRING), NEW x \in STRING, u \in S
      PROVE  Append(u, x) \in S
  <2>1. Append(u, x) \in Text
    BY TextAppend, Zenon DEF Text
  <2>2. F(Append(u, x)) = SplitStep(F(u), x)
    BY Splitting!FoldAppend
  <2>3. F(u) \in Splits /\ NoNewline(F(u).rest)
    BY <1>2
  <2> HIDE DEF F
  <2> QED
    BY <2>1, <2>2, <2>3, SplitStepType
<1> HIDE DEF S
<1>3. s \in S
  BY <1>1, <1>2, Splitting!SeqSet DEF Text
<1> QED
  BY <1>3 DEF S

\* The lines that were complete before do not change what follows.
LEMMA SplitCarries ==
    ASSUME NEW a \in Splits, NoNewline(a.rest), NEW s \in Text, NEW b,
           b = [lines |-> <<>>, rest |-> a.rest]
    PROVE  Splitting!Fold(a, s) = [lines |-> a.lines \o Splitting!Fold(b, s).lines,
                                   rest |-> Splitting!Fold(b, s).rest]
<1> DEFINE F(u) == Splitting!Fold(a, u)
           G(u) == Splitting!Fold(b, u)
           S == {u \in Text : F(u) = [lines |-> a.lines \o G(u).lines, rest |-> G(u).rest]}
<1>0. a.lines \in Seq(Text) /\ a.rest \in Text /\ b \in Splits /\ NoNewline(b.rest)
      /\ a = [lines |-> a.lines, rest |-> a.rest]
  BY EmptySeq DEF Splits, Text
<1>1. <<>> \in S
  <2>1. F(<<>>) = a /\ G(<<>>) = b
    BY Splitting!FoldEmpty
  <2>2. a.lines \o <<>> = a.lines
    BY <1>0, ConcatEmptySeq
  <2>3. a = [lines |-> a.lines \o b.lines, rest |-> b.rest]
    BY <1>0, <2>2
  <2>4. <<>> \in Text
    BY EmptySeq DEF Text
  <2> QED
    BY <2>1, <2>3, <2>4
<1>2. ASSUME NEW u \in Seq(STRING), NEW x \in STRING, u \in S
      PROVE  Append(u, x) \in S
  <2>1. Append(u, x) \in Text /\ u \in Text
    BY TextAppend, Zenon DEF Text
  <2>2. F(Append(u, x)) = SplitStep(F(u), x) /\ G(Append(u, x)) = SplitStep(G(u), x)
    BY Splitting!FoldAppend
  <2>3. F(u) = [lines |-> a.lines \o G(u).lines, rest |-> G(u).rest]
    BY <1>2
  <2>4. G(u) \in Splits /\ F(u) \in Splits
    BY <1>0, <2>1, SplitFoldType
  <2> DEFINE f == F(u)
             g == G(u)
             f1 == F(Append(u, x))
             g1 == G(Append(u, x))
  <2>9. f1 = SplitStep(f, x) /\ g1 = SplitStep(g, x) /\ f \in Splits /\ g \in Splits
        /\ f = [lines |-> a.lines \o g.lines, rest |-> g.rest]
    BY <2>2, <2>3, <2>4
  <2> HIDE DEF f, g, f1, g1
  <2>5. g.lines \in Seq(Text) /\ g.rest \in Text
    BY <2>9 DEF Splits
  <2>6. Append(a.lines \o g.lines, g.rest) = a.lines \o Append(g.lines, g.rest)
    BY <1>0, <2>5, LinesAppend
  <2>7. CASE x = "nl"
    <3>1. /\ f1 = [lines |-> Append(f.lines, f.rest), rest |-> <<>>]
          /\ g1 = [lines |-> Append(g.lines, g.rest), rest |-> <<>>]
      BY <2>9, <2>7, SplitStepType
    <3>2. f.lines = a.lines \o g.lines /\ f.rest = g.rest
      BY <2>9
    <3>3. /\ g1.lines = Append(g.lines, g.rest)
          /\ g1.rest = <<>>
      BY <3>1
    <3>4. f1 = [lines |-> a.lines \o g1.lines,
                             rest |-> g1.rest]
      BY <2>6, <3>1, <3>2, <3>3, Zenon
    <3> QED
      BY <2>1, <3>4, Zenon DEF f1, g1
  <2>8. CASE x # "nl"
    <3>1. /\ f1 = [lines |-> f.lines, rest |-> Append(f.rest, x)]
          /\ g1 = [lines |-> g.lines, rest |-> Append(g.rest, x)]
      BY <2>9, <2>8, SplitStepType
    <3>2. f.lines = a.lines \o g.lines /\ f.rest = g.rest
      BY <2>9
    <3>3. /\ g1.lines = g.lines
          /\ g1.rest = Append(g.rest, x)
      BY <3>1
    <3>4. f1 = [lines |-> a.lines \o g1.lines,
                             rest |-> g1.rest]
      BY <3>1, <3>2, <3>3, Zenon
    <3> QED
      BY <2>1, <3>4, Zenon DEF f1, g1
  <2> QED
    BY <2>7, <2>8
<1> HIDE DEF S
<1>3. s \in S
  BY <1>1, <1>2, Splitting!SeqSet DEF Text
<1> QED
  BY <1>3 DEF S

LEMMA SplitNone ==
    ASSUME NEW s \in Text, NoNewline(s)
    PROVE  Splitting!Fold(NewSplit, s) = [lines |-> <<>>, rest |-> s]
<1> DEFINE F(u) == Splitting!Fold(NewSplit, u)
           S == {u \in Text : NoNewline(u) => F(u) = [lines |-> <<>>, rest |-> u]}
<1>1. <<>> \in S
  BY Splitting!FoldEmpty, EmptySeq DEF Text, NewSplit
<1>2. ASSUME NEW u \in Seq(STRING), NEW x \in STRING, u \in S
      PROVE  Append(u, x) \in S
  <2>1. Append(u, x) \in Text /\ u \in Text
    BY TextAppend, Zenon DEF Text
  <2> SUFFICES ASSUME NoNewline(Append(u, x))
               PROVE  F(Append(u, x)) = [lines |-> <<>>, rest |-> Append(u, x)]
    BY <2>1
  <2>2. F(Append(u, x)) = SplitStep(F(u), x)
    BY Splitting!FoldAppend
  <2>3. NoNewline(u) /\ x # "nl"
    <3>1. /\ Len(Append(u, x)) = Len(u) + 1 /\ Append(u, x)[Len(u) + 1] = x /\ Len(u) \in Nat
          /\ \A i \in 1..Len(u) : Append(u, x)[i] = u[i]
      BY <2>1, TextAppend, Zenon
    <3>2. \A i \in 1..(Len(u) + 1) : Append(u, x)[i] # "nl"
      BY <3>1 DEF NoNewline
    <3> QED
      BY <3>1, <3>2 DEF NoNewline
  <2>4. F(u) = [lines |-> <<>>, rest |-> u]
    BY <1>2, <2>3
  <2> HIDE DEF F
  <2>5. F(u) \in Splits
    BY <2>1, <2>4, EmptySeq DEF Splits
  <2> QED
    BY <2>2, <2>3, <2>4, <2>5, SplitStepType
<1> HIDE DEF S
<1>3. s \in S
  BY <1>1, <1>2, Splitting!SeqSet DEF Text
<1> QED
  BY <1>3 DEF S

LEMMA SplitType ==
    ASSUME NEW s \in Text
    PROVE  /\ Split(s) \in Splits
           /\ Split(s).lines \in Seq(Text)
           /\ Split(s).rest \in Text
           /\ NoNewline(Split(s).rest)
<1>1. NewSplit \in Splits /\ NoNewline(NewSplit.rest)
  BY EmptySeq DEF NewSplit, Splits, Text, NoNewline
<1>2. Split(s) \in Splits /\ NoNewline(Split(s).rest)
  BY <1>1, SplitFoldType, SplitIsFold
<1> QED
  BY <1>2 DEF Splits

\* A text can be split in two goes, the second of which starts with what the first
\* left over: where a text is cut does not change its lines.
LEMMA SplitConcat ==
    ASSUME NEW s \in Text, NEW t \in Text
    PROVE  Split(s \o t) = [lines |-> Split(s).lines \o Split(Split(s).rest \o t).lines,
                            rest |-> Split(Split(s).rest \o t).rest]
<1> DEFINE a == Split(s)
           r == Split(s).rest
           b == [lines |-> <<>>, rest |-> r]
<1>1. a \in Splits /\ r \in Text /\ NoNewline(r)
  BY SplitType
<1>2. a.rest = r /\ a = Splitting!Fold(NewSplit, s)
  BY SplitIsFold
<1>3. Split(s \o t) = Splitting!Fold(a, t)
  <2>1. Split(s \o t) = Splitting!Fold(NewSplit, s \o t)
    BY SplitIsFold
  <2> QED
    BY <1>2, <2>1, Splitting!FoldConcat DEF Text
<1> HIDE DEF a, r
<1>4. Split(r \o t) = Splitting!Fold(b, t)
  <2>1. Split(r \o t) = Splitting!Fold(NewSplit, r \o t)
    BY SplitIsFold
  <2>2. Splitting!Fold(NewSplit, r) = b
    BY <1>1, SplitNone
  <2> HIDE DEF b
  <2> QED
    BY <1>1, <2>1, <2>2, Splitting!FoldConcat DEF Text
<1> HIDE DEF b
<1>5. b = [lines |-> <<>>, rest |-> a.rest]
  BY <1>2 DEF b
<1>6. Splitting!Fold(a, t) = [lines |-> a.lines \o Splitting!Fold(b, t).lines,
                              rest |-> Splitting!Fold(b, t).rest]
  BY <1>1, <1>2, <1>5, SplitCarries
<1> QED
  BY <1>3, <1>4, <1>6 DEF a, r

-----------------------------------------------------------------------------
(* Items.                                                                   *)

\* What the JSON parsers return.
JsonItems == Chunks \cup {"ve", "empty", "invalid"}

\* The parser that has made acc of its lines and has s pending.
ParserOf(s, acc) ==
    [pending |-> s, data_lines |-> acc.data_lines, failed |-> FALSE,
     view |-> Aggregate(acc.items)]

\* A state of parse_sse_data.
IsAcc(acc) ==
    /\ acc = [data_lines |-> acc.data_lines, items |-> acc.items]
    /\ acc.items \in Seq(JsonItems)

LEMMA Repend ==
    ASSUME NEW acc, NEW s, NEW t
    PROVE  /\ ParserOf(s, acc).pending = s
           /\ [ParserOf(s, acc) EXCEPT !.pending = t] = ParserOf(t, acc)
<1>1. ASSUME NEW d, NEW f, NEW v, NEW p,
             p = [pending |-> s, data_lines |-> d, failed |-> f, view |-> v]
      PROVE  /\ p.pending = s
             /\ [p EXCEPT !.pending = t] =
                    [pending |-> t, data_lines |-> d, failed |-> f, view |-> v]
  BY <1>1
<1> QED
  BY <1>1, Zenon DEF ParserOf

LEMMA JsonType ==
    ASSUME NEW s
    PROVE  Json(s) \in JsonItems
<1> DEFINE c == SelectSeq(s, LAMBDA x : x \notin Blank)
<1>1. Json(s) = CASE c = <<"{", "}">> -> "empty"
                  [] Len(c) = 1 /\ c[1] \in Chunks \cup {"ve"} -> c[1]
                  [] OTHER -> "invalid"
  BY Zenon DEF Json
<1> HIDE DEF c
<1>2. \/ Json(s) = "empty" \/ Json(s) = "invalid"
      \/ c[1] \in Chunks \cup {"ve"} /\ Json(s) = c[1]
  BY <1>1, Zenon
<1> QED
  BY <1>2, Zenon DEF JsonItems

\* Folding one more item into the view.
LEMMA AggregateAppend ==
    ASSUME NEW items \in Seq(JsonItems), NEW x \in JsonItems
    PROVE  Aggregate(Append(items, x)) = Apply(Aggregate(items), x)
  BY Aggregating!FoldAppend, AggregateIsFold, Zenon

\* Flush does to the parser what FlushItems does to parse_sse_data.
LEMMA FlushAlike ==
    ASSUME NEW acc, IsAcc(acc), NEW s
    PROVE  IsAcc(FlushItems(acc)) /\ Flush(ParserOf(s, acc)) = ParserOf(s, FlushItems(acc))
<1> DEFINE d == acc.data_lines
           v == Aggregate(acc.items)
           j == Json(Join(d))
           full == d # <<>> /\ Flushed(Join(d), Blank)
           p == ParserOf(s, acc)
<1>1. /\ FlushItems(acc) = [data_lines |-> <<>>,
                            items |-> IF full THEN Append(acc.items, j) ELSE acc.items]
      /\ acc.items \in Seq(JsonItems) /\ j \in JsonItems
  BY JsonType DEF IsAcc, FlushItems
<1>2. Flush(p) = [p EXCEPT !.data_lines = <<>>, !.view = IF full THEN Apply(@, j) ELSE @]
  BY Zenon DEF Flush, ParserOf
<1>3. Flush(p) = [pending |-> s, data_lines |-> <<>>, failed |-> FALSE,
                  view |-> IF full THEN Apply(v, j) ELSE v]
  <2> HIDE DEF full, j, v, d
  <2>1. p = [pending |-> s, data_lines |-> d, failed |-> FALSE, view |-> v]
    BY DEF ParserOf, v, d
  <2> HIDE DEF p
  <2> QED
    BY <1>2, <2>1
<1>4. Aggregate(Append(acc.items, j)) = Apply(v, j)
  BY <1>1, AggregateAppend
<1> HIDE DEF full, j, v, d
<1> DEFINE new == IF full THEN Append(acc.items, j) ELSE acc.items
<1>5. new \in Seq(JsonItems)
  BY <1>1
<1>6. Aggregate(new) = IF full THEN Apply(v, j) ELSE v
  BY <1>4, Zenon DEF v
<1> HIDE DEF new
<1>7. FlushItems(acc) = [data_lines |-> <<>>, items |-> new]
  BY <1>1 DEF new
<1>8. IsAcc(FlushItems(acc))
  BY <1>5, <1>7 DEF IsAcc
<1>9. ParserOf(s, FlushItems(acc)) = [pending |-> s, data_lines |-> <<>>, failed |-> FALSE,
                                      view |-> Aggregate(new)]
  BY <1>7 DEF ParserOf
<1> QED
  BY <1>3, <1>6, <1>8, <1>9, Zenon

\* A line does to the parser what it does to parse_sse_data.
LEMMA LineAlike ==
    ASSUME NEW acc, IsAcc(acc), NEW s, NEW l
    PROVE  /\ IsAcc(ItemStep(acc, l))
           /\ ProcessLine(ParserOf(s, acc), l) = ParserOf(s, ItemStep(acc, l))
<1> DEFINE p == ParserOf(s, acc)
           t == TrimStart(DataOf(l), Blank)
<1>1. CASE l = <<>>
  BY <1>1, FlushAlike DEF ItemStep, ProcessLine
<1>2. CASE l # <<>> /\ IsPrefix(Data, l)
  <2>1. /\ ItemStep(acc, l) = [acc EXCEPT !.data_lines = Append(@, t)]
        /\ ProcessLine(p, l) = [p EXCEPT !.data_lines = Append(@, t)]
    BY <1>2, Zenon DEF ItemStep, ProcessLine
  <2> HIDE DEF t
  <2>2. ItemStep(acc, l) = [data_lines |-> Append(acc.data_lines, t), items |-> acc.items]
    BY <2>1 DEF IsAcc
  <2>3. ProcessLine(p, l) = [pending |-> s, data_lines |-> Append(acc.data_lines, t),
                             failed |-> FALSE, view |-> Aggregate(acc.items)]
    BY <2>1 DEF ParserOf
  <2> QED
    BY <2>2, <2>3 DEF IsAcc, ParserOf
<1>3. CASE l # <<>> /\ ~IsPrefix(Data, l)
  BY <1>3, Zenon DEF ItemStep, ProcessLine
<1> QED
  BY <1>1, <1>2, <1>3

\* So do many.
LEMMA LinesAlike ==
    ASSUME NEW D, NEW lines \in Seq(D), NEW acc, IsAcc(acc), NEW s
    PROVE  /\ IsAcc(Items!Fold(acc, lines))
           /\ Processing!Fold(ParserOf(s, acc), lines) = ParserOf(s, Items!Fold(acc, lines))
<1> DEFINE A(u) == Items!Fold(acc, u)
           P(u) == Processing!Fold(ParserOf(s, acc), u)
           S == {u \in Seq(D) : IsAcc(A(u)) /\ P(u) = ParserOf(s, A(u))}
<1>1. <<>> \in S
  BY Items!FoldEmpty, Processing!FoldEmpty, EmptySeq
<1>2. ASSUME NEW u \in Seq(D), NEW x \in D, u \in S
      PROVE  Append(u, x) \in S
  <2>1. A(Append(u, x)) = ItemStep(A(u), x)
    BY Items!FoldAppend, Zenon
  <2>2. P(Append(u, x)) = ProcessLine(P(u), x)
    BY Processing!FoldAppend, Zenon
  <2>3. IsAcc(A(u)) /\ P(u) = ParserOf(s, A(u))
    BY <1>2
  <2>4. Append(u, x) \in Seq(D)
    BY AppendProperties
  <2> HIDE DEF A, P
  <2>5. /\ IsAcc(ItemStep(A(u), x))
        /\ ProcessLine(ParserOf(s, A(u)), x) = ParserOf(s, ItemStep(A(u), x))
    BY <2>3, LineAlike, Zenon
  <2> QED
    BY <2>1, <2>2, <2>3, <2>4, <2>5, Zenon
<1> HIDE DEF S
<1>3. lines \in S
  BY <1>1, <1>2, Items!SeqSet
<1> QED
  BY <1>3 DEF S

-----------------------------------------------------------------------------
(* The parser and the whole text.                                           *)

\* Lines with and without their carriage return.
CrTexts == Text \cup {DropCr(l) : l \in Text}

LEMMA DropEachCrConcat ==
    ASSUME NEW s \in Seq(Text), NEW t \in Seq(Text)
    PROVE  /\ DropEachCr(s) \in Seq(CrTexts) /\ DropEachCr(t) \in Seq(CrTexts)
           /\ DropEachCr(s \o t) = DropEachCr(s) \o DropEachCr(t)
<1>1. ASSUME NEW u \in Seq(Text)
      PROVE  /\ DropEachCr(u) \in Seq(CrTexts) /\ Len(DropEachCr(u)) = Len(u)
             /\ \A i \in 1..Len(u) : DropEachCr(u)[i] = DropCr(u[i])
  <2>1. Len(u) \in Nat /\ DOMAIN u = 1..Len(u) /\ \A i \in 1..Len(u) : u[i] \in Text
    OBVIOUS
  <2>2. \A i \in 1..Len(u) : DropCr(u[i]) \in CrTexts
    BY <2>1 DEF CrTexts
  <2>3. DropEachCr(u) = [i \in 1..Len(u) |-> DropCr(u[i])]
    BY <2>1 DEF DropEachCr
  <2> QED
    BY <2>1, <2>2, <2>3
<1>2. /\ s \o t \in Seq(Text) /\ Len(s \o t) = Len(s) + Len(t)
      /\ Len(s) \in Nat /\ Len(t) \in Nat
      /\ \A i \in 1..(Len(s) + Len(t)) :
            (s \o t)[i] = IF i <= Len(s) THEN s[i] ELSE t[i - Len(s)]
  BY ConcatProperties
<1> DEFINE x == DropEachCr(s)
           y == DropEachCr(t)
           z == DropEachCr(s \o t)
<1>3. /\ x \in Seq(CrTexts) /\ Len(x) = Len(s) /\ \A i \in 1..Len(s) : x[i] = DropCr(s[i])
      /\ y \in Seq(CrTexts) /\ Len(y) = Len(t) /\ \A i \in 1..Len(t) : y[i] = DropCr(t[i])
  BY <1>1
<1>4. /\ z \in Seq(CrTexts) /\ Len(z) = Len(s) + Len(t)
      /\ \A i \in 1..(Len(s) + Len(t)) : z[i] = DropCr((s \o t)[i])
  <2> DEFINE u == s \o t
  <2>1. u \in Seq(Text) /\ Len(u) = Len(s) + Len(t)
    BY <1>2
  <2> HIDE DEF u
  <2>2. /\ DropEachCr(u) \in Seq(CrTexts) /\ Len(DropEachCr(u)) = Len(u)
        /\ \A i \in 1..Len(u) : DropEachCr(u)[i] = DropCr(u[i])
    BY <1>1, <2>1
  <2> QED
    BY <2>1, <2>2 DEF u
<1> HIDE DEF x, y, z
<1>5. /\ x \o y \in Seq(CrTexts) /\ Len(x \o y) = Len(s) + Len(t)
      /\ \A i \in 1..(Len(s) + Len(t)) :
            (x \o y)[i] = IF i <= Len(s) THEN x[i] ELSE y[i - Len(s)]
  <2>1. /\ x \o y \in Seq(CrTexts) /\ Len(x \o y) = Len(x) + Len(y)
        /\ \A i \in 1..(Len(x) + Len(y)) :
              (x \o y)[i] = IF i <= Len(x) THEN x[i] ELSE y[i - Len(x)]
    <3>1. x \in Seq(CrTexts) /\ y \in Seq(CrTexts)
      BY <1>3
    <3> QED
      BY <3>1, ConcatProperties
  <2>2. Len(x) = Len(s) /\ Len(y) = Len(t)
    BY <1>3
  <2> QED
    BY <2>1, <2>2
<1>6. ASSUME NEW i \in 1..(Len(s) + Len(t)) PROVE z[i] = (x \o y)[i]
  <2>1. CASE i <= Len(s)
    <3>1. i \in 1..Len(s)
      BY <1>2, <2>1
    <3> QED
      BY <1>2, <1>3, <1>4, <1>5, <2>1, <3>1
  <2>2. CASE ~(i <= Len(s))
    <3>1. i - Len(s) \in 1..Len(t)
      BY <1>2, <2>2
    <3>2. (s \o t)[i] = t[i - Len(s)] /\ (x \o y)[i] = y[i - Len(s)]
      BY <1>2, <1>5, <2>2
    <3> QED
      BY <1>3, <1>4, <3>1, <3>2
  <2> QED
    BY <2>1, <2>2
<1>7. z = x \o y
  <2> DEFINE w == x \o y
  <2>1. w \in Seq(CrTexts) /\ Len(w) = Len(z) /\ \A i \in 1..Len(z) : z[i] = w[i]
    BY <1>4, <1>5, <1>6
  <2> HIDE DEF w
  <2>2. z = w
    BY <1>4, <2>1, SeqEqual
  <2> QED
    BY <2>2 DEF w
<1> QED
  BY <1>3, <1>7 DEF x, y, z

\* What the parser is after a text, however it got it.
AccOf(s) == ItemsOf(DropEachCr(Split(s).lines))
Parsed(s) == ParserOf(Split(s).rest, AccOf(s))

LEMMA NewAcc ==
    /\ IsAcc(NewItems)
    /\ NewParser = ParserOf(<<>>, NewItems)
    /\ \A s : ParserOf(s, NewItems) = [NewParser EXCEPT !.pending = s]
<1>1. Aggregate(<<>>) = NoView
  BY Aggregating!FoldEmpty, AggregateIsFold, Zenon
<1>2. <<>> \in Seq(JsonItems)
  BY EmptySeq
<1>3. IsAcc(NewItems)
  BY <1>2 DEF IsAcc, NewItems
<1>4. NewParser = ParserOf(<<>>, NewItems)
  <2>1. NewItems.data_lines = <<>> /\ NewItems.items = <<>>
    BY DEF NewItems
  <2> QED
    BY <1>1, <2>1, Zenon DEF ParserOf, NewParser
<1> QED
  BY <1>3, <1>4, Repend, Zenon

LEMMA AccOfIsAcc ==
    ASSUME NEW s \in Text
    PROVE  IsAcc(AccOf(s))
<1>1. DropEachCr(Split(s).lines) \in Seq(CrTexts)
  BY SplitType, DropEachCrConcat
<1> QED
  BY <1>1, NewAcc, LinesAlike DEF AccOf, ItemsOf

\* A new parser that gets the text at once.
LEMMA PushWhole ==
    ASSUME NEW s \in Text
    PROVE  SsePush(NewParser, s) = Parsed(s)
<1> DEFINE lines == DropEachCr(Split(s).lines)
           r == Split(s).rest
<1>1. lines \in Seq(CrTexts)
  BY SplitType, DropEachCrConcat
<1>2. NewParser.pending \o s = s
  BY ConcatEmptySeq DEF NewParser, Text
<1>3. SsePush(NewParser, s) = FoldLeft(ProcessLine, [NewParser EXCEPT !.pending = r], lines)
  BY <1>2, Zenon DEF SsePush, Split
<1>4. Parsed(s) = ParserOf(r, Items!Fold(NewItems, lines))
  BY Zenon DEF Parsed, AccOf, ItemsOf
<1> HIDE DEF lines, r
<1>5. SsePush(NewParser, s) = Processing!Fold(ParserOf(r, NewItems), lines)
  BY <1>3, ProcessIsFold, NewAcc, Zenon
<1> QED
  BY <1>1, <1>4, <1>5, NewAcc, LinesAlike

\* A parser that gets another piece.
LEMMA PushPiece ==
    ASSUME NEW s \in Text, NEW t \in Text
    PROVE  SsePush(Parsed(s), t) = Parsed(s \o t)
<1> DEFINE q == Split(Split(s).rest \o t)
           x == DropEachCr(Split(s).lines)
           y == DropEachCr(q.lines)
           r == q.rest
<1>1. Split(s).rest \in Text /\ Split(s).lines \in Seq(Text)
  BY SplitType
<1>2. Split(s).rest \o t \in Text
  BY <1>1 DEF Text
<1>3. q.lines \in Seq(Text)
  BY <1>2, SplitType
<1>4. Split(s \o t) = [lines |-> Split(s).lines \o q.lines, rest |-> r]
  BY SplitConcat
<1> DEFINE z == DropEachCr(Split(s \o t).lines)
<1>5. z = x \o y /\ x \in Seq(CrTexts) /\ y \in Seq(CrTexts) /\ Split(s \o t).rest = r
  BY <1>1, <1>3, <1>4, DropEachCrConcat
<1>6. Parsed(s \o t) = ParserOf(r, ItemsOf(x \o y))
  BY <1>5, Zenon DEF Parsed, AccOf
<1>7. AccOf(s) = Items!Fold(NewItems, x)
  BY Zenon DEF AccOf, ItemsOf
<1>8. IsAcc(AccOf(s))
  BY AccOfIsAcc
<1>9. SsePush(Parsed(s), t) = FoldLeft(ProcessLine, ParserOf(r, AccOf(s)), y)
  <2>1. Parsed(s).pending = Split(s).rest
    BY DEF Parsed, ParserOf
  <2>2. SsePush(Parsed(s), t) = FoldLeft(ProcessLine, [Parsed(s) EXCEPT !.pending = r], y)
    BY <2>1, Zenon DEF SsePush, Split
  <2> HIDE DEF r, y
  <2>3. [Parsed(s) EXCEPT !.pending = r] = ParserOf(r, AccOf(s))
    BY Repend, Zenon DEF Parsed
  <2> QED
    BY <2>2, <2>3, Zenon
<1> HIDE DEF q, x, y, r, z
<1>10. ItemsOf(x \o y) = Items!Fold(AccOf(s), y)
  <2>1. Items!Fold(NewItems, x \o y) = Items!Fold(Items!Fold(NewItems, x), y)
    BY <1>5, Items!FoldConcat
  <2> QED
    BY <1>7, <2>1, Zenon DEF ItemsOf
<1>11. Processing!Fold(ParserOf(r, AccOf(s)), y) = ParserOf(r, Items!Fold(AccOf(s), y))
  BY <1>5, <1>8, LinesAlike
<1> QED
  BY <1>6, <1>9, <1>10, <1>11, ProcessIsFold, Zenon

\* At the end the parser has the view of the whole text.
LEMMA FinishWhole ==
    ASSUME NEW s \in Text
    PROVE  SseFinish(Parsed(s)).view = Aggregate(ParseSseData(s))
<1> DEFINE x == DropEachCr(Split(s).lines)
           r == Split(s).rest
           last == IF r = <<>> THEN <<>> ELSE <<r>>
           acc == AccOf(s)
<1>1. x \in Seq(CrTexts) /\ r \in CrTexts /\ IsAcc(acc)
  BY SplitType, DropEachCrConcat, AccOfIsAcc DEF CrTexts
<1>2. Lines(s) = x \o last
  BY Zenon DEF Lines, Split
<1>3. Parsed(s) = ParserOf(r, acc) /\ acc = ItemsOf(x)
  BY Zenon DEF Parsed, AccOf
<1> HIDE DEF x, r, acc
<1>4. ASSUME NEW u, NEW a, IsAcc(a), ItemsOf(Lines(s)) = a,
             SseFinish(Parsed(s)) = Flush(ParserOf(u, a))
      PROVE  SseFinish(Parsed(s)).view = Aggregate(ParseSseData(s))
  <2>1. SseFinish(Parsed(s)) = ParserOf(u, FlushItems(a))
    BY <1>4, FlushAlike
  <2>2. SseFinish(Parsed(s)).view = Aggregate(FlushItems(a).items)
    BY <2>1 DEF ParserOf
  <2> QED
    BY <1>4, <2>2, ParseIsFold, Zenon
<1>5. CASE r = <<>>
  <2>1. Lines(s) = x
    BY <1>1, <1>2, <1>5, ConcatEmptySeq
  <2>2. ParserOf(r, acc).pending = <<>>
    BY <1>5 DEF ParserOf
  <2>3. SseFinish(Parsed(s)) = Flush(ParserOf(r, acc))
    BY <1>3, <2>2, Zenon DEF SseFinish
  <2> QED
    BY <1>1, <1>3, <1>4, <2>1, <2>3, Zenon
<1>6. CASE r # <<>>
  <2>1. Lines(s) = Append(x, r)
    BY <1>1, <1>2, <1>6, AppendIsConcat
  <2>2. ItemsOf(Lines(s)) = ItemStep(acc, r)
    <3>1. Items!Fold(NewItems, Append(x, r)) = ItemStep(Items!Fold(NewItems, x), r)
      BY <1>1, Items!FoldAppend, Zenon
    <3> QED
      BY <1>3, <2>1, <3>1, Zenon DEF ItemsOf
  <2>3. ParserOf(r, acc).pending = r /\ [ParserOf(r, acc) EXCEPT !.pending = <<>>] = ParserOf(<<>>, acc)
    BY Repend, Zenon
  <2>4. SseFinish(Parsed(s)) = Flush(ProcessLine(ParserOf(<<>>, acc), r))
    BY <1>3, <1>6, <2>3, Zenon DEF SseFinish
  <2>5. IsAcc(ItemStep(acc, r)) /\ ProcessLine(ParserOf(<<>>, acc), r) = ParserOf(<<>>, ItemStep(acc, r))
    BY <1>1, LineAlike, Zenon
  <2> QED
    BY <1>4, <2>2, <2>4, <2>5, Zenon
<1> QED
  BY <1>5, <1>6

-----------------------------------------------------------------------------
(* The collector.                                                           *)

\* An SSE parser is what the part of the body pushed so far makes of it.
StreamParsed == mode = "Streaming" => parser = Parsed(Pushed)

LEMMA ParsedEmpty == Parsed(<<>>) = NewParser
<1>1. Split(<<>>) = NewSplit
  BY SplitIsFold, Splitting!FoldEmpty
<1>2. Split(<<>>).lines = <<>> /\ Split(<<>>).rest = <<>>
  BY <1>1 DEF NewSplit
<1>3. DropEachCr(<<>>) = <<>>
  <2>1. DOMAIN <<>> = {} /\ DOMAIN DropEachCr(<<>>) = {}
    BY DEF DropEachCr
  <2> QED
    BY DEF DropEachCr
<1>4. ItemsOf(<<>>) = NewItems
  BY Items!FoldEmpty DEF ItemsOf
<1>5. Parsed(<<>>) = ParserOf(<<>>, NewItems)
  BY <1>2, <1>3, <1>4, Zenon DEF Parsed, AccOf
<1> QED
  BY <1>5, NewAcc, Zenon

LEMMA InitStream == Init => StreamParsed
<1> SUFFICES ASSUME Init PROVE parser = Parsed(Pushed)
  BY DEF StreamParsed
<1>1. input.body \in Seq(STRING) /\ Len(input.body) \in Nat
  BY InputsAssumption DEF Init
<1>2. Taken = 0
  BY <1>1 DEF Init, Taken
<1>3. Pushed = <<>>
  BY <1>1, <1>2, SubSeqEmpty DEF Pushed
<1> QED
  BY <1>3, ParsedEmpty DEF Init

\* A new piece is what was pushed before, prolonged.
LEMMA PushedGrows ==
    ASSUME Cursor, NEW n \in 1..MaxPiece, Push(n)
    PROVE  Pushed' = Pushed \o Piece(n) /\ Pushed \in Text /\ Piece(n) \in Text /\ Pushed' \in Text
<1>1. Pushed' = Pushed \o Piece(n) /\ Cursor'
  BY PushCursor
<1>2. Pushed \in Text
  BY BodyType DEF Text
<1>3. Piece(n) \in Text
  <2>1. rest \in Seq(STRING) /\ n \in 0..Len(rest)
    BY CollectorAssumption DEF Cursor, Push
  <2> QED
    BY <2>1, PrefixProperties DEF Piece, Text
<1>4. Pushed \o Piece(n) \in Text
  BY <1>2, <1>3 DEF Text
<1> QED
  BY <1>1, <1>2, <1>3, <1>4

LEMMA StepStream == IInv /\ StreamParsed /\ [Next]_vars /\ [PieceFits]_vars => StreamParsed'
<1> SUFFICES ASSUME IInv, StreamParsed, [Next]_vars, [PieceFits]_vars, mode' = "Streaming"
             PROVE  parser' = Parsed(Pushed')
  BY DEF StreamParsed
<1>1. CASE UNCHANGED vars
  BY <1>1 DEF vars, StreamParsed, Pushed, Taken
<1>2. CASE Finish
  BY <1>2 DEF Finish, StreamParsed, Pushed, Taken
<1>3. CASE \E n \in 1..MaxPiece : Push(n)
  <2>1. PICK n \in 1..MaxPiece : Push(n)
    BY <1>3
  <2>2. Pushed' = Pushed \o Piece(n) /\ Pushed \in Text /\ Piece(n) \in Text /\ Pushed' \in Text
    BY <2>1, PushedGrows DEF IInv
  <2>3. CASE PushStreaming(n)
    <3>1. parser' = SsePush(Parsed(Pushed), Piece(n))
      BY <2>3 DEF PushStreaming, StreamParsed
    <3> QED
      BY <2>2, <3>1, PushPiece, Zenon
  <2>4. CASE PushSniffing(n)
    <3>1. mode = "Sniffing"
      BY <2>4 DEF PushSniffing
    <3>2. PieceFits
      BY <3>1 DEF vars
    <3>3. parser' = SsePush(NewParser, Pushed')
      BY <2>1, <3>1, <3>2, SwitchStep DEF Next
    <3> QED
      BY <2>2, <3>3, PushWhole, Zenon
  <2>5. CASE PushAwsEventStream(n) \/ PushAbsent
    BY <2>5 DEF PushAwsEventStream, PushAbsent
  <2> QED
    BY <2>1, <2>3, <2>4, <2>5 DEF Push
<1> QED
  BY <1>1, <1>2, <1>3 DEF Next

LEMMA StreamCut == IInv /\ StreamParsed => CutInvariant
<1> SUFFICES ASSUME IInv, StreamParsed, finished, NewMode(input) # "AwsEventStream"
             PROVE  claims = WholeBodyView
  BY DEF CutInvariant
<1>1. Pushed = input.body /\ Modes /\ claims = FinishView /\ input.body \in Text
  BY AllPushed, BodyType DEF IInv, Outcome, Text
<1>2. NewMode(input) \in {"Streaming", "Sniffing", "absent", "AwsEventStream"}
  <2>1. \/ NewMode(input) = "Streaming" \/ NewMode(input) = "Sniffing"
        \/ NewMode(input) = "absent" \/ NewMode(input) = "AwsEventStream"
    BY Zenon DEF NewMode
  <2> QED
    BY <2>1
<1>3. CASE mode \in {"Sniffing", "absent"}
  BY <1>3, InvBufferedExact DEF BufferedExact
<1>4. CASE mode = "Streaming"
  <2>1. FinishView = SseFinish(Parsed(input.body)).view
    BY <1>1, <1>4, Zenon DEF FinishView, StreamParsed
  <2>2. FinishView = Aggregate(ParseSseData(input.body))
    <3>1. \A s \in Text : SseFinish(Parsed(s)).view = Aggregate(ParseSseData(s))
      BY FinishWhole
    <3> QED
      BY <1>1, <2>1, <3>1, Zenon
  <2>3. \/ NewMode(input) = "Streaming"
        \/ NewMode(input) = "Sniffing" /\ BodyPrefixIndicatesSse(input.body)
    BY <1>4, InvModeExact DEF ModeExact
  <2>4. WholeBodyView = Aggregate(ParseSseData(input.body))
    BY <2>3, Zenon DEF WholeBodyView
  <2> QED
    BY <1>1, <2>2, <2>4
<1> QED
  BY <1>1, <1>2, <1>3, <1>4 DEF Modes

\* When no piece pushed while the collector sniffs is longer than what the capture
\* leaves beyond the sniffing limit, the claims about an SSE or JSON response are
\* those the whole-body functions make of it, wherever the transport cut it
\* (main.rs:860-922 against 678-719).
THEOREM CutCorrect == Spec /\ [][PieceFits]_vars => []CutInvariant
<1>1. IInv /\ StreamParsed /\ [Next]_vars /\ [PieceFits]_vars => StreamParsed'
  BY StepStream
<1> QED
  BY <1>1, InitStream, InvCorrect, StreamCut, PTL DEF Spec

-----------------------------------------------------------------------------
(* Event streams.  One turn of the loop in push.                            *)

TakeStep(p, w) == TakeMessage(p)

Taking == INSTANCE FoldLaws WITH Op <- TakeStep

LEMMA TakeIsFold ==
    ASSUME NEW p, NEW s
    PROVE  FoldLeft(LAMBDA q, w : TakeMessage(q), p, s) = Taking!Fold(p, s)
  BY Zenon DEF TakeStep, FoldLeft, MapThenFoldSet, Max, Taking!Fold, Taking!Largest

\* Parsers as records, and what changing one or two fields gives.
ParserRec(a, d, f, v) == [pending |-> a, data_lines |-> d, failed |-> f, view |-> v]

WithPending(p, x) == [p EXCEPT !.pending = x]
WithView(p, x)    == [p EXCEPT !.view = x]
WithFailed(p, x)  == [p EXCEPT !.failed = x]
WithBoth(p, x, y) == [p EXCEPT !.failed = x, !.pending = y]

LEMMA PendingField ==
    ASSUME NEW a, NEW d, NEW f, NEW v, NEW x, NEW p, p = ParserRec(a, d, f, v)
    PROVE  WithPending(p, x) = ParserRec(x, d, f, v)
  BY DEF ParserRec, WithPending

LEMMA ViewField ==
    ASSUME NEW a, NEW d, NEW f, NEW v, NEW x, NEW p, p = ParserRec(a, d, f, v)
    PROVE  p.view = v /\ WithView(p, x) = ParserRec(a, d, f, x)
  BY DEF ParserRec, WithView

LEMMA FailedField ==
    ASSUME NEW a, NEW d, NEW f, NEW v, NEW x, NEW p, p = ParserRec(a, d, f, v)
    PROVE  WithFailed(p, x) = ParserRec(a, d, x, v)
  BY DEF ParserRec, WithFailed

LEMMA BothFields ==
    ASSUME NEW a, NEW d, NEW f, NEW v, NEW x, NEW y, NEW p, p = ParserRec(a, d, f, v)
    PROVE  WithBoth(p, x, y) = WithPending(WithFailed(p, x), y)
  BY DEF ParserRec, WithPending, WithFailed, WithBoth

IsParser(p) ==
    /\ p = ParserRec(p.pending, p.data_lines, p.failed, p.view)
    /\ p.pending \in Text
    /\ p.failed \in BOOLEAN

LEMMA U32Type ==
    ASSUME NEW x
    PROVE  /\ U32(x) \in Nat
           /\ U32(x) <= MAX_AWS_EVENTSTREAM_MESSAGE => x \in DOMAIN Word
<1>1. CASE x \in DOMAIN Word
  <2>1. \A y \in DOMAIN Word : Word[y] \in Nat
    BY DEF Word
  <2>2. U32(x) = Word[x]
    BY <1>1, Zenon DEF U32
  <2> QED
    BY <1>1, <2>1, <2>2
<1>2. CASE x \notin DOMAIN Word
  <2>1. U32(x) = MAX_AWS_EVENTSTREAM_MESSAGE + 1
    BY <1>2, Zenon DEF U32
  <2> QED
    BY <2>1, WindowsAssumption
<1> QED
  BY <1>1, <1>2

\* The message at the head of what is pending.
Total(p)   == U32(p.pending[1])
Headers(p) == U32(p.pending[2])
Payload(p) == SubSeq(p.pending, PRELUDE + Headers(p) + 1, Total(p) - 1)
BadLengths(p) ==
    \/ Total(p) < OVERHEAD
    \/ Total(p) > MAX_AWS_EVENTSTREAM_MESSAGE
    \/ Headers(p) > Total(p) - OVERHEAD
Broken(p) == ~IsBlank(Payload(p)) /\ Json(Payload(p)) = "invalid"

\* What a turn may do: nothing, give the stream up, or take a message.
Waits(p) ==
    /\ TakeMessage(p) = p
    /\ \/ p.failed \/ Len(p.pending) < PRELUDE
       \/ ~BadLengths(p) /\ Len(p.pending) < Total(p)

GivesUp(p) ==
    /\ TakeMessage(p) = Fail(p)
    /\ ~p.failed /\ Len(p.pending) >= PRELUDE
    /\ BadLengths(p) \/ (Len(p.pending) >= Total(p) /\ Broken(p))

Takes(p) ==
    /\ TakeMessage(p) =
         ParserRec(SubSeq(p.pending, Total(p) + 1, Len(p.pending)), p.data_lines, p.failed,
                   IF IsBlank(Payload(p)) THEN p.view ELSE ApplyBlock(p.view, Json(Payload(p))))
    /\ ~p.failed /\ ~BadLengths(p) /\ ~Broken(p) /\ Len(p.pending) >= Total(p)

LEMMA Turn ==
    ASSUME NEW p, IsParser(p)
    PROVE  Waits(p) \/ GivesUp(p) \/ Takes(p)
<1> DEFINE u == SubSeq(p.pending, Total(p) + 1, Len(p.pending))
           w == ApplyBlock(p.view, Json(Payload(p)))
           next == WithPending(p, u)
           after == [next EXCEPT !.view = ApplyBlock(@, Json(Payload(p)))]
<1>1. TakeMessage(p) =
        IF p.failed \/ Len(p.pending) < PRELUDE THEN p
        ELSE IF BadLengths(p) THEN Fail(p)
        ELSE IF Len(p.pending) < Total(p) THEN p
        ELSE IF IsBlank(Payload(p)) THEN next
        ELSE IF Json(Payload(p)) = "invalid" THEN Fail(p)
        ELSE after
  BY Zenon DEF TakeMessage, BadLengths, Total, Headers, Payload, IsBlank, WithPending
<1>2. /\ next = ParserRec(u, p.data_lines, p.failed, p.view)
      /\ after = ParserRec(u, p.data_lines, p.failed, w)
  <2>1. next = ParserRec(u, p.data_lines, p.failed, p.view)
    BY PendingField DEF IsParser
  <2> DEFINE v == next.view
  <2>2. v = p.view
    BY <2>1, ViewField
  <2>3. after = WithView(next, ApplyBlock(v, Json(Payload(p))))
    BY Zenon DEF WithView
  <2> HIDE DEF next, after, v, u
  <2>4. after = WithView(next, w)
    BY <2>2, <2>3
  <2> HIDE DEF w
  <2> QED
    BY <2>1, <2>4, ViewField
<1>3. Len(p.pending) \in Nat /\ Total(p) \in Nat
  BY U32Type DEF IsParser, Text, Total
<1> HIDE DEF next, after
<1>4. CASE p.failed \/ Len(p.pending) < PRELUDE
  <2>1. TakeMessage(p) = p
    BY <1>1, <1>4, Zenon
  <2> QED
    BY <1>4, <2>1, Zenon DEF Waits
<1>5. CASE ~p.failed /\ ~(Len(p.pending) < PRELUDE)
  <2>1. Len(p.pending) >= PRELUDE
    BY <1>3, <1>5 DEF PRELUDE
  <2>2. CASE BadLengths(p)
    <3>1. TakeMessage(p) = Fail(p)
      BY <1>1, <1>5, <2>2, Zenon
    <3>2. GivesUp(p)
      BY <1>5, <2>1, <2>2, <3>1, Zenon DEF GivesUp
    <3> QED
      BY <3>2
  <2>3. CASE ~BadLengths(p) /\ Len(p.pending) < Total(p)
    BY <1>1, <1>5, <2>3, Zenon DEF Waits
  <2>4. CASE ~BadLengths(p) /\ ~(Len(p.pending) < Total(p))
    <3>1. Len(p.pending) >= Total(p)
      BY <1>3, <2>4
    <3>2. CASE IsBlank(Payload(p))
      BY <1>1, <1>2, <1>5, <2>4, <3>1, <3>2, Zenon DEF Takes, Broken
    <3>3. CASE Broken(p)
      BY <1>1, <1>5, <2>1, <2>4, <3>1, <3>3, Zenon DEF GivesUp, Broken
    <3>4. CASE ~IsBlank(Payload(p)) /\ ~Broken(p)
      BY <1>1, <1>2, <1>5, <2>4, <3>1, <3>4, Zenon DEF Takes, Broken
    <3> QED
      BY <3>2, <3>3, <3>4
  <2> QED
    BY <2>2, <2>3, <2>4
<1> QED
  BY <1>4, <1>5

LEMMA FailType ==
    ASSUME NEW p, IsParser(p)
    PROVE  /\ IsParser(Fail(p)) /\ Fail(p).failed /\ Fail(p).pending = <<>>
           /\ Fail(p).view = p.view
<1>2. Fail(p) = ParserRec(<<>>, p.data_lines, TRUE, p.view)
  <2> DEFINE yes == TRUE
             q == WithFailed(p, yes)
  <2>1. p = ParserRec(p.pending, p.data_lines, p.failed, p.view)
    BY DEF IsParser
  <2>2. Fail(p) = WithBoth(p, yes, <<>>)
    BY Zenon DEF Fail, WithBoth
  <2> HIDE DEF yes
  <2>3. Fail(p) = WithPending(q, <<>>)
    BY <2>1, <2>2, BothFields
  <2>4. q = ParserRec(p.pending, p.data_lines, yes, p.view)
    BY <2>1, FailedField
  <2> HIDE DEF q
  <2>5. Fail(p) = ParserRec(<<>>, p.data_lines, yes, p.view)
    BY <2>3, <2>4, PendingField
  <2> QED
    BY <2>5, Zenon DEF yes
<1>3. <<>> \in Text
  BY EmptySeq DEF Text
<1> QED
  BY <1>2, <1>3 DEF IsParser, ParserRec

LEMMA TakesType ==
    ASSUME NEW p, IsParser(p), Takes(p)
    PROVE  /\ IsParser(TakeMessage(p)) /\ ~TakeMessage(p).failed
           /\ TakeMessage(p).pending = SubSeq(p.pending, Total(p) + 1, Len(p.pending))
           /\ Len(TakeMessage(p).pending) = Len(p.pending) - Total(p)
           /\ Total(p) \in OVERHEAD..MAX_AWS_EVENTSTREAM_MESSAGE
           /\ TakeMessage(p).view = IF IsBlank(Payload(p)) THEN p.view
                                    ELSE ApplyBlock(p.view, Json(Payload(p)))
<1> DEFINE n == Total(p)
           s == p.pending
           u == SubSeq(s, n + 1, Len(s))
           v == IF IsBlank(Payload(p)) THEN p.view ELSE ApplyBlock(p.view, Json(Payload(p)))
<1>1. n \in Nat /\ s \in Text /\ Len(s) \in Nat /\ n <= Len(s)
      /\ n \in OVERHEAD..MAX_AWS_EVENTSTREAM_MESSAGE /\ ~p.failed /\ p.failed \in BOOLEAN
  BY U32Type, WindowsAssumption DEF IsParser, Text, Total, Takes, BadLengths, OVERHEAD
<1>2. u \in Text /\ Len(u) = Len(s) - n
  <2> HIDE DEF n, s
  <2>1. n + 1 \in 1..(Len(s) + 1)
    BY <1>1
  <2>2. u \in Seq(STRING) /\ Len(u) = Len(s) - n
    BY <1>1, <2>1, SubSeqProperties DEF Text
  <2> QED
    BY <2>2 DEF Text
<1>3. TakeMessage(p) = ParserRec(u, p.data_lines, p.failed, v)
  BY Zenon DEF Takes
<1> HIDE DEF u, v, n, s
<1>4. /\ IsParser(TakeMessage(p)) /\ ~TakeMessage(p).failed
      /\ TakeMessage(p).pending = u /\ TakeMessage(p).view = v
  BY <1>1, <1>2, <1>3 DEF IsParser, ParserRec
<1> QED
  BY <1>1, <1>2, <1>4 DEF u, v, n, s

-----------------------------------------------------------------------------
(* Framings.  The messages of a body are where they are: a parser that reads *)
(* them in order finds the starts that any framing has.                     *)

Starts(b) == SUBSET (0..(Len(b) - 1))

\* s has the starts of the messages that make up the first c words of b, and every
\* framing of b agrees.
Frames(b, s, c) ==
    /\ c \in 0..Len(b) /\ s \subseteq 0..(c - 1)
    /\ c # 0 => 0 \in s
    /\ \A i \in s :
          /\ MessageAt(b, i)
          /\ i + U32(b[i + 1]) \in s \cup {c}
          /\ i + U32(b[i + 1]) <= c
          /\ \A j \in s : j <= i \/ j >= i + U32(b[i + 1])
    /\ \A t \in Starts(b) : Framing(b, t) =>
          /\ c \in t \cup {Len(b)}
          /\ \A j \in 0..(c - 1) : j \in t <=> j \in s

LEMMA FramesStart ==
    ASSUME NEW b \in Text
    PROVE  Frames(b, {}, 0)
<1>1. Len(b) \in Nat /\ (Len(b) = 0 <=> b = <<>>)
  BY EmptySeq DEF Text
<1>2. ASSUME NEW t \in Starts(b), Framing(b, t)
      PROVE  0 \in t \cup {Len(b)}
  BY <1>1, <1>2 DEF Framing
<1>3. \A j \in 0..(0 - 1) : FALSE
  OBVIOUS
<1> QED
  BY <1>1, <1>2, <1>3 DEF Frames

LEMMA FramesNext ==
    ASSUME NEW b \in Text, NEW s, NEW c, Frames(b, s, c), c < Len(b), MessageAt(b, c),
           NEW n, n = U32(b[c + 1])
    PROVE  Frames(b, s \cup {c}, c + n)
<1>1. Len(b) \in Nat /\ c \in 0..Len(b) /\ s \subseteq 0..(c - 1) /\ n \in Nat
  BY U32Type DEF Frames, Text
<1>2. n >= OVERHEAD /\ c + n <= Len(b)
  BY <1>1 DEF MessageAt
<1>3. n >= 4
  BY <1>2 DEF OVERHEAD
<1>4. c + n \in 0..Len(b) /\ s \cup {c} \subseteq 0..((c + n) - 1) /\ c + n # 0
  BY <1>1, <1>2, <1>3
<1>5. 0 \in s \cup {c}
  BY DEF Frames
<1>6. ASSUME NEW i \in s \cup {c}
      PROVE  /\ MessageAt(b, i)
             /\ i + U32(b[i + 1]) \in (s \cup {c}) \cup {c + n}
             /\ i + U32(b[i + 1]) <= c + n
             /\ \A j \in s \cup {c} : j <= i \/ j >= i + U32(b[i + 1])
  <2>1. CASE i \in s
    <3> DEFINE m == U32(b[i + 1])
    <3>1. MessageAt(b, i) /\ i + m \in s \cup {c} /\ i + m <= c
          /\ \A j \in s : j <= i \/ j >= i + m
      BY <2>1 DEF Frames
    <3>2. m \in Nat /\ i \in Nat
      BY <1>1, <2>1, U32Type
    <3> HIDE DEF m
    <3>3. i + m <= c + n /\ c >= i + m
      BY <1>1, <3>1, <3>2
    <3> QED
      BY <3>1, <3>3 DEF m
  <2>2. CASE i = c
    <3>1. i + U32(b[i + 1]) = c + n
      BY <2>2
    <3>2. \A j \in s \cup {c} : j <= c
      BY <1>1
    <3>3. c + n <= c + n
      BY <1>1
    <3> QED
      BY <2>2, <3>1, <3>2, <3>3
  <2> QED
    BY <2>1, <2>2
<1>7. ASSUME NEW t \in Starts(b), Framing(b, t)
      PROVE  /\ c + n \in t \cup {Len(b)}
             /\ \A j \in 0..((c + n) - 1) : j \in t <=> j \in s \cup {c}
  <2>1. c \in t \cup {Len(b)} /\ \A j \in 0..(c - 1) : j \in t <=> j \in s
    BY <1>7 DEF Frames
  <2>2. c \in t
    BY <1>1, <2>1
  <2>3. c + n \in t \cup {Len(b)} /\ \A j \in t : j <= c \/ j >= c + n
    BY <1>7, <2>2 DEF Framing
  <2>4. t \subseteq Int
    BY DEF Starts
  <2>5. ASSUME NEW j \in 0..((c + n) - 1)
        PROVE  j \in t <=> j \in s \cup {c}
    <3>1. CASE j \in 0..(c - 1)
      BY <1>1, <2>1, <3>1
    <3>2. CASE j = c
      BY <2>2, <3>2
    <3>3. CASE j > c
      <4>1. j \notin t
        BY <1>1, <2>3, <3>3
      <4>2. j \notin s \cup {c}
        BY <1>1, <3>3
      <4> QED
        BY <4>1, <4>2
    <3> QED
      BY <1>1, <3>1, <3>2, <3>3
  <2> QED
    BY <2>3, <2>5
<1> DEFINE u == s \cup {c}
           d == c + n
<1> HIDE DEF u, d
<1>8. d \in 0..Len(b) /\ u \subseteq 0..(d - 1) /\ 0 \in u
  BY <1>4, <1>5, Zenon DEF u, d
<1>9. ASSUME NEW i \in u
      PROVE  /\ MessageAt(b, i)
             /\ i + U32(b[i + 1]) \in u \cup {d}
             /\ i + U32(b[i + 1]) <= d
             /\ \A j \in u : j <= i \/ j >= i + U32(b[i + 1])
  BY <1>6, Zenon DEF u, d
<1>10. ASSUME NEW t \in Starts(b), Framing(b, t)
       PROVE  /\ d \in t \cup {Len(b)}
              /\ \A j \in 0..(d - 1) : j \in t <=> j \in u
  <2> DEFINE v == s \cup {c}
             e == c + n
  <2>1. e \in t \cup {Len(b)} /\ \A j \in 0..(e - 1) : j \in t <=> j \in v
    BY <1>7, <1>10
  <2>2. u = v /\ d = e
    BY DEF u, d
  <2> HIDE DEF v, e
  <2> QED
    BY <2>1, <2>2
<1>11. Frames(b, u, d)
  BY <1>8, <1>9, <1>10, Zenon DEF Frames
<1> QED
  BY <1>11 DEF u, d

\* The starts are words that count words.
Words(b) == {i \in 0..(Len(b) - 1) : b[i + 1] \in DOMAIN Word}

LEMMA FramesAll ==
    ASSUME NEW b \in Text, NEW s, Frames(b, s, Len(b))
    PROVE  Framing(b, s) /\ s \in SUBSET Words(b)
<1>1. Len(b) \in Nat /\ (Len(b) = 0 <=> b = <<>>)
  BY EmptySeq DEF Text
<1>2. Framing(b, s)
  BY <1>1 DEF Frames, Framing
<1>3. ASSUME NEW i \in s PROVE i \in Words(b)
  <2>1. i \in 0..(Len(b) - 1) /\ MessageAt(b, i)
    BY DEF Frames
  <2>2. U32(b[i + 1]) <= MAX_AWS_EVENTSTREAM_MESSAGE
    BY <2>1, U32Type, WindowsAssumption DEF MessageAt, OVERHEAD
  <2> QED
    BY <2>1, <2>2, U32Type DEF Words
<1> QED
  BY <1>2, <1>3

LEMMA FramesStop ==
    ASSUME NEW b \in Text, NEW s, NEW c, Frames(b, s, c), c # Len(b), ~MessageAt(b, c),
           NEW t \in Starts(b), Framing(b, t)
    PROVE  FALSE
<1>1. c \in t
  BY DEF Frames
<1> QED
  BY <1>1 DEF Framing

-----------------------------------------------------------------------------
(* What the messages say.                                                   *)

SaidItem(b, s, i) ==
    IF i \in s /\ ~IsBlank(PayloadAt(b, i)) THEN Json(PayloadAt(b, i)) ELSE "invalid"

SaidTo(b, s, c) == [i \in 1..c |-> SaidItem(b, s, i - 1)]

LEMMA SaidAppend ==
    ASSUME NEW b, NEW s, NEW c \in Nat
    PROVE  /\ SaidTo(b, s, c) \in Seq(JsonItems) /\ SaidItem(b, s, c) \in JsonItems
           /\ SaidTo(b, s, c + 1) = Append(SaidTo(b, s, c), SaidItem(b, s, c))
<1>1. \A i : SaidItem(b, s, i) \in JsonItems
  <2>1. "invalid" \in JsonItems
    BY DEF JsonItems
  <2> QED
    BY <2>1, JsonType, Zenon DEF SaidItem
<1> DEFINE u == SaidTo(b, s, c)
           x == SaidItem(b, s, c)
           w == SaidTo(b, s, c + 1)
<1>2. u \in Seq(JsonItems) /\ Len(u) = c /\ \A i \in 1..c : u[i] = SaidItem(b, s, i - 1)
  BY <1>1 DEF SaidTo
<1>3. w \in Seq(JsonItems) /\ Len(w) = c + 1 /\ \A i \in 1..(c + 1) : w[i] = SaidItem(b, s, i - 1)
  BY <1>1 DEF SaidTo
<1>4. x \in JsonItems /\ w[c + 1] = x
  BY <1>1, <1>3
<1> HIDE DEF u, x, w
<1>5. /\ Append(u, x) \in Seq(JsonItems) /\ Len(Append(u, x)) = c + 1
      /\ \A i \in 1..c : Append(u, x)[i] = u[i]
      /\ Append(u, x)[c + 1] = x
  BY <1>2, <1>4, AppendProperties
<1>6. w = Append(u, x)
  <2> DEFINE y == Append(u, x)
  <2>1. \A i \in 1..(c + 1) : w[i] = y[i]
    BY <1>2, <1>3, <1>4, <1>5
  <2>2. y \in Seq(JsonItems) /\ Len(y) = c + 1
    BY <1>5
  <2> HIDE DEF y
  <2>3. w = y
    BY <1>3, <2>1, <2>2, SeqEqual
  <2> QED
    BY <2>3 DEF y
<1> QED
  BY <1>2, <1>4, <1>6 DEF u, x, w

LEMMA ApplyInvalid ==
    ASSUME NEW v
    PROVE  Apply(v, "invalid") = v
<1>1. "invalid" \notin Chunks /\ "invalid" # "ve"
  BY DEF Chunks, Chunk
<1> QED
  BY <1>1, Zenon DEF Apply, ApplyAt

\* Where no message starts the view does not change.
LEMMA SaidGap ==
    ASSUME NEW b, NEW s, NEW c \in Nat, NEW n \in Nat, \A i \in c..(c + n) : i \notin s
    PROVE  Aggregate(SaidTo(b, s, c + n)) = Aggregate(SaidTo(b, s, c))
<1> DEFINE S == {m \in Nat : m <= n => Aggregate(SaidTo(b, s, c + m)) = Aggregate(SaidTo(b, s, c))}
<1>1. 0 \in S
  <2>1. c + 0 = c
    OBVIOUS
  <2> QED
    BY <2>1
<1>2. ASSUME NEW m \in Nat, m \in S PROVE m + 1 \in S
  <2> SUFFICES ASSUME m + 1 <= n
               PROVE  Aggregate(SaidTo(b, s, c + (m + 1))) = Aggregate(SaidTo(b, s, c))
    OBVIOUS
  <2> DEFINE k == c + m
  <2>1. k \in Nat /\ c + (m + 1) = k + 1 /\ k \notin s
    OBVIOUS
  <2>2. Aggregate(SaidTo(b, s, k)) = Aggregate(SaidTo(b, s, c))
    BY <1>2
  <2> HIDE DEF k, S
  <2>3. SaidItem(b, s, k) = "invalid"
    BY <2>1, Zenon DEF SaidItem
  <2>4. /\ SaidTo(b, s, k) \in Seq(JsonItems) /\ SaidItem(b, s, k) \in JsonItems
        /\ SaidTo(b, s, k + 1) = Append(SaidTo(b, s, k), SaidItem(b, s, k))
    BY <2>1, SaidAppend, Zenon
  <2>5. Aggregate(SaidTo(b, s, k + 1)) = Apply(Aggregate(SaidTo(b, s, k)), "invalid")
    BY <2>3, <2>4, AggregateAppend, Zenon
  <2> QED
    BY <2>1, <2>2, <2>5, ApplyInvalid, Zenon
<1> HIDE DEF S
<1>3. n \in S
  BY <1>1, <1>2, Taking!NatSet
<1>4. n <= n
  OBVIOUS
<1> QED
  BY <1>3, <1>4 DEF S

\* A message adds what it says to the view.
LEMMA SaidNext ==
    ASSUME NEW b, NEW s, NEW c \in Nat, s \subseteq 0..(c - 1), NEW n \in Nat \ {0}
    PROVE  Aggregate(SaidTo(b, s \cup {c}, c + n)) =
             IF IsBlank(PayloadAt(b, c)) THEN Aggregate(SaidTo(b, s, c))
             ELSE Apply(Aggregate(SaidTo(b, s, c)), Json(PayloadAt(b, c)))
<1> DEFINE t == s \cup {c}
           v == Aggregate(SaidTo(b, s, c))
           d == c + 1
           m == n - 1
<1>1. \A i \in 1..c : i - 1 \in t <=> i - 1 \in s
  OBVIOUS
<1>2. SaidTo(b, t, c) = SaidTo(b, s, c)
  <2>1. \A i \in 1..c : SaidItem(b, t, i - 1) = SaidItem(b, s, i - 1)
    BY <1>1, Zenon DEF SaidItem
  <2> HIDE DEF t
  <2> QED
    BY <2>1, Zenon DEF SaidTo
<1>3. c \in t /\ d \in Nat /\ m \in Nat /\ d + m = c + n /\ \A i \in d..(d + m) : i \notin t
  OBVIOUS
<1> HIDE DEF t, v, d, m
<1>4. Aggregate(SaidTo(b, t, d + m)) = Aggregate(SaidTo(b, t, d))
  BY <1>3, SaidGap
<1>5. /\ SaidTo(b, t, c) \in Seq(JsonItems) /\ SaidItem(b, t, c) \in JsonItems
      /\ SaidTo(b, t, c + 1) = Append(SaidTo(b, t, c), SaidItem(b, t, c))
  BY SaidAppend
<1>6. Aggregate(SaidTo(b, t, d)) = Apply(v, SaidItem(b, t, c))
  <2>1. Aggregate(SaidTo(b, t, c + 1)) = Apply(Aggregate(SaidTo(b, t, c)), SaidItem(b, t, c))
    BY <1>5, AggregateAppend, Zenon
  <2> QED
    BY <1>2, <2>1, Zenon DEF d, v
<1>7. Apply(v, SaidItem(b, t, c)) = IF IsBlank(PayloadAt(b, c)) THEN v
                                    ELSE Apply(v, Json(PayloadAt(b, c)))
  BY <1>3, ApplyInvalid, Zenon DEF SaidItem
<1> QED
  BY <1>3, <1>4, <1>6, <1>7, Zenon DEF t, v

-----------------------------------------------------------------------------
(* The parser and the body.                                                 *)

\* A slice of a slice.
LEMMA SliceOfSlice ==
    ASSUME NEW b \in Text, NEW k \in 0..Len(b), NEW c \in 0..k,
           NEW i \in 0..(k - c), NEW j \in i..(k - c)
    PROVE  SubSeq(SubSeq(b, c + 1, k), i + 1, j) = SubSeq(b, (c + i) + 1, c + j)
<1> DEFINE s == SubSeq(b, c + 1, k)
           x == SubSeq(s, i + 1, j)
           y == SubSeq(b, (c + i) + 1, c + j)
<1>1. Len(b) \in Nat /\ k \in Nat /\ c \in Nat /\ i \in Nat /\ j \in Nat /\ c <= k /\ i <= j
      /\ c + j \in 0..Len(b) /\ c + i \in 0..(c + j) /\ (c + j) - (c + i) = j - i
  BY LenProperties DEF Text
<1>2. s \in Seq(STRING) /\ Len(s) = k - c /\ \A m \in 1..(k - c) : s[m] = b[c + m]
  BY SliceProperties DEF Text
<1>3. y \in Seq(STRING) /\ Len(y) = j - i /\ \A m \in 1..(j - i) : y[m] = b[(c + i) + m]
  BY <1>1, SliceProperties DEF Text
<1> HIDE DEF s, y
<1>4. x \in Seq(STRING) /\ Len(x) = j - i /\ \A m \in 1..(j - i) : x[m] = s[i + m]
  <2>1. j \in 0..Len(s) /\ i \in 0..j
    BY <1>1, <1>2
  <2> QED
    BY <1>2, <2>1, SliceProperties
<1> HIDE DEF x
<1>5. ASSUME NEW m \in 1..(j - i) PROVE x[m] = y[m]
  <2>1. i + m \in 1..(k - c) /\ c + (i + m) = (c + i) + m
    BY <1>1
  <2>2. s[i + m] = b[(c + i) + m]
    BY <1>2, <2>1
  <2> QED
    BY <1>3, <1>4, <2>2
<1>6. x = y
  BY <1>3, <1>4, <1>5, SeqEqual
<1> QED
  BY <1>6 DEF x, y, s

\* What is at the head of a slice of the body is what is in the body.
LEMMA HeadOfSlice ==
    ASSUME NEW b \in Text, NEW k \in 0..Len(b), NEW c \in 0..k, NEW p,
           p.pending = SubSeq(b, c + 1, k)
    PROVE  /\ Len(p.pending) = k - c
           /\ Len(p.pending) >= PRELUDE => /\ Total(p) = U32(b[c + 1])
                                           /\ Headers(p) = U32(b[c + 2])
           /\ Len(p.pending) >= Total(p) /\ ~BadLengths(p) =>
                /\ Total(p) = U32(b[c + 1]) /\ Headers(p) = U32(b[c + 2])
                /\ Payload(p) = PayloadAt(b, c)
                /\ SubSeq(p.pending, Total(p) + 1, Len(p.pending)) =
                      SubSeq(b, (c + Total(p)) + 1, k)
<1> DEFINE s == SubSeq(b, c + 1, k)
           n == Total(p)
           h == Headers(p)
<1>1. Len(b) \in Nat /\ k \in Nat /\ c \in Nat /\ c <= k
  BY LenProperties DEF Text
<1>2. Len(s) = k - c /\ \A m \in 1..(k - c) : s[m] = b[c + m]
  BY SliceProperties DEF Text
<1>3. p.pending = s /\ n = U32(s[1]) /\ h = U32(s[2])
  BY DEF Total, Headers
<1>4. n \in Nat /\ h \in Nat
  BY U32Type DEF Total, Headers
<1> HIDE DEF s, n, h
<1>5. ASSUME k - c >= 3 PROVE n = U32(b[c + 1]) /\ h = U32(b[c + 2])
  <2>1. 1 \in 1..(k - c) /\ 2 \in 1..(k - c)
    BY <1>1, <1>5
  <2>2. s[1] = b[c + 1] /\ s[2] = b[c + 2]
    BY <1>2, <2>1
  <2> QED
    BY <1>3, <2>2
<1>6. ASSUME k - c >= n, ~BadLengths(p)
      PROVE  /\ n = U32(b[c + 1]) /\ h = U32(b[c + 2])
             /\ Payload(p) = PayloadAt(b, c)
             /\ SubSeq(s, n + 1, k - c) = SubSeq(b, (c + n) + 1, k)
  <2>1. n >= 4 /\ h <= n - 4
    BY <1>4, <1>6 DEF BadLengths, OVERHEAD, n, h
  <2>2. n = U32(b[c + 1]) /\ h = U32(b[c + 2])
    BY <1>1, <1>4, <1>5, <1>6, <2>1
  <2>3. /\ 3 + h \in 0..(k - c) /\ n - 1 \in (3 + h)..(k - c)
        /\ n \in 0..(k - c) /\ k - c \in n..(k - c) /\ c + (k - c) = k
    BY <1>1, <1>4, <1>6, <2>1
  <2>4. SubSeq(s, (3 + h) + 1, n - 1) = SubSeq(b, (c + (3 + h)) + 1, c + (n - 1))
    BY <2>3, SliceOfSlice DEF s
  <2>5. SubSeq(s, n + 1, k - c) = SubSeq(b, (c + n) + 1, k)
    BY <2>3, SliceOfSlice DEF s
  <2>6. Payload(p) = SubSeq(s, (3 + h) + 1, n - 1)
    BY <1>3, Zenon DEF Payload, PRELUDE, n, h
  <2>7. PayloadAt(b, c) = SubSeq(b, ((c + 3) + h) + 1, c + n - 1)
    BY <2>2, Zenon DEF PayloadAt, PRELUDE
  <2>8. (c + (3 + h)) + 1 = ((c + 3) + h) + 1 /\ c + (n - 1) = c + n - 1
    BY <1>1, <1>4
  <2> QED
    BY <2>2, <2>4, <2>5, <2>6, <2>7, <2>8
<1>7. Len(p.pending) = k - c
  BY <1>2, <1>3
<1>8. (Len(p.pending) >= PRELUDE) => (n = U32(b[c + 1]) /\ h = U32(b[c + 2]))
  BY <1>5, <1>7 DEF PRELUDE
<1>9. (Len(p.pending) >= n /\ ~BadLengths(p)) =>
             /\ n = U32(b[c + 1]) /\ h = U32(b[c + 2])
             /\ Payload(p) = PayloadAt(b, c)
             /\ SubSeq(p.pending, n + 1, Len(p.pending)) = SubSeq(b, (c + n) + 1, k)
  BY <1>3, <1>6, <1>7
<1> QED
  BY <1>7, <1>8, <1>9 DEF n, h

\* The parser has taken the messages in s, which are the first c of the k words it
\* got, and has the rest pending, or gave up at a message that is none.
AwsAt(q, b, k, s, c) ==
    /\ Frames(b, s, c) /\ c <= k
    /\ IsParser(q)
    /\ q.view = Aggregate(SaidTo(b, s, c))
    /\ q.failed => q.pending = <<>> /\ c < Len(b) /\ ~MessageAt(b, c)
    /\ ~q.failed => q.pending = SubSeq(b, c + 1, k)

AwsState(q, b, k) == \E s, c : AwsAt(q, b, k, s, c)

LEMMA TakeKeeps ==
    ASSUME NEW b \in Text, NEW k \in 0..Len(b), NEW q, AwsState(q, b, k)
    PROVE  AwsState(TakeMessage(q), b, k)
<1>1. PICK s, c : AwsAt(q, b, k, s, c)
  BY DEF AwsState
<1>2. IsParser(q) /\ Frames(b, s, c) /\ c <= k
  BY <1>1 DEF AwsAt
<1>3. Len(b) \in Nat /\ k \in Nat /\ c \in Nat /\ c \in 0..k /\ s \subseteq 0..(c - 1)
  BY <1>2, LenProperties DEF Frames, Text
<1>4. CASE Waits(q)
  <2>1. TakeMessage(q) = q
    BY <1>4 DEF Waits
  <2> QED
    BY <2>1, Zenon
<1>5. CASE GivesUp(q)
  <2>1. /\ TakeMessage(q) = Fail(q) /\ ~q.failed /\ Len(q.pending) >= PRELUDE
        /\ BadLengths(q) \/ (Len(q.pending) >= Total(q) /\ Broken(q))
    BY <1>5 DEF GivesUp
  <2>2. q.pending = SubSeq(b, c + 1, k)
    BY <1>1, <2>1 DEF AwsAt
  <2>3. /\ Len(q.pending) = k - c
        /\ Total(q) = U32(b[c + 1]) /\ Headers(q) = U32(b[c + 2])
        /\ Len(q.pending) >= Total(q) /\ ~BadLengths(q) => Payload(q) = PayloadAt(b, c)
    BY <1>3, <2>1, <2>2, HeadOfSlice
  <2>4. c < Len(b)
    BY <1>3, <2>1, <2>3 DEF PRELUDE
  <2>5. Total(q) \in Nat /\ Headers(q) \in Nat
    BY U32Type DEF Total, Headers
  <2>6. CASE BadLengths(q)
    <3>1. ~MessageAt(b, c)
      BY <2>3, <2>5, <2>6, WindowsAssumption DEF BadLengths, MessageAt, OVERHEAD
    <3> QED
      BY <1>1, <1>2, <2>1, <2>4, <3>1, FailType DEF AwsAt, AwsState
  <2>7. CASE ~BadLengths(q)
    <3>1. Broken(q) /\ Payload(q) = PayloadAt(b, c)
      BY <2>1, <2>3, <2>7
    <3>2. ~MessageAt(b, c)
      BY <3>1, Zenon DEF Broken, MessageAt
    <3> QED
      BY <1>1, <1>2, <2>1, <2>4, <3>2, FailType DEF AwsAt, AwsState
  <2> QED
    BY <2>6, <2>7
<1>6. CASE Takes(q)
  <2> DEFINE n == Total(q)
             p == TakeMessage(q)
             v == Aggregate(SaidTo(b, s, c))
             w == Aggregate(SaidTo(b, s \cup {c}, c + n))
  <2>1. ~q.failed /\ ~BadLengths(q) /\ ~Broken(q) /\ Len(q.pending) >= n
    BY <1>6 DEF Takes
  <2>2. q.pending = SubSeq(b, c + 1, k) /\ q.view = v
    BY <1>1, <2>1 DEF AwsAt
  <2>3. /\ Len(q.pending) = k - c
        /\ n = U32(b[c + 1]) /\ Headers(q) = U32(b[c + 2]) /\ Payload(q) = PayloadAt(b, c)
        /\ SubSeq(q.pending, n + 1, Len(q.pending)) = SubSeq(b, (c + n) + 1, k)
    BY <1>3, <2>1, <2>2, HeadOfSlice
  <2>4. /\ IsParser(p) /\ ~p.failed
        /\ p.pending = SubSeq(q.pending, n + 1, Len(q.pending))
        /\ n \in OVERHEAD..MAX_AWS_EVENTSTREAM_MESSAGE
        /\ p.view = IF IsBlank(Payload(q)) THEN q.view ELSE ApplyBlock(q.view, Json(Payload(q)))
    BY <1>2, <1>6, TakesType
  <2>5. n \in Nat \ {0} /\ n >= 4 /\ c + n <= k /\ c < Len(b)
    BY <1>3, <2>1, <2>3, <2>4, WindowsAssumption DEF OVERHEAD
  <2>6. MessageAt(b, c)
    <3>1. Headers(q) <= n - OVERHEAD
      BY <2>1, <2>5, U32Type DEF BadLengths, Headers, OVERHEAD
    <3>2. Len(b) - c >= OVERHEAD /\ c + n <= Len(b)
      BY <1>3, <2>5 DEF OVERHEAD
    <3>3. IsBlank(PayloadAt(b, c)) \/ Json(PayloadAt(b, c)) # "invalid"
      BY <2>1, <2>3, Zenon DEF Broken
    <3> QED
      BY <2>3, <2>4, <3>1, <3>2, <3>3, Zenon DEF MessageAt
  <2> HIDE DEF n, p
  <2>7. Frames(b, s \cup {c}, c + n)
    BY <1>2, <2>3, <2>5, <2>6, FramesNext
  <2>8. w = IF IsBlank(PayloadAt(b, c)) THEN v ELSE Apply(v, Json(PayloadAt(b, c)))
    BY <1>3, <2>5, SaidNext
  <2>9. p.view = w
    BY <2>2, <2>3, <2>4, <2>8, Zenon DEF Apply, ApplyBlock
  <2>10. AwsAt(p, b, k, s \cup {c}, c + n)
    BY <2>3, <2>4, <2>5, <2>7, <2>9, Zenon DEF AwsAt
  <2> QED
    BY <2>10, Zenon DEF AwsState, p
<1> QED
  BY <1>2, <1>4, <1>5, <1>6, Turn

\* However often the loop turns.
LEMMA TakingKeeps ==
    ASSUME NEW b \in Text, NEW k \in 0..Len(b), NEW q, AwsState(q, b, k), NEW s \in Text
    PROVE  AwsState(Taking!Fold(q, s), b, k)
<1> DEFINE F(u) == Taking!Fold(q, u)
           S == {u \in Text : AwsState(F(u), b, k)}
<1>1. <<>> \in S
  BY Taking!FoldEmpty, EmptySeq DEF Text
<1>2. ASSUME NEW u \in Seq(STRING), NEW x \in STRING, u \in S
      PROVE  Append(u, x) \in S
  <2>1. Append(u, x) \in Text
    BY TextAppend, Zenon DEF Text
  <2>2. F(Append(u, x)) = TakeStep(F(u), x)
    BY Taking!FoldAppend
  <2>3. F(Append(u, x)) = TakeMessage(F(u)) /\ AwsState(F(u), b, k)
    BY <1>2, <2>2 DEF TakeStep
  <2> HIDE DEF F
  <2> QED
    BY <2>1, <2>3, TakeKeeps
<1> HIDE DEF S
<1>3. s \in S
  BY <1>1, <1>2, Taking!SeqSet DEF Text
<1> QED
  BY <1>3 DEF S

\* A turn that can do nothing more.
Done(p) == TakeMessage(p) = p

LEMMA DoneWhen ==
    ASSUME NEW p, IsParser(p), p.failed \/ Len(p.pending) < PRELUDE
    PROVE  Done(p)
<1>1. Len(p.pending) \in Nat
  BY LenProperties DEF IsParser, Text
<1>2. ~GivesUp(p)
  BY <1>1 DEF GivesUp, PRELUDE
<1>3. ~Takes(p)
  BY <1>1, U32Type DEF Takes, BadLengths, Total, PRELUDE, OVERHEAD
<1> QED
  BY <1>2, <1>3, Turn DEF Waits, Done

\* The words pending bound the turns: after as many the loop has come to its end.
LEMMA TakingEnds ==
    ASSUME NEW q, IsParser(q)
    PROVE  Done(Taking!Fold(q, q.pending))
<1> DEFINE F(u) == Taking!Fold(q, u)
           Ends(p, m) == IsParser(p) /\ (Done(p) \/ Len(p.pending) + m <= Len(q.pending))
           S == {u \in Text : Ends(F(u), Len(u))}
<1>0. q.pending \in Text /\ Len(q.pending) \in Nat
  BY LenProperties DEF IsParser, Text
<1>1. <<>> \in S
  <2>1. <<>> \in Text /\ Len(<<>>) = 0 /\ F(<<>>) = q
    BY Taking!FoldEmpty, EmptySeq DEF Text
  <2>2. Len(q.pending) + 0 <= Len(q.pending)
    BY <1>0
  <2> HIDE DEF F
  <2> QED
    BY <2>1, <2>2
<1>2. ASSUME NEW p, NEW m \in Nat, Ends(p, m)
      PROVE  Ends(TakeMessage(p), m + 1)
  <2>1. CASE Done(p)
    <3>1. TakeMessage(p) = p
      BY <2>1 DEF Done
    <3> QED
      BY <1>2, <2>1, <3>1
  <2>2. CASE Len(p.pending) + m <= Len(q.pending)
    <3>1. IsParser(p) /\ Len(p.pending) \in Nat
      BY <1>2, LenProperties DEF IsParser, Text
    <3>2. CASE Waits(p)
      BY <2>1, <3>2 DEF Waits, Done
    <3>3. CASE GivesUp(p)
      <4>1. TakeMessage(p) = Fail(p) /\ IsParser(Fail(p)) /\ Fail(p).failed
        BY <3>1, <3>3, FailType DEF GivesUp
      <4>2. Done(Fail(p))
        BY <4>1, DoneWhen
      <4> QED
        BY <4>1, <4>2
    <3>4. CASE Takes(p)
      <4> DEFINE r == TakeMessage(p)
      <4>1. /\ IsParser(r) /\ Len(r.pending) = Len(p.pending) - Total(p)
            /\ Total(p) \in OVERHEAD..MAX_AWS_EVENTSTREAM_MESSAGE
        BY <3>1, <3>4, TakesType
      <4> HIDE DEF r
      <4>2. Len(r.pending) + (m + 1) <= Len(q.pending)
        BY <1>0, <2>2, <3>1, <4>1, WindowsAssumption DEF OVERHEAD
      <4> QED
        BY <4>1, <4>2 DEF r
    <3> QED
      BY <3>1, <3>2, <3>3, <3>4, Turn
  <2> QED
    BY <1>2, <2>1, <2>2
<1>3. ASSUME NEW u \in Seq(STRING), NEW x \in STRING, u \in S
      PROVE  Append(u, x) \in S
  <2>1. u \in Text /\ Append(u, x) \in Text /\ Len(Append(u, x)) = Len(u) + 1 /\ Len(u) \in Nat
    BY TextAppend, Zenon DEF Text
  <2>2. F(Append(u, x)) = TakeStep(F(u), x)
    BY Taking!FoldAppend
  <2>3. F(Append(u, x)) = TakeMessage(F(u))
    BY <2>2 DEF TakeStep
  <2>4. Ends(F(u), Len(u))
    BY <1>3
  <2> HIDE DEF F, Ends
  <2> QED
    BY <1>2, <2>1, <2>3, <2>4
<1> DEFINE z == F(q.pending)
<1>4. Ends(z, Len(q.pending))
  <2> HIDE DEF S
  <2>1. q.pending \in S
    BY <1>0, <1>1, <1>3, Taking!SeqSet DEF Text
  <2> QED
    BY <2>1 DEF S
<1> HIDE DEF F, z
<1>5. Done(z)
  <2>1. CASE Len(z.pending) + Len(q.pending) <= Len(q.pending)
    <3>1. IsParser(z) /\ Len(z.pending) \in Nat
      BY <1>4, LenProperties DEF IsParser, Text
    <3>2. Len(z.pending) < PRELUDE
      <4>1. ASSUME NEW i \in Nat, NEW j \in Nat, i + j <= j PROVE i < 3
        BY <4>1
      <4> QED
        BY <1>0, <2>1, <3>1, <4>1, Zenon DEF PRELUDE
    <3> QED
      BY <3>1, <3>2, DoneWhen
  <2> QED
    BY <1>4, <2>1
<1> QED
  BY <1>5 DEF z, F

\* A push of the next n words.
LEMMA AwsPushKeeps ==
    ASSUME NEW b \in Text, NEW k \in 0..Len(b), NEW n \in Nat, k + n <= Len(b),
           NEW q, AwsState(q, b, k), NEW x, x = SubSeq(b, k + 1, k + n)
    PROVE  AwsState(AwsPush(q, x), b, k + n) /\ Done(AwsPush(q, x))
<1>1. PICK s, c : AwsAt(q, b, k, s, c)
  BY DEF AwsState
<1>2. IsParser(q) /\ Frames(b, s, c) /\ c <= k /\ q.failed \in BOOLEAN
      /\ q = ParserRec(q.pending, q.data_lines, q.failed, q.view)
  BY <1>1 DEF AwsAt, IsParser
<1>3. /\ Len(b) \in Nat /\ k \in Nat /\ c \in Nat /\ c \in 0..k /\ k + n \in 0..Len(b)
      /\ c <= k + n /\ c + 1 \in 1..(Len(b) + 1) /\ k \in ((c + 1) - 1)..Len(b)
      /\ k + n \in k..Len(b) /\ c \in 0..(k + n)
  BY <1>2, LenProperties DEF Frames, Text
<1> DEFINE start == IF q.failed THEN q ELSE [q EXCEPT !.pending = @ \o x]
<1>4. AwsPush(q, x) = Taking!Fold(start, start.pending)
  <2>1. AwsPush(q, x) = FoldLeft(LAMBDA p, w : TakeMessage(p), start, start.pending)
    BY Zenon DEF AwsPush
  <2> HIDE DEF start
  <2> QED
    BY <2>1, TakeIsFold
<1>5. AwsState(start, b, k + n)
  <2>1. CASE q.failed
    <3>1. start = q
      BY <2>1
    <3>2. AwsAt(q, b, k + n, s, c)
      BY <1>1, <1>3, <2>1 DEF AwsAt
    <3> QED
      BY <3>1, <3>2, Zenon DEF AwsState
  <2>2. CASE ~q.failed
    <3> DEFINE y == q.pending \o x
    <3>1. y = SubSeq(b, c + 1, k + n)
      <4>1. q.pending = SubSeq(b, c + 1, k)
        BY <1>1, <2>2 DEF AwsAt
      <4>2. SubSeq(b, c + 1, k) \o SubSeq(b, k + 1, k + n) = SubSeq(b, c + 1, k + n)
        BY <1>3, ConcatAdjacentSubSeq DEF Text
      <4> QED
        BY <4>1, <4>2
    <3>2. start = WithPending(q, y)
      BY <2>2, Zenon DEF WithPending
    <3> HIDE DEF y, start
    <3>3. y \in Text
      BY <1>3, <3>1, SliceProperties DEF Text
    <3>4. start = ParserRec(y, q.data_lines, q.failed, q.view)
      BY <1>2, <3>2, PendingField
    <3>5. /\ start = ParserRec(start.pending, start.data_lines, start.failed, start.view)
          /\ start.pending = y /\ start.failed = q.failed /\ start.view = q.view
      BY <3>4 DEF ParserRec
    <3>6. IsParser(start)
      BY <1>2, <3>3, <3>5 DEF IsParser
    <3>7. AwsAt(start, b, k + n, s, c)
      BY <1>1, <1>3, <2>2, <3>1, <3>5, <3>6 DEF AwsAt
    <3> QED
      BY <3>7, Zenon DEF AwsState
  <2> QED
    BY <2>1, <2>2
<1> HIDE DEF start
<1>6. IsParser(start) /\ start.pending \in Text
  BY <1>5 DEF AwsState, AwsAt, IsParser
<1>7. AwsState(Taking!Fold(start, start.pending), b, k + n)
  BY <1>3, <1>5, <1>6, TakingKeeps
<1>8. Done(Taking!Fold(start, start.pending))
  BY <1>6, TakingEnds
<1> QED
  BY <1>4, <1>7, <1>8

\* Where the body ends in the middle of something no message starts.
LEMMA DoneStops ==
    ASSUME NEW b \in Text, NEW q, NEW s, NEW c, AwsAt(q, b, Len(b), s, c), Done(q),
           q.failed \/ q.pending # <<>>
    PROVE  c # Len(b) /\ ~MessageAt(b, c)
<1>1. IsParser(q) /\ Frames(b, s, c) /\ c <= Len(b)
  BY DEF AwsAt
<1>2. Len(b) \in Nat /\ c \in Nat /\ c \in 0..Len(b) /\ Len(b) \in 0..Len(b)
  BY <1>1, LenProperties DEF Frames, Text
<1>3. CASE q.failed
  BY <1>2, <1>3 DEF AwsAt
<1>4. CASE ~q.failed
  <2>1. q.pending = SubSeq(b, c + 1, Len(b)) /\ q.pending # <<>>
    BY <1>4 DEF AwsAt
  <2>2. /\ Len(q.pending) = Len(b) - c
        /\ Len(q.pending) >= PRELUDE => Total(q) = U32(b[c + 1])
    BY <1>2, <2>1, HeadOfSlice
  <2>3. Len(q.pending) # 0
    BY <1>1, <2>1, EmptySeq DEF IsParser, Text
  <2>4. Len(q.pending) \in Nat
    BY <1>1, LenProperties DEF IsParser, Text
  <2>5. ~GivesUp(q)
    BY <1>1, <1>4, FailType DEF GivesUp, Done
  <2>6. ~Takes(q)
    <3> SUFFICES ASSUME Takes(q) PROVE FALSE
      OBVIOUS
    <3>1. /\ Len(q.pending) = Len(q.pending) - Total(q)
          /\ Total(q) \in OVERHEAD..MAX_AWS_EVENTSTREAM_MESSAGE
      BY <1>1, TakesType DEF Done
    <3> QED
      BY <2>4, <3>1, WindowsAssumption DEF OVERHEAD
  <2>7. Len(q.pending) < PRELUDE \/ Len(q.pending) < Total(q)
    BY <1>1, <1>4, <2>5, <2>6, Turn DEF Waits
  <2>8. Total(q) \in Nat
    BY U32Type DEF Total
  <2>9. ~MessageAt(b, c)
    BY <1>2, <2>2, <2>4, <2>7, <2>8 DEF MessageAt, PRELUDE, OVERHEAD
  <2> QED
    BY <1>2, <2>2, <2>3, <2>9
<1> QED
  BY <1>3, <1>4

\* An event-stream parser has taken the messages of what was pushed.
EventsParsed == mode = "AwsEventStream" => AwsState(parser, input.body, Taken) /\ Done(parser)

LEMMA InitEvents == Init => EventsParsed
<1> SUFFICES ASSUME Init PROVE AwsState(parser, input.body, Taken) /\ Done(parser)
  BY DEF EventsParsed
<1> DEFINE b == input.body
<1>1. b \in Text /\ Len(b) \in Nat
  BY InputsAssumption, LenProperties DEF Init, Text
<1>2. Taken = 0 /\ parser = NewParser
  BY <1>1 DEF Init, Taken
<1>3. /\ NewParser = ParserRec(<<>>, <<>>, FALSE, NoView)
      /\ NewParser.pending = <<>> /\ ~NewParser.failed /\ NewParser.failed \in BOOLEAN
      /\ NewParser.view = NoView /\ NewParser.data_lines = <<>>
  BY DEF NewParser, ParserRec
<1>4. IsParser(NewParser) /\ Len(NewParser.pending) < PRELUDE
  <2>1. <<>> \in Text /\ Len(<<>>) = 0
    BY EmptySeq DEF Text
  <2> QED
    BY <1>3, <2>1 DEF IsParser, ParserRec, NewParser, PRELUDE
<1>5. Done(NewParser)
  BY <1>4, DoneWhen
<1>6. SaidTo(b, {}, 0) = <<>>
  <2>1. DOMAIN SaidTo(b, {}, 0) = {}
    BY DEF SaidTo
  <2> QED
    BY <2>1 DEF SaidTo
<1>7. NoView = Aggregate(SaidTo(b, {}, 0))
  BY <1>6, Aggregating!FoldEmpty, AggregateIsFold, Zenon
<1>8. SubSeq(b, 0 + 1, 0) = <<>>
  BY SubSeqEmpty
<1>9. Frames(b, {}, 0)
  BY <1>1, FramesStart
<1> HIDE DEF b
<1>10. AwsAt(NewParser, b, 0, {}, 0)
  <2>1. 0 <= 0
    OBVIOUS
  <2> QED
    BY <1>3, <1>4, <1>7, <1>8, <1>9, <2>1, Zenon DEF AwsAt
<1> QED
  BY <1>2, <1>5, <1>10, Zenon DEF AwsState, b

LEMMA StepEvents == IInv /\ EventsParsed /\ [Next]_vars => EventsParsed'
<1> SUFFICES ASSUME IInv, EventsParsed, [Next]_vars, mode' = "AwsEventStream"
             PROVE  AwsState(parser', input'.body, Taken') /\ Done(parser')
  BY DEF EventsParsed
<1>1. CASE UNCHANGED vars
  BY <1>1 DEF vars, EventsParsed, Taken
<1>2. CASE Finish
  BY <1>2 DEF Finish, EventsParsed, Taken
<1>3. CASE \E n \in 1..MaxPiece : Push(n)
  <2>1. PICK n \in 1..MaxPiece : Push(n)
    BY <1>3
  <2>2. CASE PushAwsEventStream(n)
    <3> DEFINE b == input.body
               k == Taken
    <3>1. /\ b \in Text /\ Len(b) \in Nat /\ k \in 0..Len(b)
          /\ rest = SubSeq(b, k + 1, Len(b))
      BY BodyType DEF IInv, Cursor, Text
    <3>2. Taken' = k + n /\ k + n <= Len(b) /\ input' = input /\ n \in Nat
      BY <2>1, PushCursor, CollectorAssumption DEF IInv, Push
    <3>3. AwsState(parser, b, k) /\ parser' = AwsPush(parser, Piece(n))
      BY <2>2 DEF EventsParsed, PushAwsEventStream
    <3> HIDE DEF b, k
    <3>4. Piece(n) = SubSeq(b, k + 1, k + n)
      <4>1. /\ 0 \in 0..(Len(b) - k) /\ n \in 0..(Len(b) - k) /\ 0 + 1 = 1
            /\ (k + 0) + 1 = k + 1 /\ Len(b) \in 0..Len(b) /\ k \in 0..Len(b)
        BY <3>1, <3>2
      <4>2. SubSeq(SubSeq(b, k + 1, Len(b)), 0 + 1, n) = SubSeq(b, (k + 0) + 1, k + n)
        BY <3>1, <4>1, SliceOfSlice
      <4> QED
        BY <3>1, <4>1, <4>2 DEF Piece
    <3>5. AwsState(parser', b, k + n) /\ Done(parser')
      BY <3>1, <3>2, <3>3, <3>4, AwsPushKeeps
    <3> QED
      BY <3>2, <3>5 DEF b
  <2>3. CASE PushStreaming(n) \/ PushSniffing(n) \/ PushAbsent
    BY <2>3 DEF PushStreaming, PushSniffing, PushAbsent
  <2> QED
    BY <2>1, <2>2, <2>3 DEF Push
<1> QED
  BY <1>1, <1>2, <1>3 DEF Next

LEMMA InvEvents == IInv /\ EventsParsed => EventStreamExact
<1> DEFINE b == input.body
           framings == {t \in SUBSET Words(b) : Framing(b, t)}
<1> SUFFICES ASSUME IInv, EventsParsed, finished, NewMode(input) = "AwsEventStream"
             PROVE  IF framings = {} THEN claims = NoView
                    ELSE \E t \in framings : claims = Aggregate(Said(b, t))
  BY Zenon DEF EventStreamExact, Words
<1>1. mode = "AwsEventStream" /\ claims = FinishView /\ rest = <<>>
  BY DEF IInv, Modes, Outcome
<1>2. b \in Text /\ Len(b) \in Nat /\ Taken = Len(b)
  <2>1. Len(rest) = 0
    BY <1>1
  <2> QED
    BY <2>1, BodyType DEF IInv, Text, Taken
<1>3. PICK s, c : AwsAt(parser, b, Len(b), s, c)
  BY <1>1, <1>2 DEF EventsParsed, AwsState
<1>4. claims = IF AwsFinish(parser).failed THEN NoView ELSE AwsFinish(parser).view
  BY <1>1, Zenon DEF FinishView
<1>5. IsParser(parser) /\ Frames(b, s, c) /\ Done(parser)
  BY <1>1, <1>3 DEF AwsAt, EventsParsed
<1>6. \A t \in framings : t \in Starts(b) /\ Framing(b, t)
  BY DEF Words, Starts
<1>7. CASE parser.failed \/ parser.pending # <<>>
  <2>1. AwsFinish(parser).failed
    <3>1. AwsFinish(parser) = IF parser.pending = <<>> THEN parser ELSE Fail(parser)
      BY Zenon DEF AwsFinish
    <3>2. Fail(parser).failed
      BY <1>5, FailType
    <3> QED
      BY <1>7, <3>1, <3>2
  <2>2. c # Len(b) /\ ~MessageAt(b, c)
    BY <1>2, <1>3, <1>5, <1>7, DoneStops
  <2>3. framings = {}
    <3> SUFFICES ASSUME NEW t \in framings PROVE FALSE
      OBVIOUS
    <3>1. t \in Starts(b) /\ Framing(b, t)
      BY <1>6
    <3> HIDE DEF framings, b
    <3> QED
      BY <1>2, <1>5, <2>2, <3>1, FramesStop
  <2> QED
    BY <1>4, <2>1, <2>3, Zenon
<1>8. CASE ~parser.failed /\ parser.pending = <<>>
  <2> HIDE DEF b
  <2>1. AwsFinish(parser) = parser
    BY <1>8, Zenon DEF AwsFinish
  <2>2. c = Len(b)
    <3>1. parser.pending = SubSeq(b, c + 1, Len(b)) /\ c \in 0..Len(b)
      BY <1>3, <1>8 DEF AwsAt, Frames
    <3>2. Len(parser.pending) = Len(b) - c
      BY <1>2, <3>1, HeadOfSlice
    <3>3. Len(parser.pending) = 0
      BY <1>8
    <3> QED
      BY <1>2, <3>1, <3>2, <3>3
  <2>3. Framing(b, s) /\ s \in SUBSET Words(b)
    BY <1>2, <1>5, <2>2, FramesAll
  <2>4. s \in framings
    BY <2>3
  <2>5. claims = Aggregate(SaidTo(b, s, Len(b)))
    <3>1. parser.view = Aggregate(SaidTo(b, s, c))
      BY <1>3 DEF AwsAt
    <3> QED
      BY <1>4, <1>8, <2>1, <2>2, <3>1, Zenon
  <2>6. SaidTo(b, s, Len(b)) = Said(b, s)
    BY Zenon DEF SaidTo, Said, SaidItem
  <2> QED
    BY <2>4, <2>5, <2>6, Zenon
<1> QED
  BY <1>5, <1>7, <1>8 DEF IsParser

\* A Bedrock event stream is claimed exactly when it is a concatenation of whole
\* messages with JSON payloads, and the claims are about these payloads in their
\* order, for every body and every way to cut it (main.rs:984-1050).
THEOREM EventStreamCorrect == Spec => []EventStreamExact
  BY InitEvents, StepEvents, InvCorrect, InvEvents, PTL DEF Spec

-----------------------------------------------------------------------------
(* Types.  A view has finitely many slots: the number of them is where a    *)
(* choice without index goes.                                               *)

IsSlots(v) == IsView(v) /\ IsFiniteSet(DOMAIN v)

LEMMA ChunkType ==
    /\ \A c \in Chunks : Chunk[c].index \in Int /\ Chunk[c].text \in Texts /\ c \in Texts
    /\ "e" \in Texts /\ "json" \in Texts
<1>1. \A c \in Chunks : Chunk[c].index \in Int
  BY DEF Chunks, Chunk
<1> QED
  BY <1>1 DEF Texts

LEMMA NotError == "ve" \notin Chunks
  BY DEF Chunks, Chunk

LEMMA InsertType ==
    ASSUME NEW v, IsSlots(v), NEW i \in Int, NEW t \in Seq(Texts)
    PROVE  IsSlots(Insert(v, i, t))
<1>1. DOMAIN Insert(v, i, t) = DOMAIN v \cup {i}
  BY DEF Insert
<1>2. \A j \in DOMAIN v \cup {i} : Insert(v, i, t)[j] = IF j = i THEN t ELSE v[j]
  BY DEF Insert
<1>3. IsFiniteSet(DOMAIN v \cup {i})
  BY FS_AddElement DEF IsSlots
<1> HIDE DEF Insert
<1> QED
  BY <1>1, <1>2, <1>3 DEF IsSlots, IsView

LEMMA NoViewType == IsSlots(NoView)
<1>1. DOMAIN NoView = {}
  BY DEF NoView
<1> QED
  BY <1>1, FS_EmptySet DEF IsSlots, IsView

LEMMA ApplyType ==
    ASSUME NEW v, IsSlots(v), NEW x
    PROVE  IsSlots(Apply(v, x))
<1> DEFINE n == Cardinality(Slots(v))
           i == IF Chunk[x].index = -1 THEN n ELSE Chunk[x].index
           old == IF i \in DOMAIN v THEN v[i] ELSE <<>>
           new == Append(old, Chunk[x].text)
<1>1. Apply(v, x) = CASE x \in Chunks -> Insert(v, i, new)
                      [] x = "ve" -> Insert(v, ErrorSlot, <<"e">>)
                      [] OTHER -> v
  BY Zenon DEF Apply, ApplyAt
<1>2. CASE x \in Chunks /\ x # "ve"
  <2>1. n \in Nat
    <3>1. IsFiniteSet(Slots(v))
      BY FS_Subset DEF IsSlots, Slots
    <3> QED
      BY <3>1, FS_CardinalityType
  <2> HIDE DEF n
  <2>2. i \in Int
    BY <1>2, <2>1, ChunkType
  <2> HIDE DEF i
  <2>3. old \in Seq(Texts)
    BY EmptySeq DEF IsSlots, IsView
  <2> HIDE DEF old
  <2>4. new \in Seq(Texts)
    BY <1>2, <2>3, ChunkType, AppendProperties
  <2> HIDE DEF new
  <2>5. Apply(v, x) = Insert(v, i, new)
    BY <1>1, <1>2, Zenon
  <2> QED
    BY <2>2, <2>4, <2>5, InsertType
<1>3. CASE x \notin Chunks /\ x = "ve"
  <2>1. Apply(v, x) = Insert(v, ErrorSlot, <<"e">>)
    BY <1>1, <1>3, Zenon
  <2>2. ErrorSlot \in Int /\ <<"e">> \in Seq(Texts)
    BY ChunkType DEF ErrorSlot
  <2> QED
    BY <2>1, <2>2, InsertType
<1>4. CASE x \notin Chunks /\ x # "ve"
  <2>1. Apply(v, x) = v
    BY <1>1, <1>4, Zenon
  <2> QED
    BY <2>1
<1> QED
  BY <1>2, <1>3, <1>4, NotError, Zenon

LEMMA AggregateType ==
    ASSUME NEW items \in Seq(JsonItems)
    PROVE  IsSlots(Aggregate(items))
<1> DEFINE S == {u \in Seq(JsonItems) : IsSlots(Aggregate(u))}
<1>1. <<>> \in S
  <2>1. Aggregate(<<>>) = NoView
    BY Aggregating!FoldEmpty, AggregateIsFold, Zenon
  <2> QED
    BY <2>1, NoViewType, EmptySeq
<1>2. ASSUME NEW u \in Seq(JsonItems), NEW x \in JsonItems, u \in S
      PROVE  Append(u, x) \in S
  <2>1. Aggregate(Append(u, x)) = Apply(Aggregate(u), x)
    BY AggregateAppend
  <2>2. IsSlots(Aggregate(u))
    BY <1>2
  <2>3. Append(u, x) \in Seq(JsonItems)
    BY AppendProperties
  <2> QED
    BY <2>1, <2>2, <2>3, ApplyType
<1> HIDE DEF S
<1>3. items \in S
  BY <1>1, <1>2, Aggregating!SeqSet
<1> QED
  BY <1>3 DEF S

LEMMA ParseType ==
    ASSUME NEW s \in Text
    PROVE  ParseSseData(s) \in Seq(JsonItems)
<1> DEFINE x == DropEachCr(Split(s).lines)
           r == Split(s).rest
           last == IF r = <<>> THEN <<>> ELSE <<r>>
<1>1. x \in Seq(CrTexts) /\ r \in CrTexts
  BY SplitType, DropEachCrConcat DEF CrTexts
<1>2. Lines(s) = x \o last
  BY Zenon DEF Lines, Split
<1> HIDE DEF x, r
<1>3. last \in Seq(CrTexts)
  BY <1>1, EmptySeq
<1> HIDE DEF last
<1>4. Lines(s) \in Seq(CrTexts)
  BY <1>1, <1>2, <1>3, ConcatProperties
<1>5. IsAcc(ItemsOf(Lines(s)))
  BY <1>4, NewAcc, LinesAlike DEF ItemsOf
<1>6. IsAcc(FlushItems(ItemsOf(Lines(s))))
  BY <1>5, FlushAlike
<1> QED
  BY <1>6, ParseIsFold DEF IsAcc

LEMMA FieldViewType ==
    ASSUME NEW s \in Text
    PROVE  IsView(FieldViewOf(s))
<1>1. CASE LooksLikeSse(s)
  <2>1. FieldViewOf(s) = Aggregate(ParseSseData(s))
    BY <1>1, Zenon DEF FieldViewOf
  <2> QED
    BY <2>1, ParseType, AggregateType DEF IsSlots
<1>2. CASE ~LooksLikeSse(s)
  <2> DEFINE j == Json(s)
  <2>1. FieldViewOf(s) = PickJson(j)
    BY <1>2, Zenon DEF FieldViewOf
  <2> HIDE DEF j
  <2>2. PickJson(j) = CASE j \in Chunks -> Insert(NoView, 0, <<"json", j>>)
                        [] j = "ve" -> Insert(NoView, ErrorSlot, <<"e">>)
                        [] OTHER -> NoView
    BY Zenon DEF PickJson
  <2>3. CASE j \in Chunks /\ j # "ve"
    <3>1. PickJson(j) = Insert(NoView, 0, <<"json", j>>)
      BY <2>2, <2>3, Zenon
    <3>2. <<"json", j>> \in Seq(Texts) /\ 0 \in Int
      BY <2>3, ChunkType
    <3> QED
      BY <2>1, <3>1, <3>2, NoViewType, InsertType DEF IsSlots
  <2>4. CASE j \notin Chunks /\ j = "ve"
    <3>1. PickJson(j) = Insert(NoView, ErrorSlot, <<"e">>)
      BY <2>2, <2>4, Zenon
    <3>2. ErrorSlot \in Int /\ <<"e">> \in Seq(Texts)
      BY ChunkType DEF ErrorSlot
    <3> QED
      BY <2>1, <3>1, <3>2, NoViewType, InsertType DEF IsSlots
  <2>5. CASE j \notin Chunks /\ j # "ve"
    <3>1. PickJson(j) = NoView
      BY <2>2, <2>5, Zenon
    <3> QED
      BY <2>1, <3>1, NoViewType DEF IsSlots
  <2> QED
    BY <2>3, <2>4, <2>5, NotError, Zenon
<1> QED
  BY <1>1, <1>2

-----------------------------------------------------------------------------
(* Symbols.                                                                 *)

SymbolStrings == Symbols \cap STRING
SymbolText == Seq(SymbolStrings)

LEMMA SymbolTextIs ==
    /\ \A s : s \in SymbolText <=> s \in Text /\ s \in Seq(Symbols)
    /\ \A s \in SymbolText, t \in SymbolText : s \o t \in SymbolText
    /\ <<>> \in SymbolText
<1>1. ASSUME NEW A, NEW B
      PROVE  /\ \A s : s \in Seq(A \cap B) <=> s \in Seq(B) /\ s \in Seq(A)
             /\ \A s \in Seq(A \cap B), t \in Seq(A \cap B) : s \o t \in Seq(A \cap B)
             /\ <<>> \in Seq(A \cap B)
  <2>1. ASSUME NEW s \in Seq(A), s \in Seq(B)
        PROVE  s \in Seq(A \cap B)
    <3>1. \A i \in 1..Len(s) : s[i] \in A \cap B
      BY <2>1
    <3> QED
      BY <3>1
  <2>2. ASSUME NEW s \in Seq(A \cap B)
        PROVE  s \in Seq(A) /\ s \in Seq(B)
    OBVIOUS
  <2> QED
    BY <2>1, <2>2, EmptySeq, ConcatProperties
<1> QED
  BY <1>1, Zenon DEF SymbolText, SymbolStrings, Text

LEMMA SymbolSlice ==
    ASSUME NEW s \in SymbolText, NEW k \in 0..Len(s), NEW j \in 0..k
    PROVE  SubSeq(s, j + 1, k) \in SymbolText
<1>1. ASSUME NEW D, NEW t \in Seq(D), NEW l \in 0..Len(t), NEW i \in 0..l
      PROVE  SubSeq(t, i + 1, l) \in Seq(D)
  BY <1>1, SubSeqProperties
<1> QED
  BY <1>1, Zenon DEF SymbolText

LEMMA SymbolWindow ==
    ASSUME NEW s \in SymbolText
    PROVE  /\ Window(s, MAX_FIELD_CLAIMS_CAPTURE) \in SymbolText
           /\ Len(Window(s, MAX_FIELD_CLAIMS_CAPTURE)) <= MAX_FIELD_CLAIMS_CAPTURE
<1> DEFINE C == MAX_FIELD_CLAIMS_CAPTURE
           k == IF Len(s) < C THEN Len(s) ELSE C
<1>1. s \in Seq(STRING)
  BY SymbolTextIs, Zenon DEF Text
<1>2. C \in Nat /\ Len(s) \in Nat
  BY <1>1, CollectorAssumption
<1>3. k \in 0..Len(s) /\ 0 \in 0..k /\ k <= C /\ 0 + 1 = 1
  BY <1>2
<1>4. Window(s, C) = SubSeq(s, 1, k)
  BY Zenon DEF Window
<1> HIDE DEF k
<1>5. SubSeq(s, 0 + 1, k) \in SymbolText
  BY <1>3, SymbolSlice
<1>6. Len(SubSeq(s, 1, k)) = k
  BY <1>1, <1>3, PrefixProperties
<1> QED
  BY <1>3, <1>4, <1>5, <1>6

\* What a line starts with is made of the symbols of the text.
LEMMA SplitRestIn ==
    ASSUME NEW s \in SymbolText
    PROVE  Split(s).rest \in SymbolText
<1> DEFINE F(u) == Splitting!Fold(NewSplit, u)
           S == {u \in SymbolText : F(u).rest \in SymbolText}
<1>1. <<>> \in S
  <2>1. F(<<>>).rest = <<>>
    BY Splitting!FoldEmpty DEF NewSplit
  <2> QED
    BY <2>1, SymbolTextIs
<1>2. ASSUME NEW u \in Seq(SymbolStrings), NEW x \in SymbolStrings, u \in S
      PROVE  Append(u, x) \in S
  <2>1. /\ Append(u, x) \in SymbolText /\ u \in Text /\ x \in STRING
        /\ \A t \in SymbolText : Append(t, x) \in SymbolText
    <3>1. \A t \in SymbolText : Append(t, x) \in SymbolText
      BY AppendProperties DEF SymbolText
    <3>2. u \in SymbolText /\ x \in STRING
      BY Zenon DEF SymbolText, SymbolStrings
    <3>3. u \in Text
      BY <3>2, SymbolTextIs, Zenon
    <3> QED
      BY <3>1, <3>2, <3>3
  <2>2. F(Append(u, x)) = SplitStep(F(u), x)
    BY Splitting!FoldAppend
  <2>3. F(u).rest \in SymbolText
    BY <1>2
  <2>4. F(u) \in Splits
    BY <2>1, SplitType, SplitIsFold
  <2> HIDE DEF F
  <2>5. SplitStep(F(u), x).rest \in {<<>>, Append(F(u).rest, x)}
    <3>1. \/ SplitStep(F(u), x) = [lines |-> Append(F(u).lines, F(u).rest), rest |-> <<>>]
          \/ SplitStep(F(u), x) = [lines |-> F(u).lines, rest |-> Append(F(u).rest, x)]
      BY <2>1, <2>4, SplitStepType
    <3> QED
      BY <3>1
  <2>6. SplitStep(F(u), x).rest \in SymbolText
    BY <2>1, <2>3, <2>5, SymbolTextIs
  <2> QED
    BY <2>1, <2>2, <2>6
<1> HIDE DEF S
<1>3. s \in S
  BY <1>1, <1>2, Splitting!SeqSet DEF SymbolText
<1>4. F(s).rest \in SymbolText
  BY <1>3 DEF S
<1> QED
  BY <1>4, SplitIsFold

\* What is left of a sequence from some point on is a suffix of it.
LEMMA SliceIsSuffix ==
    ASSUME NEW b \in Seq(STRING), NEW k \in 0..Len(b)
    PROVE  IsSuffix(SubSeq(b, k + 1, Len(b)), b)
<1> DEFINE s == SubSeq(b, k + 1, Len(b))
           m == Len(s)
           n == Len(b)
           p == Reverse(s)
           q == Reverse(b)
<1>1. n \in Nat /\ k \in Nat /\ n \in 0..n /\ k <= n
  BY LenProperties
<1>2. /\ s \in Seq(STRING) /\ Len(s) = n - k
      /\ \A i \in 1..(n - k) : s[i] = b[k + i]
  BY <1>1, SliceProperties
<1>3. m = n - k /\ m \in Nat /\ m <= n
  BY <1>1, <1>2
<1>4. ASSUME NEW t \in Seq(STRING)
      PROVE  /\ Reverse(t) \in Seq(STRING) /\ Len(Reverse(t)) = Len(t)
             /\ \A i \in 1..Len(t) : Reverse(t)[i] = t[(Len(t) - i) + 1]
  <2>1. Len(t) \in Nat
    BY LenProperties
  <2>2. \A i \in 1..Len(t) : (Len(t) - i) + 1 \in 1..Len(t)
    BY <2>1
  <2>3. \A i \in 1..Len(t) : t[(Len(t) - i) + 1] \in STRING
    BY <2>2, ElementOfSeq
  <2> QED
    BY <2>1, <2>3 DEF Reverse
<1>5. /\ p \in Seq(STRING) /\ Len(p) = m /\ \A i \in 1..m : p[i] = s[(m - i) + 1]
      /\ q \in Seq(STRING) /\ Len(q) = n /\ \A i \in 1..n : q[i] = b[(n - i) + 1]
  BY <1>2, <1>4
<1> HIDE DEF s, m, n, p, q
<1>6. ASSUME NEW i \in 1..m PROVE p[i] = q[i]
  <2>1. /\ (m - i) + 1 \in 1..(n - k) /\ k + ((m - i) + 1) = (n - i) + 1
        /\ i \in 1..n
    BY <1>1, <1>3
  <2>2. p[i] = b[k + ((m - i) + 1)]
    BY <1>2, <1>5, <2>1
  <2> QED
    BY <1>5, <2>1, <2>2
<1>7. SubSeq(p, 1, m) = SubSeq(q, 1, m)
  <2> DEFINE x == SubSeq(p, 1, m)
             y == SubSeq(q, 1, m)
  <2>1. m \in 0..Len(p) /\ m \in 0..Len(q)
    BY <1>1, <1>3, <1>5
  <2>2. /\ x \in Seq(STRING) /\ Len(x) = m /\ \A i \in 1..m : x[i] = p[i]
        /\ y \in Seq(STRING) /\ Len(y) = m /\ \A i \in 1..m : y[i] = q[i]
    BY <1>5, <2>1, PrefixProperties
  <2> HIDE DEF x, y
  <2>3. \A i \in 1..m : x[i] = y[i]
    BY <1>6, <2>2
  <2>4. x = y
    BY <2>2, <2>3, SeqEqual
  <2> QED
    BY <2>4 DEF x, y
<1>8. IsPrefix(p, q)
  BY <1>3, <1>5, <1>7 DEF IsPrefix
<1> QED
  BY <1>8, Zenon DEF IsSuffix, p, q, s, n

-----------------------------------------------------------------------------
(* What the variables are.                                                  *)

\* What Inputs has beyond its assumption: bodies of the symbols of the model.
Bodies == \A in \in Inputs : in.body \in Seq(Symbols)

\* Each variant has its own state, and a parser that of a text of symbols: the part
\* of the body it was fed.
Variant ==
    /\ truncated \in BOOLEAN /\ finished \in BOOLEAN
    /\ mode \in {"Streaming", "AwsEventStream", "Sniffing", "absent"}
    /\ mode # "Sniffing" => body = <<>>
    /\ mode \in {"Sniffing", "absent"} => parser = NewParser
    /\ mode = "Streaming" => \E s \in SymbolText : parser = Parsed(s)
    /\ ~finished => claims = NoView

LEMMA BodySymbols ==
    ASSUME Bodies, Cursor
    PROVE  input.body \in SymbolText /\ Pushed \in SymbolText /\ rest \in SymbolText
<1>1. input.body \in SymbolText
  BY SymbolTextIs, InputsAssumption, Zenon DEF Bodies, Cursor, Text
<1> DEFINE b == input.body
           k == Taken
<1>2. /\ k \in 0..Len(b) /\ 0 \in 0..k /\ 0 + 1 = 1 /\ Len(b) \in 0..Len(b)
      /\ k \in 0..Len(b)
  BY BodyType
<1>3. Pushed = SubSeq(b, 1, k) /\ rest = SubSeq(b, k + 1, Len(b))
  BY DEF Pushed, Cursor
<1>4. b \in SymbolText
  BY <1>1
<1> HIDE DEF b, k
<1>5. SubSeq(b, 0 + 1, k) \in SymbolText /\ SubSeq(b, k + 1, Len(b)) \in SymbolText
  BY <1>2, <1>4, SymbolSlice
<1> QED
  BY <1>1, <1>2, <1>3, <1>5

LEMMA InitVariant == Init => Variant
<1> SUFFICES ASSUME Init PROVE Variant
  OBVIOUS
<1>1. \E s \in SymbolText : parser = Parsed(s)
  BY ParsedEmpty, SymbolTextIs DEF Init
<1>2. NewMode(input) \in {"Streaming", "AwsEventStream", "Sniffing", "absent"}
  <2>1. \/ NewMode(input) = "Streaming" \/ NewMode(input) = "Sniffing"
        \/ NewMode(input) = "absent" \/ NewMode(input) = "AwsEventStream"
    BY Zenon DEF NewMode
  <2> QED
    BY <2>1
<1> QED
  BY <1>1, <1>2 DEF Init, Variant

LEMMA StepVariant ==
    ASSUME Bodies
    PROVE  IInv /\ Variant /\ [Next]_vars => Variant'
<1> SUFFICES ASSUME IInv, Variant, [Next]_vars PROVE Variant'
  OBVIOUS
<1>1. CASE UNCHANGED vars
  BY <1>1 DEF vars, Variant
<1>2. CASE Finish
  BY <1>2 DEF Finish, Variant
<1>3. CASE \E n \in 1..MaxPiece : Push(n)
  <2>1. PICK n \in 1..MaxPiece : Push(n)
    BY <1>3
  <2>2. finished' = finished /\ claims' = claims
    BY <2>1 DEF Push
  <2>3. CASE PushStreaming(n)
    <3>1. PICK s \in SymbolText : parser = Parsed(s)
      BY <2>3 DEF Variant, PushStreaming
    <3>2. parser' = SsePush(Parsed(s), Piece(n)) /\ UNCHANGED <<mode, body, truncated>>
      BY <2>3, <3>1 DEF PushStreaming
    <3>3. Piece(n) \in SymbolText
      <4>1. rest \in SymbolText
        BY BodySymbols DEF IInv
      <4>2. n \in 0..Len(rest) /\ 0 \in 0..n /\ 0 + 1 = 1
        BY <2>1, CollectorAssumption DEF Push, IInv, Cursor
      <4>3. SubSeq(rest, 0 + 1, n) \in SymbolText
        BY <4>1, <4>2, SymbolSlice
      <4> QED
        BY <4>2, <4>3 DEF Piece
    <3>4. s \in Text /\ Piece(n) \in Text /\ s \o Piece(n) \in SymbolText
      BY <3>3, SymbolTextIs, Zenon
    <3>5. parser' = Parsed(s \o Piece(n))
      BY <3>2, <3>4, PushPiece, Zenon
    <3>6. \E t \in SymbolText : parser' = Parsed(t)
      BY <3>4, <3>5, Zenon
    <3> QED
      BY <2>2, <2>3, <3>2, <3>6 DEF Variant, PushStreaming
  <2>4. CASE PushSniffing(n)
    <3> DEFINE captured == IF truncated THEN body
                           ELSE Window(body \o Piece(n), MAX_FIELD_CLAIMS_CAPTURE)
    <3>1. mode = "Sniffing"
      BY <2>4 DEF PushSniffing
    <3>2. captured \in SymbolText
      <4>1. captured = Window(Pushed', MAX_FIELD_CLAIMS_CAPTURE)
        BY <2>1, <3>1, PushCaptured DEF IInv
      <4>2. Pushed' \in SymbolText
        <5>1. Cursor' /\ input' = input
          BY <2>1, PushCursor DEF IInv, Push
        <5>2. input.body \in SymbolText
          BY BodySymbols DEF IInv
        <5>3. Taken' \in 0..Len(input.body) /\ 0 \in 0..Taken' /\ 0 + 1 = 1
          <6>1. Taken' = Taken + n /\ Taken + n <= Len(input.body)
            BY <2>1, PushCursor DEF IInv
          <6>2. Taken \in Nat /\ n \in Nat /\ Len(input.body) \in Nat
            BY BodyType, CollectorAssumption DEF IInv
          <6> QED
            BY <6>1, <6>2
        <5>4. Pushed' = SubSeq(input.body, 1, Taken')
          BY <5>1 DEF Pushed
        <5>5. SubSeq(input.body, 0 + 1, Taken') \in SymbolText
          BY <5>2, <5>3, SymbolSlice
        <5> QED
          BY <5>3, <5>4, <5>5
      <4> HIDE DEF captured
      <4> QED
        BY <4>1, <4>2, SymbolWindow
    <3>3. CASE BodyPrefixIndicatesSse(captured)
      <4>1. /\ mode' = "Streaming" /\ parser' = SsePush(NewParser, captured)
            /\ body' = <<>> /\ truncated' = FALSE
        BY <2>4, <3>3 DEF PushSniffing
      <4> HIDE DEF captured
      <4>2. parser' = Parsed(captured)
        BY <3>2, <4>1, SymbolTextIs, PushWhole, Zenon
      <4>3. \E t \in SymbolText : parser' = Parsed(t)
        BY <3>2, <4>2, Zenon
      <4> QED
        BY <2>2, <4>1, <4>3 DEF Variant
    <3>4. CASE ~BodyPrefixIndicatesSse(captured)
      <4>1. /\ mode' = "Sniffing" /\ parser' = parser
            /\ truncated' = (truncated \/ Len(body) + n > MAX_FIELD_CLAIMS_CAPTURE)
        BY <2>4, <3>1, <3>4 DEF PushSniffing
      <4> QED
        BY <2>2, <3>1, <4>1 DEF Variant
    <3> QED
      BY <3>3, <3>4
  <2>5. CASE PushAwsEventStream(n)
    BY <2>2, <2>5 DEF PushAwsEventStream, Variant
  <2>6. CASE PushAbsent
    BY <2>2, <2>6 DEF PushAbsent, Variant
  <2> QED
    BY <2>1, <2>3, <2>4, <2>5, <2>6 DEF Push
<1> QED
  BY <1>1, <1>2, <1>3 DEF Next

\* A parser in each of the variants.
ParserType ==
    /\ parser.pending \in Seq(Symbols)
    /\ mode = "Streaming" => ~Contains(parser.pending, "nl")
    /\ parser.failed => parser.pending = <<>>
    /\ IsView(parser.view)

LEMMA ParserTyped ==
    ASSUME Bodies, IInv, Variant, EventsParsed
    PROVE  ParserType
<1>1. CASE mode = "Streaming"
  <2>1. PICK s \in SymbolText : parser = Parsed(s)
    BY <1>1 DEF Variant
  <2>2. s \in Text /\ Split(s).rest \in Seq(Symbols)
    BY SymbolTextIs, SplitRestIn, Zenon
  <2>3. NoNewline(Split(s).rest) /\ IsAcc(AccOf(s))
    BY <2>2, SplitType, AccOfIsAcc
  <2>4. /\ parser.pending = Split(s).rest /\ ~parser.failed
        /\ parser.view = Aggregate(AccOf(s).items)
    BY <2>1 DEF Parsed, ParserOf
  <2>5. IsView(parser.view)
    <3>1. AccOf(s).items \in Seq(JsonItems)
      BY <2>3 DEF IsAcc
    <3>2. IsSlots(Aggregate(AccOf(s).items))
      BY <3>1, AggregateType
    <3> QED
      BY <2>4, <3>2, Zenon DEF IsSlots
  <2>6. ~Contains(parser.pending, "nl")
    BY <2>3, <2>4, Zenon DEF Contains, NoNewline
  <2> QED
    BY <2>2, <2>4, <2>5, <2>6, Zenon DEF ParserType
<1>2. CASE mode = "AwsEventStream"
  <2> DEFINE b == input.body
             k == Taken
  <2>1. PICK s, c : AwsAt(parser, b, k, s, c)
    BY <1>2 DEF EventsParsed, AwsState
  <2>2. b \in SymbolText /\ k \in 0..Len(b)
    BY BodySymbols, BodyType DEF IInv
  <2> HIDE DEF b, k
  <2>3. c \in 0..k /\ c \in Nat
    BY <2>1, <2>2 DEF AwsAt, Frames
  <2>4. /\ parser.failed \in BOOLEAN
        /\ parser.failed => parser.pending = <<>>
        /\ ~parser.failed => parser.pending = SubSeq(b, c + 1, k)
        /\ parser.view = Aggregate(SaidTo(b, s, c))
    BY <2>1 DEF AwsAt, IsParser
  <2>5. parser.pending \in SymbolText
    BY <2>2, <2>3, <2>4, SymbolSlice, SymbolTextIs
  <2>6. parser.pending \in Seq(Symbols)
    BY <2>5, SymbolTextIs, Zenon
  <2>7. IsView(parser.view)
    <3>1. SaidTo(b, s, c) \in Seq(JsonItems)
      BY <2>3, SaidAppend
    <3>2. IsSlots(Aggregate(SaidTo(b, s, c)))
      BY <3>1, AggregateType
    <3> QED
      BY <2>4, <3>2, Zenon DEF IsSlots
  <2>8. mode # "Streaming"
    BY <1>2
  <2> QED
    BY <2>4, <2>6, <2>7, <2>8, Zenon DEF ParserType
<1>3. CASE mode \in {"Sniffing", "absent"}
  <2>1. parser.pending = <<>> /\ ~parser.failed /\ parser.view = NoView
    BY <1>3 DEF Variant, NewParser
  <2>2. IsView(NoView) /\ <<>> \in Seq(Symbols) /\ mode # "Streaming"
    BY <1>3, NoViewType, EmptySeq DEF IsSlots
  <2> QED
    BY <2>1, <2>2, Zenon DEF ParserType
<1> QED
  BY <1>1, <1>2, <1>3 DEF Variant

LEMMA ClaimsTyped ==
    ASSUME Bodies, IInv, Variant, EventsParsed
    PROVE  IsView(claims)
<1>0. IsView(NoView)
  BY NoViewType DEF IsSlots
<1>1. CASE ~finished
  BY <1>0, <1>1 DEF Variant
<1>2. CASE finished
  <2>1. claims = FinishView
    BY <1>2 DEF IInv, Outcome
  <2>2. CASE mode = "Streaming"
    <3>1. PICK s \in SymbolText : parser = Parsed(s)
      BY <2>2 DEF Variant
    <3>2. s \in Text
      BY SymbolTextIs, Zenon
    <3>3. claims = SseFinish(Parsed(s)).view
      BY <2>1, <2>2, <3>1, Zenon DEF FinishView
    <3>4. claims = Aggregate(ParseSseData(s))
      BY <3>2, <3>3, FinishWhole
    <3> QED
      BY <3>2, <3>4, ParseType, AggregateType DEF IsSlots
  <2>3. CASE mode = "AwsEventStream"
    <3>1. claims = IF AwsFinish(parser).failed THEN NoView ELSE AwsFinish(parser).view
      BY <2>1, <2>3, Zenon DEF FinishView
    <3>2. AwsFinish(parser) = IF parser.pending = <<>> THEN parser ELSE Fail(parser)
      BY Zenon DEF AwsFinish
    <3>3. IsParser(parser)
      BY <2>3 DEF EventsParsed, AwsState, AwsAt
    <3>4. Fail(parser).failed
      BY <3>3, FailType
    <3>5. IsView(parser.view)
      BY ParserTyped DEF ParserType
    <3> QED
      BY <1>0, <3>1, <3>2, <3>4, <3>5, Zenon
  <2>4. CASE mode = "Sniffing"
    <3>1. claims = IF truncated THEN NoView ELSE FieldViewOf(body)
      BY <2>1, <2>4, Zenon DEF FinishView
    <3>2. body = Window(Pushed, MAX_FIELD_CLAIMS_CAPTURE) /\ Pushed \in SymbolText
      BY <2>4, BodySymbols DEF IInv, Captured
    <3>3. body \in SymbolText
      BY <3>2, SymbolWindow
    <3>4. body \in Text
      BY <3>3, SymbolTextIs, Zenon
    <3>5. IsView(FieldViewOf(body))
      BY <3>4, FieldViewType
    <3> QED
      BY <1>0, <3>1, <3>5, Zenon
  <2>5. CASE mode = "absent"
    <3>1. claims = NoView
      BY <2>1, <2>5, Zenon DEF FinishView
    <3> QED
      BY <1>0, <3>1
  <2> QED
    BY <2>2, <2>3, <2>4, <2>5 DEF Variant
<1> QED
  BY <1>1, <1>2

LEMMA InvTyped ==
    ASSUME Bodies
    PROVE  IInv /\ Variant /\ EventsParsed => TypeOK
<1> SUFFICES ASSUME IInv, Variant, EventsParsed PROVE TypeOK
  OBVIOUS
<1>1. input.body \in Seq(Symbols) /\ IsSuffix(rest, input.body)
  <2>1. input.body \in SymbolText /\ Taken \in 0..Len(input.body)
    BY BodySymbols, BodyType DEF IInv
  <2>2. input.body \in Seq(STRING) /\ input.body \in Seq(Symbols)
    BY <2>1, SymbolTextIs, Zenon DEF Text
  <2>3. IsSuffix(SubSeq(input.body, Taken + 1, Len(input.body)), input.body)
    BY <2>1, <2>2, SliceIsSuffix
  <2>4. rest = SubSeq(input.body, Taken + 1, Len(input.body))
    BY DEF IInv, Cursor
  <2> QED
    BY <2>2, <2>3, <2>4, Zenon
<1>2. body \in Seq(Symbols) /\ Len(body) <= MAX_FIELD_CLAIMS_CAPTURE
  <2>1. CASE mode = "Sniffing"
    <3>1. body = Window(Pushed, MAX_FIELD_CLAIMS_CAPTURE) /\ Pushed \in SymbolText
      BY <2>1, BodySymbols DEF IInv, Captured
    <3>2. body \in SymbolText /\ Len(body) <= MAX_FIELD_CLAIMS_CAPTURE
      BY <3>1, SymbolWindow
    <3>3. body \in Seq(Symbols)
      BY <3>2, SymbolTextIs, Zenon
    <3> QED
      BY <3>2, <3>3
  <2>2. CASE mode # "Sniffing"
    BY <2>2, EmptySeq, CollectorAssumption DEF Variant
  <2> QED
    BY <2>1, <2>2
<1>3. ParserType /\ IsView(claims)
  BY ParserTyped, ClaimsTyped
<1>4. /\ mode \in {"Streaming", "AwsEventStream", "Sniffing", "absent"}
      /\ truncated \in BOOLEAN /\ finished \in BOOLEAN
  BY DEF Variant
<1> QED
  BY <1>1, <1>2, <1>3, <1>4, Zenon DEF TypeOK, ParserType

\* Every variable of the collector has its type: the capture never outgrows its
\* limit, an SSE parser keeps no whole line pending, and one that failed keeps
\* nothing, for every body of symbols, every way to cut it and every value of the
\* limits (main.rs:860-922, 930-1050).
THEOREM TypeCorrect ==
    ASSUME Bodies
    PROVE  Spec => []TypeOK
<1>1. IInv /\ Variant /\ [Next]_vars => Variant'
  BY StepVariant
<1>2. IInv /\ Variant /\ EventsParsed => TypeOK
  BY InvTyped
<1> QED
  BY <1>1, <1>2, InitVariant, InitEvents, StepEvents, InvCorrect, PTL DEF Spec
===============================================================================
