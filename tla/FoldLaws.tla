-------------------------------- MODULE FoldLaws --------------------------------
(***************************************************************************)
(* What a fold from the left computes, for any operator: the laws by which *)
(* a parser that gets its input in pieces is compared with one that gets   *)
(* it at once.  Fold is SequencesExt's FoldLeft with the operator as a     *)
(* parameter of the module, so that the laws can be instantiated.          *)
(***************************************************************************)
EXTENDS Integers, Sequences, SequenceTheorems, WellFoundedInduction, TLAPS

CONSTANT Op(_, _)

Largest(S) == CHOOSE x \in S : \A y \in S : x >= y

Fold(base, s) ==
    LET iter[T \in SUBSET DOMAIN s] ==
            IF T = {} THEN base ELSE Op(iter[T \ {Largest(T)}], s[Largest(T)])
    IN  iter[DOMAIN s]

\* g is the function Fold evaluates, for the first n elements of s.
Folds(g, n, base, s) ==
    g = [T \in SUBSET (1..n) |->
            IF T = {} THEN base ELSE Op(g[T \ {Largest(T)}], s[Largest(T)])]

SameTo(n, s, t) == \A i \in 1..n : s[i] = t[i]

-----------------------------------------------------------------------------
(* Induction over the natural numbers, for a set.                           *)

LEMMA NatSet ==
    ASSUME NEW S, 0 \in S, \A n \in Nat : n \in S => n + 1 \in S
    PROVE  \A n \in Nat : n \in S
<1> SUFFICES ASSUME Nat \ S # {} PROVE FALSE
  OBVIOUS
<1> DEFINE R == OpToRel(<, Nat)
           U == Nat \ S
<1>1. IsWellFoundedOn(R, Nat)
  BY NatLessThanWellFounded
<1>2. U \subseteq Nat /\ U # {}
  OBVIOUS
<1> HIDE DEF R, U
<1>3. PICK x \in U : \A y \in U : <<y, x>> \notin R
  BY <1>1, <1>2, WFMin
<1>4. \A y \in U : ~(y < x)
  BY <1>2, <1>3 DEF R, OpToRel
<1>5. x \in Nat /\ x \notin S /\ x # 0
  BY <1>2 DEF U
<1>6. x - 1 \in Nat /\ x - 1 \notin U
  BY <1>4, <1>5
<1>7. x - 1 \in S
  BY <1>6 DEF U
<1>8. (x - 1) + 1 \in S
  BY <1>6, <1>7
<1> QED
  BY <1>5, <1>8

\* Induction over sequences, likewise.
LEMMA SeqSet ==
    ASSUME NEW D, NEW S, <<>> \in S,
           \A s \in Seq(D), e \in D : s \in S => Append(s, e) \in S
    PROVE  \A s \in Seq(D) : s \in S
<1> DEFINE N == {n \in Nat : \A s \in Seq(D) : Len(s) = n => s \in S}
<1>1. 0 \in N
  BY EmptySeq
<1>2. ASSUME NEW n \in Nat, n \in N PROVE n + 1 \in N
  <2> SUFFICES ASSUME NEW s \in Seq(D), Len(s) = n + 1 PROVE s \in S
    OBVIOUS
  <2>1. s # <<>>
    OBVIOUS
  <2>2. PICK t \in Seq(D), e \in D : s = Append(t, e)
    BY <2>1, SequenceEmptyOrAppend
  <2>3. Len(t) = n
    BY <2>2, AppendProperties
  <2> QED
    BY <1>2, <2>2, <2>3
<1> HIDE DEF N
<1>3. \A n \in Nat : n \in N
  BY <1>1, <1>2, NatSet
<1> QED
  BY <1>3 DEF N

-----------------------------------------------------------------------------
(* The function Fold evaluates exists, and is the only one.                 *)

LEMMA LargestOf ==
    ASSUME NEW n \in Nat, NEW T \in SUBSET (1..(n + 1)), n + 1 \in T
    PROVE  Largest(T) = n + 1
<1>1. \A y \in T : n + 1 >= y
  OBVIOUS
<1>2. \A x \in T : (\A y \in T : x >= y) => x = n + 1
  OBVIOUS
<1>3. \E x \in T : \A y \in T : x >= y
  BY <1>1
<1> QED
  BY <1>2, <1>3 DEF Largest

LEMMA FoldsExists ==
    ASSUME NEW base, NEW s
    PROVE  \A n \in Nat : \E g : Folds(g, n, base, s)
<1> DEFINE S == {n \in Nat : \E g : Folds(g, n, base, s)}
<1>1. 0 \in S
  <2> DEFINE g == [T \in SUBSET (1..0) |-> base]
  <2>1. \A T \in SUBSET (1..0) : T = {}
    OBVIOUS
  <2>2. Folds(g, 0, base, s)
    BY <2>1 DEF Folds
  <2> QED
    BY <2>2
<1>2. ASSUME NEW n \in Nat, NEW g, Folds(g, n, base, s)
      PROVE  \E h : Folds(h, n + 1, base, s)
  <2> DEFINE h == [T \in SUBSET (1..(n + 1)) |->
                     IF n + 1 \in T THEN Op(g[T \ {n + 1}], s[n + 1]) ELSE g[T]]
  <2>1. \A T \in SUBSET (1..(n + 1)) : n + 1 \notin T => T \in SUBSET (1..n)
    OBVIOUS
  <2>2. \A T \in SUBSET (1..n) : T \in SUBSET (1..(n + 1)) /\ n + 1 \notin T
    OBVIOUS
  <2>3. \A T \in SUBSET (1..n) : h[T] = g[T]
    BY <2>2
  <2>4. ASSUME NEW T \in SUBSET (1..(n + 1))
        PROVE  h[T] = IF T = {} THEN base ELSE Op(h[T \ {Largest(T)}], s[Largest(T)])
    <3>1. CASE n + 1 \in T
      <4>1. Largest(T) = n + 1
        BY <3>1, LargestOf
      <4>2. T \ {n + 1} \in SUBSET (1..n)
        OBVIOUS
      <4>3. h[T \ {n + 1}] = g[T \ {n + 1}]
        BY <2>3, <4>2
      <4>4. h[T] = Op(g[T \ {n + 1}], s[n + 1])
        BY <3>1
      <4>5. T # {}
        BY <3>1
      <4> HIDE DEF h
      <4> QED
        BY <4>1, <4>3, <4>4, <4>5, Zenon
    <3>2. CASE n + 1 \notin T
      <4>1. T \in SUBSET (1..n) /\ T \ {Largest(T)} \in SUBSET (1..n)
        BY <2>1, <3>2
      <4>2. g[T] = IF T = {} THEN base ELSE Op(g[T \ {Largest(T)}], s[Largest(T)])
        BY <1>2, <4>1, Zenon DEF Folds
      <4>3. h[T] = g[T] /\ h[T \ {Largest(T)}] = g[T \ {Largest(T)}]
        BY <2>3, <4>1
      <4> HIDE DEF h
      <4> QED
        BY <4>2, <4>3, Zenon
    <3> QED
      BY <3>1, <3>2
  <2>5. h = [T \in SUBSET (1..(n + 1)) |-> h[T]]
    OBVIOUS
  <2> HIDE DEF h
  <2>6. Folds(h, n + 1, base, s)
    BY <2>4, <2>5, Zenon DEF Folds
  <2> QED
    BY <2>6
<1>3. \A n \in Nat : n \in S => n + 1 \in S
  BY <1>2
<1> HIDE DEF S
<1>4. \A n \in Nat : n \in S
  BY <1>1, <1>3, NatSet
<1> QED
  BY <1>4 DEF S

LEMMA FoldsAgree ==
    ASSUME NEW base, NEW s, NEW t, NEW g, NEW h, NEW n \in Nat, NEW m \in Nat, n <= m,
           Folds(g, n, base, s), Folds(h, m, base, t), SameTo(n, s, t)
    PROVE  g[1..n] = h[1..n]
<1> DEFINE S == {k \in Nat : k <= n => \A T \in SUBSET (1..k) : g[T] = h[T]}
<1>0. /\ \A T \in SUBSET (1..n) :
            g[T] = IF T = {} THEN base ELSE Op(g[T \ {Largest(T)}], s[Largest(T)])
      /\ \A T \in SUBSET (1..m) :
            h[T] = IF T = {} THEN base ELSE Op(h[T \ {Largest(T)}], t[Largest(T)])
  BY Zenon DEF Folds
<1>1. 0 \in S
  <2>1. {} \in SUBSET (1..n) /\ {} \in SUBSET (1..m)
    OBVIOUS
  <2>2. g[{}] = base /\ h[{}] = base
    BY <1>0, <2>1, Zenon
  <2>3. \A T \in SUBSET (1..0) : T = {}
    OBVIOUS
  <2> QED
    BY <2>2, <2>3
<1>2. ASSUME NEW k \in Nat, k + 1 <= n, \A T \in SUBSET (1..k) : g[T] = h[T],
             NEW T \in SUBSET (1..(k + 1))
      PROVE  g[T] = h[T]
  <2>1. CASE k + 1 \notin T
    <3>1. T \in SUBSET (1..k)
      BY <2>1
    <3> QED
      BY <1>2, <3>1
  <2>2. CASE k + 1 \in T
    <3>1. Largest(T) = k + 1
      BY <2>2, LargestOf
    <3>2. T \ {k + 1} \in SUBSET (1..k)
      OBVIOUS
    <3>3. g[T \ {k + 1}] = h[T \ {k + 1}]
      BY <1>2, <3>2
    <3>4. s[k + 1] = t[k + 1]
      BY <1>2 DEF SameTo
    <3>5. T \in SUBSET (1..n) /\ T \in SUBSET (1..m) /\ T # {}
      BY <1>2, <2>2
    <3> QED
      BY <1>0, <3>1, <3>3, <3>4, <3>5, Zenon
  <2> QED
    BY <2>1, <2>2
<1>3. \A k \in Nat : k \in S => k + 1 \in S
  <2> SUFFICES ASSUME NEW k \in Nat, k \in S, k + 1 <= n PROVE \A T \in SUBSET (1..(k + 1)) : g[T] = h[T]
    BY DEF S
  <2>1. \A T \in SUBSET (1..k) : g[T] = h[T]
    OBVIOUS
  <2> QED
    BY <1>2, <2>1
<1> HIDE DEF S
<1>4. n \in S
  BY <1>1, <1>3, NatSet
<1> QED
  BY <1>4 DEF S

LEMMA FoldIs ==
    ASSUME NEW base, NEW S, NEW s \in Seq(S)
    PROVE  \E g : Folds(g, Len(s), base, s) /\ Fold(base, s) = g[1..Len(s)]
<1> DEFINE g == CHOOSE f : Folds(f, Len(s), base, s)
<1>1. Len(s) \in Nat /\ DOMAIN s = 1..Len(s)
  OBVIOUS
<1>2. \E f : Folds(f, Len(s), base, s)
  BY <1>1, FoldsExists
<1>3. Folds(g, Len(s), base, s)
  BY <1>2, Zenon
<1>4. Fold(base, s) = g[1..Len(s)]
  BY <1>1, Zenon DEF Fold, Folds
<1> QED
  BY <1>3, <1>4, Zenon

-----------------------------------------------------------------------------
(* The laws.                                                                *)

\* Folding nothing gives the base.
LEMMA FoldEmpty ==
    ASSUME NEW base
    PROVE  Fold(base, <<>>) = base
<1>1. <<>> \in Seq({}) /\ Len(<<>>) = 0
  BY EmptySeq
<1>2. PICK g : Folds(g, 0, base, <<>>) /\ Fold(base, <<>>) = g[1..0]
  BY <1>1, FoldIs
<1>3. 1..0 = {}
  OBVIOUS
<1>4. {} \in SUBSET (1..0)
  OBVIOUS
<1>5. g[{}] = base
  BY <1>2, <1>4, Zenon DEF Folds
<1> QED
  BY <1>2, <1>3, <1>5

\* The last element is folded last.
LEMMA FoldAppend ==
    ASSUME NEW base, NEW S, NEW s \in Seq(S), NEW x \in S
    PROVE  Fold(base, Append(s, x)) = Op(Fold(base, s), x)
<1> DEFINE t == Append(s, x)
           n == Len(s)
<1>1. /\ n \in Nat /\ t \in Seq(S) /\ Len(t) = n + 1
      /\ t[n + 1] = x /\ \A i \in 1..n : s[i] = t[i]
  OBVIOUS
<1> HIDE DEF t, n
<1>2. PICK g : Folds(g, n, base, s) /\ Fold(base, s) = g[1..n]
  BY FoldIs DEF n
<1>3. PICK h : Folds(h, n + 1, base, t) /\ Fold(base, t) = h[1..(n + 1)]
  BY <1>1, FoldIs
<1>4. g[1..n] = h[1..n]
  <2> DEFINE m == n + 1
  <2>1. m \in Nat /\ n <= m /\ Folds(h, m, base, t)
    BY <1>1, <1>3
  <2>2. SameTo(n, s, t)
    BY <1>1 DEF SameTo
  <2> HIDE DEF m
  <2> QED
    <3>1. n \in Nat /\ m \in Nat /\ n <= m /\ Folds(g, n, base, s) /\ Folds(h, m, base, t)
      BY <1>1, <1>2, <2>1
    <3> QED
      BY <2>2, <3>1, FoldsAgree, SMT
<1>5. /\ 1..(n + 1) \in SUBSET (1..(n + 1)) /\ n + 1 \in 1..(n + 1)
      /\ 1..(n + 1) # {} /\ (1..(n + 1)) \ {n + 1} = 1..n
  <2>1. n \in Nat
    BY <1>1
  <2> QED
    BY <2>1
<1>6. Largest(1..(n + 1)) = n + 1
  BY <1>1, <1>5, LargestOf
<1>7. h[1..(n + 1)] = Op(h[(1..(n + 1)) \ {n + 1}], t[n + 1])
  BY <1>3, <1>5, <1>6, Zenon DEF Folds
<1>8. h[1..(n + 1)] = Op(h[1..n], x)
  BY <1>1, <1>5, <1>7, Zenon
<1> QED
  BY <1>2, <1>3, <1>4, <1>8, Zenon DEF t

\* A sequence can be folded in two parts.
LEMMA FoldConcat ==
    ASSUME NEW base, NEW S, NEW s \in Seq(S), NEW t \in Seq(S)
    PROVE  Fold(base, s \o t) = Fold(Fold(base, s), t)
<1> DEFINE N == {u \in Seq(S) : Fold(base, s \o u) = Fold(Fold(base, s), u)}
<1>1. <<>> \in N
  <2>1. s \o <<>> = s /\ <<>> \in Seq(S)
    BY ConcatEmptySeq, EmptySeq
  <2> QED
    BY <2>1, FoldEmpty
<1>2. ASSUME NEW u \in Seq(S), NEW x \in S, u \in N
      PROVE  Append(u, x) \in N
  <2>1. s \o u \in Seq(S) /\ Append(u, x) \in Seq(S)
    OBVIOUS
  <2>2. s \o Append(u, x) = Append(s \o u, x)
    OBVIOUS
  <2>3. Fold(base, s \o Append(u, x)) = Op(Fold(base, s \o u), x)
    <3>1. \A w \in Seq(S) : Fold(base, Append(w, x)) = Op(Fold(base, w), x)
      BY FoldAppend
    <3> QED
      BY <2>1, <2>2, <3>1, Zenon
  <2>4. Fold(Fold(base, s), Append(u, x)) = Op(Fold(Fold(base, s), u), x)
    BY FoldAppend
  <2> QED
    BY <1>2, <2>1, <2>3, <2>4
<1> HIDE DEF N
<1>3. t \in N
  BY <1>1, <1>2, SeqSet
<1> QED
  BY <1>3 DEF N
===============================================================================
