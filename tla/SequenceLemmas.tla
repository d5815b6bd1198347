--------------------------- MODULE SequenceLemmas ---------------------------
(***************************************************************************)
(* What the proofs about command lines and bodies need to know of numbers  *)
(* and sequences: induction over the natural numbers, least and greatest   *)
(* numbers, and the concatenation of a sequence of sequences, FlattenSeq.  *)
(*                                                                         *)
(* An induction hypothesis is a set of numbers here and not an operator.   *)
(***************************************************************************)
EXTENDS SequencesExt, SequenceTheorems, FiniteSetTheorems, WellFoundedInduction,
        TLAPS

-----------------------------------------------------------------------------

\* A set of numbers without a least one is empty.
LEMMA LeastNumber ==
  ASSUME NEW S \in SUBSET Nat, S # {}
  PROVE  \E x \in S : \A y \in S : x <= y
<1>1. PICK x \in S : \A y \in S : ~ (<<y, x>> \in OpToRel(<, Nat))
  BY NatLessThanWellFounded, WFMin
<1>2. \A y \in S : y < x => <<y, x>> \in OpToRel(<, Nat)
  BY DEF OpToRel
<1>3. \A y \in S : ~ (y < x)
  BY <1>1, <1>2, Zenon
<1>4. \A y \in S : x <= y
  BY <1>3
<1> QED BY <1>4

\* Induction over the natural numbers.
LEMMA Induction ==
  ASSUME NEW S, 0 \in S, \A n \in Nat : n \in S => n + 1 \in S
  PROVE  \A n \in Nat : n \in S
<1>1. SUFFICES ASSUME Nat \ S # {} PROVE FALSE
  OBVIOUS
<1>2. PICK x \in Nat \ S : \A y \in Nat \ S : x <= y
  BY <1>1, LeastNumber
<1>3. x # 0
  OBVIOUS
<1>4. x - 1 \in Nat /\ (x - 1) + 1 = x /\ ~ (x <= x - 1)
  BY <1>3
<1>5. x - 1 \in Nat \ S
  BY <1>4
<1> QED BY <1>2, <1>4, <1>5

\* A bounded set of numbers has a greatest one.
LEMMA GreatestNumber ==
  ASSUME NEW n \in Nat, NEW S \in SUBSET (0..n), S # {}
  PROVE  \E x \in S : \A y \in S : y <= x
<1> DEFINE Bounds == {m \in Nat : \A y \in S : y <= m}
<1>1. n \in Bounds
  OBVIOUS
<1>2. PICK m \in Bounds : \A k \in Bounds : m <= k
  <2>1. Bounds \in SUBSET Nat /\ Bounds # {}
    BY <1>1
  <2> HIDE DEF Bounds
  <2> QED BY <2>1, LeastNumber
<1>3. CASE m \in S
  BY <1>3
<1>4. CASE m \notin S
  <2>1. \A y \in S : y < m
    BY <1>4
  <2>2. PICK y \in S : y < m
    BY <2>1
  <2>3. m - 1 \in Bounds
    <3>1. m - 1 \in Nat /\ (\A z \in S : z <= m - 1)
      BY <2>1, <2>2
    <3> QED BY <3>1
  <2>4. ~ (m <= m - 1)
    OBVIOUS
  <2> QED BY <1>2, <2>3, <2>4
<1> QED BY <1>3, <1>4

-----------------------------------------------------------------------------
(***************************************************************************)
(* FlattenSeq                                                              *)
(***************************************************************************)

\* A name for s \o t that the provers do not expand into positions.
Joined(s, t) == s \o t

\* f is the function that FlattenSeq defines recursively, up to its n-th value.
Flattens(f, seqs, n) ==
    f = [i \in 1..n |-> IF i = 1 THEN seqs[i] ELSE Joined(f[i-1], seqs[i])]

\* Two sequences start with the same n elements.
Agree(s, t, n) == \A i \in 1..n : s[i] = t[i]

\* No two functions do, and the values depend on what has been passed alone.
LEMMA FlattensUnique ==
  ASSUME NEW n \in Nat, NEW m \in Nat, n <= m, NEW s, NEW t,
         Agree(s, t, n),
         NEW f, NEW g, Flattens(f, s, n), Flattens(g, t, m)
  PROVE  Agree(f, g, n)
<1> DEFINE Equal == {i \in Nat : i \in 1..n => f[i] = g[i]}
<1>1. 0 \in Equal
  OBVIOUS
<1>2. ASSUME NEW i \in Nat, i \in Equal PROVE i + 1 \in Equal
  <2>1. SUFFICES ASSUME i + 1 \in 1..n PROVE f[i + 1] = g[i + 1]
    OBVIOUS
  <2>2. i + 1 \in 1..m /\ (i + 1) - 1 = i
    BY <2>1
  <2>3. f[i + 1] = IF i + 1 = 1 THEN s[i + 1] ELSE Joined(f[i], s[i + 1])
    BY <2>1, <2>2 DEF Flattens
  <2>4. g[i + 1] = IF i + 1 = 1 THEN t[i + 1] ELSE Joined(g[i], t[i + 1])
    BY <2>2 DEF Flattens
  <2>5. i + 1 # 1 => f[i] = g[i]
    BY <1>2, <2>1
  <2> QED BY <2>1, <2>3, <2>4, <2>5 DEF Agree
<1>3. \A i \in Nat : i \in Equal
  <2> HIDE DEF Equal
  <2> QED BY <1>1, <1>2, Induction
<1> QED BY <1>3 DEF Agree

\* One more value is the last one with the next sequence behind it.
LEMMA FlattensNext ==
  ASSUME NEW n \in Nat, n # 0, NEW s, NEW t, Agree(s, t, n),
         NEW f, NEW g, Flattens(f, s, n), Flattens(g, t, n + 1)
  PROVE  g[n + 1] = Joined(f[n], t[n + 1])
<1>1. /\ n + 1 \in Nat /\ n <= n + 1 /\ n \in 1..n
      /\ n + 1 \in 1..(n + 1) /\ n + 1 # 1 /\ (n + 1) - 1 = n
  OBVIOUS
<1>2. f[n] = g[n]
  BY <1>1, FlattensUnique DEF Agree
<1>3. g[n + 1] = Joined(g[n], t[n + 1])
  BY <1>1 DEF Flattens
<1> QED BY <1>2, <1>3

\* There is one, for any number of values.
LEMMA FlattensExists ==
  ASSUME NEW s
  PROVE  \A n \in Nat : \E f : Flattens(f, s, n)
<1> DEFINE Defined == {n \in Nat : \E f : Flattens(f, s, n)}
<1>1. 0 \in Defined
  <2>1. Flattens(<<>>, s, 0)
    BY DEF Flattens
  <2> QED BY <2>1
<1>2. ASSUME NEW n \in Nat, n \in Defined PROVE n + 1 \in Defined
  <2>1. PICK f : Flattens(f, s, n)
    BY <1>2
  <2> DEFINE g == [i \in 1..(n + 1) |->
                      IF i = 1 THEN s[i] ELSE Joined(f[i-1], s[i])]
  <2>2. ASSUME NEW i \in 1..(n + 1)
        PROVE  g[i] = IF i = 1 THEN s[i] ELSE Joined(g[i-1], s[i])
    <3>1. CASE i = 1
      BY <3>1
    <3>2. CASE i # 1
      <4>1. i - 1 \in 1..n /\ i - 1 \in 1..(n + 1)
        BY <3>2
      <4>2. f[i-1] = IF i - 1 = 1 THEN s[i-1] ELSE Joined(f[(i-1)-1], s[i-1])
        BY <2>1, <4>1 DEF Flattens
      <4>3. g[i-1] = IF i - 1 = 1 THEN s[i-1] ELSE Joined(f[(i-1)-1], s[i-1])
        BY <4>1
      <4>4. g[i] = Joined(f[i-1], s[i])
        BY <3>2
      <4> QED BY <3>2, <4>2, <4>3, <4>4
    <3> QED BY <3>1, <3>2
  <2>3. g = [i \in 1..(n + 1) |-> g[i]]
    OBVIOUS
  <2>4. Flattens(g, s, n + 1)
    <3> HIDE DEF g
    <3> QED BY <2>2, <2>3 DEF Flattens
  <2> QED BY <2>4
<1>3. \A n \in Nat : n \in Defined
  <2> HIDE DEF Defined
  <2> QED BY <1>1, <1>2, Induction
<1> QED BY <1>3

\* FlattenSeq takes the last value of that function.
LEMMA FlattenDef ==
  ASSUME NEW s, Len(s) \in Nat, Len(s) # 0
  PROVE  \E f : Flattens(f, s, Len(s)) /\ FlattenSeq(s) = f[Len(s)]
<1> DEFINE f == CHOOSE g : g = [i \in 1..Len(s) |->
                                  IF i = 1 THEN s[i] ELSE Joined(g[i-1], s[i])]
<1>2. \E g : Flattens(g, s, Len(s))
  BY FlattensExists
<1>3. Flattens(f, s, Len(s))
  BY <1>2, Zenon DEF Flattens
<1>4. FlattenSeq(s) = f[Len(s)]
  BY Zenon DEF FlattenSeq, Joined
<1> QED
  <2> HIDE DEF f
  <2> QED BY <1>3, <1>4

\* One more sequence is concatenated at the end.
LEMMA FlattenNext ==
  ASSUME NEW n \in Nat, n # 0, NEW s, NEW t, Agree(s, t, n),
         Len(s) = n, Len(t) = n + 1
  PROVE  FlattenSeq(t) = Joined(FlattenSeq(s), t[n + 1])
<1>1. n + 1 \in Nat /\ n + 1 # 0
  OBVIOUS
<1>2. PICK f : Flattens(f, s, n) /\ FlattenSeq(s) = f[n]
  BY FlattenDef
<1>3. PICK g : Flattens(g, t, n + 1) /\ FlattenSeq(t) = g[n + 1]
  BY <1>1, FlattenDef
<1>4. Flattens(f, s, n) /\ Flattens(g, t, n + 1)
  BY <1>2, <1>3
<1>5. Agree(s, t, n)
  OBVIOUS
<1>6. g[n + 1] = Joined(f[n], t[n + 1])
  BY <1>4, <1>5, FlattensNext
<1> QED BY <1>2, <1>3, <1>6

\* A function on 1..n is a sequence.
LEMMA FunctionIsSeq ==
  ASSUME NEW S, NEW n \in Nat, NEW s \in [1..n -> S]
  PROVE  s \in Seq(S)
OBVIOUS

\* Nothing flattened is nothing.
LEMMA FlattenEmpty == FlattenSeq(<<>>) = <<>>
<1>1. Len(<<>>) = 0
  OBVIOUS
<1> QED BY <1>1, Zenon DEF FlattenSeq

\* One sequence flattened is that sequence.
LEMMA FlattenOne ==
  ASSUME NEW e
  PROVE  FlattenSeq(<<e>>) = e
<1> DEFINE s == <<e>>
<1>1. Len(s) = 1 /\ Len(s) \in Nat /\ Len(s) # 0 /\ s[1] = e
  OBVIOUS
<1>2. 1 \in 1..1
  OBVIOUS
<1> HIDE DEF s
<1>3. PICK f : Flattens(f, s, 1) /\ FlattenSeq(s) = f[1]
  BY <1>1, FlattenDef
<1>4. f[1] = e
  BY <1>1, <1>2, <1>3 DEF Flattens
<1>5. FlattenSeq(s) = e
  BY <1>3, <1>4
<1> QED BY <1>5 DEF s

\* The last sequence is the end of the whole.
LEMMA FlattenAppend ==
  ASSUME NEW S, NEW s \in Seq(Seq(S)), NEW e \in Seq(S)
  PROVE  FlattenSeq(Append(s, e)) = FlattenSeq(s) \o e
<1> DEFINE t == Append(s, e)
           n == Len(s)
<1>1. /\ t \in Seq(Seq(S)) /\ t # <<>> /\ Len(t) = n + 1
      /\ Agree(s, t, n)
      /\ t[n + 1] = e /\ n \in Nat
  BY AppendProperties, LenProperties DEF Agree
<1>2. CASE s = <<>>
  <2>1. t = <<e>>
    BY <1>2
  <2> QED BY <1>2, <2>1, FlattenEmpty, FlattenOne, ConcatEmptySeq
<1>3. CASE s # <<>>
  <2>1. n \in Nat /\ n # 0
    BY <1>3, EmptySeq
  <2>2. FlattenSeq(t) = Joined(FlattenSeq(s), t[n + 1])
    <3> HIDE DEF t, n
    <3> QED BY <1>1, <2>1, FlattenNext DEF n
  <2> HIDE DEF t, n
  <2>3. FlattenSeq(t) = Joined(FlattenSeq(s), e)
    BY <1>1, <2>2, Zenon
  <2> QED BY <2>3, Zenon DEF Joined, t
<1> QED BY <1>2, <1>3

\* A sequence of n + 1 elements is one of n elements and another element.
LEMMA SplitLast ==
  ASSUME NEW S, NEW s \in Seq(S), NEW n \in Nat, Len(s) = n + 1
  PROVE  \E t \in Seq(S), e \in S : s = Append(t, e) /\ Len(t) = n
<1>1. s # <<>>
  OBVIOUS
<1>2. PICK t \in Seq(S), e \in S : s = Append(t, e)
  BY <1>1, SequenceEmptyOrAppend
<1>3. Len(t) = n
  <2>1. Len(Append(t, e)) = Len(t) + 1 /\ Len(t) \in Nat
    BY AppendProperties, LenProperties
  <2> QED BY <1>2, <2>1
<1> QED BY <1>2, <1>3

\* Flattening introduces no new elements.
LEMMA FlattenType ==
  ASSUME NEW S, NEW s \in Seq(Seq(S))
  PROVE  FlattenSeq(s) \in Seq(S)
<1> DEFINE Typed == {n \in Nat :
              \A t \in Seq(Seq(S)) : Len(t) = n => FlattenSeq(t) \in Seq(S)}
<1>1. 0 \in Typed
  <2>1. \A t \in Seq(Seq(S)) : Len(t) = 0 => t = <<>>
    OBVIOUS
  <2>2. FlattenSeq(<<>>) \in Seq(S)
    <3>1. <<>> \in Seq(S)
      OBVIOUS
    <3> QED BY <3>1, FlattenEmpty, Zenon
  <2> QED BY <2>1, <2>2
<1>2. ASSUME NEW n \in Nat, n \in Typed PROVE n + 1 \in Typed
  <2>1. SUFFICES ASSUME NEW t \in Seq(Seq(S)), Len(t) = n + 1
                 PROVE  FlattenSeq(t) \in Seq(S)
    OBVIOUS
  <2>2. PICK u \in Seq(Seq(S)), e \in Seq(S) : t = Append(u, e) /\ Len(u) = n
    BY <2>1, SplitLast
  <2>3. FlattenSeq(u) \in Seq(S)
    BY <1>2, <2>2
  <2>4. FlattenSeq(u) \o e \in Seq(S)
    BY <2>3, ConcatProperties
  <2> QED BY <2>2, <2>4, FlattenAppend, Zenon
<1>3. Len(s) \in Nat
  OBVIOUS
<1>4. \A n \in Nat : n \in Typed
  <2> HIDE DEF Typed
  <2> QED BY <1>1, <1>2, Induction
<1> QED BY <1>3, <1>4

\* FlattenSeq turns concatenations into concatenations.
LEMMA FlattenConcat ==
  ASSUME NEW S, NEW s \in Seq(Seq(S)), NEW t \in Seq(Seq(S))
  PROVE  FlattenSeq(s \o t) = FlattenSeq(s) \o FlattenSeq(t)
<1> DEFINE Holds == {n \in Nat : \A u \in Seq(Seq(S)) : Len(u) = n =>
                        FlattenSeq(s \o u) = FlattenSeq(s) \o FlattenSeq(u)}
<1>1. 0 \in Holds
  <2>1. \A u \in Seq(Seq(S)) : Len(u) = 0 => u = <<>>
    OBVIOUS
  <2>2. s \o <<>> = s
    BY ConcatEmptySeq
  <2>3. FlattenSeq(s) \o <<>> = FlattenSeq(s)
    BY FlattenType, ConcatEmptySeq
  <2>4. FlattenSeq(s \o <<>>) = FlattenSeq(s) \o FlattenSeq(<<>>)
    BY <2>2, <2>3, FlattenEmpty, Zenon
  <2>5. 0 \in Nat
    OBVIOUS
  <2> QED BY <2>1, <2>4, <2>5, Zenon
<1>2. ASSUME NEW n \in Nat, n \in Holds PROVE n + 1 \in Holds
  <2>1. ASSUME NEW u \in Seq(Seq(S)), Len(u) = n + 1
        PROVE  FlattenSeq(s \o u) = FlattenSeq(s) \o FlattenSeq(u)
    <3>1. PICK v \in Seq(Seq(S)), e \in Seq(S) : u = Append(v, e) /\ Len(v) = n
      BY <2>1, SplitLast
    <3>2. FlattenSeq(s \o v) = FlattenSeq(s) \o FlattenSeq(v)
      BY <1>2, <3>1, Zenon
    <3>3. s \o v \in Seq(Seq(S))
      BY ConcatProperties
    <3>4. s \o u = Append(s \o v, e)
      <4>1. u = v \o <<e>>
        BY <3>1, AppendIsConcat
      <4>2. Append(s \o v, e) = (s \o v) \o <<e>>
        BY <3>3, AppendIsConcat, Zenon
      <4>3. (s \o v) \o <<e>> = s \o (v \o <<e>>)
        <5>1. <<e>> \in Seq(Seq(S))
          OBVIOUS
        <5> QED BY <5>1, ConcatAssociative, SMTT(30)
      <4> QED BY <4>1, <4>2, <4>3, Zenon
    <3>5. FlattenSeq(s \o u) = (FlattenSeq(s) \o FlattenSeq(v)) \o e
      BY <3>2, <3>3, <3>4, FlattenAppend, Zenon
    <3>6. FlattenSeq(u) = FlattenSeq(v) \o e
      BY <3>1, FlattenAppend, Zenon
    <3>7. (FlattenSeq(s) \o FlattenSeq(v)) \o e = FlattenSeq(s) \o (FlattenSeq(v) \o e)
      <4>1. FlattenSeq(s) \in Seq(S) /\ FlattenSeq(v) \in Seq(S)
        BY FlattenType, Zenon
      <4> QED BY <4>1, ConcatAssociative, SMTT(30)
    <3> QED BY <3>5, <3>6, <3>7, Zenon
  <2>2. n + 1 \in Nat
    OBVIOUS
  <2> QED BY <2>1, <2>2, Zenon
<1>3. Len(t) \in Nat
  OBVIOUS
<1>4. \A n \in Nat : n \in Holds
  <2> HIDE DEF Holds
  <2> QED BY <1>1, <1>2, Induction
<1>5. Len(t) \in Holds
  BY <1>3, <1>4, Zenon
<1> QED BY <1>5, Zenon

\* A sequence is what precedes its i-th element, that element, and the rest.
LEMMA SplitAt ==
  ASSUME NEW S, NEW s \in Seq(S), NEW i \in 1..Len(s)
  PROVE  /\ SubSeq(s, 1, i - 1) \in Seq(S)
         /\ SubSeq(s, i + 1, Len(s)) \in Seq(S)
         /\ s = (SubSeq(s, 1, i - 1) \o <<s[i]>>) \o SubSeq(s, i + 1, Len(s))
<1>1. /\ Len(s) \in Nat /\ i \in Nat /\ 1 <= i /\ i <= Len(s)
      /\ \A j \in 1..Len(s) : s[j] \in S
  BY LenProperties, ElementOfSeq
<1> DEFINE front == SubSeq(s, 1, i - 1)
           back == SubSeq(s, i + 1, Len(s))
           all == (front \o <<s[i]>>) \o back
<1>2. /\ front \in Seq(S) /\ Len(front) = i - 1
      /\ \A j \in 1..(i - 1) : front[j] = s[j]
  BY <1>1, SubSeqProperties
<1>3. /\ back \in Seq(S) /\ Len(back) = Len(s) - i
      /\ \A j \in 1..(Len(s) - i) : back[j] = s[i + j]
  BY <1>1, SubSeqProperties
<1>4. /\ <<s[i]>> \in Seq(S) /\ Len(<<s[i]>>) = 1 /\ <<s[i]>>[1] = s[i]
  BY <1>1
<1> HIDE DEF front, back
<1>5. /\ front \o <<s[i]>> \in Seq(S) /\ Len(front \o <<s[i]>>) = i
      /\ \A j \in 1..i : (front \o <<s[i]>>)[j] = s[j]
  BY <1>1, <1>2, <1>4
<1> DEFINE first == front \o <<s[i]>>
<1> HIDE DEF first
<1>6. /\ first \in Seq(S) /\ Len(first) = i /\ \A j \in 1..i : first[j] = s[j]
  BY <1>5 DEF first
<1>7. /\ first \o back \in Seq(S) /\ Len(first \o back) = Len(s)
      /\ \A j \in 1..Len(s) : (first \o back)[j] = s[j]
  <2>1. /\ first \o back \in Seq(S)
        /\ Len(first \o back) = Len(first) + Len(back)
        /\ \A j \in 1..(Len(first) + Len(back)) : (first \o back)[j] =
              IF j <= Len(first) THEN first[j] ELSE back[j - Len(first)]
    BY <1>3, <1>6, ConcatProperties
  <2>2. Len(first) + Len(back) = Len(s)
    BY <1>1, <1>3, <1>6
  <2>3. ASSUME NEW j \in 1..Len(s) PROVE (first \o back)[j] = s[j]
    <3>1. CASE j <= i
      BY <1>1, <1>6, <2>1, <2>2, <3>1
    <3>2. CASE ~ (j <= i)
      <4>1. j - i \in 1..(Len(s) - i) /\ i + (j - i) = j
        BY <1>1, <3>2
      <4>2. back[j - i] = s[j]
        BY <1>3, <4>1
      <4> QED BY <1>6, <2>1, <2>2, <3>2, <4>2
    <3> QED BY <3>1, <3>2
  <2> QED BY <2>1, <2>2, <2>3
<1>8. s = first \o back
  BY <1>1, <1>7, SeqEqual
<1> QED BY <1>2, <1>3, <1>8, Zenon DEF front, back, first

-----------------------------------------------------------------------------
(***************************************************************************)
(* Max and Min                                                             *)
(***************************************************************************)

\* Max of a bounded set of numbers.
LEMMA MaxIsGreatest ==
  ASSUME NEW n \in Nat, NEW S \in SUBSET (0..n), S # {}
  PROVE  Max(S) \in S /\ \A y \in S : y <= Max(S)
<1>1. \E x \in S : \A y \in S : x >= y
  <2>1. PICK x \in S : \A y \in S : y <= x
    BY GreatestNumber
  <2> QED BY <2>1
<1>2. Max(S) \in S /\ \A y \in S : Max(S) >= y
  BY <1>1, Zenon DEF Max
<1> QED BY <1>2

\* Min of a set of numbers.
LEMMA MinIsLeast ==
  ASSUME NEW S \in SUBSET Nat, S # {}
  PROVE  Min(S) \in S /\ \A y \in S : Min(S) <= y
BY LeastNumber, Zenon DEF Min

\* A set of two numbers, and which is which.
LEMMA TwoNumbers ==
  ASSUME NEW n \in Nat, NEW S \in SUBSET (0..n), Cardinality(S) = 2
  PROVE  \E p, q \in S : /\ p < q /\ S = {p, q}
                         /\ Min(S) = p /\ Min(S \ {Min(S)}) = q
<1>1. IsFiniteSet(S)
  <2>1. IsFiniteSet(0..n)
    BY FS_Interval
  <2> QED BY <2>1, FS_Subset
<1> DEFINE p == Min(S)
           T == S \ {p}
           q == Min(T)
<1>2. S # {}
  <2>1. 2 # 0
    OBVIOUS
  <2> QED BY <2>1, FS_EmptySet, Zenon
<1>3. p \in S /\ \A y \in S : p <= y
  <2>1. S \in SUBSET Nat
    OBVIOUS
  <2> QED BY <1>2, <2>1, MinIsLeast
<1> HIDE DEF p
<1>4. IsFiniteSet(T) /\ Cardinality(T) = 1
  <2>1. IsFiniteSet(T) /\ Cardinality(T) = Cardinality(S) - 1
    BY <1>1, <1>3, FS_RemoveElement
  <2> QED BY <2>1
<1>5. q \in T /\ \A y \in T : q <= y
  <2>1. T \in SUBSET Nat
    <3>1. \A y \in S : y \in Nat
      OBVIOUS
    <3> QED BY <3>1
  <2>2. T # {}
    <3>1. 1 # 0
      OBVIOUS
    <3> QED BY <1>4, <3>1, FS_EmptySet, Zenon
  <2> HIDE DEF T
  <2> QED BY <2>1, <2>2, MinIsLeast
<1> HIDE DEF q
<1>6. T = {q}
  <2>1. IsFiniteSet(T \ {q}) /\ Cardinality(T \ {q}) = Cardinality(T) - 1
    <3> HIDE DEF T
    <3> QED BY <1>4, <1>5, FS_RemoveElement
  <2>2. Cardinality(T \ {q}) = 0
    BY <1>4, <2>1
  <2>3. T \ {q} = {}
    BY <2>1, <2>2, FS_EmptySet, Zenon
  <2> QED BY <1>5, <2>3
<1>7. p < q /\ S = {p, q} /\ q \in S
  BY <1>3, <1>5, <1>6
<1> QED BY <1>3, <1>7, Zenon DEF p, q, T

-----------------------------------------------------------------------------
(***************************************************************************)
(* Positions in sequences that are put together or cut                     *)
(***************************************************************************)

\* The positions of what is cut out of a sequence.
LEMMA CutPositions ==
  ASSUME NEW S, NEW s \in Seq(S), NEW from \in Int, NEW to \in Int,
         1 <= from, to <= Len(s), NEW n \in Nat, n = to - from + 1
  PROVE  /\ SubSeq(s, from, to) \in Seq(S) /\ Len(SubSeq(s, from, to)) = n
         /\ \A k \in 1..n : SubSeq(s, from, to)[k] = s[from + k - 1]
<1>1. /\ Len(s) \in Nat
      /\ \A i \in from..to : s[i] \in S
  BY LenProperties, ElementOfSeq
<1> QED BY <1>1, SubSeqProperties

\* The elements of a concatenation, part by part.
LEMMA ConcatElements ==
  ASSUME NEW S, NEW a \in Seq(S), NEW b \in Seq(S)
  PROVE  /\ a \o b \in Seq(S) /\ Len(a \o b) = Len(a) + Len(b)
         /\ Len(a) \in Nat /\ Len(b) \in Nat
         /\ \A k \in 1..Len(a) : (a \o b)[k] = a[k]
         /\ \A k \in 1..Len(b) : (a \o b)[Len(a) + k] = b[k]
OBVIOUS

\* A sequence is a concatenation if it is part by part.
LEMMA ConcatEqual ==
  ASSUME NEW S, NEW a \in Seq(S), NEW b \in Seq(S), NEW u \in Seq(S),
         Len(u) = Len(a) + Len(b),
         \A k \in 1..Len(a) : u[k] = a[k],
         \A k \in 1..Len(b) : u[Len(a) + k] = b[k]
  PROVE  u = a \o b
<1> DEFINE c == a \o b
<1>1. /\ c \in Seq(S) /\ Len(c) = Len(a) + Len(b)
      /\ Len(a) \in Nat /\ Len(b) \in Nat
      /\ \A k \in 1..Len(a) : c[k] = a[k]
      /\ \A k \in 1..Len(b) : c[Len(a) + k] = b[k]
  BY ConcatElements
<1> HIDE DEF c
<1>2. ASSUME NEW k \in 1..Len(u) PROVE u[k] = c[k]
  <2>1. CASE k \in 1..Len(a)
    BY <1>1, <2>1, Zenon
  <2>2. CASE k \notin 1..Len(a)
    <3>1. k - Len(a) \in 1..Len(b) /\ Len(a) + (k - Len(a)) = k
      BY <1>1, <2>2
    <3>2. u[Len(a) + (k - Len(a))] = c[Len(a) + (k - Len(a))]
      BY <1>1, <3>1, Zenon
    <3> QED BY <3>1, <3>2, Zenon
  <2> QED BY <2>1, <2>2
<1>3. u = c
  BY <1>1, <1>2, SeqEqual
<1> QED BY <1>3, Zenon DEF c

\* A concatenation starts with its first part.
LEMMA ConcatPrefix ==
  ASSUME NEW S, NEW a \in Seq(S), NEW b \in Seq(S)
  PROVE  SubSeq(a \o b, 1, Len(a)) = a
<1> DEFINE c == a \o b
           part == SubSeq(c, 1, Len(a))
<1>1. /\ c \in Seq(S) /\ Len(c) = Len(a) + Len(b)
      /\ Len(a) \in Nat /\ Len(b) \in Nat
      /\ \A k \in 1..Len(a) : c[k] = a[k]
  BY ConcatElements
<1> HIDE DEF c
<1>2. /\ part \in Seq(S) /\ Len(part) = Len(a)
      /\ \A k \in 1..Len(a) : part[k] = c[1 + k - 1]
  <2>1. /\ 1 \in Int /\ Len(a) \in Int /\ 1 <= 1 /\ Len(a) <= Len(c)
        /\ Len(a) = Len(a) - 1 + 1
    BY <1>1
  <2> QED BY <1>1, <2>1, CutPositions
<1> HIDE DEF part
<1>3. \A k \in 1..Len(a) : part[k] = a[k]
  <2>1. \A k \in 1..Len(a) : 1 + k - 1 = k
    BY <1>1
  <2> QED BY <1>1, <1>2, <2>1
<1>4. part = a
  BY <1>2, <1>3, SeqEqual
<1> QED BY <1>4, Zenon DEF part, c

\* What comes behind the first part.
LEMMA ConcatSuffix ==
  ASSUME NEW S, NEW a \in Seq(S), NEW b \in Seq(S), b # <<>>
  PROVE  SubSeq(a \o b, Len(a) + 1, Len(a) + Len(b)) = b
<1> DEFINE c == a \o b
           m == Len(a)
           n == Len(b)
           part == SubSeq(c, m + 1, m + n)
<1>1. /\ c \in Seq(S) /\ Len(c) = m + n
      /\ m \in Nat /\ n \in Nat
      /\ \A k \in 1..n : c[m + k] = b[k]
  BY ConcatElements
<1> HIDE DEF c, m, n
<1>2. /\ part \in Seq(S) /\ Len(part) = n
      /\ \A k \in 1..n : part[k] = c[m + 1 + k - 1]
  <2>1. /\ m + 1 \in Int /\ m + n \in Int /\ 1 <= m + 1 /\ m + n <= Len(c)
        /\ n = (m + n) - (m + 1) + 1
    BY <1>1
  <2> QED BY <1>1, <2>1, CutPositions
<1> HIDE DEF part
<1>3. \A k \in 1..n : part[k] = b[k]
  <2>1. \A k \in 1..n : m + 1 + k - 1 = m + k
    BY <1>1
  <2> QED BY <1>1, <1>2, <2>1
<1>4. part = b
  BY <1>2, <1>3, SeqEqual DEF n
<1> QED BY <1>4, Zenon DEF part, c, m, n

=============================================================================
