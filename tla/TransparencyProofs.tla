-------------------------- MODULE TransparencyProofs --------------------------
(***************************************************************************)
(* Proofs about the encoding of messages in CommandParser: for messages of *)
(* any number of lines of any bytes but line feeds, nothing before the end *)
(* of a message looks like its end, and undoing the transparency gives     *)
(* back what was meant.                                                    *)
(***************************************************************************)
EXTENDS CommandParser, SequenceLemmas

-----------------------------------------------------------------------------
(***************************************************************************)
(* WithoutTransparency                                                     *)
(***************************************************************************)

\* What each position contributes.
Kept(s, i) == IF TransparencyDot(s, i) \/ BrokenLine(s, i) THEN <<>> ELSE <<s[i]>>
KeptOf(s) == [i \in DOMAIN s |-> Kept(s, i)]

\* One sequence for each position.
LEMMA KeptType ==
  ASSUME NEW S, NEW s \in Seq(S)
  PROVE  /\ KeptOf(s) \in Seq(Seq(S)) /\ Len(KeptOf(s)) = Len(s)
         /\ Len(s) \in Nat /\ DOMAIN s = 1..Len(s)
         /\ \A i \in 1..Len(s) : KeptOf(s)[i] = Kept(s, i)
<1>1. DOMAIN s = 1..Len(s) /\ Len(s) \in Nat
  BY LenProperties
<1>2. \A i \in 1..Len(s) : Kept(s, i) \in Seq(S)
  <2>1. ASSUME NEW i \in 1..Len(s) PROVE Kept(s, i) \in Seq(S)
    BY ElementOfSeq DEF Kept
  <2> QED BY <2>1
<1>3. KeptOf(s) \in [1..Len(s) -> Seq(S)]
  BY <1>1, <1>2 DEF KeptOf
<1>4. \A i \in 1..Len(s) : KeptOf(s)[i] = Kept(s, i)
  BY <1>1, Zenon DEF KeptOf
<1> QED BY <1>1, <1>3, <1>4

\* WithoutTransparency() concatenates what is kept of the positions.
LEMMA TransparencyDef ==
  ASSUME NEW s
  PROVE  WithoutTransparency(s) = FlattenSeq(KeptOf(s))
BY Zenon DEF WithoutTransparency, KeptOf, Kept

\* If what is kept is kept part by part, so is the text.
LEMMA KeptParts ==
  ASSUME NEW S, NEW s \in Seq(S), NEW t \in Seq(S), NEW k \in Seq(Seq(S)),
         Len(k) = Len(t),
         \A i \in 1..Len(s) : Kept(s \o t, i) = Kept(s, i),
         \A i \in 1..Len(t) : Kept(s \o t, Len(s) + i) = k[i]
  PROVE  WithoutTransparency(s \o t) = WithoutTransparency(s) \o FlattenSeq(k)
<1> DEFINE all == s \o t
           front == KeptOf(s)
           whole == KeptOf(all)
<1>1. all \in Seq(S) /\ Len(all) = Len(s) + Len(t)
  BY ConcatElements
<1>2. /\ front \in Seq(Seq(S)) /\ Len(front) = Len(s)
      /\ \A i \in 1..Len(s) : front[i] = Kept(s, i)
      /\ Len(s) \in Nat
  BY KeptType
<1>3. \A i \in 1..Len(s) : Kept(all, i) = Kept(s, i)
  BY Zenon
<1>4. \A i \in 1..Len(t) : Kept(all, Len(s) + i) = k[i]
  BY Zenon
<1>5. Len(t) \in Nat
  BY LenProperties
<1> HIDE DEF all, front
<1>6. /\ whole \in Seq(Seq(S)) /\ Len(whole) = Len(s) + Len(t)
      /\ \A i \in 1..(Len(s) + Len(t)) : whole[i] = Kept(all, i)
  BY <1>1, KeptType
<1> HIDE DEF whole
<1>7. \A i \in 1..Len(front) : whole[i] = front[i]
  <2>1. \A i \in 1..Len(s) : i \in 1..(Len(s) + Len(t))
    BY <1>2, <1>5
  <2> QED BY <1>2, <1>3, <1>6, <2>1, Zenon
<1>8. \A i \in 1..Len(k) : whole[Len(front) + i] = k[i]
  <2>1. \A i \in 1..Len(t) : Len(s) + i \in 1..(Len(s) + Len(t))
    BY <1>2, <1>5
  <2> QED BY <1>2, <1>4, <1>6, <2>1, Zenon
<1>9. whole = front \o k
  <2>1. Len(whole) = Len(front) + Len(k)
    BY <1>2, <1>6
  <2> QED BY <1>2, <1>6, <1>7, <1>8, <2>1, ConcatEqual
<1>10. FlattenSeq(whole) = FlattenSeq(front) \o FlattenSeq(k)
  BY <1>2, <1>9, FlattenConcat, Zenon
<1> QED BY <1>10, TransparencyDef, Zenon DEF front, whole, all

\* Whether a position is dropped depends on its neighbours.
LEMMA KeptAlike ==
  ASSUME NEW s, NEW i, NEW u, NEW j, s[i] = u[j],
         s[i] \in {CR, Dot} => (i < Len(s) <=> j < Len(u)),
         s[i] \in {CR, Dot} /\ i < Len(s) => s[i + 1] = u[j + 1],
         s[i] = Dot => (i = 1 \/ s[i - 1] = LF <=> j = 1 \/ u[j - 1] = LF)
  PROVE  Kept(s, i) = Kept(u, j)
BY Zenon DEF Kept, TransparencyDot, BrokenLine

\* Behind the end of a line a text is decoded on its own.
LEMMA DecodedBehindLine ==
  ASSUME NEW S, NEW s \in Seq(S), NEW t \in Seq(S), s = <<>> \/ s[Len(s)] = LF
  PROVE  WithoutTransparency(s \o t) = WithoutTransparency(s) \o WithoutTransparency(t)
<1> DEFINE all == s \o t
<1>1. /\ all \in Seq(S) /\ Len(all) = Len(s) + Len(t)
      /\ Len(s) \in Nat /\ Len(t) \in Nat
      /\ \A k \in 1..Len(s) : all[k] = s[k]
      /\ \A k \in 1..Len(t) : all[Len(s) + k] = t[k]
  BY ConcatElements
<1> HIDE DEF all
<1>2. CR # LF /\ Dot # LF
  BY ParserAssumption
<1>3. ASSUME NEW i \in 1..Len(s) PROVE Kept(all, i) = Kept(s, i)
  <2>1. all[i] = s[i] /\ i \in Nat
    BY <1>1
  <2>2. s[i] \in {CR, Dot} => i < Len(s)
    <3>1. i = Len(s) => s[i] = LF
      BY <1>1
    <3> QED BY <1>1, <1>2, <3>1
  <2>3. s[i] \in {CR, Dot} => i < Len(all) /\ all[i + 1] = s[i + 1]
    <3>1. s[i] \in {CR, Dot} => i + 1 \in 1..Len(s) /\ i < Len(all)
      BY <1>1, <2>2
    <3> QED BY <1>1, <3>1
  <2>4. i = 1 \/ all[i - 1] = s[i - 1]
    <3>1. i # 1 => i - 1 \in 1..Len(s)
      BY <1>1
    <3> QED BY <1>1, <3>1
  <2> QED BY <2>1, <2>2, <2>3, <2>4, KeptAlike
<1>4. ASSUME NEW i \in 1..Len(t) PROVE Kept(all, Len(s) + i) = Kept(t, i)
  <2>1. all[Len(s) + i] = t[i]
    BY <1>1, Zenon
  <2>5. Len(s) \in Nat /\ Len(t) \in Nat /\ i \in Nat /\ 1 <= i /\ i <= Len(t)
    BY <1>1
  <2>2. Len(s) + i < Len(all) <=> i < Len(t)
    BY <1>1
  <2>3. i < Len(t) => all[(Len(s) + i) + 1] = t[i + 1]
    <3>1. i < Len(t) => i + 1 \in 1..Len(t) /\ Len(s) + (i + 1) = (Len(s) + i) + 1
      BY <2>5
    <3>2. i + 1 \in 1..Len(t) => all[Len(s) + (i + 1)] = t[i + 1]
      BY <1>1, Zenon
    <3> QED BY <3>1, <3>2
  <2>4. Len(s) + i = 1 \/ all[(Len(s) + i) - 1] = LF <=> i = 1 \/ t[i - 1] = LF
    <3>1. CASE i = 1
      <4>1. Len(s) = 0 => Len(s) + i = 1
        BY <3>1
      <4>2. Len(s) # 0 => (Len(s) + i) - 1 = Len(s) /\ Len(s) \in 1..Len(s) /\ s # <<>>
        BY <1>1, <3>1
      <4> QED BY <1>1, <3>1, <4>1, <4>2, Zenon
    <3>2. CASE i # 1
      <4>1. i - 1 \in 1..Len(t) /\ Len(s) + (i - 1) = (Len(s) + i) - 1
        BY <2>5, <3>2
      <4>2. all[Len(s) + (i - 1)] = t[i - 1]
        BY <1>1, <4>1, Zenon
      <4>3. Len(s) + i # 1
        BY <2>5, <3>2
      <4> QED BY <3>2, <4>1, <4>2, <4>3
    <3> QED BY <3>1, <3>2
  <2> QED BY <2>1, <2>2, <2>3, <2>4, KeptAlike
<1> DEFINE k == KeptOf(t)
<1>5. k \in Seq(Seq(S)) /\ Len(k) = Len(t) /\ \A i \in 1..Len(t) : k[i] = Kept(t, i)
  BY KeptType
<1> HIDE DEF k
<1>6. /\ \A i \in 1..Len(s) : Kept(s \o t, i) = Kept(s, i)
      /\ \A i \in 1..Len(t) : Kept(s \o t, Len(s) + i) = k[i]
  BY <1>3, <1>4, <1>5, Zenon DEF all
<1>7. WithoutTransparency(s \o t) = WithoutTransparency(s) \o FlattenSeq(k)
  BY <1>5, <1>6, KeptParts, Zenon
<1> QED BY <1>7, TransparencyDef, Zenon DEF k

\* The end of a line becomes a line feed.
LEMMA DecodedLineEnd ==
  ASSUME NEW s \in Seq(Bytes)
  PROVE  WithoutTransparency(s \o <<CR, LF>>) = WithoutTransparency(s) \o <<LF>>
<1> DEFINE end == <<CR, LF>>
           all == s \o end
           k == <<<<>>, <<LF>>>>
<1>1. end \in Seq(Bytes) /\ Len(end) = 2 /\ end[1] = CR /\ end[2] = LF
  BY ParserAssumption
<1>2. /\ k \in Seq(Seq(Bytes)) /\ Len(k) = 2 /\ k[1] = <<>> /\ k[2] = <<LF>>
      /\ FlattenSeq(k) = <<LF>>
  <2>1. LF \in Bytes
    BY ParserAssumption
  <2>2. <<LF>> \in Seq(Bytes) /\ <<>> \in Seq(Bytes)
    BY <2>1
  <2>3. <<<<>>>> \in Seq(Seq(Bytes))
    BY <2>2
  <2>4. k = Append(<<<<>>>>, <<LF>>)
    OBVIOUS
  <2>5. FlattenSeq(Append(<<<<>>>>, <<LF>>)) = FlattenSeq(<<<<>>>>) \o <<LF>>
    BY <2>2, <2>3, FlattenAppend, Zenon
  <2>6. FlattenSeq(<<<<>>>>) = <<>>
    BY FlattenOne, Zenon
  <2>7. <<>> \o <<LF>> = <<LF>>
    BY <2>2
  <2>8. k \in Seq(Seq(Bytes)) /\ Len(k) = 2 /\ k[1] = <<>> /\ k[2] = <<LF>>
    BY <2>2
  <2> HIDE DEF k
  <2> QED BY <2>4, <2>5, <2>6, <2>7, <2>8, Zenon
<1> HIDE DEF end, k
<1>3. /\ all \in Seq(Bytes) /\ Len(all) = Len(s) + 2 /\ Len(s) \in Nat
      /\ \A i \in 1..Len(s) : all[i] = s[i]
      /\ all[Len(s) + 1] = CR /\ all[Len(s) + 2] = LF
  <2>1. /\ all \in Seq(Bytes) /\ Len(all) = Len(s) + Len(end)
        /\ Len(s) \in Nat /\ Len(end) \in Nat
        /\ \A i \in 1..Len(s) : all[i] = s[i]
        /\ \A i \in 1..Len(end) : all[Len(s) + i] = end[i]
    <3>1. end \in Seq(Bytes)
      BY <1>1, Zenon
    <3> QED BY <3>1, ConcatElements
  <2>2. 1 \in 1..Len(end) /\ 2 \in 1..Len(end) /\ Len(s) + Len(end) = Len(s) + 2
    BY <1>1
  <2> QED BY <1>1, <2>1, <2>2, Zenon
<1> HIDE DEF all
<1>4. CR # LF /\ Dot # LF /\ CR # Dot
  BY ParserAssumption
<1>5. ASSUME NEW i \in 1..Len(s) PROVE Kept(all, i) = Kept(s, i)
  <2>1. all[i] = s[i] /\ i < Len(all) /\ i \in Nat
    BY <1>3
  <2>2. i < Len(s) => all[i + 1] = s[i + 1]
    <3>1. i < Len(s) => i + 1 \in 1..Len(s)
      BY <1>3
    <3> QED BY <1>3, <3>1
  <2>3. ~ (i < Len(s)) => all[i + 1] = CR
    <3>1. ~ (i < Len(s)) => i + 1 = Len(s) + 1
      BY <1>3
    <3> QED BY <1>3, <3>1
  <2>4. i = 1 \/ all[i - 1] = s[i - 1]
    <3>1. i # 1 => i - 1 \in 1..Len(s)
      BY <1>3
    <3> QED BY <1>3, <3>1
  <2>5. TransparencyDot(all, i) <=> TransparencyDot(s, i)
    BY <1>4, <2>1, <2>2, <2>3, <2>4, Zenon DEF TransparencyDot
  <2>6. BrokenLine(all, i) <=> BrokenLine(s, i)
    BY <1>4, <2>1, <2>2, <2>3, Zenon DEF BrokenLine
  <2> QED BY <2>1, <2>5, <2>6, Zenon DEF Kept
<1>6. Kept(all, Len(s) + 1) = <<>> /\ Kept(all, Len(s) + 2) = <<LF>>
  <2>1. Len(s) + 1 < Len(all) /\ (Len(s) + 1) + 1 = Len(s) + 2
    BY <1>3
  <2>2. BrokenLine(all, Len(s) + 1)
    BY <1>3, <2>1, Zenon DEF BrokenLine
  <2>3. ~ TransparencyDot(all, Len(s) + 2) /\ ~ BrokenLine(all, Len(s) + 2)
    BY <1>3, <1>4, Zenon DEF TransparencyDot, BrokenLine
  <2> QED BY <1>3, <2>2, <2>3, Zenon DEF Kept
<1>7. \A i \in 1..Len(end) : Kept(all, Len(s) + i) = k[i]
  <2>1. \A i \in 1..Len(end) : i = 1 \/ i = 2
    BY <1>1
  <2> QED BY <1>2, <1>6, <2>1, Zenon
<1>8. WithoutTransparency(s \o end) = WithoutTransparency(s) \o FlattenSeq(k)
  <2>1. /\ \A i \in 1..Len(s) : Kept(s \o end, i) = Kept(s, i)
        /\ \A i \in 1..Len(end) : Kept(s \o end, Len(s) + i) = k[i]
    BY <1>5, <1>7, Zenon DEF all
  <2>2. Len(k) = Len(end)
    BY <1>1, <1>2
  <2> QED BY <1>1, <1>2, <2>1, <2>2, KeptParts, Zenon
<1> QED BY <1>2, <1>8, Zenon DEF end

-----------------------------------------------------------------------------
(***************************************************************************)
(* One line                                                                *)
(***************************************************************************)

\* The elements of a line, each a sequence of its own.
Singles(s) == [i \in DOMAIN s |-> <<s[i]>>]

\* What they are.
LEMMA SinglesType ==
  ASSUME NEW S, NEW s \in Seq(S)
  PROVE  /\ Singles(s) \in Seq(Seq(S)) /\ Len(Singles(s)) = Len(s)
         /\ Len(s) \in Nat /\ \A i \in 1..Len(s) : Singles(s)[i] = <<s[i]>>
<1>1. DOMAIN s = 1..Len(s) /\ Len(s) \in Nat
  BY LenProperties
<1>2. \A i \in 1..Len(s) : <<s[i]>> \in Seq(S)
  <2>1. ASSUME NEW i \in 1..Len(s) PROVE <<s[i]>> \in Seq(S)
    BY ElementOfSeq
  <2> QED BY <2>1
<1>3. Singles(s) \in [1..Len(s) -> Seq(S)]
  BY <1>1, <1>2 DEF Singles
<1>4. \A i \in 1..Len(s) : Singles(s)[i] = <<s[i]>>
  BY <1>1, Zenon DEF Singles
<1> QED BY <1>1, <1>3, <1>4

\* One more element.
LEMMA SinglesAppend ==
  ASSUME NEW S, NEW s \in Seq(S), NEW e \in S
  PROVE  Singles(Append(s, e)) = Append(Singles(s), <<e>>)
<1> DEFINE all == Append(s, e)
           k == Singles(s)
<1>1. /\ all \in Seq(S) /\ Len(all) = Len(s) + 1 /\ Len(s) \in Nat
      /\ \A i \in 1..Len(s) : all[i] = s[i]
      /\ all[Len(s) + 1] = e
  BY AppendProperties, LenProperties
<1>2. k \in Seq(Seq(S)) /\ Len(k) = Len(s) /\ \A i \in 1..Len(s) : k[i] = <<s[i]>>
  BY SinglesType
<1>3. <<e>> \in Seq(S)
  OBVIOUS
<1> HIDE DEF all, k
<1>4. /\ Singles(all) \in Seq(Seq(S)) /\ Len(Singles(all)) = Len(s) + 1
      /\ \A i \in 1..(Len(s) + 1) : Singles(all)[i] = <<all[i]>>
  BY <1>1, SinglesType
<1> DEFINE one == <<e>>
<1> HIDE DEF one
<1>5. /\ Append(k, one) \in Seq(Seq(S)) /\ Len(Append(k, one)) = Len(s) + 1
      /\ \A i \in 1..Len(s) : Append(k, one)[i] = k[i]
      /\ Append(k, one)[Len(s) + 1] = one
  <2>1. one \in Seq(S)
    BY <1>3, Zenon DEF one
  <2> QED BY <1>2, <2>1, AppendProperties
<1>6. ASSUME NEW i \in 1..(Len(s) + 1) PROVE Singles(all)[i] = Append(k, one)[i]
  <2>1. i \in 1..Len(s) \/ i = Len(s) + 1
    BY <1>1
  <2> QED BY <1>1, <1>2, <1>4, <1>5, <2>1, Zenon DEF one
<1>7. Singles(all) = Append(k, one)
  BY <1>4, <1>5, <1>6, SeqEqual
<1> QED BY <1>7, Zenon DEF all, k, one

\* Together they are the line.
LEMMA FlattenSingles ==
  ASSUME NEW S, NEW s \in Seq(S)
  PROVE  FlattenSeq(Singles(s)) = s
<1> DEFINE Holds == {n \in Nat : \A t \in Seq(S) : Len(t) = n =>
                        FlattenSeq(Singles(t)) = t}
<1>1. 0 \in Holds
  <2>1. \A t \in Seq(S) : Len(t) = 0 => t = <<>>
    OBVIOUS
  <2>2. Singles(<<>>) = <<>>
    BY DEF Singles
  <2>3. 0 \in Nat
    OBVIOUS
  <2> QED BY <2>1, <2>2, <2>3, FlattenEmpty, Zenon
<1>2. ASSUME NEW n \in Nat, n \in Holds PROVE n + 1 \in Holds
  <2>1. ASSUME NEW t \in Seq(S), Len(t) = n + 1
        PROVE  FlattenSeq(Singles(t)) = t
    <3>1. PICK u \in Seq(S), e \in S : t = Append(u, e) /\ Len(u) = n
      BY <2>1, SplitLast
    <3>2. FlattenSeq(Singles(u)) = u
      BY <1>2, <3>1, Zenon
    <3>3. Singles(Append(u, e)) = Append(Singles(u), <<e>>)
      BY SinglesAppend
    <3>4. FlattenSeq(Append(Singles(u), <<e>>)) = FlattenSeq(Singles(u)) \o <<e>>
      <4>1. Singles(u) \in Seq(Seq(S)) /\ <<e>> \in Seq(S)
        BY SinglesType
      <4> QED BY <4>1, FlattenAppend, Zenon
    <3>5. Append(u, e) = u \o <<e>>
      BY AppendIsConcat
    <3> QED BY <3>1, <3>2, <3>3, <3>4, <3>5, Zenon
  <2>2. n + 1 \in Nat
    OBVIOUS
  <2> QED BY <2>1, <2>2, Zenon
<1>3. Len(s) \in Nat
  OBVIOUS
<1>4. \A n \in Nat : n \in Holds
  <2> HIDE DEF Holds
  <2> QED BY <1>1, <1>2, Induction
<1> QED BY <1>3, <1>4, Zenon

\* What a line is sent as; its stuffing makes it no lone dot.
LEMMA StuffedLine ==
  ASSUME NEW line \in Seq(Bytes \ {LF})
  PROVE  /\ line \in Seq(Bytes) /\ Stuffed(line) \in Seq(Bytes \ {LF})
         /\ Stuffed(line) # <<Dot>>
<1>1. Dot \in Bytes \ {LF}
  BY ParserAssumption
<1>2. line \in Seq(Bytes)
  BY SeqMonotonic
<1>3. CASE line # <<>> /\ Head(line) = Dot
  <2>1. Stuffed(line) = <<Dot>> \o line
    BY <1>3 DEF Stuffed
  <2>2. <<Dot>> \in Seq(Bytes \ {LF}) /\ Len(<<Dot>>) = 1
    BY <1>1
  <2>3. /\ Stuffed(line) \in Seq(Bytes \ {LF})
        /\ Len(Stuffed(line)) = Len(<<Dot>>) + Len(line)
    BY <2>1, <2>2, ConcatProperties
  <2>4. Len(line) \in Nat /\ Len(line) # 0
    BY <1>3, LenProperties, EmptySeq
  <2>5. Len(Stuffed(line)) # Len(<<Dot>>)
    BY <2>2, <2>3, <2>4
  <2> QED BY <1>2, <2>3, <2>5, Zenon
<1>4. CASE ~ (line # <<>> /\ Head(line) = Dot)
  <2>1. Stuffed(line) = line
    BY <1>4 DEF Stuffed
  <2>2. <<Dot>> # <<>> /\ Head(<<Dot>>) = Dot
    OBVIOUS
  <2> QED BY <1>2, <1>4, <2>1, <2>2, Zenon
<1> QED BY <1>3, <1>4

\* And it is decoded to itself.
LEMMA LineDecoded ==
  ASSUME NEW line \in Seq(Bytes \ {LF})
  PROVE  WithoutTransparency(Stuffed(line)) = line
<1>1. CR # LF /\ Dot # LF /\ CR # Dot /\ Dot \in Bytes
  BY ParserAssumption
<1>2. /\ line \in Seq(Bytes) /\ Len(line) \in Nat
      /\ \A i \in 1..Len(line) : line[i] # LF
  <2>1. \A i \in 1..Len(line) : line[i] \in Bytes \ {LF}
    BY ElementOfSeq
  <2> QED BY <2>1, SeqMonotonic, LenProperties
<1>3. CASE line # <<>> /\ Head(line) = Dot
  <2> DEFINE dot == <<Dot>>
             all == dot \o line
             k == Singles(line)
  <2>1. dot \in Seq(Bytes) /\ Len(dot) = 1 /\ dot[1] = Dot /\ DOMAIN dot = {1}
    BY <1>1
  <2>2. /\ k \in Seq(Seq(Bytes)) /\ Len(k) = Len(line)
        /\ \A i \in 1..Len(line) : k[i] = <<line[i]>>
        /\ FlattenSeq(k) = line
    BY <1>2, SinglesType, FlattenSingles
  <2>3. 1 \in 1..Len(line) /\ line[1] = Dot
    <3>1. Len(line) # 0
      BY <1>2, <1>3, EmptySeq
    <3>2. Head(line) = line[1]
      OBVIOUS
    <3> QED BY <1>2, <1>3, <3>1, <3>2
  <2> HIDE DEF dot, k
  <2>4. /\ all \in Seq(Bytes) /\ Len(all) = 1 + Len(line)
        /\ all[1] = Dot
        /\ \A i \in 1..Len(line) : all[1 + i] = line[i]
    <3>1. /\ all \in Seq(Bytes) /\ Len(all) = Len(dot) + Len(line)
          /\ \A i \in 1..Len(dot) : all[i] = dot[i]
          /\ \A i \in 1..Len(line) : all[Len(dot) + i] = line[i]
      <4>1. dot \in Seq(Bytes) /\ line \in Seq(Bytes)
        BY <1>2, <2>1, Zenon
      <4> QED BY <4>1, ConcatElements
    <3>2. 1 \in 1..Len(dot)
      BY <2>1
    <3> QED BY <2>1, <3>1, <3>2, Zenon
  <2> HIDE DEF all
  <2>5. Kept(all, 1) = <<>>
    <3>1. 1 < Len(all) /\ 1 + 1 \in 1..Len(all) /\ 1 + 1 = 2
      BY <1>2, <2>3, <2>4
    <3>2. all[1 + 1] = Dot
      BY <2>3, <2>4
    <3>3. TransparencyDot(all, 1)
      BY <2>4, <3>1, <3>2, Zenon DEF TransparencyDot
    <3> QED BY <3>3, Zenon DEF Kept
  <2>6. ASSUME NEW i \in 1..Len(line) PROVE Kept(all, 1 + i) = k[i]
    <3>1. 1 + i # 1 /\ (1 + i) - 1 = i /\ i \in Nat
      BY <1>2
    <3>2. all[i] # LF
      <4>1. CASE i = 1
        BY <1>1, <2>4, <4>1
      <4>2. CASE i # 1
        <5>1. i - 1 \in 1..Len(line) /\ 1 + (i - 1) = i
          BY <1>2, <4>2
        <5>2. all[1 + (i - 1)] = line[i - 1] /\ line[i - 1] # LF
          BY <1>2, <2>4, <5>1, Zenon
        <5> QED BY <5>1, <5>2
      <4> QED BY <4>1, <4>2
    <3>3. ~ TransparencyDot(all, 1 + i)
      <4>1. all[(1 + i) - 1] # LF
        BY <3>1, <3>2
      <4> QED BY <3>1, <4>1, Zenon DEF TransparencyDot
    <3>4. ~ BrokenLine(all, 1 + i)
      <4>1. 1 + i < Len(all) => i + 1 \in 1..Len(line) /\ 1 + (i + 1) = (1 + i) + 1
        BY <1>2, <2>4
      <4>2. i + 1 \in 1..Len(line) => all[1 + (i + 1)] = line[i + 1] /\ line[i + 1] # LF
        BY <1>2, <2>4, Zenon
      <4>3. 1 + i < Len(all) => all[(1 + i) + 1] # LF
        BY <4>1, <4>2
      <4> QED BY <4>3, Zenon DEF BrokenLine
    <3> QED BY <2>2, <2>4, <3>3, <3>4, Zenon DEF Kept
  <2> DEFINE none == <<<<>>>>
             whole == KeptOf(all)
  <2>7. none \in Seq(Seq(Bytes)) /\ Len(none) = 1 /\ none[1] = <<>>
    <3>1. <<>> \in Seq(Bytes)
      OBVIOUS
    <3> QED BY <3>1
  <2>8. FlattenSeq(none) = <<>>
    BY FlattenOne, Zenon
  <2>9. /\ whole \in Seq(Seq(Bytes)) /\ Len(whole) = 1 + Len(line)
        /\ \A i \in 1..(1 + Len(line)) : whole[i] = Kept(all, i)
    BY <2>4, KeptType
  <2> HIDE DEF none, whole
  <2>10. whole = none \o k
    <3>1. \A i \in 1..Len(none) : whole[i] = none[i]
      <4>1. \A i \in 1..Len(none) : i = 1 /\ i \in 1..(1 + Len(line))
        BY <1>2, <2>7
      <4> QED BY <2>5, <2>7, <2>9, <4>1, Zenon
    <3>2. \A i \in 1..Len(k) : whole[Len(none) + i] = k[i]
      <4>1. \A i \in 1..Len(line) : 1 + i \in 1..(1 + Len(line))
        BY <1>2
      <4> QED BY <2>2, <2>6, <2>7, <2>9, <4>1, Zenon
    <3>3. Len(whole) = Len(none) + Len(k)
      BY <2>2, <2>7, <2>9
    <3> QED BY <2>2, <2>7, <2>9, <3>1, <3>2, <3>3, ConcatEqual
  <2>11. FlattenSeq(whole) = <<>> \o line
    <3>1. FlattenSeq(none \o k) = FlattenSeq(none) \o FlattenSeq(k)
      BY <2>2, <2>7, FlattenConcat, Zenon
    <3> QED BY <2>2, <2>8, <2>10, <3>1, Zenon
  <2>12. <<>> \o line = line
    BY <1>2, ConcatEmptySeq
  <2>13. Stuffed(line) = all
    BY <1>3, Zenon DEF Stuffed, all, dot
  <2>14. WithoutTransparency(all) = FlattenSeq(whole)
    BY TransparencyDef, Zenon DEF whole
  <2> QED BY <2>11, <2>12, <2>13, <2>14, Zenon
<1>4. CASE ~ (line # <<>> /\ Head(line) = Dot)
  <2> DEFINE k == Singles(line)
  <2>1. Stuffed(line) = line
    BY <1>4 DEF Stuffed
  <2>2. /\ k \in Seq(Seq(Bytes)) /\ Len(k) = Len(line)
        /\ \A i \in 1..Len(line) : k[i] = <<line[i]>>
        /\ FlattenSeq(k) = line
    BY <1>2, SinglesType, FlattenSingles
  <2>3. /\ KeptOf(line) \in Seq(Seq(Bytes)) /\ Len(KeptOf(line)) = Len(line)
        /\ \A i \in 1..Len(line) : KeptOf(line)[i] = Kept(line, i)
    BY <1>2, KeptType
  <2> HIDE DEF k
  <2>4. ASSUME NEW i \in 1..Len(line) PROVE Kept(line, i) = k[i]
    <3>1. ~ TransparencyDot(line, i)
      <4>1. i = 1 => line[i] # Dot
        <5>1. line # <<>> => Head(line) = line[1]
          OBVIOUS
        <5>2. line # <<>>
          BY <1>2, EmptySeq
        <5> QED BY <1>4, <5>1, <5>2
      <4>2. i # 1 => line[i - 1] # LF
        <5>1. i # 1 => i - 1 \in 1..Len(line)
          BY <1>2
        <5> QED BY <1>2, <5>1
      <4> QED BY <4>1, <4>2, Zenon DEF TransparencyDot
    <3>2. ~ BrokenLine(line, i)
      <4>1. i < Len(line) => i + 1 \in 1..Len(line)
        BY <1>2
      <4> QED BY <1>2, <4>1, Zenon DEF BrokenLine
    <3> QED BY <2>2, <3>1, <3>2, Zenon DEF Kept
  <2>5. KeptOf(line) = k
    <3>1. \A i \in 1..Len(line) : KeptOf(line)[i] = k[i]
      BY <2>3, <2>4, Zenon
    <3> HIDE DEF KeptOf
    <3> QED BY <2>2, <2>3, <3>1, SeqEqual
  <2>6. WithoutTransparency(line) = FlattenSeq(KeptOf(line))
    BY TransparencyDef
  <2>7. FlattenSeq(k) = line
    BY <2>2, Zenon
  <2> QED BY <2>1, <2>5, <2>6, <2>7
<1> QED BY <1>3, <1>4

-----------------------------------------------------------------------------
(***************************************************************************)
(* Lines                                                                   *)
(***************************************************************************)

\* What complete lines are sent as, and meant as without the last line feed.
Sent(lines) == FlattenSeq([i \in DOMAIN lines |-> Stuffed(lines[i]) \o <<CR, LF>>])

Separated(lines) ==
    FlattenSeq([i \in DOMAIN lines |-> (IF i = 1 THEN <<>> ELSE <<LF>>) \o lines[i]])

\* One more line.
LEMMA SentAppend ==
  ASSUME NEW S, NEW lines \in Seq(S), NEW line \in S,
         \A l \in S : Stuffed(l) \o <<CR, LF>> \in Seq(Bytes)
  PROVE  Sent(Append(lines, line)) = Sent(lines) \o (Stuffed(line) \o <<CR, LF>>)
<1> DEFINE E(l) == Stuffed(l) \o <<CR, LF>>
           all == Append(lines, line)
           f == [i \in DOMAIN lines |-> E(lines[i])]
           g == [i \in DOMAIN all |-> E(all[i])]
           e == E(line)
<1>1. /\ all \in Seq(S) /\ Len(all) = Len(lines) + 1 /\ Len(lines) \in Nat
      /\ \A i \in 1..Len(lines) : all[i] = lines[i] /\ lines[i] \in S
      /\ all[Len(lines) + 1] = line
      /\ DOMAIN all = 1..(Len(lines) + 1) /\ DOMAIN lines = 1..Len(lines)
  BY AppendProperties, LenProperties, ElementOfSeq
<1>2. \A l \in S : E(l) \in Seq(Bytes)
  OBVIOUS
<1> HIDE DEF E, all
<1>3. f \in Seq(Seq(Bytes)) /\ Len(f) = Len(lines) /\ \A i \in 1..Len(lines) : f[i] = E(lines[i])
  BY <1>1, <1>2
<1>4. \A i \in 1..(Len(lines) + 1) : all[i] \in S
  BY <1>1, ElementOfSeq
<1>5. g \in Seq(Seq(Bytes)) /\ Len(g) = Len(lines) + 1
      /\ \A i \in 1..(Len(lines) + 1) : g[i] = E(all[i])
  BY <1>1, <1>2, <1>4
<1>6. e \in Seq(Bytes)
  BY <1>2
<1>7. Sent(all) = FlattenSeq(g) /\ Sent(lines) = FlattenSeq(f)
  BY Zenon DEF Sent, E
<1> HIDE DEF f, g, e
<1>8. /\ Append(f, e) \in Seq(Seq(Bytes)) /\ Len(Append(f, e)) = Len(lines) + 1
      /\ \A i \in 1..Len(lines) : Append(f, e)[i] = f[i]
      /\ Append(f, e)[Len(lines) + 1] = e
  BY <1>3, <1>6, AppendProperties
<1>9. ASSUME NEW i \in 1..(Len(lines) + 1) PROVE g[i] = Append(f, e)[i]
  <2>1. i \in 1..Len(lines) \/ i = Len(lines) + 1
    BY <1>1
  <2>2. E(line) = e
    BY Zenon DEF e
  <2> QED BY <1>1, <1>3, <1>5, <1>8, <2>1, <2>2, Zenon
<1>10. g = Append(f, e)
  BY <1>5, <1>8, <1>9, SeqEqual
<1>11. FlattenSeq(Append(f, e)) = FlattenSeq(f) \o e
  BY <1>3, <1>6, FlattenAppend, Zenon
<1> QED BY <1>7, <1>10, <1>11, Zenon DEF all, e, E

\* One more line behind a line feed, or at the start.
LEMMA SeparatedAppend ==
  ASSUME NEW lines \in Seq(Seq(Bytes)), NEW line \in Seq(Bytes)
  PROVE  /\ Separated(lines) \in Seq(Bytes)
         /\ Separated(Append(lines, line)) =
               Separated(lines) \o ((IF lines = <<>> THEN <<>> ELSE <<LF>>) \o line)
<1> DEFINE E(i, l) == (IF i = 1 THEN <<>> ELSE <<LF>>) \o l
           all == Append(lines, line)
           n == Len(lines)
           f == [i \in DOMAIN lines |-> E(i, lines[i])]
           g == [i \in DOMAIN all |-> E(i, all[i])]
           e == E(n + 1, line)
<1>1. /\ all \in Seq(Seq(Bytes)) /\ Len(all) = n + 1 /\ n \in Nat
      /\ \A i \in 1..n : all[i] = lines[i] /\ lines[i] \in Seq(Bytes)
      /\ all[n + 1] = line
      /\ DOMAIN all = 1..(n + 1) /\ DOMAIN lines = 1..n
      /\ lines = <<>> <=> n + 1 = 1
  BY AppendProperties, LenProperties, ElementOfSeq, EmptySeq
<1>2. \A i \in Nat : \A l \in Seq(Bytes) : E(i, l) \in Seq(Bytes)
  <2>1. ASSUME NEW i \in Nat, NEW l \in Seq(Bytes) PROVE E(i, l) \in Seq(Bytes)
    <3>1. <<LF>> \in Seq(Bytes) /\ <<>> \in Seq(Bytes)
      BY ParserAssumption
    <3>2. (IF i = 1 THEN <<>> ELSE <<LF>>) \in Seq(Bytes)
      BY <3>1, Zenon
    <3> QED BY <3>2, ConcatProperties
  <2> QED BY <2>1
<1> HIDE DEF E, all, n
<1>3. f \in Seq(Seq(Bytes)) /\ Len(f) = n /\ \A i \in 1..n : f[i] = E(i, lines[i])
  BY <1>1, <1>2
<1>4. \A i \in 1..(n + 1) : all[i] \in Seq(Bytes)
  BY <1>1, ElementOfSeq
<1>5. g \in Seq(Seq(Bytes)) /\ Len(g) = n + 1
      /\ \A i \in 1..(n + 1) : g[i] = E(i, all[i])
  BY <1>1, <1>2, <1>4
<1>6. e \in Seq(Bytes)
  BY <1>1, <1>2
<1>7. Separated(all) = FlattenSeq(g) /\ Separated(lines) = FlattenSeq(f)
  BY Zenon DEF Separated, E
<1> HIDE DEF f, g, e
<1>8. /\ Append(f, e) \in Seq(Seq(Bytes)) /\ Len(Append(f, e)) = n + 1
      /\ \A i \in 1..n : Append(f, e)[i] = f[i]
      /\ Append(f, e)[n + 1] = e
  BY <1>3, <1>6, AppendProperties
<1>9. ASSUME NEW i \in 1..(n + 1) PROVE g[i] = Append(f, e)[i]
  <2>1. i \in 1..n \/ i = n + 1
    BY <1>1
  <2>2. E(n + 1, line) = e
    BY Zenon DEF e
  <2> QED BY <1>1, <1>3, <1>5, <1>8, <2>1, <2>2, Zenon
<1>10. g = Append(f, e)
  BY <1>5, <1>8, <1>9, SeqEqual
<1>11. FlattenSeq(Append(f, e)) = FlattenSeq(f) \o e /\ FlattenSeq(f) \in Seq(Bytes)
  BY <1>3, <1>6, FlattenAppend, FlattenType, Zenon
<1>12. e = (IF lines = <<>> THEN <<>> ELSE <<LF>>) \o line
  BY <1>1, Zenon DEF e, E
<1> QED BY <1>7, <1>10, <1>11, <1>12, Zenon DEF all

(***************************************************************************)
(* A dot on a line by itself.  What has been sent of a message never has   *)
(* one, and ends a line.                                                   *)
(***************************************************************************)
LoneDot(s, i) ==
    /\ i \in Nat /\ i + 3 <= Len(s)
    /\ i = 0 \/ s[i] = LF
    /\ s[i + 1] = Dot /\ s[i + 2] = CR /\ s[i + 3] = LF

Open(s) == (s = <<>> \/ s[Len(s)] = LF) /\ \A i \in Nat : ~ LoneDot(s, i)

\* One more line does not change that.
LEMMA OpenNext ==
  ASSUME NEW s \in Seq(Bytes), Open(s), NEW u \in Seq(Bytes \ {LF}), u # <<Dot>>
  PROVE  /\ u \o <<CR, LF>> \in Seq(Bytes)
         /\ s \o (u \o <<CR, LF>>) \in Seq(Bytes)
         /\ Open(s \o (u \o <<CR, LF>>))
<1> DEFINE end == <<CR, LF>>
           t == u \o end
           all == s \o t
<1>1. /\ end \in Seq(Bytes) /\ Len(end) = 2 /\ end[1] = CR /\ end[2] = LF
      /\ CR # LF /\ Dot # LF /\ CR # Dot
  BY ParserAssumption
<1>2. /\ u \in Seq(Bytes) /\ Len(u) \in Nat /\ \A i \in 1..Len(u) : u[i] # LF
  <2>1. \A i \in 1..Len(u) : u[i] \in Bytes \ {LF}
    BY ElementOfSeq
  <2> QED BY <2>1, SeqMonotonic, LenProperties
<1> HIDE DEF end
<1>3. /\ t \in Seq(Bytes) /\ Len(t) = Len(u) + 2
      /\ \A i \in 1..Len(u) : t[i] = u[i]
      /\ t[Len(u) + 1] = CR /\ t[Len(u) + 2] = LF
  <2>1. end \in Seq(Bytes) /\ u \in Seq(Bytes)
    BY <1>1, <1>2, Zenon
  <2>2. /\ t \in Seq(Bytes) /\ Len(t) = Len(u) + Len(end)
        /\ Len(end) \in Nat
        /\ \A i \in 1..Len(u) : t[i] = u[i]
        /\ \A i \in 1..Len(end) : t[Len(u) + i] = end[i]
    BY <2>1, ConcatElements
  <2>3. 1 \in 1..Len(end) /\ 2 \in 1..Len(end)
    BY <1>1
  <2> QED BY <1>1, <2>2, <2>3, Zenon
<1> HIDE DEF t
<1>4. /\ all \in Seq(Bytes) /\ Len(all) = Len(s) + Len(t)
      /\ Len(s) \in Nat
      /\ \A i \in 1..Len(s) : all[i] = s[i]
      /\ \A i \in 1..Len(t) : all[Len(s) + i] = t[i]
  <2>1. t \in Seq(Bytes)
    BY <1>3, Zenon
  <2> QED BY <2>1, ConcatElements
<1> HIDE DEF all
<1>5. Len(u) \in Nat /\ Len(s) \in Nat /\ Len(t) = Len(u) + 2
      /\ Len(all) = Len(s) + Len(u) + 2
  BY <1>2, <1>3, <1>4
<1>6. all[Len(all)] = LF
  <2>1. Len(all) = Len(s) + (Len(u) + 2) /\ Len(u) + 2 \in 1..Len(t)
    BY <1>5
  <2> QED BY <1>3, <1>4, <2>1, Zenon
<1>7. ASSUME NEW i \in Nat, LoneDot(all, i) PROVE FALSE
  <2>1. /\ i + 3 <= Len(all) /\ (i = 0 \/ all[i] = LF)
        /\ all[i + 1] = Dot /\ all[i + 2] = CR /\ all[i + 3] = LF
    BY <1>7, Zenon DEF LoneDot
  <2>2. CASE i + 3 <= Len(s)
    <3>1. /\ i + 1 \in 1..Len(s) /\ i + 2 \in 1..Len(s) /\ i + 3 \in 1..Len(s)
          /\ i = 0 \/ i \in 1..Len(s)
      BY <1>5, <2>2
    <3>2. /\ i = 0 \/ s[i] = LF
          /\ s[i + 1] = Dot /\ s[i + 2] = CR /\ s[i + 3] = LF
      BY <1>4, <2>1, <3>1, Zenon
    <3>3. LoneDot(s, i)
      BY <2>2, <3>2, Zenon DEF LoneDot
    <3> QED BY <3>3, Zenon DEF Open
  <2>3. CASE i < Len(s) /\ Len(s) < i + 3
    <3>1. s # <<>> /\ Len(s) \in 1..Len(s)
      BY <1>5, <2>3
    <3>2. all[Len(s)] = LF
      BY <1>4, <3>1, Zenon DEF Open
    <3>3. Len(s) = i + 1 \/ Len(s) = i + 2
      BY <1>5, <2>3
    <3> QED BY <1>1, <2>1, <3>2, <3>3, Zenon
  <2>4. CASE Len(s) <= i
    <3> DEFINE j == i - Len(s)
    <3>1. /\ j \in Nat /\ i = Len(s) + j /\ j + 3 <= Len(t)
          /\ i + 1 = Len(s) + (j + 1) /\ i + 2 = Len(s) + (j + 2)
          /\ i + 3 = Len(s) + (j + 3)
          /\ j + 1 \in 1..Len(t) /\ j + 2 \in 1..Len(t) /\ j + 3 \in 1..Len(t)
          /\ j = 0 \/ j \in 1..Len(t)
      BY <1>5, <2>1, <2>4
    <3> HIDE DEF j
    <3>2. t[j + 1] = Dot /\ t[j + 2] = CR /\ t[j + 3] = LF
      BY <1>4, <2>1, <3>1
    <3>3. j # 0 => t[j] = LF
      <4>1. j # 0 => i # 0 /\ j \in 1..Len(t)
        BY <1>5, <3>1
      <4> QED BY <1>4, <2>1, <3>1, <4>1
    <3>4. \A k \in 1..Len(t) : t[k] = LF => k = Len(u) + 2
      <4>1. \A k \in 1..Len(t) : k \in 1..Len(u) \/ k = Len(u) + 1 \/ k = Len(u) + 2
        BY <1>5
      <4> QED BY <1>1, <1>2, <1>3, <4>1, Zenon
    <3>5. j + 3 = Len(u) + 2
      BY <3>1, <3>2, <3>4
    <3>6. j = 0
      BY <1>5, <3>1, <3>3, <3>4, <3>5
    <3>7. Len(u) = 1 /\ u[1] = Dot
      <4>1. Len(u) = 1 /\ j + 1 = 1
        <5> DEFINE m == Len(u)
        <5>1. m \in Nat /\ 0 + 3 = m + 2
          BY <1>5, <3>5, <3>6
        <5> HIDE DEF m
        <5>2. m = 1
          BY <5>1
        <5> QED BY <3>6, <5>2 DEF m
      <4>2. 1 \in 1..1
        OBVIOUS
      <4> QED BY <1>3, <3>2, <4>1, <4>2, Zenon
    <3>8. u = <<Dot>>
      BY <3>7
    <3> QED BY <3>8
  <2> QED BY <1>5, <2>2, <2>3, <2>4
<1>8. Open(all)
  BY <1>6, <1>7, Zenon DEF Open
<1> QED BY <1>3, <1>4, <1>8, Zenon DEF all, t, end

\* The lines that a message can have.
MessageLines == Seq(Bytes \ {LF})

\* What is known of them.
LEMMA MessageLine ==
  ASSUME NEW line \in MessageLines
  PROVE  /\ line \in Seq(Bytes)
         /\ Stuffed(line) \in MessageLines /\ Stuffed(line) # <<Dot>>
         /\ Stuffed(line) \in Seq(Bytes)
         /\ Stuffed(line) \o <<CR, LF>> \in Seq(Bytes)
<1> DEFINE u == Stuffed(line)
           end == <<CR, LF>>
<1>1. line \in Seq(Bytes) /\ u \in Seq(Bytes \ {LF}) /\ u # <<Dot>>
  BY StuffedLine DEF MessageLines
<1> HIDE DEF u
<1>2. u \in Seq(Bytes)
  BY <1>1, SeqMonotonic
<1>3. end \in Seq(Bytes)
  BY ParserAssumption
<1> HIDE DEF end
<1>4. u \o end \in Seq(Bytes)
  BY <1>2, <1>3, ConcatProperties
<1> QED BY <1>1, <1>2, <1>4, Zenon DEF u, end, MessageLines

\* Lines with a line feed behind each.
Completed(lines) == IF lines = <<>> THEN <<>> ELSE Separated(lines) \o <<LF>>

\* The last line is the one without.
LEMMA SeparatedLast ==
  ASSUME NEW lines \in Seq(Seq(Bytes)), NEW line \in Seq(Bytes)
  PROVE  /\ Completed(lines) \in Seq(Bytes)
         /\ Separated(Append(lines, line)) = Completed(lines) \o line
<1> DEFINE feed == <<LF>>
           all == Append(lines, line)
           before == Separated(lines)
<1>1. feed \in Seq(Bytes)
  BY ParserAssumption
<1>2. /\ before \in Seq(Bytes)
      /\ Separated(all) = before \o ((IF lines = <<>> THEN <<>> ELSE feed) \o line)
  BY SeparatedAppend
<1> HIDE DEF feed, all, before
<1>3. CASE lines = <<>>
  <2>1. before = <<>>
    <3>1. [i \in DOMAIN <<>> |-> (IF i = 1 THEN <<>> ELSE <<LF>>) \o <<>>[i]] = <<>>
      OBVIOUS
    <3> QED BY <1>3, <3>1, FlattenEmpty, Zenon DEF Separated, before
  <2>2. <<>> \o line = line
    BY ConcatEmptySeq
  <2>3. Completed(lines) = <<>> /\ <<>> \in Seq(Bytes)
    BY <1>3 DEF Completed
  <2> QED BY <1>2, <1>3, <2>1, <2>2, <2>3, Zenon DEF all
<1>4. CASE lines # <<>>
  <2>1. Completed(lines) = before \o feed
    BY <1>4, Zenon DEF Completed, feed, before
  <2>2. (before \o feed) \o line = before \o (feed \o line) /\ before \o feed \in Seq(Bytes)
    <3>1. before \in Seq(Bytes)
      BY <1>2, Zenon
    <3> QED BY <1>1, <3>1, ConcatAssociative, ConcatProperties
  <2> QED BY <1>2, <1>4, <2>1, <2>2, Zenon DEF all
<1> QED BY <1>3, <1>4

\* One more line.
LEMMA CompletedAppend ==
  ASSUME NEW lines \in Seq(Seq(Bytes)), NEW line \in Seq(Bytes)
  PROVE  Completed(lines) \o (line \o <<LF>>) = Completed(Append(lines, line))
<1> DEFINE feed == <<LF>>
           before == Completed(lines)
<1>1. feed \in Seq(Bytes)
  BY ParserAssumption
<1>2. before \in Seq(Bytes) /\ Separated(Append(lines, line)) = before \o line
  BY SeparatedLast, Zenon
<1>3. Append(lines, line) # <<>>
  BY AppendProperties
<1> HIDE DEF feed, before
<1>4. before \o (line \o feed) = (before \o line) \o feed
  <2>1. before \in Seq(Bytes)
    BY <1>2, Zenon
  <2> QED BY <1>1, <2>1, ConcatAssociative, SMTT(30)
<1>5. Completed(Append(lines, line)) = (before \o line) \o feed
  BY <1>2, <1>3, Zenon DEF Completed, feed
<1> QED BY <1>4, <1>5, Zenon DEF feed, before

(***************************************************************************)
(* What complete lines are sent as has no lone dot, and is decoded to the  *)
(* lines, each with a line feed behind it.                                 *)
(***************************************************************************)
Faithful(lines) ==
    /\ Sent(lines) \in Seq(Bytes)
    /\ Open(Sent(lines))
    /\ WithoutTransparency(Sent(lines)) = Completed(lines)

\* No line.
LEMMA SentNone == Sent(<<>>) = <<>>
<1>1. [i \in DOMAIN <<>> |-> Stuffed(<<>>[i]) \o <<CR, LF>>] = <<>>
  OBVIOUS
<1> QED BY <1>1, FlattenEmpty, Zenon DEF Sent

LEMMA FaithfulEmpty == Faithful(<<>>)
<1>1. Sent(<<>>) = <<>> /\ WithoutTransparency(<<>>) = <<>>
  <2>1. KeptOf(<<>>) = <<>>
    BY DEF KeptOf
  <2> QED BY <2>1, SentNone, FlattenEmpty, TransparencyDef, Zenon
<1>2. Open(<<>>)
  <2>1. ASSUME NEW i \in Nat PROVE ~ LoneDot(<<>>, i)
    BY DEF LoneDot
  <2> QED BY <2>1, Zenon DEF Open
<1>3. <<>> \in Seq(Bytes)
  OBVIOUS
<1> QED BY <1>1, <1>2, <1>3, Zenon DEF Faithful, Completed

\* One more line.
LEMMA FaithfulAppend ==
  ASSUME NEW lines \in Seq(MessageLines), NEW line \in MessageLines, Faithful(lines)
  PROVE  Faithful(Append(lines, line))
<1> DEFINE all == Append(lines, line)
           s == Sent(lines)
           u == Stuffed(line)
           t == u \o <<CR, LF>>
<1>1. \A l \in MessageLines : Stuffed(l) \o <<CR, LF>> \in Seq(Bytes)
  BY MessageLine, Zenon
<1>2. Sent(all) = s \o t
  BY <1>1, SentAppend, Zenon
<1>3. s \in Seq(Bytes) /\ Open(s) /\ WithoutTransparency(s) = Completed(lines)
  BY Zenon DEF Faithful
<1>4. u \in Seq(Bytes \ {LF}) /\ u # <<Dot>> /\ u \in Seq(Bytes) /\ line \in Seq(Bytes)
  BY MessageLine, Zenon DEF MessageLines
<1>5. t \in Seq(Bytes) /\ s \o t \in Seq(Bytes) /\ Open(s \o t)
  BY <1>3, <1>4, OpenNext, Zenon
<1>6. WithoutTransparency(t) = line \o <<LF>>
  <2>1. WithoutTransparency(u) = line
    BY LineDecoded, Zenon DEF MessageLines
  <2> QED BY <1>4, <2>1, DecodedLineEnd, Zenon
<1>7. WithoutTransparency(s \o t) = Completed(lines) \o (line \o <<LF>>)
  <2>1. s = <<>> \/ s[Len(s)] = LF
    BY <1>3, Zenon DEF Open
  <2>2. WithoutTransparency(s \o t) = WithoutTransparency(s) \o WithoutTransparency(t)
    BY <1>3, <1>5, <2>1, DecodedBehindLine, Zenon
  <2> QED BY <1>3, <1>6, <2>2, Zenon
<1>8. lines \in Seq(Seq(Bytes))
  <2>1. MessageLines \subseteq Seq(Bytes)
    BY MessageLine, Zenon
  <2> QED BY <2>1, SeqMonotonic, Zenon
<1>9. Completed(lines) \o (line \o <<LF>>) = Completed(all)
  BY <1>4, <1>8, CompletedAppend, Zenon
<1> QED BY <1>2, <1>5, <1>7, <1>9, Zenon DEF Faithful

\* Any number of lines.
LEMMA SentLines ==
  ASSUME NEW lines \in Seq(MessageLines)
  PROVE  Faithful(lines)
<1> DEFINE Holds == {n \in Nat : \A f \in Seq(MessageLines) : Len(f) = n => Faithful(f)}
<1>1. 0 \in Holds
  <2>1. \A f \in Seq(MessageLines) : Len(f) = 0 => f = <<>>
    OBVIOUS
  <2>2. 0 \in Nat
    OBVIOUS
  <2> QED BY <2>1, <2>2, FaithfulEmpty, Zenon
<1>2. ASSUME NEW n \in Nat, n \in Holds PROVE n + 1 \in Holds
  <2>1. ASSUME NEW g \in Seq(MessageLines), Len(g) = n + 1 PROVE Faithful(g)
    <3>1. PICK f \in Seq(MessageLines), line \in MessageLines :
             g = Append(f, line) /\ Len(f) = n
      BY <2>1, SplitLast
    <3> QED BY <1>2, <3>1, FaithfulAppend, Zenon
  <2>2. n + 1 \in Nat
    OBVIOUS
  <2> QED BY <2>1, <2>2, Zenon
<1>3. Len(lines) \in Nat
  OBVIOUS
<1>4. \A n \in Nat : n \in Holds
  <2> HIDE DEF Holds
  <2> QED BY <1>1, <1>2, Induction
<1> QED BY <1>3, <1>4, Zenon

-----------------------------------------------------------------------------
(***************************************************************************)
(* A message                                                               *)
(***************************************************************************)

\* What a message is sent as, and meant as.
LEMMA MessageSent ==
  ASSUME NEW input \in InputsIn("data")
  PROVE  /\ input.text \in Seq(MessageLines)
         /\ Encoded(input) = Sent(input.text) \o <<Dot, CR, LF>>
         /\ Meant(input).text = Separated(input.text)
<1>1. input.mode = "data" /\ input.text \in Bodies /\ input = [mode |-> "data", text |-> input.text]
  BY DEF InputsIn
<1>2. input.text \in Seq(MessageLines)
  BY <1>1, ParserAssumption, Zenon DEF MessageLines
<1>3. Encoded(input) = Sent(input.text) \o <<Dot, CR, LF>>
  BY <1>1, Zenon DEF Encoded, Sent
<1> DEFINE meant == Separated(input.text)
<1>4. Meant(input) = [input EXCEPT !.text = meant]
  BY <1>1, Zenon DEF Meant, Separated
<1> HIDE DEF meant
<1>5. Meant(input).text = meant
  BY <1>1, <1>4
<1> QED BY <1>2, <1>3, <1>5, Zenon DEF meant

\* Where the end of a message occurs, a lone dot follows a line feed.
LEMMA EndOccurs ==
  ASSUME NEW sent \in Seq(Bytes), NEW n \in Nat, n <= Len(sent),
         Occurs(BodyTerminator, SubSeq(sent, 1, n))
  PROVE  \E i \in Nat : i + 3 <= n /\ LoneDot(sent, i) /\ i # 0
<1> DEFINE part == SubSeq(sent, 1, n)
           end == BodyTerminator
<1>1. /\ part \in Seq(Bytes) /\ Len(part) = n
      /\ \A k \in 1..n : part[k] = sent[k]
  <2>1. 1 \in Int /\ n \in Int /\ 1 <= 1 /\ n = n - 1 + 1
    OBVIOUS
  <2>2. /\ part \in Seq(Bytes) /\ Len(part) = n
        /\ \A k \in 1..n : part[k] = sent[1 + k - 1]
    BY <2>1, CutPositions
  <2>3. \A k \in 1..n : 1 + k - 1 = k
    OBVIOUS
  <2> HIDE DEF part
  <2> QED BY <2>2, <2>3
<1>2. /\ Len(end) = 5 /\ end[2] = LF /\ end[3] = Dot /\ end[4] = CR /\ end[5] = LF
  BY DEF BodyTerminator
<1> HIDE DEF part, end
<1>3. PICK i \in 0..n : i + 5 <= n /\ SubSeq(part, i + 1, i + 5) = end
  BY <1>1, <1>2, Zenon DEF Occurs, part, end
<1>4. \A k \in 1..5 : SubSeq(part, i + 1, i + 5)[k] = part[i + 1 + k - 1]
  <2>1. /\ i + 1 \in Int /\ i + 5 \in Int /\ 1 <= i + 1 /\ i + 5 <= Len(part)
        /\ 5 \in Nat /\ 5 = (i + 5) - (i + 1) + 1
    BY <1>1, <1>3
  <2> QED BY <1>1, <2>1, CutPositions
<1>5. /\ i + 1 + 2 - 1 = i + 2 /\ i + 1 + 3 - 1 = i + 3
      /\ i + 1 + 4 - 1 = i + 4 /\ i + 1 + 5 - 1 = i + 5
      /\ 2 \in 1..5 /\ 3 \in 1..5 /\ 4 \in 1..5 /\ 5 \in 1..5
      /\ i + 2 \in 1..n /\ i + 3 \in 1..n /\ i + 4 \in 1..n /\ i + 5 \in 1..n
  BY <1>3
<1>6. part[i + 2] = LF /\ part[i + 3] = Dot /\ part[i + 4] = CR /\ part[i + 5] = LF
  BY <1>2, <1>3, <1>4, <1>5
<1>7. sent[i + 2] = LF /\ sent[i + 3] = Dot /\ sent[i + 4] = CR /\ sent[i + 5] = LF
  BY <1>1, <1>5, <1>6
<1>8. /\ i + 2 \in Nat /\ (i + 2) + 3 <= n /\ i + 2 # 0 /\ (i + 2) + 3 <= Len(sent)
      /\ (i + 2) + 1 = i + 3 /\ (i + 2) + 2 = i + 4 /\ (i + 2) + 3 = i + 5
  <2>1. Len(sent) \in Nat
    BY LenProperties
  <2> QED BY <1>3, <2>1
<1>9. LoneDot(sent, i + 2)
  BY <1>7, <1>8 DEF LoneDot
<1> QED BY <1>8, <1>9

\* Nothing before the end of a message looks like its end.
LEMMA NoEarlyEnd ==
  ASSUME NEW s \in Seq(Bytes), Open(s), NEW sent \in Seq(Bytes),
         Len(sent) = Len(s) + 3,
         \A i \in 1..Len(s) : sent[i] = s[i],
         sent[Len(s) + 1] = Dot, sent[Len(s) + 2] = CR,
         NEW n \in Nat, n < Len(sent)
  PROVE  ~ Occurs(BodyTerminator, SubSeq(sent, 1, n))
<1>1. SUFFICES ASSUME Occurs(BodyTerminator, SubSeq(sent, 1, n)) PROVE FALSE
  OBVIOUS
<1>2. Len(s) \in Nat /\ CR # LF /\ Dot # LF /\ n <= Len(sent)
  BY ParserAssumption, LenProperties
<1>3. PICK i \in Nat : i + 3 <= n /\ LoneDot(sent, i) /\ i # 0
  BY <1>1, <1>2, EndOccurs
<1>4. /\ sent[i] = LF /\ sent[i + 1] = Dot /\ sent[i + 2] = CR /\ sent[i + 3] = LF
  BY <1>3, Zenon DEF LoneDot
<1>5. i + 3 <= Len(s)
  <2>1. i + 3 # Len(s) + 1 /\ i + 3 # Len(s) + 2
    BY <1>2, <1>4
  <2> QED BY <1>2, <1>3, <2>1
<1>6. i \in 1..Len(s) /\ i + 1 \in 1..Len(s) /\ i + 2 \in 1..Len(s) /\ i + 3 \in 1..Len(s)
  BY <1>2, <1>3, <1>5
<1>7. LoneDot(s, i)
  BY <1>4, <1>5, <1>6, Zenon DEF LoneDot
<1> QED BY <1>7, Zenon DEF Open

\* The line break of the last line belongs to the end of the message.
LEMMA EndSplit == <<CR, LF>> \o <<Dot, CR, LF>> = BodyTerminator
<1> DEFINE a == <<CR, LF>>
           b == <<Dot, CR, LF>>
           u == BodyTerminator
<1>1. a \in Seq(Bytes) /\ b \in Seq(Bytes) /\ u \in Seq(Bytes)
  BY ParserAssumption DEF BodyTerminator
<1>2. /\ Len(u) = Len(a) + Len(b)
      /\ \A k \in 1..Len(a) : u[k] = a[k]
      /\ \A k \in 1..Len(b) : u[Len(a) + k] = b[k]
  <2>1. Len(a) = 2 /\ Len(b) = 3 /\ Len(u) = 5
    BY DEF BodyTerminator
  <2>2. \A k \in 1..2 : u[k] = a[k]
    BY DEF BodyTerminator
  <2>3. \A k \in 1..3 : u[2 + k] = b[k]
    BY DEF BodyTerminator
  <2> HIDE DEF a, b, u
  <2> QED BY <2>1, <2>2, <2>3
<1> HIDE DEF a, b, u
<1>3. u = a \o b
  BY <1>1, <1>2, ConcatEqual
<1> QED BY <1>3, Zenon DEF a, b, u

\* What a message of at least one line is sent as.
LEMMA MessageEnd ==
  ASSUME NEW lines \in Seq(MessageLines), lines # <<>>
  PROVE  \E body \in Seq(Bytes) :
            /\ Sent(lines) \o <<Dot, CR, LF>> = body \o BodyTerminator
            /\ WithoutTransparency(body) = Separated(lines)
<1>1. PICK front \in Seq(MessageLines), line \in MessageLines :
         lines = Append(front, line)
  BY SequenceEmptyOrAppend
<1> DEFINE s == Sent(front)
           u == Stuffed(line)
           feed == <<CR, LF>>
           dot == <<Dot, CR, LF>>
           sent == Sent(lines) \o dot
           body == s \o u
<1>2. s \in Seq(Bytes) /\ Open(s) /\ WithoutTransparency(s) = Completed(front)
  BY SentLines, Zenon DEF Faithful
<1>3. /\ line \in Seq(Bytes) /\ u \in Seq(Bytes)
      /\ \A l \in MessageLines : Stuffed(l) \o <<CR, LF>> \in Seq(Bytes)
  BY MessageLine, Zenon
<1>4. WithoutTransparency(u) = line
  BY LineDecoded, Zenon DEF MessageLines
<1>5. Sent(lines) = s \o (u \o feed)
  BY <1>1, <1>3, SentAppend, Zenon
<1>6. feed \in Seq(Bytes) /\ dot \in Seq(Bytes) /\ Len(feed) = 2 /\ Len(dot) = 3
  BY ParserAssumption
<1> HIDE DEF s, u, feed, dot
<1>7. body \in Seq(Bytes)
  BY <1>2, <1>3, ConcatProperties
<1>8. s \o (u \o feed) = body \o feed
  <2>1. s \in Seq(Bytes)
    BY <1>2, Zenon
  <2>2. u \in Seq(Bytes)
    BY <1>3, Zenon
  <2>3. feed \in Seq(Bytes)
    BY <1>6, Zenon
  <2> QED BY <2>1, <2>2, <2>3, ConcatAssociative, SMTT(30)
<1> HIDE DEF body
<1>9. (body \o feed) \o dot = body \o (feed \o dot)
  BY <1>6, <1>7, ConcatAssociative, SMTT(30)
<1>10. feed \o dot = BodyTerminator
  BY EndSplit, Zenon DEF feed, dot
<1>11. sent = body \o BodyTerminator
  BY <1>5, <1>8, <1>9, <1>10, Zenon
<1>12. WithoutTransparency(body) = Completed(front) \o line
  <2>1. s = <<>> \/ s[Len(s)] = LF
    BY <1>2, Zenon DEF Open
  <2>2. WithoutTransparency(s \o u) = WithoutTransparency(s) \o WithoutTransparency(u)
    BY <1>2, <1>3, <2>1, DecodedBehindLine, Zenon
  <2> QED BY <1>2, <1>4, <2>2, Zenon DEF body
<1>13. Completed(front) \o line = Separated(lines)
  <2>1. MessageLines \subseteq Seq(Bytes)
    BY MessageLine, Zenon
  <2>2. front \in Seq(Seq(Bytes))
    BY <2>1, SeqMonotonic, Zenon
  <2> QED BY <1>1, <1>3, <2>2, SeparatedLast, Zenon
<1> QED BY <1>7, <1>11, <1>12, <1>13, Zenon DEF dot

\* The end of a message is found where it is, and nothing else is cut off.
LEMMA EndFound ==
  ASSUME NEW body \in Seq(Bytes)
  PROVE  LET all == body \o BodyTerminator
         IN  /\ Occurs(BodyTerminator, all)
             /\ SubSeq(all, 1, Len(all) - Len(BodyTerminator)) = body
<1> DEFINE end == BodyTerminator
           all == body \o end
<1>1. end \in Seq(Bytes) /\ end # <<>>
  BY ParserAssumption DEF BodyTerminator
<1>2. /\ Len(all) = Len(body) + Len(end) /\ Len(body) \in Nat /\ Len(end) \in Nat
  BY <1>1, ConcatElements
<1>3. SubSeq(all, 1, Len(body)) = body
  BY <1>1, ConcatPrefix
<1>4. SubSeq(all, Len(body) + 1, Len(body) + Len(end)) = end
  BY <1>1, ConcatSuffix
<1> HIDE DEF end, all
<1>5. Len(all) - Len(end) = Len(body) /\ Len(body) \in 0..Len(all)
      /\ Len(body) + Len(end) <= Len(all)
  BY <1>2
<1>6. Occurs(end, all)
  BY <1>4, <1>5, Zenon DEF Occurs
<1> QED BY <1>3, <1>5, <1>6, Zenon DEF end, all

(***************************************************************************)
(* For every message: what it is sent as consists of bytes, no beginning   *)
(* of that looks like the end of a message, the end is there if there is   *)
(* at least one line, and the parser turns what precedes it into what was  *)
(* meant.                                                                  *)
(***************************************************************************)
THEOREM RoundTrip ==
  ASSUME NEW input \in InputsIn("data")
  PROVE  /\ Encoded(input) \in Seq(Bytes)
         /\ Meant(input).text \in Seq(Bytes)
         /\ \A n \in 0..(Len(Encoded(input)) - 1) :
               ~ Occurs(BodyTerminator, SubSeq(Encoded(input), 1, n))
         /\ Occurs(BodyTerminator, Encoded(input)) <=> input.text # <<>>
         /\ input.text # <<>> =>
               WithoutTransparency(SubSeq(Encoded(input), 1,
                   Len(Encoded(input)) - Len(BodyTerminator))) = Meant(input).text
<1> DEFINE lines == input.text
           s == Sent(lines)
           dot == <<Dot, CR, LF>>
           sent == s \o dot
<1>1. lines \in Seq(MessageLines) /\ Encoded(input) = sent
      /\ Meant(input).text = Separated(lines)
  BY MessageSent, Zenon
<1>2. s \in Seq(Bytes) /\ Open(s)
  BY <1>1, SentLines, Zenon DEF Faithful
<1>3. Separated(lines) \in Seq(Bytes)
  <2>1. MessageLines \subseteq Seq(Bytes)
    BY MessageLine, Zenon
  <2>2. lines \in Seq(Seq(Bytes)) /\ <<>> \in Seq(Bytes)
    BY <1>1, <2>1, SeqMonotonic
  <2> QED BY <2>2, SeparatedAppend, Zenon
<1>4. dot \in Seq(Bytes) /\ Len(dot) = 3 /\ dot[1] = Dot /\ dot[2] = CR
  BY ParserAssumption
<1> HIDE DEF lines, s, dot
<1>5. /\ sent \in Seq(Bytes) /\ Len(sent) = Len(s) + 3 /\ Len(s) \in Nat
      /\ \A i \in 1..Len(s) : sent[i] = s[i]
      /\ sent[Len(s) + 1] = Dot /\ sent[Len(s) + 2] = CR
  <2>1. /\ sent \in Seq(Bytes) /\ Len(sent) = Len(s) + Len(dot) /\ Len(s) \in Nat
        /\ \A i \in 1..Len(s) : sent[i] = s[i]
        /\ \A k \in 1..Len(dot) : sent[Len(s) + k] = dot[k]
    BY <1>2, <1>4, ConcatElements
  <2>2. 1 \in 1..Len(dot) /\ 2 \in 1..Len(dot)
    BY <1>4
  <2> QED BY <1>4, <2>1, <2>2, Zenon
<1> HIDE DEF sent
<1>6. ASSUME NEW n \in 0..(Len(sent) - 1)
      PROVE  ~ Occurs(BodyTerminator, SubSeq(sent, 1, n))
  <2>1. n \in Nat /\ n < Len(sent)
    BY <1>5
  <2> QED BY <1>2, <1>5, <2>1, NoEarlyEnd
<1>7. CASE lines = <<>>
  <2>1. s = <<>>
    BY <1>7, FaithfulEmpty, SentNone, Zenon DEF s
  <2>2. Len(sent) = 3
    BY <1>5, <2>1
  <2>3. ~ Occurs(BodyTerminator, sent)
    BY <2>2 DEF Occurs, BodyTerminator
  <2> QED BY <1>1, <1>3, <1>5, <1>6, <1>7, <2>3, Zenon DEF lines
<1>8. CASE lines # <<>>
  <2>1. PICK body \in Seq(Bytes) : /\ sent = body \o BodyTerminator
                                  /\ WithoutTransparency(body) = Separated(lines)
    BY <1>1, <1>8, MessageEnd, Zenon DEF sent, s, dot
  <2>2. /\ Occurs(BodyTerminator, sent)
        /\ SubSeq(sent, 1, Len(sent) - Len(BodyTerminator)) = body
    BY <2>1, EndFound, Zenon
  <2>3. WithoutTransparency(SubSeq(sent, 1, Len(sent) - Len(BodyTerminator)))
           = Separated(lines)
    BY <2>1, <2>2, Zenon
  <2> QED BY <1>1, <1>3, <1>5, <1>6, <1>8, <2>2, <2>3, Zenon DEF lines
<1> QED BY <1>7, <1>8, Zenon

=============================================================================
