------------------------ MODULE CommandArgumentsProofs ------------------------
(***************************************************************************)
(* Proofs about CommandArguments: whatever a client writes, the handler    *)
(* gets the verb and the arguments it means, and what the schemas make of  *)
(* those is what MAIL and AUTH PLAIN announce.                             *)
(***************************************************************************)
EXTENDS CommandArguments, SequenceLemmas

-----------------------------------------------------------------------------
(***************************************************************************)
(* WithoutBlanks                                                           *)
(***************************************************************************)

\* What each token contributes: a blank nothing, another token itself.
Kept(token) == IF token = Blank THEN <<>> ELSE <<token>>
KeptOf(tokens) == [i \in DOMAIN tokens |-> Kept(tokens[i])]

\* One sequence for each token.
LEMMA KeptType ==
  ASSUME NEW S, NEW s \in Seq(S)
  PROVE  /\ KeptOf(s) \in Seq(Seq(S)) /\ Len(KeptOf(s)) = Len(s)
         /\ \A i \in 1..Len(s) : KeptOf(s)[i] = Kept(s[i])
<1>1. DOMAIN s = 1..Len(s) /\ Len(s) \in Nat
  BY LenProperties
<1>2. \A i \in 1..Len(s) : Kept(s[i]) \in Seq(S)
  <2>1. ASSUME NEW i \in 1..Len(s) PROVE Kept(s[i]) \in Seq(S)
    BY ElementOfSeq DEF Kept
  <2> QED BY <2>1
<1>3. KeptOf(s) \in [1..Len(s) -> Seq(S)]
  BY <1>1, <1>2 DEF KeptOf
<1>4. \A i \in 1..Len(s) : KeptOf(s)[i] = Kept(s[i])
  BY <1>1, Zenon DEF KeptOf
<1> QED BY <1>1, <1>3, <1>4

\* WithoutBlanks() concatenates what is kept of the tokens.
LEMMA WithoutBlanksDef ==
  ASSUME NEW s
  PROVE  WithoutBlanks(s) = FlattenSeq(KeptOf(s))
BY Zenon DEF WithoutBlanks, KeptOf, Kept

\* A line of one token.
LEMMA WithoutBlanksOne ==
  ASSUME NEW e
  PROVE  WithoutBlanks(<<e>>) = Kept(e)
<1>1. DOMAIN <<e>> = {1} /\ <<e>>[1] = e
  OBVIOUS
<1>2. KeptOf(<<e>>) = <<Kept(e)>>
  <2>1. KeptOf(<<e>>) = [i \in {1} |-> Kept(e)]
    BY <1>1 DEF KeptOf
  <2>2. [i \in {1} |-> Kept(e)] = <<Kept(e)>>
    <3> DEFINE k == Kept(e)
    <3> HIDE DEF k
    <3>1. [i \in {1} |-> k] = <<k>>
      OBVIOUS
    <3> QED BY <3>1, Zenon DEF k
  <2> QED BY <2>1, <2>2, Zenon
<1> QED BY <1>2, FlattenOne, WithoutBlanksDef, Zenon

\* The blanks of two parts are dropped part by part.
LEMMA WithoutBlanksConcat ==
  ASSUME NEW S, NEW s \in Seq(S), NEW t \in Seq(S)
  PROVE  WithoutBlanks(s \o t) = WithoutBlanks(s) \o WithoutBlanks(t)
<1> DEFINE all == s \o t
           kept == KeptOf(s) \o KeptOf(t)
<1>1. /\ all \in Seq(S) /\ Len(all) = Len(s) + Len(t)
      /\ \A i \in 1..(Len(s) + Len(t)) :
            all[i] = IF i <= Len(s) THEN s[i] ELSE t[i - Len(s)]
  BY ConcatProperties
<1>2. /\ KeptOf(s) \in Seq(Seq(S)) /\ Len(KeptOf(s)) = Len(s)
      /\ \A i \in 1..Len(s) : KeptOf(s)[i] = Kept(s[i])
  BY KeptType
<1>3. /\ KeptOf(t) \in Seq(Seq(S)) /\ Len(KeptOf(t)) = Len(t)
      /\ \A i \in 1..Len(t) : KeptOf(t)[i] = Kept(t[i])
  BY KeptType
<1>4. /\ kept \in Seq(Seq(S)) /\ Len(kept) = Len(s) + Len(t)
      /\ \A i \in 1..(Len(s) + Len(t)) :
            kept[i] = IF i <= Len(s) THEN KeptOf(s)[i] ELSE KeptOf(t)[i - Len(s)]
  <2> DEFINE k == KeptOf(s)
             l == KeptOf(t)
  <2> HIDE DEF k, l
  <2>1. ASSUME k \in Seq(Seq(S)), l \in Seq(Seq(S))
        PROVE  /\ k \o l \in Seq(Seq(S)) /\ Len(k \o l) = Len(k) + Len(l)
               /\ \A i \in 1..(Len(k) + Len(l)) :
                     (k \o l)[i] = IF i <= Len(k) THEN k[i] ELSE l[i - Len(k)]
    BY <2>1, ConcatProperties
  <2> QED BY <1>2, <1>3, <2>1, Zenon DEF k, l
<1> HIDE DEF all, kept
<1>5. /\ KeptOf(all) \in Seq(Seq(S)) /\ Len(KeptOf(all)) = Len(s) + Len(t)
      /\ \A i \in 1..(Len(s) + Len(t)) : KeptOf(all)[i] = Kept(all[i])
  BY <1>1, KeptType
<1>6. ASSUME NEW i \in 1..(Len(s) + Len(t)) PROVE KeptOf(all)[i] = kept[i]
  <2>1. Len(s) \in Nat /\ Len(t) \in Nat /\ i \in Nat /\ 1 <= i
    BY LenProperties
  <2>2. CASE i <= Len(s)
    <3>1. i \in 1..Len(s)
      BY <2>1, <2>2
    <3> QED BY <1>1, <1>2, <1>4, <1>5, <2>2, <3>1, Zenon
  <2>3. CASE ~ (i <= Len(s))
    <3>1. i - Len(s) \in 1..Len(t)
      BY <2>1, <2>3
    <3> QED BY <1>1, <1>3, <1>4, <1>5, <2>3, <3>1, Zenon
  <2> QED BY <2>2, <2>3
<1>7. KeptOf(all) = kept
  BY <1>4, <1>5, <1>6, SeqEqual
<1>8. FlattenSeq(kept) = FlattenSeq(KeptOf(s)) \o FlattenSeq(KeptOf(t))
  BY <1>2, <1>3, FlattenConcat, Zenon DEF kept
<1> QED BY <1>7, <1>8, WithoutBlanksDef, Zenon DEF all

\* Nothing but blanks is nothing.
LEMMA OnlyBlanks == \A n \in Nat : WithoutBlanks(Blanks(n)) = <<>>
<1> DEFINE Holds == {n \in Nat : WithoutBlanks(Blanks(n)) = <<>>}
<1>1. 0 \in Holds
  <2>1. Blanks(0) = <<>> /\ KeptOf(<<>>) = <<>>
    BY DEF Blanks, KeptOf
  <2>2. WithoutBlanks(Blanks(0)) = <<>>
    BY <2>1, FlattenEmpty, WithoutBlanksDef, Zenon
  <2> QED BY <2>2
<1>2. ASSUME NEW n \in Nat, n \in Holds PROVE n + 1 \in Holds
  <2>1. Blanks(n) \in Seq({Blank}) /\ <<Blank>> \in Seq({Blank})
    BY DEF Blanks
  <2>2. Blanks(n + 1) = Blanks(n) \o <<Blank>>
    BY DEF Blanks
  <2>3. WithoutBlanks(<<Blank>>) = <<>>
    BY WithoutBlanksOne, Zenon DEF Kept
  <2>4. WithoutBlanks(Blanks(n + 1)) = <<>> \o <<>>
    <3>1. WithoutBlanks(Blanks(n)) = <<>>
      BY <1>2
    <3>2. WithoutBlanks(Blanks(n) \o <<Blank>>)
             = WithoutBlanks(Blanks(n)) \o WithoutBlanks(<<Blank>>)
      BY <2>1, WithoutBlanksConcat, Zenon
    <3> QED BY <2>2, <2>3, <3>1, <3>2, Zenon
  <2>5. <<>> \o <<>> = <<>>
    OBVIOUS
  <2> QED BY <2>4, <2>5
<1>3. \A n \in Nat : n \in Holds
  <2> HIDE DEF Holds
  <2> QED BY <1>1, <1>2, Induction
<1> QED BY <1>3

-----------------------------------------------------------------------------
(***************************************************************************)
(* What a client writes is understood as what it means                     *)
(***************************************************************************)

\* The i-th argument as Spellings writes it, and the arguments together.
Argument(word, i, n) == Blanks(IF i = 1 THEN n ELSE n + 1) \o <<word>>
Written(words, n) == [i \in DOMAIN words |-> Argument(words[i], i, n)]

\* Blanks before an argument do not matter.
LEMMA ArgumentRead ==
  ASSUME NEW S, NEW word \in S, word # Blank, NEW i, NEW n \in Nat
  PROVE  /\ Argument(word, i, n) \in Seq(S \cup {Blank})
         /\ WithoutBlanks(Argument(word, i, n)) = <<word>>
<1> DEFINE m == IF i = 1 THEN n ELSE n + 1
<1>1. m \in Nat
  OBVIOUS
<1> HIDE DEF m
<1>2. Blanks(m) \in Seq(S \cup {Blank}) /\ <<word>> \in Seq(S \cup {Blank})
  BY <1>1 DEF Blanks
<1>3. Argument(word, i, n) = Blanks(m) \o <<word>>
  BY Zenon DEF Argument, m
<1>4. Argument(word, i, n) \in Seq(S \cup {Blank})
  <2>1. Blanks(m) \o <<word>> \in Seq(S \cup {Blank})
    BY <1>2, ConcatProperties
  <2> QED BY <1>3, <2>1, Zenon
<1>5. WithoutBlanks(Argument(word, i, n)) = <<>> \o <<word>>
  <2>1. WithoutBlanks(Blanks(m)) = <<>>
    BY <1>1, OnlyBlanks
  <2>2. WithoutBlanks(<<word>>) = <<word>>
    BY WithoutBlanksOne, Zenon DEF Kept
  <2>3. WithoutBlanks(Blanks(m) \o <<word>>)
           = WithoutBlanks(Blanks(m)) \o WithoutBlanks(<<word>>)
    BY <1>2, WithoutBlanksConcat, Zenon
  <2> QED BY <1>3, <2>1, <2>2, <2>3, Zenon
<1>6. <<>> \o <<word>> = <<word>>
  OBVIOUS
<1> QED BY <1>4, <1>5, <1>6, Zenon

\* What a client writes for its words is words and blanks.
LEMMA WrittenType ==
  ASSUME NEW S, Blank \notin S, NEW words \in Seq(S), NEW n \in Nat
  PROVE  /\ Written(words, n) \in Seq(Seq(S \cup {Blank}))
         /\ Len(Written(words, n)) = Len(words)
         /\ \A i \in 1..Len(words) : Written(words, n)[i] = Argument(words[i], i, n)
<1>1. DOMAIN words = 1..Len(words) /\ Len(words) \in Nat
  BY LenProperties
<1>2. ASSUME NEW i \in 1..Len(words)
      PROVE  Argument(words[i], i, n) \in Seq(S \cup {Blank})
  <2>1. words[i] \in S /\ words[i] # Blank
    BY ElementOfSeq
  <2> QED BY <2>1, ArgumentRead, Zenon
<1>3. Written(words, n) \in [1..Len(words) -> Seq(S \cup {Blank})]
  BY <1>1, <1>2 DEF Written
<1>4. \A i \in 1..Len(words) : Written(words, n)[i] = Argument(words[i], i, n)
  BY <1>1, Zenon DEF Written
<1> QED BY <1>1, <1>3, <1>4

\* One more word is written behind the others.
LEMMA WrittenAppend ==
  ASSUME NEW S, Blank \notin S, NEW words \in Seq(S), NEW word \in S, NEW n \in Nat
  PROVE  Written(Append(words, word), n) =
            Append(Written(words, n), Argument(word, Len(words) + 1, n))
<1> DEFINE all == Append(words, word)
           before == Written(words, n)
           last == Argument(word, Len(words) + 1, n)
<1>1. /\ all \in Seq(S) /\ Len(all) = Len(words) + 1 /\ Len(words) \in Nat
      /\ \A i \in 1..Len(words) : all[i] = words[i]
      /\ all[Len(words) + 1] = word
  BY AppendProperties, LenProperties
<1>2. /\ before \in Seq(Seq(S \cup {Blank})) /\ Len(before) = Len(words)
      /\ \A i \in 1..Len(words) : before[i] = Argument(words[i], i, n)
  BY WrittenType
<1>3. last \in Seq(S \cup {Blank})
  BY ArgumentRead
<1> HIDE DEF all, before, last
<1>4. /\ Written(all, n) \in Seq(Seq(S \cup {Blank}))
      /\ Len(Written(all, n)) = Len(words) + 1
      /\ \A i \in 1..(Len(words) + 1) : Written(all, n)[i] = Argument(all[i], i, n)
  BY <1>1, WrittenType
<1>5. /\ Append(before, last) \in Seq(Seq(S \cup {Blank}))
      /\ Len(Append(before, last)) = Len(words) + 1
      /\ \A i \in 1..Len(words) : Append(before, last)[i] = before[i]
      /\ Append(before, last)[Len(words) + 1] = last
  BY <1>2, <1>3, AppendProperties
<1>6. ASSUME NEW i \in 1..(Len(words) + 1)
      PROVE  Written(all, n)[i] = Append(before, last)[i]
  <2>1. i \in 1..Len(words) \/ i = Len(words) + 1
    BY <1>1
  <2>2. CASE i \in 1..Len(words)
    BY <1>1, <1>2, <1>4, <1>5, <2>2, Zenon
  <2>3. CASE i = Len(words) + 1
    BY <1>1, <1>4, <1>5, <2>3, Zenon DEF last
  <2> QED BY <2>1, <2>2, <2>3
<1>7. Written(all, n) = Append(before, last)
  BY <1>4, <1>5, <1>6, SeqEqual
<1> QED BY <1>7, Zenon DEF all, before, last

\* Arguments are read as they are, whatever blanks stand between them.
LEMMA WrittenRead ==
  ASSUME NEW S, Blank \notin S, NEW words \in Seq(S), NEW n \in Nat
  PROVE  /\ FlattenSeq(Written(words, n)) \in Seq(S \cup {Blank})
         /\ WithoutBlanks(FlattenSeq(Written(words, n))) = words
<1> DEFINE Holds == {k \in Nat : \A w \in Seq(S) : Len(w) = k =>
                        WithoutBlanks(FlattenSeq(Written(w, n))) = w}
<1>1. 0 \in Holds
  <2>1. \A w \in Seq(S) : Len(w) = 0 => w = <<>>
    OBVIOUS
  <2>2. Written(<<>>, n) = <<>> /\ KeptOf(<<>>) = <<>>
    BY DEF Written, KeptOf
  <2>3. WithoutBlanks(FlattenSeq(Written(<<>>, n))) = <<>>
    BY <2>2, FlattenEmpty, WithoutBlanksDef, Zenon
  <2>4. 0 \in Nat
    OBVIOUS
  <2> QED BY <2>1, <2>3, <2>4, Zenon
<1>2. ASSUME NEW k \in Nat, k \in Holds PROVE k + 1 \in Holds
  <2>1. ASSUME NEW w \in Seq(S), Len(w) = k + 1
        PROVE  WithoutBlanks(FlattenSeq(Written(w, n))) = w
    <3>1. PICK v \in Seq(S), e \in S : w = Append(v, e) /\ Len(v) = k
      BY <2>1, SplitLast
    <3> DEFINE last == Argument(e, Len(v) + 1, n)
               before == FlattenSeq(Written(v, n))
    <3>2. WithoutBlanks(before) = v
      BY <1>2, <3>1, Zenon
    <3>3. last \in Seq(S \cup {Blank}) /\ WithoutBlanks(last) = <<e>>
      BY ArgumentRead
    <3>4. Written(v, n) \in Seq(Seq(S \cup {Blank}))
      BY WrittenType
    <3>5. before \in Seq(S \cup {Blank})
      BY <3>4, FlattenType
    <3>6. FlattenSeq(Written(w, n)) = before \o last
      <4>1. Written(w, n) = Append(Written(v, n), last)
        BY <3>1, WrittenAppend, Zenon
      <4> HIDE DEF last
      <4> QED BY <3>3, <3>4, <4>1, FlattenAppend, Zenon
    <3> HIDE DEF last, before
    <3>7. WithoutBlanks(before \o last) = v \o <<e>>
      BY <3>2, <3>3, <3>5, WithoutBlanksConcat, Zenon
    <3>8. v \o <<e>> = w
      BY <3>1, AppendIsConcat, Zenon
    <3> QED BY <3>6, <3>7, <3>8, Zenon
  <2>2. k + 1 \in Nat
    OBVIOUS
  <2> QED BY <2>1, <2>2, Zenon
<1>3. \A k \in Nat : k \in Holds
  <2> HIDE DEF Holds
  <2> QED BY <1>1, <1>2, Induction
<1>4. Len(words) \in Holds
  BY <1>3
<1>5. WithoutBlanks(FlattenSeq(Written(words, n))) = words
  BY <1>4, Zenon
<1>6. FlattenSeq(Written(words, n)) \in Seq(S \cup {Blank})
  BY WrittenType, FlattenType
<1> QED BY <1>5, <1>6

\* A verb and a separator before something.
LEMMA BehindTwo ==
  ASSUME NEW S, NEW a \in S, NEW b \in S, NEW rest \in Seq(S),
         NEW s, s = <<a>> \o (<<b>> \o rest)
  PROVE  /\ Len(s) > 1 /\ Head(s) = a /\ s[2] = b
         /\ SubSeq(s, 3, Len(s)) = rest
<1> DEFINE most == <<b>> \o rest
           all == <<a>> \o most
<1>1. Len(rest) \in Nat /\ \A i \in 1..Len(rest) : rest[i] \in S
  BY LenProperties, ElementOfSeq
<1>2. /\ most \in Seq(S) /\ Len(most) = Len(rest) + 1
      /\ most[1] = b /\ \A i \in 1..Len(rest) : most[i + 1] = rest[i]
  BY <1>1
<1> HIDE DEF most
<1>3. /\ all \in Seq(S) /\ Len(all) = Len(rest) + 2
      /\ all[1] = a /\ all[2] = b /\ \A i \in 1..Len(rest) : all[i + 2] = rest[i]
  <2>1. /\ all \in Seq(S) /\ Len(all) = Len(most) + 1
        /\ all[1] = a /\ \A i \in 1..Len(most) : all[i + 1] = most[i]
    BY <1>1, <1>2
  <2> HIDE DEF all
  <2>2. all[1 + 1] = most[1]
    BY <1>1, <1>2, <2>1
  <2>3. ASSUME NEW i \in 1..Len(rest) PROVE all[i + 2] = rest[i]
    <3>1. i + 1 \in 1..Len(most) /\ (i + 1) + 1 = i + 2
      BY <1>1, <1>2
    <3>2. all[(i + 1) + 1] = most[i + 1]
      BY <2>1, <3>1, Zenon
    <3> QED BY <1>2, <3>1, <3>2
  <2> QED BY <1>1, <1>2, <2>1, <2>2, <2>3
<1> HIDE DEF all
<1>4. s = all
  BY Zenon DEF all, most
<1>5. SubSeq(all, 3, Len(all)) = rest
  <2>1. Len(all) \in Int /\ \A i \in 3..Len(all) : all[i] \in S
    BY <1>1, <1>3, ElementOfSeq
  <2>2. /\ SubSeq(all, 3, Len(all)) \in Seq(S)
        /\ Len(SubSeq(all, 3, Len(all))) = Len(rest)
        /\ \A i \in 1..Len(rest) : SubSeq(all, 3, Len(all))[i] = all[i + 2]
    <3>1. /\ SubSeq(all, 3, Len(all)) \in Seq(S)
          /\ Len(SubSeq(all, 3, Len(all))) =
                IF 3 <= Len(all) THEN Len(all) - 3 + 1 ELSE 0
          /\ \A i \in 1..(Len(all) - 3 + 1) :
                SubSeq(all, 3, Len(all))[i] = all[3 + i - 1]
      BY <2>1, SubSeqProperties
    <3>2. Len(all) - 3 + 1 = Len(rest) /\ \A i \in Int : 3 + i - 1 = i + 2
      BY <1>1, <1>3
    <3> QED BY <1>1, <1>3, <3>1, <3>2
  <2> QED BY <1>1, <1>3, <2>2, SeqEqual
<1>6. Head(all) = a
  BY <1>1, <1>3
<1> QED BY <1>1, <1>3, <1>4, <1>5, <1>6

\* A line of a verb, a separator and arguments is read as the verb and the arguments.
LEMMA SpellingRead ==
  ASSUME NEW verb \in Verbs, NEW words \in Seq(Words[verb]), NEW n \in Nat,
         NEW separator \in {Blank, Colon},
         NEW s \in Spellings(verb, words, separator, n)
  PROVE  /\ \E upper \in BOOLEAN : Command(s) = <<Verb(verb, upper)>>
         /\ Parameters(s) = words
<1> DEFINE all == FlattenSeq(Written(words, n))
           S == Words[verb]
<1>1. PICK upper \in BOOLEAN :
         s = <<Verb(verb, upper)>> \o ((<<separator>> \o all) \o Blanks(n))
  <2>1. Spellings(verb, words, separator, n) =
           {<<Verb(verb, upper)>> \o ((<<separator>> \o all) \o Blanks(n)) :
               upper \in BOOLEAN}
    BY Zenon DEF Spellings, Written, Argument
  <2> HIDE DEF all
  <2> QED BY <2>1
<1>2. Blank \notin S
  BY TokenAssumption DEF AllWords
<1>3. all \in Seq(S \cup {Blank}) /\ WithoutBlanks(all) = words
  <2> HIDE DEF S
  <2>1. words \in Seq(S)
    BY DEF S
  <2> QED BY <1>2, <2>1, WrittenRead, Zenon
<1> DEFINE first == Verb(verb, upper)
           T == S \cup {Blank, Colon, first}
           rest == all \o Blanks(n)
<1> HIDE DEF all, S
<1>4. first \notin {Blank, Colon} /\ Is("verb", first) /\ first.verb = verb
  BY TokenAssumption, Zenon DEF Verb, Is
<1>5. /\ first \in T /\ separator \in T
      /\ all \in Seq(T) /\ Blanks(n) \in Seq(T) /\ <<separator>> \in Seq(T)
      /\ all \in Seq(S \cup {Blank}) /\ Blanks(n) \in Seq(S \cup {Blank})
  <2>1. Blanks(n) \in Seq({Blank})
    BY DEF Blanks
  <2> QED BY <1>3, <2>1, SeqMonotonic
<1> HIDE DEF T, first
<1>6. rest \in Seq(T) /\ (<<separator>> \o all) \o Blanks(n) = <<separator>> \o rest
  BY <1>5, ConcatProperties, ConcatAssociative, SMTT(30)
<1>7. WithoutBlanks(rest) = words
  <2>1. WithoutBlanks(rest) = WithoutBlanks(all) \o WithoutBlanks(Blanks(n))
    BY <1>5, WithoutBlanksConcat, Zenon
  <2>2. WithoutBlanks(Blanks(n)) = <<>>
    BY OnlyBlanks
  <2>3. words \o <<>> = words
    BY ConcatEmptySeq
  <2> HIDE DEF rest
  <2> QED BY <1>3, <2>1, <2>2, <2>3, Zenon
<1> HIDE DEF rest
<1>8. s = <<first>> \o (<<separator>> \o rest)
  BY <1>1, <1>6, Zenon DEF first
<1>9. /\ Len(s) > 1 /\ Head(s) = first /\ s[2] = separator
      /\ SubSeq(s, 3, Len(s)) = rest
  BY <1>5, <1>6, <1>8, BehindTwo
<1>10. Matches(s)
  BY <1>4, <1>9, Zenon DEF Matches, Separates
<1>11. Command(s) = <<first>> /\ Parameters(s) = words
  BY <1>7, <1>9, <1>10, Zenon DEF Command, Parameters
<1> QED BY <1>11, Zenon DEF first

\* A verb alone is read as that verb without arguments.
LEMMA VerbRead ==
  ASSUME NEW verb \in Verbs
  PROVE  /\ Command(<<Verb(verb, TRUE)>>) = <<Verb(verb, TRUE)>>
         /\ Parameters(<<Verb(verb, TRUE)>>) = <<>>
<1>1. ~ (Len(<<Verb(verb, TRUE)>>) > 1)
  OBVIOUS
<1>2. ~ Matches(<<Verb(verb, TRUE)>>)
  BY <1>1, Zenon DEF Matches
<1> QED BY <1>2, Zenon DEF Command, Parameters

-----------------------------------------------------------------------------
(***************************************************************************)
(* The inductive invariant: a line is a spelling of the request, and an    *)
(* outcome is what the schemas make of the request.                        *)
(***************************************************************************)

Requested ==
    /\ esmtp \in BOOLEAN
    /\ request.verb \in Verbs
    /\ request.words \in Seq(Words[request.verb])

\* s is a way to write the request r.
Spells(s, r) ==
    \/ \E separator \in {Blank, Colon}, n \in Nat :
          s \in Spellings(r.verb, r.words, separator, n)
    \/ r.words = <<>> /\ s = <<Verb(r.verb, TRUE)>>

Understood(r) ==
    [verb |-> r.verb, words |-> r.words, fields |-> Validate(r.verb, r.words)]

\* The fields of that record.
LEMMA UnderstoodParts ==
  ASSUME NEW r
  PROVE  /\ Understood(r).verb = r.verb
         /\ Understood(r).words = r.words
         /\ Understood(r).fields = Validate(r.verb, r.words)
BY DEF Understood

ArgumentsInv ==
    /\ Requested
    /\ line # None => Spells(line, request)
    /\ outcome # None => outcome = Understood(request)

\* What is read from a line is the request it spells.
LEMMA SpellsRead ==
  ASSUME NEW r, r.verb \in Verbs, r.words \in Seq(Words[r.verb]),
         NEW s, Spells(s, r)
  PROVE  /\ Len(Command(s)) = 1
         /\ Is("verb", Head(Command(s)))
         /\ Head(Command(s)).verb = r.verb
         /\ Parameters(s) = r.words
<1>1. \A upper : /\ Len(<<Verb(r.verb, upper)>>) = 1
                 /\ Head(<<Verb(r.verb, upper)>>) = Verb(r.verb, upper)
  OBVIOUS
<1>2. \A upper : Is("verb", Verb(r.verb, upper)) /\ Verb(r.verb, upper).verb = r.verb
  BY Zenon DEF Is, Verb
<1>3. (\E upper : Command(s) = <<Verb(r.verb, upper)>>) /\ Parameters(s) = r.words
  <2>1. CASE r.words = <<>> /\ s = <<Verb(r.verb, TRUE)>>
    BY <2>1, VerbRead, Zenon
  <2>2. ASSUME NEW separator \in {Blank, Colon}, NEW n \in Nat,
               s \in Spellings(r.verb, r.words, separator, n)
        PROVE  (\E upper : Command(s) = <<Verb(r.verb, upper)>>)
               /\ Parameters(s) = r.words
    <3>1. /\ \E upper \in BOOLEAN : Command(s) = <<Verb(r.verb, upper)>>
          /\ Parameters(s) = r.words
      BY <2>2, SpellingRead
    <3> QED BY <3>1
  <2> QED BY <2>1, <2>2 DEF Spells
<1> QED BY <1>1, <1>2, <1>3, Zenon

\* Nothing has been written at the start.
LEMMA InitRequested == Init => ArgumentsInv
<1> SUFFICES ASSUME Init PROVE ArgumentsInv
  OBVIOUS
<1>1. "NOOP" \in Verbs /\ <<>> \in Seq(Words["NOOP"])
  BY DEF Verbs, WithoutArguments
<1>2. request.verb = "NOOP" /\ request.words = <<>>
  BY DEF Init
<1> QED BY <1>1, <1>2, Zenon DEF Init, ArgumentsInv, Requested

\* The client writes a spelling of what it means.
LEMMA WriteRequested == ArgumentsInv /\ Write => ArgumentsInv'
<1> SUFFICES ASSUME ArgumentsInv, Write PROVE ArgumentsInv'
  OBVIOUS
<1>1. PICK verb \in Verbs, separator \in {Blank, Colon}, n \in 0..MaxBlanks :
         \E words \in SeqOf(Words[verb], MaxWords) :
             /\ request' = [verb |-> verb, words |-> words]
             /\ \/ line' \in Spellings(verb, words, separator, n)
                \/ words = <<>> /\ line' = <<Verb(verb, TRUE)>>
  BY Zenon DEF Write
<1>2. PICK words \in SeqOf(Words[verb], MaxWords) :
             /\ request' = [verb |-> verb, words |-> words]
             /\ \/ line' \in Spellings(verb, words, separator, n)
                \/ words = <<>> /\ line' = <<Verb(verb, TRUE)>>
  BY <1>1
<1>3. words \in Seq(Words[verb])
  BY ArgumentAssumption DEF SeqOf
<1>4. n \in Nat
  BY ArgumentAssumption
<1>5. request'.verb = verb /\ request'.words = words
  BY <1>2
<1>6. Requested'
  BY <1>3, <1>5 DEF Requested, ArgumentsInv, Write
<1>7. Spells(line, request)'
  BY <1>2, <1>4, <1>5, Zenon DEF Spells
<1>8. outcome' = None
  BY DEF Write
<1> QED BY <1>6, <1>7, <1>8, Zenon DEF ArgumentsInv

\* _handle_command() reads it.
LEMMA HandleRequested == ArgumentsInv /\ Handle => ArgumentsInv'
<1> SUFFICES ASSUME ArgumentsInv, Handle PROVE ArgumentsInv'
  OBVIOUS
<1>1. /\ request.verb \in Verbs /\ request.words \in Seq(Words[request.verb])
      /\ Spells(line, request)
  BY Zenon DEF ArgumentsInv, Requested, Handle
<1>2. /\ Len(Command(line)) = 1
      /\ Is("verb", Head(Command(line)))
      /\ Head(Command(line)).verb = request.verb
      /\ Parameters(line) = request.words
  BY <1>1, SpellsRead, Zenon
<1>3. /\ UNCHANGED <<esmtp, request>> /\ line' = None
      /\ outcome' = Understood(request)
  BY <1>2, Zenon DEF Handle, Understood
<1>4. Understood(request)' = Understood(request)
  <2>1. ASSUME NEW verb, NEW words
        PROVE  Validate(verb, words)' = Validate(verb, words)
    BY <1>3 DEF Validate, MailFromSchema, ExtensionsAllowed
  <2> QED BY <1>3, <2>1 DEF Understood
<1>5. Requested'
  BY <1>3 DEF ArgumentsInv, Requested
<1> QED BY <1>3, <1>4, <1>5, Zenon DEF ArgumentsInv

\* A step of something else.
LEMMA StutterRequested == ArgumentsInv /\ UNCHANGED vars => ArgumentsInv'
<1> SUFFICES ASSUME ArgumentsInv, UNCHANGED vars PROVE ArgumentsInv'
  OBVIOUS
<1>1. UNCHANGED <<esmtp, request, line, outcome>>
  BY DEF vars
<1>2. Understood(request)' = Understood(request)
  BY <1>1 DEF Understood, Validate, MailFromSchema, ExtensionsAllowed
<1>3. Requested' /\ (line # None => Spells(line, request))'
  BY <1>1 DEF ArgumentsInv, Requested
<1> QED BY <1>1, <1>2, <1>3, Zenon DEF ArgumentsInv

(***************************************************************************)
(* In every reachable state the line on its way is a spelling of the       *)
(* request, and what _handle_command() made of it is what the request      *)
(* means: its verb, its arguments and the fields its schema finds in them. *)
(***************************************************************************)
THEOREM ArgumentsInvariant == Spec => []ArgumentsInv
<1>1. Init => ArgumentsInv
  BY InitRequested
<1>2. ArgumentsInv /\ [Next]_vars => ArgumentsInv'
  BY WriteRequested, HandleRequested, StutterRequested DEF Next, Ended
<1> QED BY <1>1, <1>2, PTL DEF Spec

(***************************************************************************)
(* ParserImplementation.parse() and the separator of the schemas lose and  *)
(* invent nothing: verb and arguments are those the client means, for any  *)
(* number of arguments and blanks.                                         *)
(***************************************************************************)
THEOREM UnderstoodAlways == Spec => []UnderstoodAsMeant
<1>1. ArgumentsInv => UnderstoodAsMeant
  BY UnderstoodParts, Zenon DEF ArgumentsInv, UnderstoodAsMeant
<1> QED BY <1>1, ArgumentsInvariant, PTL

-----------------------------------------------------------------------------
(***************************************************************************)
(* The schemas of RCPT TO and MAIL FROM                                    *)
(***************************************************************************)

\* Validate chooses the schema of the verb.
LEMMA ValidateCases ==
  ASSUME NEW words
  PROVE  /\ Validate("MAIL FROM", words) = MailFromSchema(words)
         /\ Validate("RCPT TO", words) = RcptToSchema(words)
         /\ Validate("AUTH PLAIN", words) = AuthPlainSchema(words)
BY DEF Validate, WithoutArguments

\* The words of a request are among those clients try.
LEMMA RequestWords ==
  ASSUME Requested
  PROVE  /\ \A i \in 1..Len(request.words) :
               /\ request.words[i] \in Words[request.verb]
               /\ request.words[i] \in AllWords
         /\ Len(request.words) \in Nat
         /\ DOMAIN request.words = 1..Len(request.words)
         /\ request.words # <<>> => /\ Len(request.words) >= 1
                                    /\ Head(request.words) = request.words[1]
<1> DEFINE words == request.words
           S == Words[request.verb]
<1>1. words \in Seq(S) /\ request.verb \in Verbs
  BY DEF Requested
<1>2. S \subseteq AllWords
  BY <1>1 DEF AllWords
<1> HIDE DEF words, S
<1>3. /\ \A i \in 1..Len(words) : words[i] \in S
      /\ Len(words) \in Nat /\ DOMAIN words = 1..Len(words)
      /\ words # <<>> => Len(words) >= 1 /\ Head(words) = words[1]
  BY <1>1, LenProperties, ElementOfSeq
<1> QED BY <1>2, <1>3, Zenon DEF words, S

\* Where aggregate_values() finds a field.
OptionsNamed(words, name) == {i \in 2..Len(words) : words[i].key = name}

\* The last option of a name is the one that counts.
LEMMA FieldFound ==
  ASSUME NEW words, Len(words) \in Nat, NEW name
  PROVE  /\ OptionsNamed(words, name) = {} => Field(words, name) = Head(words)
         /\ OptionsNamed(words, name) # {} =>
               \E i \in OptionsNamed(words, name) :
                  /\ Field(words, name) = words[i].value
                  /\ \A j \in OptionsNamed(words, name) : j <= i
<1> DEFINE named == OptionsNamed(words, name)
<1>1. named \in SUBSET (0..Len(words))
  BY DEF OptionsNamed
<1>2. Field(words, name) =
         IF named = {} THEN Head(words) ELSE words[Max(named)].value
  BY Zenon DEF Field, OptionsNamed
<1>3. named # {} => Max(named) \in named /\ \A j \in named : j <= Max(named)
  <2> HIDE DEF named
  <2> QED BY <1>1, MaxIsGreatest
<1> QED BY <1>2, <1>3, Zenon

\* What MAIL FROM accepts, and the fields it finds.
LEMMA MailAccepts ==
  ASSUME NEW words, MailFromSchema(words) # Rejected
  PROVE  /\ words # <<>>
         /\ \A i \in 2..Len(words) : KnownExtension(words[i])
         /\ ExtensionsAllowed(words)
         /\ SMTPEmailValidator(Field(words, "email"))
         /\ "size" \in Fields(words) => SizeExtensionValidator(Field(words, "size"))
         /\ MailFromSchema(words).email = Field(words, "email").mailbox
         /\ MailFromSchema(words).size = IF "size" \in Fields(words)
                                        THEN Field(words, "size").number ELSE None
         /\ DOMAIN MailFromSchema(words) = {"email", "size"}
<1> DEFINE email == Field(words, "email").mailbox
           size == IF "size" \in Fields(words)
                   THEN Field(words, "size").number ELSE None
<1>1. /\ words # <<>>
      /\ \A i \in 2..Len(words) : KnownExtension(words[i])
      /\ ExtensionsAllowed(words)
      /\ SMTPEmailValidator(Field(words, "email"))
      /\ "size" \in Fields(words) => SizeExtensionValidator(Field(words, "size"))
      /\ MailFromSchema(words) = [email |-> email, size |-> size]
  BY Zenon DEF MailFromSchema
<1> HIDE DEF email, size
<1>2. /\ MailFromSchema(words).email = email
      /\ MailFromSchema(words).size = size
      /\ DOMAIN MailFromSchema(words) = {"email", "size"}
  BY <1>1
<1> QED BY <1>1, <1>2, Zenon DEF email, size

\* The names of the fields are that of the sender and those of the options.
LEMMA FieldNames ==
  ASSUME NEW words, Len(words) \in Nat,
         \A i \in 2..Len(words) : KnownExtension(words[i])
  PROVE  /\ \A i \in 2..Len(words) : Is("key", words[i])
         /\ "size" \in Fields(words) <=> OptionsNamed(words, "size") # {}
         /\ "size" \in Fields(words) => Cardinality(Fields(words)) = 2
         /\ Len(words) = 1 => Fields(words) = {"email"}
<1>1. \A i \in 2..Len(words) :
         Is("key", words[i]) /\ words[i].key \in {"email", "size"}
  BY Zenon DEF KnownExtension
<1>2. "size" \in Fields(words) <=> OptionsNamed(words, "size") # {}
  BY DEF Fields, OptionsNamed
<1>3. "size" \in Fields(words) => Fields(words) = {"email", "size"}
  BY <1>1 DEF Fields
<1>4. Cardinality({"email", "size"}) = 2
  <2>1. "size" \notin {"email"}
    OBVIOUS
  <2>2. IsFiniteSet({"email"}) /\ Cardinality({"email"}) = 1
    BY FS_Singleton
  <2>3. Cardinality({"email"} \cup {"size"}) = 1 + 1
    BY <2>1, <2>2, FS_AddElement
  <2>4. {"email"} \cup {"size"} = {"email", "size"}
    OBVIOUS
  <2> QED BY <2>3, <2>4
<1>5. Len(words) = 1 => Fields(words) = {"email"}
  BY DEF Fields
<1> QED BY <1>1, <1>2, <1>3, <1>4, <1>5, Zenon

\* The size of an accepted MAIL FROM is the number in its last SIZE.
LEMMA MailSize ==
  ASSUME Requested, NEW words, words = request.words,
         MailFromSchema(words) # Rejected,
         NEW size, size = MailFromSchema(words).size
  PROVE  /\ OptionsNamed(words, "size") = {} => size = None
         /\ OptionsNamed(words, "size") # {} =>
               /\ size \in Nat \ {0}
               /\ esmtp
               /\ \E i \in OptionsNamed(words, "size") :
                     /\ words[i].value = Number(size)
                     /\ \A j \in OptionsNamed(words, "size") : j <= i
<1>1. /\ Len(words) \in Nat
      /\ \A i \in 1..Len(words) : words[i] \in AllWords
  BY RequestWords
<1>2. /\ \A i \in 2..Len(words) : KnownExtension(words[i])
      /\ ExtensionsAllowed(words)
      /\ "size" \in Fields(words) => SizeExtensionValidator(Field(words, "size"))
      /\ size = IF "size" \in Fields(words)
                THEN Field(words, "size").number ELSE None
  BY MailAccepts, Zenon
<1>3. /\ \A i \in 2..Len(words) : Is("key", words[i])
      /\ "size" \in Fields(words) <=> OptionsNamed(words, "size") # {}
      /\ "size" \in Fields(words) => Cardinality(Fields(words)) = 2
  BY <1>1, <1>2, FieldNames
<1>4. ASSUME OptionsNamed(words, "size") # {}
      PROVE  /\ size \in Nat \ {0}
             /\ esmtp
             /\ \E i \in OptionsNamed(words, "size") :
                   /\ words[i].value = Number(size)
                   /\ \A j \in OptionsNamed(words, "size") : j <= i
  <2>1. PICK i \in OptionsNamed(words, "size") :
           /\ Field(words, "size") = words[i].value
           /\ \A j \in OptionsNamed(words, "size") : j <= i
    BY <1>1, <1>4, FieldFound
  <2>2. i \in 2..Len(words) /\ words[i] \in AllWords
    BY <1>1, <2>1 DEF OptionsNamed
  <2>3. Is("number", words[i].value) /\ words[i].value.number >= 1
    BY <1>2, <1>3, <1>4, <2>1, Zenon DEF SizeExtensionValidator
  <2>4. words[i].value \in [number : Int]
    BY <1>3, <2>2, <2>3, WordAssumption, Zenon
  <2>5. size = words[i].value.number
    BY <1>2, <1>3, <1>4, <2>1, Zenon
  <2>6. size \in Nat \ {0} /\ words[i].value = Number(size)
    BY <2>3, <2>4, <2>5 DEF Number
  <2>7. esmtp
    <3>1. 2 > 1
      OBVIOUS
    <3> QED BY <1>2, <1>3, <1>4, <3>1, Zenon DEF ExtensionsAllowed
  <2> QED BY <2>1, <2>6, <2>7, Zenon
<1> QED BY <1>2, <1>3, <1>4, Zenon

\* The invariant in the form the properties need: what was accepted and how.
LEMMA AcceptedMeans ==
  ASSUME ArgumentsInv, NEW verb, Handled(verb)
  PROVE  /\ Requested /\ request.verb = verb
         /\ outcome.fields = Validate(verb, request.words)
         /\ Accepted(verb) <=> Validate(verb, request.words) \notin {Rejected, Crashed}
BY UnderstoodParts, Zenon DEF ArgumentsInv, Handled, Accepted

(***************************************************************************)
(* RCPT TO hands its handler an address without brackets, and MAIL FROM a  *)
(* positive number as size or none: for all words that clients try.        *)
(***************************************************************************)
THEOREM ArgumentTypesAlways == Spec => []TypeOK
<1>1. ASSUME ArgumentsInv, Accepted("RCPT TO")
      PROVE  outcome.fields.email \in Mailboxes
  <2>1. /\ Requested /\ outcome.fields = RcptToSchema(request.words)
        /\ outcome.fields # Rejected
    BY <1>1, AcceptedMeans, ValidateCases, Zenon DEF Accepted
  <2>2. /\ Len(request.words) = 1 /\ SMTPEmailValidator(Head(request.words))
        /\ outcome.fields = [email |-> Head(request.words).mailbox]
    BY <2>1, Zenon DEF RcptToSchema
  <2>3. Head(request.words) \in AllWords
    <3>1. 1 \in 1..Len(request.words) /\ request.words # <<>>
      BY <2>2
    <3> QED BY <2>1, <3>1, RequestWords, Zenon
  <2>4. outcome.fields.email = Head(request.words).mailbox
    BY <2>2
  <2> DEFINE word == Head(request.words)
  <2>5. word \in {w \in AllWords : Is("mailbox", w) /\ w.opened = w.closed}
    BY <2>2, <2>3, Zenon DEF SMTPEmailValidator, Balanced
  <2> QED BY <2>4, <2>5, Zenon DEF Mailboxes
<1>2. ASSUME ArgumentsInv, Accepted("MAIL FROM")
      PROVE  /\ outcome.fields.size \in (Nat \ {0}) \cup {None}
             /\ DOMAIN outcome.fields = {"email", "size"}
  <2>1. /\ Requested /\ outcome.fields = MailFromSchema(request.words)
        /\ outcome.fields # Rejected
    BY <1>2, AcceptedMeans, ValidateCases, Zenon DEF Accepted
  <2>2. outcome.fields.size \in (Nat \ {0}) \cup {None}
    <3>1. OptionsNamed(request.words, "size") = {} => outcome.fields.size = None
      BY <2>1, MailSize, Zenon
    <3>2. OptionsNamed(request.words, "size") # {} =>
             outcome.fields.size \in Nat \ {0}
      BY <2>1, MailSize, Zenon
    <3> QED BY <3>1, <3>2
  <2>3. DOMAIN outcome.fields = {"email", "size"}
    BY <2>1, MailAccepts, Zenon
  <2> QED BY <2>2, <2>3
<1>3. ArgumentsInv => TypeOK
  BY <1>1, <1>2, Zenon DEF ArgumentsInv, Requested, TypeOK
<1> QED BY <1>3, ArgumentsInvariant, PTL

\* MAIL FROM with a sender alone.
LEMMA SenderAlone ==
  ASSUME Requested, NEW words, words = request.words, Len(words) = 1
  PROVE  MailFromSchema(words) \notin {Rejected, Crashed} <=>
            Is("mailbox", Head(words)) /\ Balanced(Head(words))
<1>1. /\ Len(words) \in Nat /\ words # <<>> /\ 2..Len(words) = {}
      /\ \A i \in 2..Len(words) : KnownExtension(words[i])
  OBVIOUS
<1>2. Head(words) \in AllWords
  <2>1. 1 \in 1..Len(words)
    OBVIOUS
  <2> QED BY <1>1, <2>1, RequestWords, Zenon
<1>3. Field(words, "email") = Head(words)
  <2>1. OptionsNamed(words, "email") = {}
    BY <1>1 DEF OptionsNamed
  <2> QED BY <1>1, <2>1, FieldFound
<1>4. "size" \notin Fields(words) /\ ExtensionsAllowed(words)
  <2>1. Fields(words) = {"email"}
    BY <1>1, FieldNames
  <2>2. Cardinality({"email"}) = 1 /\ ~ (1 > 1)
    BY FS_Singleton
  <2>3. "size" \notin {"email"}
    OBVIOUS
  <2> QED BY <2>1, <2>2, <2>3, Zenon DEF ExtensionsAllowed
<1>5. CASE SMTPEmailValidator(Head(words))
  <2>1. MailFromSchema(words) = [email |-> Head(words).mailbox, size |-> None]
    BY <1>1, <1>3, <1>4, <1>5, Zenon DEF MailFromSchema
  <2>2. Is("mailbox", Head(words)) /\ Balanced(Head(words))
    BY <1>5, Zenon DEF SMTPEmailValidator
  <2>3. MailFromSchema(words) \notin {Rejected, Crashed}
    BY <1>2, <2>1, <2>2, TokenAssumption, Zenon
  <2> QED BY <2>2, <2>3
<1>6. CASE ~ SMTPEmailValidator(Head(words))
  <2>1. MailFromSchema(words) = Rejected
    BY <1>3, <1>6, Zenon DEF MailFromSchema
  <2> QED BY <1>6, <2>1, Zenon DEF SMTPEmailValidator
<1> QED BY <1>5, <1>6

(***************************************************************************)
(* A sender alone is accepted exactly when its brackets match; a size is   *)
(* the number of the last SIZE of an extended session, and the sender is   *)
(* the first argument unless an option called EMAIL replaces it: for any   *)
(* number of options, in any order and with any repetition.                *)
(***************************************************************************)
THEOREM MailAsAnnouncedAlways == Spec => []MailAsAnnounced
<1> DEFINE words == request.words
           sender == Head(words)
           optionsAt == {i \in 2..Len(words) : Is("key", words[i])}
           named(name) == {i \in optionsAt : words[i].key = name}
<1>1. ASSUME ArgumentsInv, Handled("MAIL FROM"), Len(words) = 1
      PROVE  Accepted("MAIL FROM") <=>
                Is("mailbox", sender) /\ sender.opened = sender.closed
  <2>1. /\ Requested
        /\ Accepted("MAIL FROM") <=> MailFromSchema(words) \notin {Rejected, Crashed}
    BY <1>1, AcceptedMeans, ValidateCases, Zenon
  <2>2. MailFromSchema(words) \notin {Rejected, Crashed} <=>
            Is("mailbox", Head(words)) /\ Balanced(Head(words))
    BY <1>1, <2>1, SenderAlone, Zenon
  <2> QED BY <2>1, <2>2, Zenon DEF Balanced
<1>2. ASSUME ArgumentsInv, Accepted("MAIL FROM")
      PROVE  /\ named("email") = {} => outcome.fields.email = sender.mailbox
             /\ named("size") = {} <=> outcome.fields.size = None
             /\ named("size") # {} =>
                   /\ esmtp
                   /\ \E i \in named("size") :
                         /\ words[i].value = Number(outcome.fields.size)
                         /\ \A j \in named("size") : j <= i
  <2>1. /\ Requested /\ outcome.fields = MailFromSchema(words)
        /\ MailFromSchema(words) # Rejected
    BY <1>2, AcceptedMeans, ValidateCases, Zenon DEF Accepted
  <2>2. /\ Len(words) \in Nat
        /\ \A i \in 2..Len(words) : KnownExtension(words[i])
        /\ MailFromSchema(words).email = Field(words, "email").mailbox
    BY <2>1, RequestWords, MailAccepts, Zenon
  <2>3. \A i \in 2..Len(words) : Is("key", words[i])
    BY <2>2, Zenon DEF KnownExtension
  <2>4. \A name : named(name) = OptionsNamed(words, name)
    BY <2>3 DEF OptionsNamed
  <2>5. named("email") = {} => outcome.fields.email = sender.mailbox
    <3>1. OptionsNamed(words, "email") = {} => Field(words, "email") = Head(words)
      BY <2>2, FieldFound, Zenon
    <3> QED BY <2>1, <2>2, <2>4, <3>1, Zenon
  <2> DEFINE size == MailFromSchema(words).size
             sizes == OptionsNamed(words, "size")
  <2>6. /\ sizes = {} => size = None
        /\ sizes # {} =>
              /\ size \in Nat \ {0}
              /\ esmtp
              /\ \E i \in sizes : /\ words[i].value = Number(size)
                                 /\ \A j \in sizes : j <= i
    BY <2>1, MailSize, Zenon
  <2>7. size = None => size \notin Nat \ {0}
    <3> HIDE DEF size
    <3>1. \A n \in Nat : n \in Int
      OBVIOUS
    <3> QED BY <3>1, TokenAssumption, Zenon
  <2>8. outcome.fields.size = size /\ named("size") = sizes
    BY <2>1, <2>4, Zenon
  <2> HIDE DEF size, sizes, named
  <2> QED BY <2>5, <2>6, <2>7, <2>8, Zenon
<1>3. ArgumentsInv => MailAsAnnounced
  <2> SUFFICES ASSUME ArgumentsInv PROVE MailAsAnnounced
    OBVIOUS
  <2> QED BY <1>1, <1>2, Zenon DEF MailAsAnnounced
<1> QED BY <1>3, ArgumentsInvariant, PTL

-----------------------------------------------------------------------------
(***************************************************************************)
(* Base64: four digits are three octets, and three octets four digits.     *)
(***************************************************************************)

\* The three octets of four digits.
Octet1(a, b) == (4 * a) + (b \div 16)
Octet2(b, c) == (16 * (b % 16)) + (c \div 4)
Octet3(c, d) == (64 * (c % 4)) + d

\* From them the digits can be got back.
DecodedFrom(a, b, c, d) ==
    LET x == Octet1(a, b)
        y == Octet2(b, c)
        z == Octet3(c, d)
    IN  /\ x \in 0..255 /\ y \in 0..255 /\ z \in 0..255
        /\ x \div 4 = a
        /\ (16 * (x % 4)) + (y \div 16) = b
        /\ (16 * (x % 4)) \div 16 = b \div 16
        /\ (4 * (y % 16)) + (z \div 64) = c
        /\ (4 * (y % 16)) \div 4 = c \div 4
        /\ z % 64 = d

\* For all digits.
LEMMA GroupDecoded ==
  ASSUME NEW a \in 0..63, NEW b \in 0..63, NEW c \in 0..63, NEW d \in 0..63
  PROVE  DecodedFrom(a, b, c, d)
BY DEF Octet1, Octet2, Octet3, DecodedFrom

\* The octets can be got back from the digits of a group, of the last one if
\* what no octet needs is left out.
EncodedFrom(x, y, z, b, c, d) ==
    /\ b \div 16 = ((16 * (x % 4)) + (y \div 16)) \div 16 =>
          (4 * (x \div 4)) + (b \div 16) = x
    /\ b = (16 * (x % 4)) + (y \div 16) =>
          /\ c \div 4 = ((4 * (y % 16)) + (z \div 64)) \div 4 =>
                (16 * (b % 16)) + (c \div 4) = y
    /\ c = (4 * (y % 16)) + (z \div 64) /\ d = z % 64 => (64 * (c % 4)) + d = z

\* For all octets.
LEMMA GroupEncoded ==
  ASSUME NEW x \in 0..255, NEW y \in 0..255, NEW z \in 0..255,
         NEW b \in 0..63, NEW c \in 0..63, NEW d \in 0..63
  PROVE  EncodedFrom(x, y, z, b, c, d)
<1>1. ((16 * (x % 4)) + (y \div 16)) \div 16 = x % 4 /\ (4 * (x \div 4)) + (x % 4) = x
  OBVIOUS
<1>2. /\ ((16 * (x % 4)) + (y \div 16)) % 16 = y \div 16
      /\ ((4 * (y % 16)) + (z \div 64)) \div 4 = y % 16
      /\ (16 * (y \div 16)) + (y % 16) = y
  OBVIOUS
<1>3. ((4 * (y % 16)) + (z \div 64)) % 4 = z \div 64 /\ (64 * (z \div 64)) + (z % 64) = z
  OBVIOUS
<1> QED BY <1>1, <1>2, <1>3, Zenon DEF EncodedFrom

\* The place of a digit and that of an octet in their groups.
LEMMA DigitPlace ==
  ASSUME NEW n \in Nat, n # 0
  PROVE  \E g \in Nat : n \in {4 * g + 1, 4 * g + 2, 4 * g + 3, 4 * g + 4}
<1> DEFINE g == (n - 1) \div 4
<1>1. g \in Nat /\ n \in {4 * g + 1, 4 * g + 2, 4 * g + 3, 4 * g + 4}
  OBVIOUS
<1> QED BY <1>1

LEMMA OctetPlace ==
  ASSUME NEW k \in Nat, k # 0
  PROVE  \E g \in Nat : k \in {3 * g + 1, 3 * g + 2, 3 * g + 3}
<1> DEFINE g == (k - 1) \div 3
<1>1. g \in Nat /\ k \in {3 * g + 1, 3 * g + 2, 3 * g + 3}
  OBVIOUS
<1> QED BY <1>1

\* How many digits and octets there are.
LEMMA Lengths ==
  ASSUME NEW n \in Nat
  PROVE  /\ (3 * n) \div 4 \in Nat /\ (4 * n + 2) \div 3 \in Nat
         /\ n % 4 # 1 => (4 * ((3 * n) \div 4) + 2) \div 3 = n
         /\ (3 * ((4 * n + 2) \div 3)) \div 4 = n
         /\ ((4 * n + 2) \div 3) % 4 # 1
OBVIOUS

\* The octets of a group.
LEMMA OctetsOfGroup ==
  ASSUME NEW digits \in Seq(0..63), NEW g \in Nat,
         NEW m, m = (3 * Len(digits)) \div 4
  PROVE  /\ Len(Octets(digits)) = m /\ DOMAIN Octets(digits) = 1..m
         /\ Octets(digits) = [k \in 1..m |-> Octets(digits)[k]]
         /\ 3 * g + 1 <= m => Octets(digits)[3 * g + 1] =
               (4 * digits[4 * g + 1]) + (digits[4 * g + 2] \div 16)
         /\ 3 * g + 2 <= m => Octets(digits)[3 * g + 2] =
               (16 * (digits[4 * g + 2] % 16)) + (digits[4 * g + 3] \div 4)
         /\ 3 * g + 3 <= m => Octets(digits)[3 * g + 3] =
               (64 * (digits[4 * g + 3] % 4)) + digits[4 * g + 4]
<1> DEFINE place(k) == k + ((k - 1) \div 3)
           octet(k) ==
               CASE k % 3 = 1 -> (4 * digits[place(k)]) + (digits[place(k) + 1] \div 16)
                 [] k % 3 = 2 -> (16 * (digits[place(k)] % 16)) + (digits[place(k) + 1] \div 4)
                 [] k % 3 = 0 -> (64 * (digits[place(k)] % 4)) + digits[place(k) + 1]
           octets == [k \in 1..m |-> octet(k)]
<1>1. Octets(digits) = octets
  BY Zenon DEF Octets
<1>2. m \in Nat
  BY LenProperties
<1>3. Len(octets) = m /\ DOMAIN octets = 1..m /\ octets = [k \in 1..m |-> octets[k]]
  <2> HIDE DEF octet
  <2> QED BY <1>2
<1>4. \A k \in 1..m : octets[k] = octet(k)
  BY Zenon
<1>5. /\ (3 * g + 1) % 3 = 1 /\ place(3 * g + 1) = 4 * g + 1
      /\ (3 * g + 2) % 3 = 2 /\ place(3 * g + 2) = 4 * g + 2
      /\ (3 * g + 3) % 3 = 0 /\ place(3 * g + 3) = 4 * g + 3
      /\ (4 * g + 1) + 1 = 4 * g + 2 /\ (4 * g + 2) + 1 = 4 * g + 3
      /\ (4 * g + 3) + 1 = 4 * g + 4 /\ 0 # 1 /\ 0 # 2 /\ 1 # 2
      /\ 2 # 1 /\ 1 # 0 /\ 2 # 0
  OBVIOUS
<1>6. /\ octet(3 * g + 1) = (4 * digits[4 * g + 1]) + (digits[4 * g + 2] \div 16)
      /\ octet(3 * g + 2) = (16 * (digits[4 * g + 2] % 16)) + (digits[4 * g + 3] \div 4)
      /\ octet(3 * g + 3) = (64 * (digits[4 * g + 3] % 4)) + digits[4 * g + 4]
  <2> HIDE DEF place
  <2> QED BY <1>5
<1> HIDE DEF octet, octets
<1>7. /\ 3 * g + 1 <= m => 3 * g + 1 \in 1..m
      /\ 3 * g + 2 <= m => 3 * g + 2 \in 1..m
      /\ 3 * g + 3 <= m => 3 * g + 3 \in 1..m
  BY <1>2
<1> QED BY <1>1, <1>3, <1>4, <1>6, <1>7, Zenon

\* An octet of a text, or what fills its last group.
Filled(text, k) == IF k \in DOMAIN text THEN text[k] ELSE 0

\* The digits of a group.
LEMMA DigitsOfGroup ==
  ASSUME NEW text \in Seq(0..255), NEW g \in Nat,
         NEW m, m = (4 * Len(text) + 2) \div 3
  PROVE  /\ Len(Encoded(text)) = m /\ DOMAIN Encoded(text) = 1..m
         /\ 4 * g + 1 <= m => Encoded(text)[4 * g + 1] = Filled(text, 3 * g + 1) \div 4
         /\ 4 * g + 2 <= m => Encoded(text)[4 * g + 2] =
               (16 * (Filled(text, 3 * g + 1) % 4)) + (Filled(text, 3 * g + 2) \div 16)
         /\ 4 * g + 3 <= m => Encoded(text)[4 * g + 3] =
               (4 * (Filled(text, 3 * g + 2) % 16)) + (Filled(text, 3 * g + 3) \div 64)
         /\ 4 * g + 4 <= m => Encoded(text)[4 * g + 4] = Filled(text, 3 * g + 3) % 64
<1> DEFINE place(n) == n - ((n - 1) \div 4)
           digit(n) ==
               CASE n % 4 = 1 -> Filled(text, place(n)) \div 4
                 [] n % 4 = 2 -> (16 * (Filled(text, place(n) - 1) % 4))
                                     + (Filled(text, place(n)) \div 16)
                 [] n % 4 = 3 -> (4 * (Filled(text, place(n) - 1) % 16))
                                     + (Filled(text, place(n)) \div 64)
                 [] n % 4 = 0 -> Filled(text, place(n) - 1) % 64
           digits == [n \in 1..m |-> digit(n)]
<1>1. Encoded(text) = digits
  BY Zenon DEF Encoded, Filled
<1>2. m \in Nat
  BY LenProperties
<1>3. Len(digits) = m /\ DOMAIN digits = 1..m
  <2> HIDE DEF digit
  <2> QED BY <1>2
<1>4. \A n \in 1..m : digits[n] = digit(n)
  BY Zenon
<1>5. /\ (4 * g + 1) % 4 = 1 /\ place(4 * g + 1) = 3 * g + 1
      /\ (4 * g + 2) % 4 = 2 /\ place(4 * g + 2) = 3 * g + 2
      /\ (4 * g + 3) % 4 = 3 /\ place(4 * g + 3) = 3 * g + 3
      /\ (4 * g + 4) % 4 = 0 /\ place(4 * g + 4) = 3 * g + 4
      /\ (3 * g + 2) - 1 = 3 * g + 1 /\ (3 * g + 3) - 1 = 3 * g + 2
      /\ (3 * g + 4) - 1 = 3 * g + 3
  OBVIOUS
<1>6. /\ digit(4 * g + 1) = Filled(text, 3 * g + 1) \div 4
      /\ digit(4 * g + 2) = (16 * (Filled(text, 3 * g + 1) % 4))
                                + (Filled(text, 3 * g + 2) \div 16)
      /\ digit(4 * g + 3) = (4 * (Filled(text, 3 * g + 2) % 16))
                                + (Filled(text, 3 * g + 3) \div 64)
      /\ digit(4 * g + 4) = Filled(text, 3 * g + 3) % 64
  <2> HIDE DEF place
  <2> QED BY <1>5
<1> HIDE DEF digit, digits
<1>7. /\ 4 * g + 1 <= m => 4 * g + 1 \in 1..m
      /\ 4 * g + 2 <= m => 4 * g + 2 \in 1..m
      /\ 4 * g + 3 <= m => 4 * g + 3 \in 1..m
      /\ 4 * g + 4 <= m => 4 * g + 4 \in 1..m
  BY <1>2
<1> QED BY <1>1, <1>3, <1>4, <1>6, <1>7, Zenon

\* Digit i of n is that of a code, but for the bits of the last one that no
\* octet needs.
SameDigit(digits, code, n, i) ==
    /\ i < n => digits[i] = code[i]
    /\ i = n /\ n % 4 = 2 => digits[i] \div 16 = code[i] \div 16
    /\ i = n /\ n % 4 = 3 => digits[i] \div 4 = code[i] \div 4
    /\ i = n /\ n % 4 = 0 => digits[i] \div 1 = code[i] \div 1

\* What Encodes() says of each digit.
LEMMA EncodesParts ==
  ASSUME NEW digits \in Seq(0..63), NEW code, NEW text,
         code = Encoded(text), Len(code) \in Nat,
         NEW n, n = Len(code), n % 4 # 1
  PROVE  Encodes(digits, text) <=>
            /\ Len(digits) = n
            /\ \A i \in 1..n : SameDigit(digits, code, n, i)
<1> DEFINE unused == CASE n % 4 = 2 -> 16 [] n % 4 = 3 -> 4 [] OTHER -> 1
           Same(i) == SameDigit(digits, code, n, i)
<1>1. Encodes(digits, text) <=>
         /\ Len(digits) = n
         /\ \A i \in 1..(n - 1) : digits[i] = code[i]
         /\ n > 0 => digits[n] \div unused = code[n] \div unused
  BY Zenon DEF Encodes
<1>2. n % 4 \in {0, 2, 3} /\ 0 # 2 /\ 0 # 3 /\ 2 # 3
  OBVIOUS
<1>3. /\ n % 4 = 2 => unused = 16
      /\ n % 4 = 3 => unused = 4
      /\ n % 4 = 0 => unused = 1
  BY <1>2
<1> HIDE DEF unused
<1>4. ASSUME NEW i \in 1..n, i < n PROVE Same(i) <=> digits[i] = code[i]
  BY <1>4 DEF SameDigit
<1>5. n > 0 => (Same(n) <=> digits[n] \div unused = code[n] \div unused)
  <2> DEFINE D(u) == digits[n] \div u
             C(u) == code[n] \div u
  <2>1. n > 0 => n = n /\ ~ (n < n)
    OBVIOUS
  <2>2. n % 4 = 2 \/ n % 4 = 3 \/ n % 4 = 0
    BY <1>2
  <2> QED BY <1>2, <1>3, <2>1, <2>2, Zenon DEF SameDigit
<1>6. (\A i \in 1..n : Same(i)) <=>
         /\ \A i \in 1..(n - 1) : digits[i] = code[i]
         /\ n > 0 => digits[n] \div unused = code[n] \div unused
  <2>1. /\ \A i \in 1..(n - 1) : i \in 1..n /\ i < n
        /\ n > 0 => n \in 1..n
        /\ \A i \in 1..n : (i \in 1..(n - 1) /\ i < n) \/ (n > 0 /\ i = n)
    OBVIOUS
  <2> HIDE DEF Same
  <2> QED BY <1>4, <1>5, <2>1, Zenon
<1> QED BY <1>1, <1>6, Zenon

\* Two digits make an octet.
LEMMA OctetOfDigits ==
  ASSUME NEW a \in 0..63, NEW b \in 0..63
  PROVE  /\ (4 * a) + (b \div 16) \in 0..255
         /\ (16 * (a % 16)) + (b \div 4) \in 0..255
         /\ (64 * (a % 4)) + b \in 0..255
OBVIOUS

\* The octets of digits are octets.
LEMMA OctetsType ==
  ASSUME NEW digits \in Seq(0..63)
  PROVE  Octets(digits) \in Seq(0..255)
<1> DEFINE n == Len(digits)
           m == (3 * n) \div 4
           octets == Octets(digits)
<1>1. n \in Nat /\ m \in Nat /\ m = (3 * n) \div 4 /\ \A i \in 1..n : digits[i] \in 0..63
  BY LenProperties, ElementOfSeq
<1>2. ASSUME NEW k \in 1..m PROVE octets[k] \in 0..255
  <2>1. PICK g \in Nat : k \in {3 * g + 1, 3 * g + 2, 3 * g + 3}
    <3>1. k \in Nat /\ k # 0
      BY <1>1
    <3> QED BY <3>1, OctetPlace
  <2>2. /\ 3 * g + 1 <= m => octets[3 * g + 1] =
               (4 * digits[4 * g + 1]) + (digits[4 * g + 2] \div 16)
        /\ 3 * g + 2 <= m => octets[3 * g + 2] =
               (16 * (digits[4 * g + 2] % 16)) + (digits[4 * g + 3] \div 4)
        /\ 3 * g + 3 <= m => octets[3 * g + 3] =
               (64 * (digits[4 * g + 3] % 4)) + digits[4 * g + 4]
    BY OctetsOfGroup
  <2> HIDE DEF octets, n, m
  <2>3. CASE k = 3 * g + 1
    <3>1. 4 * g + 1 \in 1..n /\ 4 * g + 2 \in 1..n
      BY <1>1, <2>3
    <3>2. digits[4 * g + 1] \in 0..63 /\ digits[4 * g + 2] \in 0..63
      BY <1>1, <3>1
    <3>3. 3 * g + 1 <= m
      BY <1>1, <2>3
    <3>4. (4 * digits[4 * g + 1]) + (digits[4 * g + 2] \div 16) \in 0..255
      BY <3>2, OctetOfDigits, Zenon
    <3>5. octets[3 * g + 1] \in 0..255
      BY <2>2, <3>3, <3>4, Zenon
    <3> QED BY <2>3, <3>5, Zenon
  <2>4. CASE k = 3 * g + 2
    <3>1. 4 * g + 2 \in 1..n /\ 4 * g + 3 \in 1..n
      BY <1>1, <2>4
    <3>2. digits[4 * g + 2] \in 0..63 /\ digits[4 * g + 3] \in 0..63
      BY <1>1, <3>1
    <3>3. 3 * g + 2 <= m
      BY <1>1, <2>4
    <3>4. (16 * (digits[4 * g + 2] % 16)) + (digits[4 * g + 3] \div 4) \in 0..255
      BY <3>2, OctetOfDigits, Zenon
    <3>5. octets[3 * g + 2] \in 0..255
      BY <2>2, <3>3, <3>4, Zenon
    <3> QED BY <2>4, <3>5, Zenon
  <2>5. CASE k = 3 * g + 3
    <3>1. 4 * g + 3 \in 1..n /\ 4 * g + 4 \in 1..n
      BY <1>1, <2>5
    <3>2. digits[4 * g + 3] \in 0..63 /\ digits[4 * g + 4] \in 0..63
      BY <1>1, <3>1
    <3>3. 3 * g + 3 <= m
      BY <1>1, <2>5
    <3>4. (64 * (digits[4 * g + 3] % 4)) + digits[4 * g + 4] \in 0..255
      BY <3>2, OctetOfDigits, Zenon
    <3>5. octets[3 * g + 3] \in 0..255
      BY <2>2, <3>3, <3>4, Zenon
    <3> QED BY <2>5, <3>5, Zenon
  <2> QED BY <2>1, <2>3, <2>4, <2>5
<1>3. octets = [k \in 1..m |-> octets[k]]
  <2>1. 0 \in Nat
    OBVIOUS
  <2> QED BY <2>1, OctetsOfGroup, ZenonT(30)
<1> HIDE DEF n, m, octets
<1>4. octets \in [1..m -> 0..255]
  BY <1>2, <1>3
<1>5. octets \in Seq(0..255)
  <2>1. m \in Nat
    BY <1>1
  <2> QED BY <1>4, <2>1
<1> QED BY <1>5 DEF octets

(***************************************************************************)
(* Digits that do not end in a group of one encode their octets.           *)
(***************************************************************************)
LEMMA OctetsEncoded ==
  ASSUME NEW digits \in Seq(0..63), Len(digits) % 4 # 1
  PROVE  Encodes(digits, Octets(digits))
<1> DEFINE n == Len(digits)
           m == (3 * n) \div 4
           text == Octets(digits)
           code == Encoded(text)
<1>1. n \in Nat /\ m \in Nat /\ m = (3 * n) \div 4 /\ n % 4 # 1 /\ \A i \in 1..n : digits[i] \in 0..63
  BY LenProperties, ElementOfSeq
<1>2. text \in Seq(0..255)
  BY OctetsType
<1>3. Len(text) = m /\ DOMAIN text = 1..m
  <2>1. 0 \in Nat
    OBVIOUS
  <2> QED BY <2>1, OctetsOfGroup
<1>4. (4 * m + 2) \div 3 = n
  BY <1>1, Lengths
<1>5. \A g \in Nat :
         /\ 3 * g + 1 <= m => text[3 * g + 1] =
               (4 * digits[4 * g + 1]) + (digits[4 * g + 2] \div 16)
         /\ 3 * g + 2 <= m => text[3 * g + 2] =
               (16 * (digits[4 * g + 2] % 16)) + (digits[4 * g + 3] \div 4)
         /\ 3 * g + 3 <= m => text[3 * g + 3] =
               (64 * (digits[4 * g + 3] % 4)) + digits[4 * g + 4]
  <2> HIDE DEF text
  <2> QED BY OctetsOfGroup DEF text
<1> HIDE DEF text, n, m
<1>6. /\ Len(code) = n
      /\ \A g \in Nat :
         /\ 4 * g + 1 <= n => code[4 * g + 1] = Filled(text, 3 * g + 1) \div 4
         /\ 4 * g + 2 <= n => code[4 * g + 2] =
               (16 * (Filled(text, 3 * g + 1) % 4)) + (Filled(text, 3 * g + 2) \div 16)
         /\ 4 * g + 3 <= n => code[4 * g + 3] =
               (4 * (Filled(text, 3 * g + 2) % 16)) + (Filled(text, 3 * g + 3) \div 64)
         /\ 4 * g + 4 <= n => code[4 * g + 4] = Filled(text, 3 * g + 3) % 64
  <2>1. (4 * Len(text) + 2) \div 3 = n
    BY <1>3, <1>4, Zenon
  <2> QED BY <1>2, <2>1, DigitsOfGroup, ZenonT(30)
<1> HIDE DEF code
<1>7. ASSUME NEW i \in 1..n
      PROVE  /\ i < n => digits[i] = code[i]
             /\ i = n /\ n % 4 = 2 => digits[i] \div 16 = code[i] \div 16
             /\ i = n /\ n % 4 = 3 => digits[i] \div 4 = code[i] \div 4
             /\ i = n /\ n % 4 = 0 => digits[i] \div 1 = code[i] \div 1
  <2>1. PICK g \in Nat : i \in {4 * g + 1, 4 * g + 2, 4 * g + 3, 4 * g + 4}
    <3>1. i \in Nat /\ i # 0
      BY <1>1
    <3> QED BY <3>1, DigitPlace
  <2> DEFINE a == digits[4 * g + 1]
             b == IF 4 * g + 2 <= n THEN digits[4 * g + 2] ELSE 0
             c == IF 4 * g + 3 <= n THEN digits[4 * g + 3] ELSE 0
             d == IF 4 * g + 4 <= n THEN digits[4 * g + 4] ELSE 0
             x == Octet1(a, b)
             y == Octet2(b, c)
             z == Octet3(c, d)
  <2>2. /\ 4 * g + 1 <= n /\ 4 * g + 1 \in 1..n /\ 4 * g + 2 <= n
        /\ 4 * g + 2 <= n => 4 * g + 2 \in 1..n
        /\ 4 * g + 3 <= n => 4 * g + 3 \in 1..n
        /\ 4 * g + 4 <= n => 4 * g + 4 \in 1..n
        /\ 4 * g + 3 <= n <=> 3 * g + 2 <= m
        /\ 4 * g + 4 <= n <=> 3 * g + 3 <= m
        /\ 3 * g + 1 <= m
    BY <1>1, <2>1
  <2>3. a \in 0..63 /\ b \in 0..63 /\ c \in 0..63 /\ d \in 0..63
    BY <1>1, <2>2
  <2>4. /\ Filled(text, 3 * g + 1) = x
        /\ 4 * g + 3 <= n => Filled(text, 3 * g + 2) = y
        /\ ~ (4 * g + 3 <= n) => Filled(text, 3 * g + 2) = 0
        /\ 4 * g + 4 <= n => Filled(text, 3 * g + 3) = z
        /\ ~ (4 * g + 4 <= n) => Filled(text, 3 * g + 3) = 0
    <3>1. /\ 3 * g + 1 \in DOMAIN text
          /\ 3 * g + 2 \in DOMAIN text <=> 4 * g + 3 <= n
          /\ 3 * g + 3 \in DOMAIN text <=> 4 * g + 4 <= n
          /\ 4 * g + 4 <= n => 4 * g + 3 <= n
      BY <1>1, <1>3, <2>2
    <3> QED BY <1>5, <2>2, <3>1, Zenon DEF Filled, Octet1, Octet2, Octet3
  <2> HIDE DEF a, b, c, d
  <2>5. /\ x \in 0..255 /\ y \in 0..255 /\ z \in 0..255
        /\ x \div 4 = a
        /\ (16 * (x % 4)) + (y \div 16) = b /\ (16 * (x % 4)) \div 16 = b \div 16
        /\ (4 * (y % 16)) + (z \div 64) = c /\ (4 * (y % 16)) \div 4 = c \div 4
        /\ z % 64 = d
    <3>1. DecodedFrom(a, b, c, d)
      BY <2>3, GroupDecoded, Zenon
    <3> QED BY <3>1, Zenon DEF DecodedFrom
  <2> HIDE DEF x, y, z
  <2>6. CASE i = 4 * g + 1
    <3>1. i < n
      BY <1>1, <2>2, <2>6
    <3>2. code[i] = a /\ digits[i] = a
      BY <1>6, <2>2, <2>4, <2>5, <2>6, Zenon DEF a
    <3> QED BY <1>1, <3>1, <3>2
  <2>7. CASE i = 4 * g + 2
    <3>1. CASE i < n
      <4>1. 4 * g + 3 <= n
        BY <1>1, <2>7, <3>1
      <4>2. code[i] = b /\ digits[i] = b
        BY <1>6, <2>2, <2>4, <2>5, <2>7, <4>1 DEF b
      <4> QED BY <1>1, <3>1, <4>2
    <3>2. CASE i = n
      <4>1. ~ (4 * g + 3 <= n) /\ n % 4 = 2 /\ ~ (i < n)
        BY <1>1, <2>7, <3>2
      <4>2. digits[i] = b
        BY <2>2, <2>7, Zenon DEF b
      <4>3. code[i] = (16 * (x % 4)) + (0 \div 16)
        BY <1>6, <2>2, <2>4, <2>7, <4>1, Zenon
      <4>4. (16 * (x % 4)) + (0 \div 16) = 16 * (x % 4)
        BY <2>5
      <4>5. n % 4 # 3 /\ n % 4 # 0
        BY <4>1
      <4> QED BY <2>5, <4>1, <4>2, <4>3, <4>4, <4>5, Zenon
    <3> QED BY <1>1, <3>1, <3>2
  <2>8. CASE i = 4 * g + 3
    <3>0. 4 * g + 3 <= n
      BY <1>1, <2>8
    <3>1. CASE i < n
      <4>1. 4 * g + 4 <= n
        BY <1>1, <2>8, <3>1
      <4>2. code[i] = c /\ digits[i] = c
        BY <1>6, <2>2, <2>4, <2>5, <2>8, <3>0, <4>1 DEF c
      <4> QED BY <1>1, <3>1, <4>2
    <3>2. CASE i = n
      <4>1. ~ (4 * g + 4 <= n) /\ n % 4 = 3 /\ ~ (i < n)
        BY <1>1, <2>8, <3>2
      <4>2. digits[i] = c
        BY <2>8, <3>0, Zenon DEF c
      <4>3. code[i] = (4 * (y % 16)) + (0 \div 64)
        BY <1>6, <2>4, <2>8, <3>0, <4>1, Zenon
      <4>4. (4 * (y % 16)) + (0 \div 64) = 4 * (y % 16)
        BY <2>5
      <4>5. n % 4 # 2 /\ n % 4 # 0
        BY <4>1
      <4> QED BY <2>5, <4>1, <4>2, <4>3, <4>4, <4>5, Zenon
    <3> QED BY <1>1, <3>1, <3>2
  <2>9. CASE i = 4 * g + 4
    <3>1. 4 * g + 4 <= n /\ i % 4 = 0
      BY <1>1, <2>9
    <3>2. code[i] = d /\ digits[i] = d
      BY <1>6, <2>2, <2>4, <2>5, <2>9, <3>1 DEF d
    <3> QED BY <3>1, <3>2
  <2> QED BY <2>1, <2>6, <2>7, <2>8, <2>9
<1>8. \A i \in 1..n : SameDigit(digits, code, n, i)
  BY <1>7, Zenon DEF SameDigit
<1>9. code = Encoded(text) /\ Len(code) \in Nat /\ n = Len(code)
  BY <1>1, <1>6, Zenon DEF code
<1>10. n = Len(digits)
  BY Zenon DEF n
<1>11. Encodes(digits, text)
  BY <1>1, <1>8, <1>9, <1>10, EncodesParts, Zenon
<1> QED BY <1>11, Zenon DEF text

(***************************************************************************)
(* What encodes a text is decoded to it.                                   *)
(***************************************************************************)
LEMMA EncodedText ==
  ASSUME NEW digits \in Seq(0..63), NEW text \in Seq(0..255), Encodes(digits, text)
  PROVE  Octets(digits) = text /\ Len(digits) % 4 # 1
<1> DEFINE m == Len(text)
           n == (4 * m + 2) \div 3
           code == Encoded(text)
           octets == Octets(digits)
<1>1. /\ m \in Nat /\ n \in Nat /\ n = (4 * m + 2) \div 3
      /\ n % 4 # 1 /\ (3 * n) \div 4 = m
      /\ DOMAIN text = 1..m /\ \A i \in 1..m : text[i] \in 0..255
  BY LenProperties, ElementOfSeq, Lengths
<1>2. /\ Len(code) = n
      /\ \A g \in Nat :
         /\ 4 * g + 1 <= n => code[4 * g + 1] = Filled(text, 3 * g + 1) \div 4
         /\ 4 * g + 2 <= n => code[4 * g + 2] =
               (16 * (Filled(text, 3 * g + 1) % 4)) + (Filled(text, 3 * g + 2) \div 16)
         /\ 4 * g + 3 <= n => code[4 * g + 3] =
               (4 * (Filled(text, 3 * g + 2) % 16)) + (Filled(text, 3 * g + 3) \div 64)
         /\ 4 * g + 4 <= n => code[4 * g + 4] = Filled(text, 3 * g + 3) % 64
  <2> QED BY DigitsOfGroup, ZenonT(30)
<1> HIDE DEF m, n, code
<1>3. Len(digits) = n /\ \A i \in 1..n : SameDigit(digits, code, n, i)
  <2>1. code = Encoded(text) /\ Len(code) \in Nat /\ n = Len(code)
    BY <1>1, <1>2, Zenon DEF code
  <2> QED BY <1>1, <2>1, EncodesParts, Zenon
<1>4. /\ Len(octets) = m
      /\ \A g \in Nat :
         /\ 3 * g + 1 <= m => octets[3 * g + 1] =
               (4 * digits[4 * g + 1]) + (digits[4 * g + 2] \div 16)
         /\ 3 * g + 2 <= m => octets[3 * g + 2] =
               (16 * (digits[4 * g + 2] % 16)) + (digits[4 * g + 3] \div 4)
         /\ 3 * g + 3 <= m => octets[3 * g + 3] =
               (64 * (digits[4 * g + 3] % 4)) + digits[4 * g + 4]
  <2>1. 0 \in Nat /\ m = (3 * Len(digits)) \div 4
    BY <1>1, <1>3, Zenon
  <2> QED BY <2>1, OctetsOfGroup, ZenonT(30)
<1>5. octets \in Seq(0..255)
  BY OctetsType
<1>6. \A i \in 1..n : digits[i] \in 0..63
  <2>1. \A i \in 1..Len(digits) : digits[i] \in 0..63
    BY ElementOfSeq
  <2> QED BY <1>3, <2>1, Zenon
<1> HIDE DEF octets
<1>7. ASSUME NEW k \in 1..m PROVE octets[k] = text[k]
  <2>1. PICK g \in Nat : k \in {3 * g + 1, 3 * g + 2, 3 * g + 3}
    <3>1. k \in Nat /\ k # 0
      BY <1>1
    <3> QED BY <3>1, OctetPlace
  <2> DEFINE x == Filled(text, 3 * g + 1)
             y == Filled(text, 3 * g + 2)
             z == Filled(text, 3 * g + 3)
             b == digits[4 * g + 2]
             c == IF 4 * g + 3 <= n THEN digits[4 * g + 3] ELSE 0
             d == IF 4 * g + 4 <= n THEN digits[4 * g + 4] ELSE 0
  <2>2. /\ 4 * g + 1 \in 1..n /\ 4 * g + 2 \in 1..n /\ 4 * g + 1 < n
        /\ 4 * g + 1 <= n /\ 4 * g + 2 <= n
        /\ 3 * g + 2 <= m => 4 * g + 3 \in 1..n /\ 4 * g + 3 <= n /\ 4 * g + 2 < n
        /\ 3 * g + 3 <= m => /\ 4 * g + 4 \in 1..n /\ 4 * g + 4 <= n
                             /\ 4 * g + 3 < n /\ 3 * g + 2 <= m
        /\ (4 * g + 2) % 4 = 2 /\ (4 * g + 3) % 4 = 3 /\ (4 * g + 4) % 4 = 0
        /\ 3 * g + 1 \in 1..m /\ 3 * g + 1 <= m
        /\ 3 * g + 2 \in 1..m <=> 3 * g + 2 <= m
        /\ 3 * g + 3 \in 1..m <=> 3 * g + 3 <= m
        /\ 4 * g + 3 <= n => 4 * g + 3 \in 1..n
        /\ 4 * g + 4 <= n => 4 * g + 4 \in 1..n
    BY <1>1, <2>1
  <2>3. x \in 0..255 /\ y \in 0..255 /\ z \in 0..255
    <3>1. 0 \in 0..255
      OBVIOUS
    <3> QED BY <1>1, <3>1, Zenon DEF Filled
  <2>4. b \in 0..63 /\ c \in 0..63 /\ d \in 0..63
    <3>1. 0 \in 0..63
      OBVIOUS
    <3> QED BY <1>6, <2>2, <3>1, Zenon
  <2>5. /\ digits[4 * g + 1] = x \div 4
        /\ b \div 16 = ((16 * (x % 4)) + (y \div 16)) \div 16
        /\ 3 * g + 2 <= m => /\ b = (16 * (x % 4)) + (y \div 16)
                             /\ c \div 4 = ((4 * (y % 16)) + (z \div 64)) \div 4
        /\ 3 * g + 3 <= m => c = (4 * (y % 16)) + (z \div 64) /\ d = z % 64
    <3>1. /\ SameDigit(digits, code, n, 4 * g + 1)
          /\ SameDigit(digits, code, n, 4 * g + 2)
          /\ 3 * g + 2 <= m => SameDigit(digits, code, n, 4 * g + 3)
          /\ 3 * g + 3 <= m => SameDigit(digits, code, n, 4 * g + 4)
      BY <1>3, <2>2, Zenon
    <3>2. /\ code[4 * g + 1] = x \div 4
          /\ code[4 * g + 2] = (16 * (x % 4)) + (y \div 16)
          /\ 3 * g + 2 <= m => code[4 * g + 3] = (4 * (y % 16)) + (z \div 64)
          /\ 3 * g + 3 <= m => code[4 * g + 4] = z % 64
      BY <1>2, <2>2, Zenon
    <3>3. digits[4 * g + 1] = code[4 * g + 1]
      BY <2>2, <3>1, Zenon DEF SameDigit
    <3>4. b \div 16 = code[4 * g + 2] \div 16
      <4>1. 4 * g + 2 < n \/ 4 * g + 2 = n
        BY <1>1, <2>2
      <4> QED BY <2>2, <3>1, <4>1, Zenon DEF SameDigit
    <3>5. 3 * g + 2 <= m => b = code[4 * g + 2] /\ c \div 4 = code[4 * g + 3] \div 4
      <4>1. 3 * g + 2 <= m => 4 * g + 3 < n \/ 4 * g + 3 = n
        BY <1>1, <2>2
      <4> QED BY <2>2, <3>1, <4>1, Zenon DEF SameDigit
    <3>6. 3 * g + 3 <= m => c = code[4 * g + 3] /\ d = code[4 * g + 4]
      <4>1. 3 * g + 3 <= m => 4 * g + 4 < n \/ (4 * g + 4 = n /\ n % 4 = 0)
        BY <1>1, <2>2
      <4>2. /\ d \in Int /\ d \div 1 = d
            /\ (z % 64) \div 1 = z % 64
        <5> HIDE DEF d, z
        <5> QED BY <2>3, <2>4
      <4>3. 3 * g + 3 <= m => c = code[4 * g + 3] /\ d = digits[4 * g + 4]
        BY <2>2, <3>1, Zenon DEF SameDigit
      <4>4. ASSUME 3 * g + 3 <= m, n % 4 = 0, 4 * g + 4 = n
            PROVE  d = code[4 * g + 4]
        <5>1. digits[4 * g + 4] \div 1 = code[4 * g + 4] \div 1
          BY <3>1, <4>4, Zenon DEF SameDigit
        <5> QED BY <3>2, <4>2, <4>3, <4>4, <5>1, Zenon
      <4>5. ASSUME 3 * g + 3 <= m, 4 * g + 4 < n PROVE d = code[4 * g + 4]
        BY <3>1, <4>3, <4>5, Zenon DEF SameDigit
      <4> QED BY <4>1, <4>3, <4>4, <4>5, Zenon
    <3> HIDE DEF x, y, z, b, c, d
    <3>7. b \div 16 = ((16 * (x % 4)) + (y \div 16)) \div 16
      BY <3>2, <3>4, Zenon
    <3>8. 3 * g + 2 <= m => /\ b = (16 * (x % 4)) + (y \div 16)
                           /\ c \div 4 = ((4 * (y % 16)) + (z \div 64)) \div 4
      BY <3>2, <3>5, Zenon
    <3>9. 3 * g + 3 <= m => c = (4 * (y % 16)) + (z \div 64) /\ d = z % 64
      <4>1. 3 * g + 3 <= m => 3 * g + 2 <= m
        BY <2>2
      <4> QED BY <3>2, <3>6, <4>1, Zenon
    <3> QED BY <3>2, <3>3, <3>7, <3>8, <3>9, Zenon
  <2>6. /\ octets[3 * g + 1] = (4 * digits[4 * g + 1]) + (b \div 16)
        /\ 3 * g + 2 <= m => octets[3 * g + 2] = (16 * (b % 16)) + (c \div 4)
        /\ 3 * g + 3 <= m => octets[3 * g + 3] = (64 * (c % 4)) + d
    BY <1>4, <2>2, Zenon
  <2>7. /\ x = text[3 * g + 1]
        /\ 3 * g + 2 <= m => y = text[3 * g + 2]
        /\ 3 * g + 3 <= m => z = text[3 * g + 3]
    BY <1>1, <2>2, Zenon DEF Filled
  <2> HIDE DEF x, y, z, b, c, d
  <2>8. EncodedFrom(x, y, z, b, c, d)
    BY <2>3, <2>4, GroupEncoded, Zenon
  <2>9. /\ octets[3 * g + 1] = x
        /\ 3 * g + 2 <= m => octets[3 * g + 2] = y
        /\ 3 * g + 3 <= m => octets[3 * g + 3] = z
    BY <2>5, <2>6, <2>8, Zenon DEF EncodedFrom
  <2>10. /\ k = 3 * g + 2 => 3 * g + 2 <= m
         /\ k = 3 * g + 3 => 3 * g + 3 <= m
    BY <1>1, <2>1
  <2> QED BY <2>1, <2>7, <2>9, <2>10, Zenon
<1>8. octets = text
  <2>1. Len(octets) = Len(text) /\ \A k \in 1..Len(octets) : octets[k] = text[k]
    BY <1>4, <1>7, Zenon DEF m
  <2> QED BY <1>5, <2>1, SeqEqual
<1> QED BY <1>1, <1>3, <1>8, Zenon DEF octets

-----------------------------------------------------------------------------
(***************************************************************************)
(* The schema of AUTH PLAIN                                                *)
(***************************************************************************)

NulsOf(s) == {i \in DOMAIN s : s[i] = Nul}

FirstNul(s) == Min(NulsOf(s))
SecondNul(s) == Min(NulsOf(s) \ {FirstNul(s)})

\* The parts of a text with two Nul.
AuthzidIn(s) == SubSeq(s, 1, FirstNul(s) - 1)
UsernameIn(s) == SubSeq(s, FirstNul(s) + 1, SecondNul(s) - 1)
PasswordIn(s) == SubSeq(s, SecondNul(s) + 1, Len(s))

\* Three parts, with a Nul between them.
WithNuls(a, u, p) == a \o <<Nul>> \o u \o <<Nul>> \o p

\* A sequence whose elements are in a set.
LEMMA SequenceOf ==
  ASSUME NEW S, NEW T, NEW s \in Seq(S), \A i \in 1..Len(s) : s[i] \in T
  PROVE  s \in Seq(T)
OBVIOUS

\* Where the two Nul of a text are.
LEMMA NulPositions ==
  ASSUME NEW text \in Seq(0..127), Cardinality(NulsOf(text)) = 2,
         NEW n, n = Len(text)
  PROVE  \E p, q \in 1..n :
            /\ p < q /\ text[p] = Nul /\ text[q] = Nul
            /\ FirstNul(text) = p /\ SecondNul(text) = q
            /\ \A i \in 1..n \ {p, q} : text[i] # Nul
<1>1. n \in Nat /\ DOMAIN text = 1..n
  BY LenProperties
<1>2. NulsOf(text) \in SUBSET (0..n)
  BY <1>1 DEF NulsOf
<1>3. PICK p, q \in NulsOf(text) :
         /\ p < q /\ NulsOf(text) = {p, q}
         /\ Min(NulsOf(text)) = p /\ Min(NulsOf(text) \ {Min(NulsOf(text))}) = q
  <2> DEFINE nuls == NulsOf(text)
  <2> HIDE DEF nuls
  <2>1. nuls \in SUBSET (0..n) /\ Cardinality(nuls) = 2
    BY <1>2, Zenon DEF nuls
  <2>2. \E p, q \in nuls : /\ p < q /\ nuls = {p, q}
                           /\ Min(nuls) = p /\ Min(nuls \ {Min(nuls)}) = q
    BY <1>1, <2>1, TwoNumbers
  <2> QED BY <2>2, Zenon DEF nuls
<1>4. p \in 1..n /\ q \in 1..n /\ text[p] = Nul /\ text[q] = Nul
  BY <1>1, Zenon DEF NulsOf
<1>5. \A i \in 1..n \ {p, q} : text[i] # Nul
  BY <1>1, <1>3 DEF NulsOf
<1>6. FirstNul(text) = p /\ SecondNul(text) = q
  BY <1>3, Zenon DEF FirstNul, SecondNul
<1> QED BY <1>3, <1>4, <1>5, <1>6, Zenon

\* A part of a text without a Nul.
LEMMA NamePart ==
  ASSUME NEW text \in Seq(0..127), NEW from \in Nat, NEW to \in Nat,
         1 <= from, to <= Len(text), from <= to + 1,
         \A i \in from..to : text[i] # Nul
  PROVE  SubSeq(text, from, to) \in Seq(1..127)
<1> DEFINE part == SubSeq(text, from, to)
           n == to - from + 1
<1>1. Len(text) \in Nat /\ n \in Nat /\ n = to - from + 1
      /\ \A i \in 1..Len(text) : text[i] \in 0..127
  BY LenProperties, ElementOfSeq
<1> HIDE DEF n
<1>2. /\ part \in Seq(0..127) /\ Len(part) = n
      /\ \A k \in 1..n : part[k] = text[from + k - 1]
  BY <1>1, CutPositions
<1> HIDE DEF part
<1>3. ASSUME NEW k \in 1..Len(part) PROVE part[k] \in 1..127
  <2>1. k \in 1..n /\ from + k - 1 \in from..to /\ from + k - 1 \in 1..Len(text)
    BY <1>1, <1>2
  <2>2. part[k] \in 0..127 /\ part[k] # Nul
    BY <1>1, <1>2, <2>1, Zenon
  <2> QED BY <2>2 DEF Nul
<1>4. part \in Seq(1..127)
  BY <1>2, <1>3, SequenceOf, Zenon
<1> QED BY <1>4, Zenon DEF part

\* The beginning of a sequence.
LEMMA Beginning ==
  ASSUME NEW S, NEW s \in Seq(S), NEW n \in Nat, n <= Len(s)
  PROVE  /\ SubSeq(s, 1, n) \in Seq(S) /\ Len(SubSeq(s, 1, n)) = n
         /\ \A k \in 1..n : SubSeq(s, 1, n)[k] = s[k]
<1>1. n = n - 1 + 1 /\ \A k \in 1..n : 1 + k - 1 = k
  OBVIOUS
<1>2. /\ SubSeq(s, 1, n) \in Seq(S) /\ Len(SubSeq(s, 1, n)) = n
      /\ \A k \in 1..n : SubSeq(s, 1, n)[k] = s[1 + k - 1]
  BY <1>1, CutPositions
<1> QED BY <1>1, <1>2, Zenon

\* A part of a beginning is a part of the whole.
LEMMA PartOfBeginning ==
  ASSUME NEW S, NEW s \in Seq(S), NEW n \in Nat, n <= Len(s),
         NEW from \in Nat, NEW to \in Nat, 1 <= from, to <= n, from <= to + 1
  PROVE  SubSeq(SubSeq(s, 1, n), from, to) = SubSeq(s, from, to)
<1> DEFINE front == SubSeq(s, 1, n)
           m == to - from + 1
           a == SubSeq(front, from, to)
           b == SubSeq(s, from, to)
<1>1. m \in Nat /\ m = to - from + 1 /\ to <= Len(s) /\ Len(s) \in Nat
  BY LenProperties
<1>2. /\ front \in Seq(S) /\ Len(front) = n
      /\ \A k \in 1..n : front[k] = s[k]
  BY <1>1, Beginning, Zenon
<1> HIDE DEF front, m
<1>3. /\ a \in Seq(S) /\ Len(a) = m
      /\ \A k \in 1..m : a[k] = front[from + k - 1]
  BY <1>1, <1>2, CutPositions
<1>4. /\ b \in Seq(S) /\ Len(b) = m
      /\ \A k \in 1..m : b[k] = s[from + k - 1]
  BY <1>1, CutPositions
<1> HIDE DEF a, b
<1>5. ASSUME NEW k \in 1..m PROVE a[k] = b[k]
  <2>1. from + k - 1 \in 1..n
    BY <1>1
  <2>2. front[from + k - 1] = s[from + k - 1]
    BY <1>2, <2>1, Zenon
  <2> QED BY <1>3, <1>4, <2>1, <2>2, Zenon
<1>6. a = b
  <2>1. Len(a) = Len(b) /\ \A k \in 1..Len(a) : a[k] = b[k]
    BY <1>3, <1>4, <1>5, Zenon
  <2> QED BY <1>3, <1>4, <2>1, SeqEqual
<1> QED BY <1>6, Zenon DEF a, b, front

\* A text with two Nul consists of its parts.
LEMMA TextCut ==
  ASSUME NEW text \in Seq(0..127), Cardinality(NulsOf(text)) = 2
  PROVE  /\ AuthzidIn(text) \in Seq(1..127)
         /\ UsernameIn(text) \in Seq(1..127)
         /\ PasswordIn(text) \in Seq(1..127)
         /\ text = WithNuls(AuthzidIn(text), UsernameIn(text), PasswordIn(text))
<1> DEFINE n == Len(text)
<1>1. n \in Nat
  BY LenProperties
<1>2. PICK p \in 1..n, q \in 1..n :
            /\ p < q /\ text[p] = Nul /\ text[q] = Nul
            /\ FirstNul(text) = p /\ SecondNul(text) = q
            /\ \A i \in 1..n \ {p, q} : text[i] # Nul
  BY NulPositions, Zenon
<1> DEFINE a == SubSeq(text, 1, p - 1)
           u == SubSeq(text, p + 1, q - 1)
           w == SubSeq(text, q + 1, n)
           front == SubSeq(text, 1, q - 1)
<1>3. a = AuthzidIn(text) /\ u = UsernameIn(text) /\ w = PasswordIn(text)
  BY <1>2, Zenon DEF AuthzidIn, UsernameIn, PasswordIn
<1>4. a \in Seq(1..127)
  <2>1. /\ 1 \in Nat /\ p - 1 \in Nat /\ 1 <= 1 /\ p - 1 <= Len(text) /\ 1 <= (p - 1) + 1
        /\ \A i \in 1..(p - 1) : i \in 1..n \ {p, q}
    BY <1>1, <1>2
  <2> QED BY <1>2, <2>1, NamePart
<1>5. u \in Seq(1..127)
  <2>1. /\ p + 1 \in Nat /\ q - 1 \in Nat /\ 1 <= p + 1 /\ q - 1 <= Len(text)
        /\ p + 1 <= (q - 1) + 1
        /\ \A i \in (p + 1)..(q - 1) : i \in 1..n \ {p, q}
    BY <1>1, <1>2
  <2> QED BY <1>2, <2>1, NamePart
<1>6. w \in Seq(1..127)
  <2>1. /\ q + 1 \in Nat /\ n \in Nat /\ 1 <= q + 1 /\ n <= Len(text)
        /\ q + 1 <= n + 1
        /\ \A i \in (q + 1)..n : i \in 1..n \ {p, q}
    BY <1>1, <1>2
  <2> QED BY <1>2, <2>1, NamePart
<1>7. text = (front \o <<Nul>>) \o w
  <2>1. text = (front \o <<text[q]>>) \o w
    BY SplitAt, Zenon
  <2> QED BY <1>2, <2>1, Zenon
<1>8. front \in Seq(0..127) /\ Len(front) = q - 1 /\ front[p] = Nul /\ p \in 1..Len(front)
  <2>1. q - 1 \in Nat /\ q - 1 <= Len(text) /\ p \in 1..(q - 1)
    BY <1>1, <1>2
  <2>2. /\ front \in Seq(0..127) /\ Len(front) = q - 1
        /\ \A k \in 1..(q - 1) : front[k] = text[k]
    BY <2>1, Beginning, Zenon
  <2> HIDE DEF front
  <2> QED BY <1>2, <2>1, <2>2, Zenon
<1>9. front = (a \o <<Nul>>) \o u
  <2>1. front = (SubSeq(front, 1, p - 1) \o <<front[p]>>) \o SubSeq(front, p + 1, Len(front))
    <3> HIDE DEF front
    <3> QED BY <1>8, SplitAt
  <2>2. /\ q - 1 \in Nat /\ q - 1 <= Len(text) /\ 1 \in Nat /\ p - 1 \in Nat /\ 1 <= 1
        /\ p - 1 <= q - 1 /\ 1 <= (p - 1) + 1
        /\ p + 1 \in Nat /\ 1 <= p + 1 /\ q - 1 <= q - 1 /\ p + 1 <= (q - 1) + 1
    BY <1>1, <1>2
  <2>3. SubSeq(front, 1, p - 1) = a
    BY <2>2, PartOfBeginning
  <2>4. SubSeq(front, p + 1, q - 1) = u
    BY <2>2, PartOfBeginning
  <2> HIDE DEF front, a, u
  <2> QED BY <1>8, <2>1, <2>3, <2>4, Zenon
<1>10. text = WithNuls(a, u, w)
  <2> HIDE DEF front, a, u, w
  <2> QED BY <1>7, <1>9, Zenon DEF WithNuls
<1> HIDE DEF a, u, w
<1> QED BY <1>3, <1>4, <1>5, <1>6, <1>10, Zenon

\* An element behind a sequence.
LEMMA OneMore ==
  ASSUME NEW S, NEW a \in Seq(S), NEW e \in S
  PROVE  /\ a \o <<e>> \in Seq(S) /\ Len(a \o <<e>>) = Len(a) + 1
         /\ \A k \in 1..Len(a) : (a \o <<e>>)[k] = a[k]
         /\ (a \o <<e>>)[Len(a) + 1] = e
OBVIOUS

\* Where the parts of a text are.
Apart(text, a, u, w, e) ==
    /\ Len(text) = Len(a) + Len(u) + Len(w) + 2
    /\ \A k \in 1..Len(a) : text[k] = a[k]
    /\ text[Len(a) + 1] = e
    /\ \A k \in 1..Len(u) : text[(Len(a) + 1) + k] = u[k]
    /\ text[Len(a) + Len(u) + 2] = e
    /\ \A k \in 1..Len(w) : text[(Len(a) + Len(u) + 2) + k] = w[k]

\* Whatever stands between them.
LEMMA TextParts ==
  ASSUME NEW S, NEW a \in Seq(S), NEW u \in Seq(S), NEW w \in Seq(S), NEW nul \in S
  PROVE  /\ a \o <<nul>> \o u \o <<nul>> \o w \in Seq(S)
         /\ Apart(a \o <<nul>> \o u \o <<nul>> \o w, a, u, w, nul)
<1> DEFINE p == Len(a) + 1
           q == Len(a) + Len(u) + 2
           c == a \o <<nul>>
           d == c \o u
           e == d \o <<nul>>
           text == e \o w
<1>1. /\ Len(a) \in Nat /\ Len(u) \in Nat /\ Len(w) \in Nat
      /\ p = Len(a) + 1 /\ q = Len(a) + Len(u) + 2 /\ q = (p + Len(u)) + 1
      /\ p \in Nat /\ q \in Nat /\ q + Len(w) = Len(a) + Len(u) + Len(w) + 2
  BY LenProperties
<1>2. /\ c \in Seq(S) /\ Len(c) = p /\ c[p] = nul
      /\ \A k \in 1..Len(a) : c[k] = a[k]
  BY OneMore
<1> HIDE DEF c, p
<1>3. /\ d \in Seq(S) /\ Len(d) = p + Len(u)
      /\ \A k \in 1..p : d[k] = c[k]
      /\ \A k \in 1..Len(u) : d[p + k] = u[k]
  <2>1. c \in Seq(S)
    BY <1>2, Zenon
  <2>2. /\ d \in Seq(S) /\ Len(d) = Len(c) + Len(u)
        /\ \A k \in 1..Len(c) : d[k] = c[k]
        /\ \A k \in 1..Len(u) : d[Len(c) + k] = u[k]
    BY <2>1, ConcatElements
  <2> HIDE DEF d
  <2> QED BY <1>2, <2>2, Zenon
<1> HIDE DEF d, q
<1>4. /\ e \in Seq(S) /\ Len(e) = q /\ e[q] = nul
      /\ \A k \in 1..(p + Len(u)) : e[k] = d[k]
  <2>1. d \in Seq(S)
    BY <1>3, Zenon
  <2>2. /\ e \in Seq(S) /\ Len(e) = Len(d) + 1
        /\ \A k \in 1..Len(d) : e[k] = d[k]
        /\ e[Len(d) + 1] = nul
    BY <2>1, OneMore, Zenon
  <2> HIDE DEF e
  <2> QED BY <1>1, <1>3, <2>2, Zenon
<1> HIDE DEF e
<1>5. /\ text \in Seq(S) /\ Len(text) = q + Len(w)
      /\ \A k \in 1..q : text[k] = e[k]
      /\ \A k \in 1..Len(w) : text[q + k] = w[k]
  <2>1. e \in Seq(S)
    BY <1>4, Zenon
  <2>2. /\ text \in Seq(S) /\ Len(text) = Len(e) + Len(w)
        /\ \A k \in 1..Len(e) : text[k] = e[k]
        /\ \A k \in 1..Len(w) : text[Len(e) + k] = w[k]
    BY <2>1, ConcatElements
  <2> HIDE DEF text
  <2> QED BY <1>4, <2>2, Zenon
<1> HIDE DEF text
<1>6. /\ \A k \in 1..Len(a) : text[k] = a[k]
      /\ text[p] = nul
      /\ \A k \in 1..Len(u) : text[p + k] = u[k]
      /\ text[q] = nul
  <2>1. /\ \A k \in 1..Len(a) : k \in 1..p /\ k \in 1..(p + Len(u)) /\ k \in 1..q
        /\ p \in 1..p /\ p \in 1..(p + Len(u)) /\ p \in 1..q
        /\ \A k \in 1..Len(u) : p + k \in 1..(p + Len(u)) /\ p + k \in 1..q
        /\ q \in 1..q
    BY <1>1
  <2> QED BY <1>2, <1>3, <1>4, <1>5, <2>1, Zenon
<1>7. Apart(text, a, u, w, nul)
  BY <1>1, <1>5, <1>6, Zenon DEF Apart
<1>8. text = a \o <<nul>> \o u \o <<nul>> \o w
  BY Zenon DEF text, e, d, c
<1> QED BY <1>5, <1>7, <1>8, Zenon

\* A part that is where another sequence has the same elements.
LEMMA PartIs ==
  ASSUME NEW S, NEW s \in Seq(S), NEW t \in Seq(S), NEW m \in Nat,
         m + Len(t) <= Len(s), \A k \in 1..Len(t) : s[m + k] = t[k]
  PROVE  SubSeq(s, m + 1, m + Len(t)) = t
<1> DEFINE n == Len(t)
           from == m + 1
           to == m + n
           b == SubSeq(s, from, to)
<1>1. /\ n \in Nat /\ n = to - from + 1 /\ from \in Int /\ to \in Int
      /\ 1 <= from /\ to <= Len(s) /\ \A k \in 1..n : from + k - 1 = m + k
      /\ \A k \in 1..n : s[m + k] = t[k]
  <2>1. n \in Nat
    BY LenProperties
  <2> HIDE DEF n
  <2> QED BY <2>1 DEF n
<1> HIDE DEF n, from, to
<1>2. b \in Seq(S) /\ Len(b) = n /\ \A k \in 1..n : b[k] = s[from + k - 1]
  BY <1>1, CutPositions
<1> HIDE DEF b
<1>3. Len(b) = Len(t) /\ \A k \in 1..Len(b) : b[k] = t[k]
  BY <1>1, <1>2, Zenon DEF n
<1>4. b = t
  BY <1>2, <1>3, SeqEqual
<1> QED BY <1>4, Zenon DEF b, from, to, n

\* Of the text of three parts without Nul these are the parts.
LEMMA CutText ==
  ASSUME NEW a \in Seq(0..127), NEW u \in Seq(0..127), NEW w \in Seq(0..127),
         \A k \in 1..Len(a) : a[k] # Nul,
         \A k \in 1..Len(u) : u[k] # Nul,
         \A k \in 1..Len(w) : w[k] # Nul
  PROVE  LET text == WithNuls(a, u, w)
         IN  /\ text \in Seq(0..127) /\ Cardinality(NulsOf(text)) = 2
             /\ AuthzidIn(text) = a /\ UsernameIn(text) = u /\ PasswordIn(text) = w
<1> DEFINE S == 0..127
           text == WithNuls(a, u, w)
           p == Len(a) + 1
           q == Len(a) + Len(u) + 2
           n == q + Len(w)
<1>1. /\ Len(a) \in Nat /\ Len(u) \in Nat /\ Len(w) \in Nat /\ p \in Nat /\ q \in Nat
      /\ 1 <= p /\ p < q /\ q <= n /\ n \in Nat /\ q = p + Len(u) + 1
      /\ p = Len(a) + 1 /\ n = q + Len(w)
  BY LenProperties
<1>2. /\ text \in Seq(S) /\ Len(text) = n
      /\ \A k \in 1..Len(a) : text[k] = a[k]
      /\ text[p] = Nul
      /\ \A k \in 1..Len(u) : text[p + k] = u[k]
      /\ text[q] = Nul
      /\ \A k \in 1..Len(w) : text[q + k] = w[k]
  <2>1. Nul \in S /\ Len(a) + Len(u) + Len(w) + 2 = n
    BY <1>1 DEF Nul
  <2>2. text \in Seq(S) /\ Apart(text, a, u, w, Nul)
    <3> HIDE DEF S
    <3>1. a \in Seq(S) /\ u \in Seq(S) /\ w \in Seq(S)
      BY Zenon DEF S
    <3> QED BY <2>1, <3>1, TextParts, Zenon DEF WithNuls
  <2> HIDE DEF text, n
  <2> QED BY <2>1, <2>2, Zenon DEF Apart
<1> HIDE DEF p, q, n, text
<1>3. NulsOf(text) = {p, q}
  <2>1. DOMAIN text = 1..n
    BY <1>2, LenProperties
  <2>2. ASSUME NEW i \in 1..n, i # p, i # q PROVE text[i] # Nul
    <3>0. i \in Nat
      BY <1>1
    <3>1. CASE i < p
      <4>1. i \in 1..Len(a)
        BY <1>1, <3>0, <3>1
      <4> QED BY <1>2, <4>1, Zenon
    <3>2. CASE p < i /\ i < q
      <4>1. i - p \in 1..Len(u) /\ p + (i - p) = i
        BY <1>1, <3>0, <3>2
      <4>2. text[p + (i - p)] = u[i - p] /\ u[i - p] # Nul
        BY <1>2, <4>1, Zenon
      <4> QED BY <4>1, <4>2, Zenon
    <3>3. CASE q < i
      <4>1. i - q \in 1..Len(w) /\ q + (i - q) = i
        BY <1>1, <3>0, <3>3
      <4>2. text[q + (i - q)] = w[i - q] /\ w[i - q] # Nul
        BY <1>2, <4>1, Zenon
      <4> QED BY <4>1, <4>2, Zenon
    <3>4. i < p \/ (p < i /\ i < q) \/ q < i
      BY <1>1, <2>2, <3>0
    <3> QED BY <3>1, <3>2, <3>3, <3>4
  <2>3. p \in 1..n /\ q \in 1..n
    BY <1>1
  <2> QED BY <1>2, <2>1, <2>2, <2>3, Zenon DEF NulsOf
<1>4. Cardinality(NulsOf(text)) = 2
  <2>1. IsFiniteSet({p}) /\ Cardinality({p}) = 1
    BY FS_Singleton
  <2>2. q \notin {p} /\ {p} \cup {q} = {p, q}
    BY <1>1
  <2>3. Cardinality({p} \cup {q}) = 1 + 1
    BY <2>1, <2>2, FS_AddElement
  <2>4. 1 + 1 = 2
    OBVIOUS
  <2> QED BY <1>3, <2>2, <2>3, <2>4, Zenon
<1>5. FirstNul(text) = p /\ SecondNul(text) = q
  <2> DEFINE nuls == NulsOf(text)
  <2> HIDE DEF nuls
  <2>1. nuls = {p, q} /\ nuls \in SUBSET (0..q) /\ Cardinality(nuls) = 2
    <3>1. {p, q} \in SUBSET (0..q)
      BY <1>1
    <3> QED BY <1>3, <1>4, <3>1, Zenon DEF nuls
  <2>2. PICK i, j \in nuls : /\ i < j /\ nuls = {i, j}
                            /\ Min(nuls) = i /\ Min(nuls \ {Min(nuls)}) = j
    <3>1. q \in Nat /\ nuls \in SUBSET (0..q) /\ Cardinality(nuls) = 2
      BY <1>1, <2>1, Zenon
    <3> QED BY <3>1, TwoNumbers
  <2>3. i = p /\ j = q
    BY <1>1, <2>1, <2>2
  <2> QED BY <2>2, <2>3, Zenon DEF nuls, FirstNul, SecondNul
<1>6. SubSeq(text, 1, p - 1) = a
  <2>1. /\ 0 + Len(a) <= Len(text) /\ \A k \in 1..Len(a) : 0 + k = k
        /\ 0 \in Nat /\ 1 = 0 + 1 /\ p - 1 = 0 + Len(a)
    BY <1>1, <1>2
  <2>2. \A k \in 1..Len(a) : text[0 + k] = a[k]
    BY <1>2, <2>1, Zenon
  <2>3. SubSeq(text, 0 + 1, 0 + Len(a)) = a
    BY <1>2, <2>1, <2>2, PartIs, Zenon
  <2> QED BY <2>1, <2>3, Zenon
<1>7. SubSeq(text, p + 1, q - 1) = u
  <2>1. p + Len(u) <= Len(text) /\ q - 1 = p + Len(u)
    BY <1>1, <1>2
  <2>2. SubSeq(text, p + 1, p + Len(u)) = u
    BY <1>1, <1>2, <2>1, PartIs, Zenon
  <2> QED BY <2>1, <2>2, Zenon
<1>8. SubSeq(text, q + 1, Len(text)) = w
  <2>1. q + Len(w) <= Len(text) /\ Len(text) = q + Len(w)
    BY <1>1, <1>2
  <2>2. SubSeq(text, q + 1, q + Len(w)) = w
    BY <1>1, <1>2, <2>1, PartIs, Zenon
  <2> QED BY <2>1, <2>2, Zenon
<1>9. AuthzidIn(text) = a /\ UsernameIn(text) = u /\ PasswordIn(text) = w
  BY <1>5, <1>6, <1>7, <1>8, Zenon DEF AuthzidIn, UsernameIn, PasswordIn
<1> QED BY <1>2, <1>4, <1>9, Zenon DEF text

\* What the words of AUTH PLAIN are made of.
LEMMA DigitsType ==
  ASSUME Requested, request.verb = "AUTH PLAIN"
  PROVE  Digits(request.words) \in Seq(0..63)
<1> DEFINE words == request.words
           D == [i \in DOMAIN words |-> words[i].digits]
<1>1. /\ DOMAIN words = 1..Len(words) /\ Len(words) \in Nat
      /\ \A i \in 1..Len(words) : words[i] \in Words["AUTH PLAIN"]
  BY RequestWords, Zenon
<1>2. "AUTH PLAIN" \in {"AUTH PLAIN", "AUTH LOGIN"}
  OBVIOUS
<1>3. \A i \in DOMAIN words : words[i].digits \in Seq(0..63)
  BY <1>1, <1>2, WordAssumption, Zenon
<1>4. D \in Seq(Seq(0..63))
  <2> DEFINE n == Len(words)
             S == Seq(0..63)
  <2>1. n \in Nat /\ DOMAIN words = 1..n /\ \A i \in DOMAIN words : words[i].digits \in S
    BY <1>1, <1>3, Zenon
  <2> HIDE DEF n, S, words
  <2>2. D = [i \in 1..n |-> words[i].digits]
    BY <2>1, Zenon
  <2>3. D \in [1..n -> S]
    BY <2>1, <2>2
  <2>4. n \in Nat
    BY <2>1, Zenon
  <2> HIDE DEF D
  <2>5. D \in Seq(S)
    BY <2>3, <2>4, FunctionIsSeq, Zenon
  <2> QED BY <2>5, Zenon DEF S
<1> HIDE DEF D
<1>5. FlattenSeq(D) \in Seq(0..63)
  BY <1>4, FlattenType
<1> QED BY <1>5, Zenon DEF D, Digits

\* The record of three names, and the text it stands for.
LEMMA LoginOf ==
  ASSUME NEW a \in Seq(1..127), NEW u \in Names, NEW w \in Names
  PROVE  LET login == [authzid |-> IF a = <<>> THEN None ELSE a,
                       username |-> u, password |-> w]
         IN  login \in Credentials /\ Message(login) = WithNuls(a, u, w)
<1> DEFINE name == IF a = <<>> THEN None ELSE a
           login == [authzid |-> name, username |-> u, password |-> w]
<1>1. name \in Names \cup {None} /\ (name = None <=> a = <<>>)
  BY LoginAssumption, Zenon DEF Names
<1>5. name = None => a = <<>>
  BY <1>1
<1>6. name # None => name = a
  BY Zenon
<1> HIDE DEF name
<1>2. login \in Credentials
  <2> HIDE DEF Names
  <2>1. name \in Names \cup {None}
    BY <1>1, Zenon
  <2>2. [authzid |-> name, username |-> u, password |-> w]
           \in [authzid : Names \cup {None}, username : Names, password : Names]
    BY <2>1
  <2> QED BY <2>2, Zenon DEF Credentials
<1>3. login.authzid = name /\ login.username = u /\ login.password = w
  OBVIOUS
<1>4. (IF name = None THEN <<>> ELSE name) = a
  BY <1>5, <1>6, Zenon
<1> HIDE DEF login
<1>7. login \in Credentials /\ Message(login) = WithNuls(a, u, w)
  BY <1>2, <1>3, <1>4, Zenon DEF Message, WithNuls
<1> QED BY <1>7, Zenon DEF login, name

\* What AUTH PLAIN makes of words, by the parts of their text.
LEMMA PlainSchema ==
  ASSUME NEW words, NEW text, text = Decoded(words)
  PROVE  AuthPlainSchema(words) =
            IF /\ OnlyLastPadded(words)
               /\ Decodable(words)
               /\ Cardinality(NulsOf(text)) = 2
               /\ <<>> \notin {UsernameIn(text), PasswordIn(text)}
            THEN [authzid |-> IF AuthzidIn(text) = <<>> THEN None ELSE AuthzidIn(text),
                  username |-> UsernameIn(text), password |-> PasswordIn(text)]
            ELSE Rejected
BY Zenon DEF AuthPlainSchema, ThreeFields, NulsOf, FirstNul, SecondNul,
             AuthzidIn, UsernameIn, PasswordIn

(***************************************************************************)
(* The credentials AUTH PLAIN accepts are encoded by its words.            *)
(***************************************************************************)
LEMMA AcceptedIsMeant ==
  ASSUME NEW words, Digits(words) \in Seq(0..63), AuthPlainSchema(words) # Rejected
  PROVE  /\ AuthPlainSchema(words) \in Credentials
         /\ Means(words, AuthPlainSchema(words))
<1> DEFINE digits == Digits(words)
           text == Octets(digits)
           a == AuthzidIn(text)
           u == UsernameIn(text)
           w == PasswordIn(text)
           name == IF a = <<>> THEN None ELSE a
           login == [authzid |-> name, username |-> u, password |-> w]
<1>1. /\ OnlyLastPadded(words) /\ Decodable(words)
      /\ Cardinality(NulsOf(text)) = 2 /\ <<>> \notin {u, w}
      /\ AuthPlainSchema(words) = login
  <2>1. text = Decoded(words)
    BY Zenon DEF Decoded
  <2> HIDE DEF text
  <2>2. AuthPlainSchema(words) =
           IF /\ OnlyLastPadded(words) /\ Decodable(words)
              /\ Cardinality(NulsOf(text)) = 2 /\ <<>> \notin {u, w}
           THEN login ELSE Rejected
    BY <2>1, PlainSchema, Zenon
  <2> HIDE DEF login, u, w
  <2> QED BY <2>2, Zenon
<1>2. /\ FilledUp(Len(digits), IF words = <<>> THEN 0 ELSE Last(words).pads)
      /\ Range(text) \subseteq 0..127
  BY <1>1, Zenon DEF Decodable
<1> HIDE DEF digits
<1>3. digits \in Seq(0..63) /\ text \in Seq(0..255) /\ Len(digits) \in Nat
  BY OctetsType, LenProperties, Zenon DEF digits
<1> HIDE DEF text
<1>4. text \in Seq(0..127)
  <2>1. \A i \in 1..Len(text) : text[i] \in 0..127
    <3>1. DOMAIN text = 1..Len(text)
      BY <1>3, LenProperties
    <3> QED BY <1>2, <3>1, Zenon DEF Range
  <2> DEFINE S == 0..255
             T == 0..127
  <2>2. text \in Seq(S) /\ \A i \in 1..Len(text) : text[i] \in T
    BY <1>3, <2>1, Zenon
  <2> HIDE DEF S, T
  <2>3. text \in Seq(T)
    BY <2>2, SequenceOf
  <2> QED BY <2>3, Zenon DEF T
<1>5. /\ a \in Seq(1..127) /\ u \in Seq(1..127) /\ w \in Seq(1..127)
      /\ text = WithNuls(a, u, w)
  BY <1>1, <1>4, TextCut, Zenon
<1>6. u \in Names /\ w \in Names
  BY <1>1, <1>5, Zenon DEF Names
<1>7. login \in Credentials /\ Message(login) = text
  <2>1. login \in Credentials /\ Message(login) = WithNuls(a, u, w)
    <3> HIDE DEF a, u, w
    <3> QED BY <1>5, <1>6, LoginOf, Zenon
  <2> HIDE DEF login, a, u, w
  <2> QED BY <1>5, <2>1, Zenon
<1>8. words # <<>>
  <2>1. CASE words = <<>>
    <3>1. FilledUp(Len(digits), 0) /\ digits = <<>>
      <4>1. Digits(<<>>) = FlattenSeq(<<>>)
        <5>1. [i \in DOMAIN <<>> |-> <<>>[i].digits] = <<>>
          OBVIOUS
        <5> QED BY <5>1, Zenon DEF Digits
      <4> QED BY <1>2, <2>1, <4>1, FlattenEmpty, Zenon DEF digits
    <3>2. Len(text) = 0
      <4>1. (3 * Len(digits)) \div 4 = 0 /\ 0 \in Nat
        BY <3>1
      <4>2. Len(Octets(digits)) = (3 * Len(digits)) \div 4
        BY <1>3, <4>1, OctetsOfGroup, Zenon
      <4> QED BY <4>1, <4>2, Zenon DEF text
    <3>3. NulsOf(text) = {}
      <4>1. DOMAIN text = 1..0 /\ 1..0 = {}
        BY <1>3, <3>2, LenProperties
      <4> QED BY <4>1, Zenon DEF NulsOf
    <3>4. Cardinality({}) = 0 /\ 0 # 2
      BY FS_EmptySet
    <3> QED BY <1>1, <3>3, <3>4, Zenon
  <2> QED BY <2>1
<1>9. FilledUp(Len(digits), Last(words).pads)
  BY <1>2, <1>8, Zenon
<1>10. Encodes(digits, text)
  <2>1. Len(digits) % 4 # 1
    <3>1. 0 # 1
      OBVIOUS
    <3> QED BY <1>9, <3>1, Zenon DEF FilledUp
  <2> QED BY <1>3, <2>1, OctetsEncoded, Zenon DEF text
<1> HIDE DEF login
<1> QED BY <1>1, <1>7, <1>9, <1>10, Zenon DEF Means, digits

(***************************************************************************)
(* Words that encode credentials are accepted, and give them.              *)
(***************************************************************************)
LEMMA MeantIsAccepted ==
  ASSUME NEW words, Digits(words) \in Seq(0..63),
         NEW login \in Credentials, Means(words, login)
  PROVE  AuthPlainSchema(words) = login
<1> DEFINE digits == Digits(words)
           a == IF login.authzid = None THEN <<>> ELSE login.authzid
           u == login.username
           w == login.password
           text == WithNuls(a, u, w)
<1>1. /\ login.authzid \in Names \cup {None} /\ u \in Names /\ w \in Names
      /\ login = [authzid |-> login.authzid, username |-> u, password |-> w]
  <2> DEFINE N == Names
             M == Names \cup {None}
  <2>1. login \in [authzid : M, username : N, password : N]
    BY Zenon DEF Credentials
  <2> HIDE DEF N, M
  <2>2. /\ login.authzid \in M /\ u \in N /\ w \in N
        /\ login = [authzid |-> login.authzid, username |-> u, password |-> w]
    BY <2>1
  <2> QED BY <2>2, Zenon DEF N, M
<1>2. /\ a \in Seq(1..127) /\ u \in Seq(1..127) /\ w \in Seq(1..127)
      /\ u # <<>> /\ w # <<>>
      /\ login.authzid = IF a = <<>> THEN None ELSE a
  <2>1. <<>> \in Seq(1..127)
    OBVIOUS
  <2> QED BY <1>1, <2>1, LoginAssumption, Zenon DEF Names
<1>3. Encodes(digits, text)
  BY Zenon DEF Means, Message, WithNuls
<1> HIDE DEF a, u, w, digits
<1>4. /\ a \in Seq(0..127) /\ u \in Seq(0..127) /\ w \in Seq(0..127)
      /\ \A k \in 1..Len(a) : a[k] # Nul
      /\ \A k \in 1..Len(u) : u[k] # Nul
      /\ \A k \in 1..Len(w) : w[k] # Nul
  <2> DEFINE S == 0..127
             T == 1..127
  <2>1. T \subseteq S
    OBVIOUS
  <2>2. \A x \in T : x # Nul
    BY DEF Nul
  <2> HIDE DEF S, T
  <2>3. \A s \in Seq(T) : s \in Seq(S) /\ \A k \in 1..Len(s) : s[k] # Nul
    <3>1. \A s \in Seq(T) : s \in Seq(S)
      BY <2>1, SeqMonotonic, Zenon
    <3>2. \A s \in Seq(T) : \A k \in 1..Len(s) : s[k] \in T
      BY ElementOfSeq, Zenon
    <3> QED BY <2>2, <3>1, <3>2, Zenon
  <2>4. a \in Seq(T) /\ u \in Seq(T) /\ w \in Seq(T)
    BY <1>2, Zenon DEF T
  <2>5. /\ a \in Seq(S) /\ \A k \in 1..Len(a) : a[k] # Nul
        /\ u \in Seq(S) /\ \A k \in 1..Len(u) : u[k] # Nul
        /\ w \in Seq(S) /\ \A k \in 1..Len(w) : w[k] # Nul
    BY <2>3, <2>4, Zenon
  <2> QED BY <2>5, Zenon DEF S
<1>5. /\ text \in Seq(0..127) /\ Cardinality(NulsOf(text)) = 2
      /\ AuthzidIn(text) = a /\ UsernameIn(text) = u /\ PasswordIn(text) = w
  BY <1>4, CutText, ZenonT(30)
<1> HIDE DEF text
<1>6. Octets(digits) = text
  <2>1. digits \in Seq(0..63)
    BY Zenon DEF digits
  <2>2. text \in Seq(0..255)
    <3> DEFINE S == 0..127
               T == 0..255
    <3>1. S \subseteq T
      OBVIOUS
    <3>2. text \in Seq(S)
      BY <1>5, Zenon
    <3> HIDE DEF S, T
    <3>3. text \in Seq(T)
      BY <3>1, <3>2, SeqMonotonic, Zenon
    <3> QED BY <3>3, Zenon DEF T
  <2> QED BY <1>3, <2>1, <2>2, EncodedText, Zenon
<1>7. OnlyLastPadded(words) /\ FilledUp(Len(digits), Last(words).pads)
  BY Zenon DEF Means, digits
<1>8. words # <<>>
  <2>1. CASE words = <<>>
    <3>1. digits = <<>>
      <4>1. Digits(<<>>) = FlattenSeq(<<>>)
        <5>1. [i \in DOMAIN <<>> |-> <<>>[i].digits] = <<>>
          OBVIOUS
        <5> QED BY <5>1, Zenon DEF Digits
      <4> QED BY <2>1, <4>1, FlattenEmpty, Zenon DEF digits
    <3>2. Len(text) = 0
      <4>1. <<>> \in Seq(0..63) /\ (3 * Len(<<>>)) \div 4 = 0 /\ 0 \in Nat
        OBVIOUS
      <4>2. Len(Octets(<<>>)) = (3 * Len(<<>>)) \div 4
        BY <4>1, OctetsOfGroup, Zenon
      <4> QED BY <1>6, <3>1, <4>1, <4>2, Zenon
    <3>3. NulsOf(text) = {}
      <4>1. DOMAIN text = 1..0 /\ 1..0 = {}
        BY <1>5, <3>2, LenProperties
      <4> QED BY <4>1, Zenon DEF NulsOf
    <3>4. Cardinality({}) = 0 /\ 0 # 2
      BY FS_EmptySet
    <3> QED BY <1>5, <3>3, <3>4, Zenon
  <2> QED BY <2>1
<1>9. Decodable(words)
  <2>1. Range(text) \subseteq 0..127
    <3>1. DOMAIN text = 1..Len(text) /\ \A i \in 1..Len(text) : text[i] \in 0..127
      BY <1>5, LenProperties, ElementOfSeq
    <3> QED BY <3>1, Zenon DEF Range
  <2> QED BY <1>6, <1>7, <1>8, <2>1, Zenon DEF Decodable, digits
<1>10. Decoded(words) = text
  BY <1>6, Zenon DEF Decoded, digits
<1>11. AuthPlainSchema(words) =
          [authzid |-> IF a = <<>> THEN None ELSE a, username |-> u, password |-> w]
  BY <1>2, <1>5, <1>7, <1>9, <1>10, PlainSchema, Zenon
<1> QED BY <1>1, <1>2, <1>11, Zenon

(***************************************************************************)
(* AUTH PLAIN decodes and cuts what it gets as it was encoded and joined:  *)
(* it takes the encodings of credentials, with whatever number of words,   *)
(* gives its handler the encoded ones, and takes nothing else.             *)
(***************************************************************************)
THEOREM CredentialsAsMeantAlways == Spec => []CredentialsAsMeant
<1> DEFINE words == request.words
<1>1. ASSUME ArgumentsInv, Handled("AUTH PLAIN")
      PROVE  /\ Accepted("AUTH PLAIN") =>
                    outcome.fields \in Credentials /\ Means(words, outcome.fields)
             /\ \A login \in Logins : Means(words, login) => outcome.fields = login
  <2>1. /\ Requested /\ request.verb = "AUTH PLAIN"
        /\ outcome.fields = AuthPlainSchema(words)
        /\ Accepted("AUTH PLAIN") => AuthPlainSchema(words) # Rejected
    BY <1>1, AcceptedMeans, ValidateCases, Zenon DEF Accepted
  <2>2. Digits(words) \in Seq(0..63)
    BY <2>1, DigitsType, Zenon
  <2>3. \A login \in Logins : login \in Credentials
    BY LoginAssumption
  <2> HIDE DEF words
  <2> QED BY <2>1, <2>2, <2>3, AcceptedIsMeant, MeantIsAccepted, Zenon
<1>2. ArgumentsInv => CredentialsAsMeant
  <2> SUFFICES ASSUME ArgumentsInv PROVE CredentialsAsMeant
    OBVIOUS
  <2> QED BY <1>1, Zenon DEF CredentialsAsMeant
<1> QED BY <1>2, ArgumentsInvariant, PTL

=============================================================================
