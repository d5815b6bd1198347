------------------------- MODULE CommandParserProofs -------------------------
(***************************************************************************)
(* Proofs about CommandParser for any lines, messages, limits and pieces:  *)
(*                                                                         *)
(*   TypeCorrect, FramedAlways   the invariant Framing: TypeOK, Framed,    *)
(*                               the limit the constructor clears, and one *)
(*                               input at a time;                          *)
(*   Refinement                  every input is passed on at most once, in *)
(*                               order and unchanged (Exchange).           *)
(***************************************************************************)
EXTENDS TransparencyProofs

\* The constructor's None stays: nobody sets the limit again.
Unlimited == maximum = None

\* The last input was passed on before the next one was sent.
NotPassedYet == pending # None => passed = None

Framing == TypeOK /\ Framed /\ Unlimited /\ NotPassedYet

-----------------------------------------------------------------------------

\* Receiving a piece moves it from one end of what is under way to the other.
LEMMA Moved ==
  ASSUME NEW s \in Seq(Bytes), NEW rest \in Seq(Bytes), NEW n \in 1..Len(rest)
  PROVE  /\ SubSeq(rest, 1, n) \in Seq(Bytes)
         /\ SubSeq(rest, n + 1, Len(rest)) \in Seq(Bytes)
         /\ (s \o SubSeq(rest, 1, n)) \in Seq(Bytes)
         /\ (s \o SubSeq(rest, 1, n)) \o SubSeq(rest, n + 1, Len(rest)) = s \o rest
<1> DEFINE first == SubSeq(rest, 1, n)
           last == SubSeq(rest, n + 1, Len(rest))
<1>1. Len(rest) \in Nat /\ \A i \in 1..Len(rest) : rest[i] \in Bytes
  BY LenProperties, ElementOfSeq
<1>2. first \in Seq(Bytes)
  BY <1>1, SubSeqProperties
<1>3. last \in Seq(Bytes)
  BY <1>1, SubSeqProperties
<1>4. first \o last = rest
  <2>1. SubSeq(rest, 1, n) \o SubSeq(rest, n + 1, Len(rest)) = SubSeq(rest, 1, Len(rest))
    BY <1>1, ConcatAdjacentSubSeq
  <2>2. QED
    BY <2>1, SubSeqFull
<1> HIDE DEF first, last
<1>5. (s \o first) \o last = s \o (first \o last)
  BY <1>2, <1>3, ConcatAssociative, SMTT(30)
<1>6. s \o first \in Seq(Bytes)
  BY <1>2, ConcatProperties
<1>7. QED
  BY <1>2, <1>3, <1>4, <1>5, <1>6 DEF first, last

\* What has been received of an input is a prefix of it.
LEMMA Prefix ==
  ASSUME NEW s \in Seq(Bytes), NEW rest \in Seq(Bytes)
  PROVE  /\ Len(s) \in Nat /\ Len(s) <= Len(s \o rest)
         /\ s = SubSeq(s \o rest, 1, Len(s))
         /\ Len(s) = Len(s \o rest) => rest = <<>> /\ s = s \o rest
<1> DEFINE all == s \o rest
<1>1. /\ Len(s) \in Nat /\ Len(rest) \in Nat
      /\ all \in Seq(Bytes) /\ Len(all) = Len(s) + Len(rest)
      /\ \A i \in 1..Len(s) : all[i] = s[i]
  BY ConcatProperties, LenProperties
<1>2. \A i \in 1..Len(s) : s[i] \in Bytes
  BY ElementOfSeq
<1>3. /\ SubSeq(all, 1, Len(s)) \in Seq(Bytes)
      /\ Len(SubSeq(all, 1, Len(s))) = Len(s)
      /\ \A i \in 1..Len(s) : SubSeq(all, 1, Len(s))[i] = s[i]
  <2>1. \A i \in 1..Len(s) : all[i] \in Bytes
    BY <1>1, <1>2
  <2>2. /\ SubSeq(all, 1, Len(s)) \in Seq(Bytes)
        /\ Len(SubSeq(all, 1, Len(s))) = IF 1 <= Len(s) THEN Len(s) - 1 + 1 ELSE 0
        /\ \A i \in 1..(Len(s) - 1 + 1) : SubSeq(all, 1, Len(s))[i] = all[1 + i - 1]
    <3> HIDE DEF all
    <3> QED
      BY <1>1, <2>1, SubSeqProperties
  <2> HIDE DEF all
  <2>3. QED
    BY <1>1, <2>2
<1>4. s = SubSeq(all, 1, Len(s))
  BY <1>3, SeqEqual
<1>5. Len(s) = Len(all) => rest = <<>>
  BY <1>1, EmptySeq
<1>6. rest = <<>> => s = all
  BY ConcatEmptySeq
<1>7. Len(s) <= Len(all)
  BY <1>1
<1> HIDE DEF all
<1>8. QED
  BY <1>1, <1>4, <1>5, <1>6, <1>7, Zenon DEF all

\* The line feed of a line's terminator is the only one in the input.
LEMMA LineEnds ==
  ASSUME NEW line \in Lines
  PROVE  /\ line \in Seq(Bytes)
         /\ line \o <<CR, LF>> \in Seq(Bytes)
         /\ Len(line \o <<CR, LF>>) = Len(line) + 2
         /\ \A n \in 0..(Len(line \o <<CR, LF>>) - 1) :
              ~Occurs(LineTerminator, SubSeq(line \o <<CR, LF>>, 1, n))
         /\ SubSeq(line \o <<CR, LF>>, 1, Len(line)) = line
<1> DEFINE end == <<CR, LF>>
           sent == line \o end
<1>1. line \in Seq(Bytes) /\ \A i \in 1..Len(line) : line[i] # LF
  <2>1. line \in Seq(Bytes \ {LF})
    BY ParserAssumption
  <2>2. \A i \in 1..Len(line) : line[i] \in Bytes \ {LF}
    BY <2>1, ElementOfSeq
  <2>3. line \in Seq(Bytes)
    BY <2>1, SeqMonotonic
  <2>4. QED
    BY <2>2, <2>3
<1>2. end \in Seq(Bytes) /\ Len(end) = 2 /\ end[1] = CR /\ end[2] = LF
  BY ParserAssumption
<1> HIDE DEF end
<1>3. /\ sent \in Seq(Bytes) /\ Len(line) \in Nat /\ Len(sent) = Len(line) + 2
      /\ \A i \in 1..Len(sent) :
            sent[i] = IF i <= Len(line) THEN line[i] ELSE end[i - Len(line)]
  <2>1. /\ line \o end \in Seq(Bytes) /\ Len(line \o end) = Len(line) + Len(end)
        /\ \A i \in 1..(Len(line) + Len(end)) :
              (line \o end)[i] = IF i <= Len(line) THEN line[i] ELSE end[i - Len(line)]
    BY <1>1, <1>2, ConcatProperties
  <2>2. Len(line) \in Nat
    BY <1>1, LenProperties
  <2> HIDE DEF sent
  <2>3. QED
    BY <1>2, <2>1, <2>2 DEF sent
<1> HIDE DEF sent
<1>4. \A i \in 1..(Len(line) + 1) : sent[i] # LF
  <2> TAKE i \in 1..(Len(line) + 1)
  <2>1. CASE i <= Len(line)
    BY <1>1, <1>3, <2>1
  <2>2. CASE i = Len(line) + 1
    <3>1. sent[i] = end[1]
      BY <1>3, <2>2
    <3>2. QED
      BY <1>2, <3>1, ParserAssumption
  <2>3. QED
    BY <1>3, <2>1, <2>2
<1>5. ASSUME NEW n \in 0..(Len(sent) - 1), Occurs(LineTerminator, SubSeq(sent, 1, n))
      PROVE  FALSE
  <2> DEFINE part == SubSeq(sent, 1, n)
  <2>1. /\ part \in Seq(Bytes) /\ Len(part) = n
        /\ \A i \in 1..n : part[i] = sent[i]
    <3>1. \A i \in 1..n : sent[i] \in Bytes
      BY <1>3, ElementOfSeq
    <3>2. /\ SubSeq(sent, 1, n) \in Seq(Bytes)
          /\ Len(SubSeq(sent, 1, n)) = IF 1 <= n THEN n - 1 + 1 ELSE 0
          /\ \A i \in 1..(n - 1 + 1) : SubSeq(sent, 1, n)[i] = sent[1 + i - 1]
      BY <1>3, <3>1, SubSeqProperties
    <3>3. QED
      BY <1>3, <3>2
  <2> HIDE DEF part
  <2>2. PICK i \in 0..Len(part) : i + 2 <= Len(part) /\ SubSeq(part, i + 1, i + 2) = <<CR, LF>>
    BY <1>5 DEF Occurs, LineTerminator, part
  <2>3. \A k \in (i + 1)..(i + 2) : part[k] \in Bytes
    BY <2>1, <2>2, ElementOfSeq
  <2>4. SubSeq(part, i + 1, i + 2)[2] = part[i + 2]
    BY <2>1, <2>2, <2>3, SubSeqProperties
  <2>5. part[i + 2] = LF
    <3>1. <<CR, LF>>[2] = LF
      OBVIOUS
    <3>2. QED
      BY <2>2, <2>4, <3>1
  <2>6. i + 2 \in 1..n /\ i + 2 \in 1..(Len(line) + 1)
    BY <1>3, <2>1, <2>2
  <2>7. QED
    BY <1>4, <2>1, <2>5, <2>6
<1>6. SubSeq(sent, 1, Len(line)) = line
  BY <1>1, <1>2, Prefix DEF sent
<1>7. QED
  BY <1>1, <1>3, <1>5, <1>6 DEF sent, end

-----------------------------------------------------------------------------

\* The parser recognises an input when all of it has arrived, and not before;
\* it is then passed on as it was meant.
LEMMA Recognised ==
  ASSUME NEW m \in Modes, NEW input \in InputsIn(m),
         NEW s \in Seq(Bytes), NEW rest \in Seq(Bytes),
         s \o rest = Encoded(input), Occurs(Terminator(m), s)
  PROVE  /\ rest = <<>>
         /\ Meant(input).text \in Seq(Bytes)
         /\ Meant(input) =
              [mode |-> m, text |->
                 IF m = "data"
                 THEN WithoutTransparency(SubSeq(s, 1, Len(s) - Len(Terminator(m))))
                 ELSE SubSeq(s, 1, Len(s) - Len(Terminator(m)))]
<1> DEFINE sent == Encoded(input)
<1>1. ASSUME \A n \in 0..(Len(sent) - 1) : ~Occurs(Terminator(m), SubSeq(sent, 1, n)),
             Len(sent) \in Nat
      PROVE  rest = <<>> /\ s = sent
  <2>1. Len(s) \in 0..Len(sent) /\ s = SubSeq(sent, 1, Len(s))
    BY <1>1, Prefix
  <2>2. Len(s) = Len(sent)
    <3>1. Len(s) \notin 0..(Len(sent) - 1)
      BY <1>1, <2>1
    <3> HIDE DEF sent
    <3>2. QED
      BY <1>1, <2>1, <3>1
  <2>3. QED
    BY <2>2, Prefix
<1>2. CASE m = "data"
  <2>1. /\ sent \in Seq(Bytes) /\ Meant(input).text \in Seq(Bytes)
        /\ \A n \in 0..(Len(sent) - 1) : ~Occurs(BodyTerminator, SubSeq(sent, 1, n))
        /\ Occurs(BodyTerminator, sent) =>
             WithoutTransparency(SubSeq(sent, 1, Len(sent) - Len(BodyTerminator)))
                = Meant(input).text
    BY <1>2, RoundTrip, Zenon
  <2>2. Terminator(m) = BodyTerminator
    BY <1>2 DEF Terminator
  <2>3. rest = <<>> /\ s = sent
    BY <1>1, <2>1, <2>2, LenProperties
  <2>4. input.mode = "data" /\ Meant(input) = [mode |-> "data", text |-> Meant(input).text]
    BY <1>2 DEF InputsIn, Meant
  <2>5. QED
    BY <1>2, <2>1, <2>2, <2>3, <2>4
<1>3. CASE m # "data"
  <2>1. /\ input.mode = m /\ input.text \in Lines
        /\ input = [mode |-> m, text |-> input.text]
    BY <1>3 DEF InputsIn
  <2>2. sent = input.text \o <<CR, LF>> /\ Meant(input) = input
    BY <1>3, <2>1 DEF Encoded, Meant
  <2>3. Terminator(m) = LineTerminator /\ Len(LineTerminator) = 2
    BY <1>3 DEF Terminator, LineTerminator
  <2>4. rest = <<>> /\ s = sent
    BY <1>1, <2>1, <2>2, <2>3, LineEnds, LenProperties
  <2>5. SubSeq(s, 1, Len(s) - 2) = input.text /\ input.text \in Seq(Bytes)
    <3>1. Len(s) = Len(input.text) + 2 /\ Len(input.text) \in Nat
      BY <2>1, <2>2, <2>4, LineEnds, LenProperties
    <3>2. Len(s) - 2 = Len(input.text)
      BY <3>1
    <3>3. QED
      BY <2>1, <2>2, <2>4, <3>2, LineEnds
  <2>6. QED
    BY <1>3, <2>1, <2>2, <2>3, <2>4, <2>5
<1>4. QED
  BY <1>2, <1>3

-----------------------------------------------------------------------------

LEMMA InputTypes ==
  /\ \A m \in Modes : \A input \in InputsIn(m) :
        /\ input \in AllInputs
        /\ input.mode = m
        /\ input # None
        /\ Meant(input) # None
        /\ Encoded(input) \in Seq(Bytes)
  /\ \A input \in AllInputs : input.mode \in Modes /\ input \in InputsIn(input.mode)
<1>1. \A m \in Modes : \A input \in InputsIn(m) : input \in AllInputs /\ input.mode = m
  BY DEF AllInputs, InputsIn
<1>2. \A input \in AllInputs : input.mode \in Modes /\ input \in InputsIn(input.mode)
  <2>1. SUFFICES ASSUME NEW m \in Modes, NEW input \in InputsIn(m)
                 PROVE  input.mode \in Modes /\ input \in InputsIn(input.mode)
    BY DEF AllInputs
  <2>2. input.mode = m
    BY <1>1
  <2>3. QED
    BY <2>2
<1>3. \A input \in AllInputs : input # None /\ Meant(input) # None
  BY ParserAssumption
<1>4. ASSUME NEW m \in Modes, NEW input \in InputsIn(m)
      PROVE  Encoded(input) \in Seq(Bytes)
  <2>1. CASE m = "data"
    BY <2>1, RoundTrip, Zenon
  <2>2. CASE m # "data"
    <3>1. input.mode = m /\ input.text \in Lines
      BY <2>2 DEF InputsIn
    <3>2. Encoded(input) = input.text \o <<CR, LF>>
      BY <2>2, <3>1 DEF Encoded
    <3>3. QED
      BY <3>1, <3>2, LineEnds
  <2>3. QED
    BY <2>1, <2>2
<1>5. QED
  BY <1>1, <1>2, <1>3, <1>4

\* Leaving and entering data mode sets the terminator; nothing else has to.
LEMMA SwitchTypes ==
  ASSUME TypeOK, NEW m \in Modes, SwitchTo(m)
  PROVE  mode' = m /\ terminator' = Terminator(m) /\ data' = <<>> /\ data' \in Seq(Bytes)
  BY EmptySeq DEF TypeOK, SwitchTo, TerminatorAfter, Terminator

\* What a step of recv() has at its hands.
LEMMA Piece ==
  ASSUME TypeOK, NEW n \in 1..MaxChunk, n <= Len(wire)
  PROVE  /\ data \o SubSeq(wire, 1, n) \in Seq(Bytes)
         /\ SubSeq(wire, n + 1, Len(wire)) \in Seq(Bytes)
         /\ (data \o SubSeq(wire, 1, n)) \o SubSeq(wire, n + 1, Len(wire)) = data \o wire
         /\ data \o wire # <<>>
<1>1. data \in Seq(Bytes) /\ wire \in Seq(Bytes) /\ Len(wire) \in Nat
  BY LenProperties DEF TypeOK
<1>2. n \in 1..Len(wire)
  BY <1>1, ParserAssumption
<1>3. wire # <<>>
  BY <1>1, <1>2, EmptySeq
<1>4. data \o wire # <<>>
  BY <1>1, <1>3, ConcatEqualIffEmpty
<1>5. QED
  BY <1>1, <1>2, <1>4, Moved

\* The three things a piece can lead to when all of it can be decoded.
LEMMA ReceivedCases ==
  ASSUME Framing, connected, NEW n \in 1..MaxChunk, n <= Len(wire),
         Received(data \o SubSeq(wire, 1, n)),
         wire' = SubSeq(wire, n + 1, Len(wire))
  PROVE  /\ pending # None /\ pending \in InputsIn(mode) /\ mode \in Modes
         /\ \/ /\ data' = data \o SubSeq(wire, 1, n)
               /\ UNCHANGED <<mode, terminator, pending, connected>>
               /\ passed' = None
            \/ /\ wire' = <<>> /\ data' = <<>>
               /\ mode' \in Modes /\ terminator' = Terminator(mode')
               /\ passed' = Meant(pending) /\ passed'.text \in Seq(Bytes)
               /\ pending' = None /\ connected' \in BOOLEAN
<1> DEFINE s == data \o SubSeq(wire, 1, n)
           rest == SubSeq(wire, n + 1, Len(wire))
<1>1. s \in Seq(Bytes) /\ rest \in Seq(Bytes) /\ s \o rest = data \o wire /\ data \o wire # <<>>
  BY Piece DEF Framing
<1>2. /\ pending # None /\ pending.mode = mode /\ data \o wire = Encoded(pending)
      /\ pending \in AllInputs /\ mode \in Modes /\ terminator = Terminator(mode)
  BY <1>1 DEF Framing, Framed, TypeOK
<1>3. pending \in InputsIn(mode)
  BY <1>2, InputTypes
<1>4. ~IsInputTooBig(s)
  BY DEF IsInputTooBig, Framing, Unlimited
<1>5. Received(s) /\ wire' = rest
  OBVIOUS
<1> HIDE DEF s, rest
<1>6. CASE ~Occurs(terminator, s)
  BY <1>2, <1>3, <1>4, <1>5, <1>6 DEF Received, s
<1>7. CASE Occurs(terminator, s)
  <2>1. /\ rest = <<>>
        /\ Meant(pending).text \in Seq(Bytes)
        /\ Meant(pending) =
             [mode |-> mode, text |->
                IF mode = "data"
                THEN WithoutTransparency(SubSeq(s, 1, Len(s) - Len(terminator)))
                ELSE SubSeq(s, 1, Len(s) - Len(terminator))]
    <3>1. /\ s \in Seq(Bytes) /\ rest \in Seq(Bytes) /\ s \o rest = Encoded(pending)
          /\ Occurs(Terminator(mode), s) /\ mode \in Modes /\ pending \in InputsIn(mode)
      BY <1>1, <1>2, <1>3, <1>7, Zenon
    <3>2. QED
      BY <1>2, <3>1, Recognised, Zenon
  <2>2. /\ passed' = [mode |-> mode, text |->
                IF mode = "data"
                THEN WithoutTransparency(SubSeq(s, 1, Len(s) - Len(terminator)))
                ELSE SubSeq(s, 1, Len(s) - Len(terminator))]
        /\ \E m \in NextModes[mode] : SwitchTo(m)
        /\ pending' = None
        /\ connected' \in BOOLEAN
    BY <1>4, <1>5, <1>7, Zenon DEF Received
  <2>3. NextModes[mode] \subseteq Modes
    BY <1>2 DEF NextModes, Modes
  <2>4. mode' \in Modes /\ terminator' = Terminator(mode') /\ data' = <<>>
    BY <2>2, <2>3, SwitchTypes DEF Framing
  <2>5. passed' = Meant(pending)
    BY <2>1, <2>2
  <2>6. QED
    BY <1>2, <1>3, <1>5, <2>1, <2>2, <2>4, <2>5
<1>8. QED
  BY <1>6, <1>7

THEOREM FramingInvariant == Spec => []Framing
<1>1. Init => Framing
  <2> SUFFICES ASSUME Init PROVE Framing
    OBVIOUS
  <2>1. <<>> \in Seq(Bytes) /\ <<>> \o <<>> = <<>>
    BY EmptySeq, ConcatEmptySeq
  <2>2. QED
    BY <2>1 DEF Init, Framing, TypeOK, Framed, Unlimited, NotPassedYet, MaximumAfterConstruction, Modes,
           Terminator
<1>2. Framing /\ [Next]_vars => Framing'
  <2> SUFFICES ASSUME Framing, [Next]_vars
               PROVE  Framing'
    OBVIOUS
  <2>1. CASE UNCHANGED vars
    BY <2>1 DEF vars, Framing, TypeOK, Framed, Unlimited, NotPassedYet
  <2>2. ASSUME NEW input \in InputsIn(mode), Submit(input)
        PROVE  Framing'
    <3>1. /\ input \in AllInputs /\ input # None /\ input.mode = mode
          /\ Encoded(input) \in Seq(Bytes)
      BY <2>2, InputTypes DEF Framing, TypeOK
    <3>2. data = <<>>
      BY <2>2, ConcatEqualIffEmpty DEF Framing, TypeOK, Framed, Submit
    <3>3. data \o Encoded(input) = Encoded(input)
      BY <3>1, <3>2, ConcatEmptySeq
    <3>4. QED
      BY <2>2, <3>1, <3>3 DEF Framing, TypeOK, Framed, Unlimited, NotPassedYet, Submit
  <2>3. ASSUME NEW n \in 1..MaxChunk, Recv(n)
        PROVE  Framing'
    <3>1. /\ connected /\ n <= Len(wire)
          /\ wire' = SubSeq(wire, n + 1, Len(wire))
          /\ UNCHANGED <<maximum, policyLimit>>
      BY <2>3 DEF Recv
    <3>2. /\ data \o SubSeq(wire, 1, n) \in Seq(Bytes) /\ wire' \in Seq(Bytes)
          /\ (data \o SubSeq(wire, 1, n)) \o wire' = data \o wire
      BY <3>1, Piece DEF Framing
    <3>3. CASE /\ connected' = FALSE /\ passed' = None
               /\ UNCHANGED <<mode, terminator, data, pending>>
      BY <3>1, <3>2, <3>3 DEF Framing, TypeOK, Framed, Unlimited, NotPassedYet
    <3>4. CASE Received(data \o SubSeq(wire, 1, n))
      <4>1. CASE /\ data' = data \o SubSeq(wire, 1, n)
                 /\ UNCHANGED <<mode, terminator, pending, connected>>
                 /\ passed' = None
        BY <3>1, <3>2, <4>1 DEF Framing, TypeOK, Framed, Unlimited, NotPassedYet
      <4>2. CASE /\ wire' = <<>> /\ data' = <<>>
                 /\ mode' \in Modes /\ terminator' = Terminator(mode')
                 /\ passed' = Meant(pending) /\ passed'.text \in Seq(Bytes)
                 /\ pending' = None /\ connected' \in BOOLEAN
        <5>1. data' \in Seq(Bytes) /\ data' \o wire' = <<>>
          BY <4>2, EmptySeq, ConcatEmptySeq
        <5>2. QED
          BY <3>1, <4>2, <5>1, EmptySeq DEF Framing, TypeOK, Framed, Unlimited, NotPassedYet
      <4>3. QED
        BY <3>1, <3>4, <4>1, <4>2, ReceivedCases
    <3>5. QED
      BY <2>3, <3>3, <3>4 DEF Recv
  <2>4. CASE Disconnect
    BY <2>4 DEF Disconnect, Framing, TypeOK, Framed, Unlimited, NotPassedYet
  <2>5. QED
    BY <2>1, <2>2, <2>3, <2>4 DEF Next, Receive, Ended
<1>3. QED
  BY <1>1, <1>2, PTL DEF Spec

\* The terminator fits the mode, and every buffer holds bytes.
COROLLARY TypeCorrect == Spec => []TypeOK
  BY FramingInvariant, PTL DEF Framing

\* However recv() cuts the input, nothing of it is lost or taken for another.
COROLLARY FramedAlways == Spec => []Framed
  BY FramingInvariant, PTL DEF Framing

\* process_new_data() passes each input on at most once, in order and as the
\* client meant it, dots included.
THEOREM Refinement == Spec => Exchanges!Spec
<1>1. Init => Exchanges!Init
  BY DEF Init, Exchanges!Init
<1>2. Framing /\ Framing' /\ [Next]_vars => [Exchanges!Next]_(Exchanges!vars)
  <2> SUFFICES ASSUME Framing, Framing', [Next]_vars
               PROVE  Exchanges!Next \/ UNCHANGED Exchanges!vars
    OBVIOUS
  <2>1. ASSUME UNCHANGED <<pending, passed, connected>>
        PROVE  UNCHANGED Exchanges!vars
    BY <2>1 DEF Exchanges!vars
  <2>2. CASE UNCHANGED vars
    BY <2>1, <2>2 DEF vars
  <2>3. ASSUME NEW input \in InputsIn(mode), Submit(input)
        PROVE  Exchanges!Next
    <3>1. input \in AllInputs /\ input # None
      BY <2>3, InputTypes DEF Framing, TypeOK
    <3>2. Exchanges!Submit(Meant(input))
      BY <2>3, <3>1 DEF Submit, Exchanges!Submit
    <3>3. QED
      BY <3>1, <3>2 DEF Exchanges!Next
  <2>4. ASSUME connected, connected' = FALSE, passed' = None, UNCHANGED pending
        PROVE  Exchanges!Next
    BY <2>4 DEF Exchanges!Next, Exchanges!HangUp
  <2>5. ASSUME NEW n \in 1..MaxChunk, Recv(n)
        PROVE  Exchanges!Next \/ UNCHANGED Exchanges!vars
    <3>1. CASE Received(data \o SubSeq(wire, 1, n))
      <4>1. connected /\ n <= Len(wire) /\ wire' = SubSeq(wire, n + 1, Len(wire))
        BY <2>5 DEF Recv
      <4>2. CASE passed' = None /\ UNCHANGED <<pending, connected>>
        <5>1. pending # None
          BY <4>1, <3>1, ReceivedCases
        <5>2. passed = None
          BY <5>1 DEF Framing, NotPassedYet
        <5>3. QED
          BY <2>1, <4>2, <5>2
      <4>3. CASE /\ pending # None /\ passed' = Meant(pending)
                 /\ pending' = None /\ connected' \in BOOLEAN
        <5>1. Meant(pending) # None
          BY <4>3, ParserAssumption DEF Framing, TypeOK
        <5>2. Exchanges!Pass
          BY <4>1, <4>3, <5>1 DEF Exchanges!Pass
        <5>3. QED
          BY <5>2 DEF Exchanges!Next
      <4>4. QED
        BY <3>1, <4>1, <4>2, <4>3, ReceivedCases
    <3>2. QED
      BY <2>4, <2>5, <3>1 DEF Recv
  <2>6. CASE Disconnect
    BY <2>4, <2>6 DEF Disconnect
  <2>7. QED
    BY <2>2, <2>3, <2>5, <2>6 DEF Next, Receive, Ended
<1>3. QED
  BY <1>1, <1>2, FramingInvariant, PTL DEF Spec, Exchanges!Spec

=============================================================================
