---------------------------- MODULE CommandParser ----------------------------
(***************************************************************************)
(* The input side of SMTPCommandParser in pymta/command_parser.py: bytes   *)
(* arrive in pieces that respect no line, are collected in self.data, and  *)
(* are passed to the session as a command, as credentials or as a message  *)
(* when the terminator of the current mode is among them.                  *)
(*                                                                         *)
(* The session is SMTPSession; here it answers an input by choosing the    *)
(* next mode and whether the connection stays up.  The client knows the    *)
(* mode (ModeAnnounced), sends one input and waits for its answer, as the  *)
(* parser demands: what follows a terminator in the same recv() is lost.   *)
(* Bytes are model values; a body is a sequence of lines.                  *)
(***************************************************************************)
EXTENDS Naturals, Sequences, SequencesExt

CONSTANTS
    None,
    Bytes, CR, LF, Dot,
    Undecodable,    \* the bytes that are not ASCII
    Lines,          \* what clients send as command and credential lines
    Bodies,         \* what clients send as messages
    MessageLimits,  \* values of max_message_size() other than None
    MaxChunk        \* bound: the longest piece recv() returns, 4096 bytes

Modes == {"commands", "auth_login", "data"}

LineTerminator == <<CR, LF>>
BodyTerminator == <<CR, LF, Dot, CR, LF>>

Terminator(m) == IF m = "data" THEN BodyTerminator ELSE LineTerminator

-----------------------------------------------------------------------------
(***************************************************************************)
(* What a client that follows RFC 821 sends, and means.                    *)
(***************************************************************************)

Stuffed(line) == IF line # <<>> /\ Head(line) = Dot THEN <<Dot>> \o line ELSE line

Encoded(input) ==
    IF input.mode = "data"
    THEN FlattenSeq([i \in DOMAIN input.text |-> Stuffed(input.text[i]) \o <<CR, LF>>])
            \o <<Dot, CR, LF>>
    ELSE input.text \o <<CR, LF>>

\* The session sees a message with its lines separated by single line feeds.
Meant(input) ==
    IF input.mode = "data"
    THEN [input EXCEPT !.text =
             FlattenSeq([i \in DOMAIN input.text |->
                (IF i = 1 THEN <<>> ELSE <<LF>>) \o input.text[i]])]
    ELSE input

InputsIn(m) == [mode : {m}, text : IF m = "data" THEN Bodies ELSE Lines]
AllInputs == UNION {InputsIn(m) : m \in Modes}

-----------------------------------------------------------------------------

Occurs(pattern, s) ==
    \E i \in 0..Len(s) : /\ i + Len(pattern) <= Len(s)
                         /\ SubSeq(s, i + 1, i + Len(pattern)) = pattern

\* Matched by "^\.\." with re.MULTILINE, of which one dot remains.
TransparencyDot(s, i) ==
    /\ s[i] = Dot
    /\ i < Len(s) /\ s[i + 1] = Dot
    /\ i = 1 \/ s[i - 1] = LF

\* "\r\n" becomes "\n".
BrokenLine(s, i) == s[i] = CR /\ i < Len(s) /\ s[i + 1] = LF

WithoutTransparency(s) ==
    FlattenSeq([i \in DOMAIN s |->
                   IF TransparencyDot(s, i) \/ BrokenLine(s, i) THEN <<>> ELSE <<s[i]>>])

-----------------------------------------------------------------------------
ASSUME ParserAssumption ==
    /\ {CR, LF, Dot} \cup Undecodable \subseteq Bytes
    /\ CR # LF /\ CR # Dot /\ LF # Dot
    /\ Lines \subseteq Seq(Bytes \ {LF})
    /\ Bodies \subseteq Seq(Seq(Bytes \ {LF}))
    /\ None \notin AllInputs \cup {Meant(input) : input \in AllInputs}
    /\ None \notin MessageLimits /\ MessageLimits \subseteq Nat
    /\ MaxChunk \in Nat \ {0}

VARIABLES
    mode,           \* the state machine of the parser
    terminator,     \* self.terminator
    data,           \* self.data
    maximum,        \* self._maximum_message_size
    policyLimit,    \* what max_message_size() answers
    connected,      \* the worker still reads from the connection
    wire,           \* sent by the client and not received yet
    pending,        \* the input the client waits to have answered, or None
    passed          \* history: what the last step passed to the session

vars == <<mode, terminator, data, maximum, policyLimit, connected, wire,
          pending, passed>>

\* ExchangeSpec: the limit new_connection() sets stays, and with it the bodies
\* that are given up in their middle.
FaultyMaximumAfterConstruction(limit) == limit

\* The constructor overwrites what new_connection() has set.
MaximumAfterConstruction(limit) == None

Init ==
    /\ policyLimit \in MessageLimits \cup {None}
    /\ maximum = MaximumAfterConstruction(policyLimit)
    /\ mode = "commands"
    /\ terminator = LineTerminator
    /\ data = <<>>
    /\ connected = TRUE
    /\ wire = <<>>
    /\ pending = None
    /\ passed = None

\* TypeOK: leaving data mode keeps the terminator of bodies.
FaultyTerminatorAfter(m) == IF m = "data" THEN BodyTerminator ELSE terminator

\* The handlers of the mode transitions; the one between the two kinds of
\* lines does not touch the terminator.
TerminatorAfter(m) ==
    IF m = "data" \/ mode = "data" THEN Terminator(m) ELSE terminator

\* Framed: what was passed on stays in self.data.
FaultySwitchTo(m) ==
    mode' = m /\ terminator' = TerminatorAfter(m) /\ UNCHANGED data

SwitchTo(m) == mode' = m /\ terminator' = TerminatorAfter(m) /\ data' = <<>>

Submit(input) ==
    /\ connected /\ pending = None
    /\ pending' = input
    /\ wire' = Encoded(input)
    /\ passed' = None
    /\ UNCHANGED <<mode, terminator, data, maximum, policyLimit, connected>>

IsInputTooBig(s) == maximum # None /\ Len(s) > maximum

(***************************************************************************)
(* The session has dealt with an input.  In data mode it always goes back  *)
(* to commands, before anything else; garbled credentials and a deliverer  *)
(* that fails end the connection (and the worker).                         *)
(***************************************************************************)
NextModes ==
    [m \in Modes |-> IF m = "commands" THEN Modes ELSE {"commands", m} \ {"data"}]

Received(s) ==
    IF IsInputTooBig(s)
    THEN SwitchTo("commands") /\ passed' = None /\ UNCHANGED <<pending, connected>>
    ELSE IF ~Occurs(terminator, s)
    THEN data' = s /\ passed' = None /\ UNCHANGED <<mode, terminator, pending, connected>>
    ELSE LET input == SubSeq(s, 1, Len(s) - Len(terminator))
         IN  /\ passed' = [mode |-> mode, text |->
                   IF mode = "data" THEN WithoutTransparency(input) ELSE input]
             /\ \E m \in NextModes[mode] : SwitchTo(m)
             /\ pending' = None
             /\ connected' \in BOOLEAN

\* recv() returned n bytes.
Recv(n) ==
    LET piece == SubSeq(wire, 1, n)
    IN  /\ connected
        /\ n <= Len(wire)
        /\ wire' = SubSeq(wire, n + 1, Len(wire))
        /\ UNCHANGED <<maximum, policyLimit>>
        /\ IF \E i \in 1..n : piece[i] \in Undecodable
           THEN /\ connected' = FALSE
                /\ passed' = None
                /\ UNCHANGED <<mode, terminator, data, pending>>
           ELSE Received(data \o piece)

\* recv() failed or returned nothing.
Disconnect ==
    /\ connected = TRUE
    /\ connected' = FALSE
    /\ passed' = None
    /\ UNCHANGED <<mode, terminator, data, maximum, policyLimit, wire, pending>>

Ended == ~connected /\ UNCHANGED vars

Receive == \E n \in 1..MaxChunk : Recv(n)

Next ==
    \/ \E input \in InputsIn(mode) : Submit(input)
    \/ Receive
    \/ Disconnect
    \/ Ended

Spec == Init /\ [][Next]_vars

\* The network delivers what was sent.
FairSpec == Spec /\ WF_vars(Receive)

-----------------------------------------------------------------------------

TypeOK ==
    /\ mode \in Modes
    /\ terminator = Terminator(mode)
    /\ data \in Seq(Bytes) /\ wire \in Seq(Bytes)
    /\ {maximum, policyLimit} \subseteq MessageLimits \cup {None}
    /\ connected \in BOOLEAN
    /\ pending \in AllInputs \cup {None}
    /\ passed # None => passed.text \in Seq(Bytes)

(***************************************************************************)
(* However recv() cuts the input, what is buffered and what is still to    *)
(* come are together the input the client waits to have answered, and the  *)
(* parser expects the kind of input it is; between inputs nothing is left  *)
(* over that the next one could be mistaken for a part of.                 *)
(***************************************************************************)
Framed ==
    connected =>
        /\ pending # None => pending.mode = mode
        /\ data \o wire = IF pending = None THEN <<>> ELSE Encoded(pending)

(***************************************************************************)
(* A client that waits for each answer has every line and every message    *)
(* passed to the session once, in order and without a change, and waits    *)
(* for no answer for ever.                                                 *)
(***************************************************************************)
Exchanges ==
    INSTANCE Exchange
       WITH Inputs <- {Meant(input) : input \in AllInputs},
            pending <- IF pending = None THEN None ELSE Meant(pending)

ExchangeSpec == Exchanges!FairSpec

(***************************************************************************)
(* 'Enter message, ending with "." on a line by itself': a message without *)
(* any line ends with such a line, too, but has no line break before it,   *)
(* so its end is not recognised.                                           *)
(***************************************************************************)
NoMessage == [mode |-> "data", text |-> <<>>]

LoneDotEndsMessage == pending = NoMessage ~> (pending = None \/ ~connected)

=============================================================================
