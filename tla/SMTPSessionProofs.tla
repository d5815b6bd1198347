-------------------------- MODULE SMTPSessionProofs --------------------------
(***************************************************************************)
(* Proofs about SMTPSession, for every choice of its constants.            *)
(*                                                                         *)
(*   TypeCorrect         every variable keeps its type;                    *)
(*   SessionInvariant    Inv, which holds what NoStaleEnvelope,            *)
(*                       EnvelopeComplete, ModesAgree and AuthenticUser    *)
(*                       need of each other, is inductive given TypeOK;    *)
(*   Refinement          every step of a session is a step of              *)
(*                       MailTransaction or changes nothing of it.         *)
(*                                                                         *)
(* The lemmas come first: what the two transition tables say, then what a  *)
(* handler's reply, its message and its step of the state machine can be.  *)
(***************************************************************************)
EXTENDS SMTPSessionProperties, TLAPS

\* The states named by the calls of _add_state().

States == {"new", "greeted", "initialized", "authenticated", "sender_known",
           "recipient_known", "receiving_message", "finished"}

\* The fields of a row that add() stores without operations or condition.
LEMMA ArcFields ==
  \A from, action, to :
    /\ Arc(from, action, to).from = from
    /\ Arc(from, action, to).action = action
    /\ Arc(from, action, to).to = to
    /\ Arc(from, action, to).sets = {}
  BY DEF Arc

\* What _build_state_machine() says of each command, one case per call of
\* _add_state().
LEMMA CoreRows ==
  ASSUME NEW row \in CoreTransitions
  PROVE  /\ row.from \in States \ {"finished"}
         /\ row.to \in States \ {"finished"}
         /\ row.sets \subseteq {"esmtp"}
         /\ row.action = "GREET" => row.from = "new" /\ row.to = "greeted"
         /\ row.action \in {"HELO", "EHLO"} =>
              row.from = "greeted" /\ row.to = "initialized"
         /\ row.action = "AUTH PLAIN" =>
              /\ row.from = "initialized" /\ row.to = "authenticated"
              /\ row.ifSet = {"esmtp"}
         /\ row.action = "AUTH LOGIN" =>
              /\ row.from \in {"initialized", "authenticated"}
              /\ row.to = "authenticated"
              /\ row.from = "initialized" => row.ifSet = {"esmtp"}
         /\ row.action = "MAIL FROM" =>
              row.from \in {"initialized", "authenticated"} /\ row.to = "sender_known"
         /\ row.action = "RCPT TO" =>
              row.from \in {"sender_known", "recipient_known"} /\ row.to = "recipient_known"
         /\ row.action = "DATA" =>
              row.from = "recipient_known" /\ row.to = "receiving_message"
         /\ row.action = "MSGDATA" =>
              row.from = "receiving_message" /\ row.to = "initialized"
         /\ row.action \notin {"NOOP", "HELP", "QUIT", "RSET"}
<1>1. CASE row = Arc("new", "GREET", "greeted")
  BY <1>1 DEF Arc, States
<1>2. CASE row = Arc("greeted", "HELO", "initialized")
  BY <1>2 DEF Arc, States
<1>3. CASE row = Setting("esmtp", Arc("greeted", "EHLO", "initialized"))
  BY <1>3 DEF Arc, Setting, States
<1>4. CASE row = Arc("initialized", "MAIL FROM", "sender_known")
  BY <1>4 DEF Arc, States
<1>5. CASE row = IfSet("esmtp", Arc("initialized", "AUTH PLAIN", "authenticated"))
  BY <1>5 DEF Arc, IfSet, States
<1>6. CASE row = IfSet("esmtp", Arc("initialized", "AUTH LOGIN", "authenticated"))
  BY <1>6 DEF Arc, IfSet, States
<1>7. CASE row = Arc("authenticated", "AUTH LOGIN", "authenticated")
  BY <1>7 DEF Arc, States
<1>8. CASE row = Arc("authenticated", "MAIL FROM", "sender_known")
  BY <1>8 DEF Arc, States
<1>9. CASE row = Arc("sender_known", "RCPT TO", "recipient_known")
  BY <1>9 DEF Arc, States
<1>10. CASE row = Arc("recipient_known", "RCPT TO", "recipient_known")
  BY <1>10 DEF Arc, States
<1>11. CASE row = Arc("recipient_known", "DATA", "receiving_message")
  BY <1>11 DEF Arc, States
<1>12. CASE row = Arc("receiving_message", "MSGDATA", "initialized")
  BY <1>12 DEF Arc, States
<1>13. QED
  BY <1>1, <1>2, <1>3, <1>4, <1>5, <1>6, <1>7, <1>8, <1>9, <1>10, <1>11, <1>12 DEF CoreTransitions

\* Where the rows for the commands allowed in many states lead: NOOP and HELP
\* back, QUIT to "finished", RSET to "initialized" or "new".
LEMMA RowForms ==
  ASSUME NEW row \in SessionTransitions
  PROVE  \/ row \in CoreTransitions
         \/ \E s \in States \ {"new", "finished"} :
              row \in {Arc(s, "NOOP", s), Arc(s, "HELP", s), Arc(s, "QUIT", "finished")}
         \/ \E s \in States \ {"finished"} :
              row = Arc(s, "RSET", IF s = "new" THEN "new" ELSE "initialized")
<1> DEFINE More == HelpNoopAndQuitTransitions(CoreTransitions)
<1>1. ASSUME NEW r \in More
      PROVE  \E s \in States \ {"new", "finished"} :
              r \in {Arc(s, "NOOP", s), Arc(s, "HELP", s), Arc(s, "QUIT", "finished")}
  BY CoreRows DEF HelpNoopAndQuitTransitions, KnownStates, NonFinalStates, States
<1>2. ASSUME NEW r \in CoreTransitions \cup More
      PROVE  r.from \in States \ {"finished"}
  <2>1. CASE r \in CoreTransitions
    BY <2>1, CoreRows
  <2>2. CASE r \in More
    <3>1. PICK s \in States \ {"new", "finished"} :
            r \in {Arc(s, "NOOP", s), Arc(s, "HELP", s), Arc(s, "QUIT", "finished")}
      BY <1>1, <2>2
    <3>2. QED
      BY <3>1, ArcFields
  <2>3. QED
    BY <2>1, <2>2
<1>3. ASSUME NEW r \in RsetTransitions(CoreTransitions \cup More)
      PROVE  \E s \in States \ {"finished"} :
               r = Arc(s, "RSET", IF s = "new" THEN "new" ELSE "initialized")
  BY <1>2 DEF RsetTransitions, NonFinalStates
<1>4. SessionTransitions =
        CoreTransitions \cup More \cup RsetTransitions(CoreTransitions \cup More)
  BY DEF SessionTransitions
<1> HIDE DEF More
<1>5. QED
  BY <1>1, <1>3, <1>4

\* known_states() of the session's machine are the eight states.
LEMMA MachineStates == KnownStates(SessionTransitions) = States
<1> DEFINE More == HelpNoopAndQuitTransitions(CoreTransitions)
<1>1. CoreTransitions \cup More \subseteq SessionTransitions
  BY DEF SessionTransitions
<1>2. ASSUME NEW row \in SessionTransitions
      PROVE  row.from \in States /\ row.to \in States
  <2>1. CASE row \in CoreTransitions
    BY <2>1, CoreRows
  <2>2. ASSUME NEW s \in States \ {"new", "finished"},
               row \in {Arc(s, "NOOP", s), Arc(s, "HELP", s), Arc(s, "QUIT", "finished")}
        PROVE  row.from \in States /\ row.to \in States
    BY <2>2, ArcFields DEF States
  <2>3. ASSUME NEW s \in States \ {"finished"},
               row = Arc(s, "RSET", IF s = "new" THEN "new" ELSE "initialized")
        PROVE  row.from \in States /\ row.to \in States
    BY <2>3, ArcFields DEF States
  <2>4. QED
    BY RowForms, <2>1, <2>2, <2>3
<1>3. /\ Arc("new", "GREET", "greeted") \in SessionTransitions
      /\ Arc("greeted", "HELO", "initialized") \in SessionTransitions
      /\ Arc("initialized", "MAIL FROM", "sender_known") \in SessionTransitions
      /\ Arc("authenticated", "MAIL FROM", "sender_known") \in SessionTransitions
      /\ Arc("sender_known", "RCPT TO", "recipient_known") \in SessionTransitions
      /\ Arc("recipient_known", "DATA", "receiving_message") \in SessionTransitions
  BY <1>1 DEF CoreTransitions
<1>4. Arc("greeted", "QUIT", "finished") \in SessionTransitions
  <2>1. Arc("greeted", "HELO", "initialized").from \in KnownStates(CoreTransitions)
    BY DEF KnownStates, NonFinalStates, CoreTransitions
  <2>2. "greeted" \in KnownStates(CoreTransitions) \ {"new", "finished"}
    BY <2>1, ArcFields
  <2>3. Arc("greeted", "QUIT", "finished") \in More
    BY <2>2 DEF HelpNoopAndQuitTransitions
  <2>4. QED
    BY <1>1, <2>3
<1>5. \A s \in States : s \in KnownStates(SessionTransitions)
  <2>1. \A row \in SessionTransitions :
          row.from \in KnownStates(SessionTransitions) /\ row.to \in KnownStates(SessionTransitions)
    BY DEF KnownStates, NonFinalStates
  <2>2. \A from, action, to :
          Arc(from, action, to) \in SessionTransitions =>
            from \in KnownStates(SessionTransitions) /\ to \in KnownStates(SessionTransitions)
    BY <2>1, ArcFields
  <2>3. QED
    BY <2>2, <1>3, <1>4 DEF States
<1>6. KnownStates(SessionTransitions) \subseteq States
  BY <1>2 DEF KnownStates, NonFinalStates
<1>7. QED
  BY <1>5, <1>6

\* known_states() of the parser's machine are the three input modes.
LEMMA ModeStates == KnownStates(ModeTransitions) = {"commands", "auth_login", "data"}
<1>1. \A row \in ModeTransitions :
        /\ row.from \in {"commands", "auth_login", "data"}
        /\ row.to \in {"commands", "auth_login", "data"}
  BY ArcFields DEF ModeTransitions
<1>2. /\ Arc("commands", "AUTH_LOGIN", "auth_login") \in ModeTransitions
      /\ Arc("commands", "DATA", "data") \in ModeTransitions
  BY DEF ModeTransitions
<1>3. \A row \in ModeTransitions :
        row.from \in KnownStates(ModeTransitions) /\ row.to \in KnownStates(ModeTransitions)
  BY DEF KnownStates, NonFinalStates
<1>4. {"commands", "auth_login", "data"} \subseteq KnownStates(ModeTransitions)
  BY <1>2, <1>3, ArcFields
<1>5. QED
  BY <1>1, <1>4 DEF KnownStates, NonFinalStates

(***************************************************************************)
(* What executing a command means for the state and the flags.             *)
(***************************************************************************)
LEMMA Execution ==
  ASSUME flags \subseteq {"esmtp"}, NEW command, Machine!Execute(command)
  PROVE  /\ state' \in States
         /\ flags \subseteq flags' /\ flags' \subseteq {"esmtp"}
         /\ command = "GREET" => state = "new" /\ state' = "greeted"
         /\ command \in {"HELO", "EHLO"} => state = "greeted" /\ state' = "initialized"
         /\ command = "AUTH PLAIN" =>
              state = "initialized" /\ state' = "authenticated" /\ "esmtp" \in flags
         /\ command = "AUTH LOGIN" =>
              /\ state' = "authenticated"
              /\ (state = "initialized" /\ "esmtp" \in flags) \/ state = "authenticated"
         /\ command = "MAIL FROM" =>
              state \in {"initialized", "authenticated"} /\ state' = "sender_known"
         /\ command = "RCPT TO" =>
              state \in {"sender_known", "recipient_known"} /\ state' = "recipient_known"
         /\ command = "DATA" => state = "recipient_known" /\ state' = "receiving_message"
         /\ command = "MSGDATA" => state = "receiving_message" /\ state' = "initialized"
         /\ command \in {"NOOP", "HELP"} => state' = state
         /\ command = "QUIT" => state' = "finished"
         /\ command = "RSET" => state' \in {"new", "initialized"}
<1>1. PICK row \in SessionTransitions :
        /\ row.from = state /\ row.action = command /\ row.to = state'
        /\ row.ifSet \subseteq flags
        /\ flags' = flags \cup row.sets
  BY DEF Machine!Execute, Machine!Available, Machine!IsConditionSatisfied
<1>2. CASE row \in CoreTransitions
  BY <1>1, <1>2, CoreRows
<1>3. ASSUME NEW s \in States \ {"new", "finished"}, row = Arc(s, "NOOP", s)
      PROVE  command = "NOOP" /\ state' = state /\ state \in States /\ flags' = flags
  BY <1>1, <1>3, ArcFields
<1>4. ASSUME NEW s \in States \ {"new", "finished"}, row = Arc(s, "HELP", s)
      PROVE  command = "HELP" /\ state' = state /\ state \in States /\ flags' = flags
  BY <1>1, <1>4, ArcFields
<1>5. ASSUME NEW s \in States \ {"new", "finished"}, row = Arc(s, "QUIT", "finished")
      PROVE  command = "QUIT" /\ state' = "finished" /\ flags' = flags
  BY <1>1, <1>5, ArcFields
<1>6. ASSUME NEW s \in States \ {"finished"},
             row = Arc(s, "RSET", IF s = "new" THEN "new" ELSE "initialized")
      PROVE  command = "RSET" /\ state' \in {"new", "initialized"} /\ flags' = flags
  BY <1>1, <1>6, ArcFields
<1>7. QED
  BY <1>2, <1>3, <1>4, <1>5, <1>6, RowForms DEF States

\* What the three switch_to_..._mode() methods of the parser do.
LEMMA ModeSwitches ==
  /\ SwitchToCommandMode => mode' = "commands"
  /\ SwitchToAuthLoginMode => mode' = "auth_login"
  /\ SwitchToDataMode => mode' = "data"
<1>1. \A row \in ModeTransitions :
        /\ row.action = "COMMAND" => row.to = "commands"
        /\ row.action = "AUTH_LOGIN" => row.to = "auth_login"
        /\ row.action = "DATA" => row.to = "data"
  BY ArcFields DEF ModeTransitions
<1>2. QED
  BY <1>1 DEF SwitchToCommandMode, SwitchToAuthLoginMode, SwitchToDataMode,
              Modes!Execute, Modes!Available

-----------------------------------------------------------------------------
(***************************************************************************)
(* Types.                                                                  *)
(***************************************************************************)

\* The variables every handler sets by the way it ends.
ReplyTypes ==
    /\ closeAfter' \in BOOLEAN
    /\ open' \in BOOLEAN
    /\ replies' \in Seq(Codes)
    /\ escaped' \in Exceptions \cup {None}

\* Every verdict of a policy is a decision with its four parts.
LEMMA VerdictType == Verdicts \subseteq Decisions
<1>1. [accept |-> TRUE, reply |-> "none", before |-> FALSE, after |-> FALSE] \in Decisions
  BY Zenon DEF Decisions
<1>2. QED
  BY <1>1 DEF Verdicts

\* A sequence of one element.
LEMMA OneElement == ASSUME NEW S, NEW e \in S PROVE <<e>> \in Seq(S)
  OBVIOUS

\* The reply of a policy is one of the codes.
LEMMA CustomReplyType ==
  ASSUME NEW d \in Decisions, HasReply(d)
  PROVE  <<d.reply>> \in Seq(Codes)
<1>1. d.reply \in Codes
  BY DEF Codes, HasReply, Decisions
<1>2. QED
  BY <1>1, OneElement, Zenon

\* What a verdict makes a handler write is a sequence of codes.
LEMMA ResponseType ==
  ASSUME NEW d \in Decisions, NEW code \in Codes
  PROVE  Response(d, code) \in Seq(Codes)
<1>1. HasReply(d) => <<d.reply>> \in Seq(Codes)
  BY CustomReplyType
<1>2. <<code>> \in Seq(Codes)
  BY OneElement, Zenon
<1>3. <<>> \in Seq(Codes)
  OBVIOUS
<1>4. QED
  BY <1>1, <1>2, <1>3, Zenon DEF Response

\* A handler that just replies leaves the reply variables typed.
LEMMA AnswerTypes ==
  ASSUME TypeOK, NEW code \in Codes, Answer(code), closeAfter' \in BOOLEAN
  PROVE  ReplyTypes
  BY OneElement DEF Answer, ReplyTypes

\* handle_input() around a handler that just replies keeps them typed.
LEMMA SayTypes ==
  ASSUME TypeOK, NEW code \in Codes, Say(code)
  PROVE  ReplyTypes
  BY AnswerTypes DEF Say

\* handle_input() around a handler with a verdict keeps them typed.
LEMMA RespondTypes ==
  ASSUME TypeOK, NEW d \in Verdicts, NEW code \in Codes, Respond(d, code)
  PROVE  ReplyTypes
<1>1. d \in Decisions
  BY VerdictType
<1>2. replies' \in Seq(Codes)
  BY <1>1, ResponseType DEF Respond
<1>3. closeAfter' \in BOOLEAN
  BY <1>1, Zenon DEF Respond, Decisions
<1>4. open' \in BOOLEAN
  BY Zenon DEF Respond
<1>5. QED
  BY <1>2, <1>3, <1>4 DEF Respond, ReplyTypes

\* The failed assertion of write() keeps them typed.
LEMMA FailureTypes ==
  ASSUME TypeOK, FailToRespond
  PROVE  ReplyTypes
<1>1. <<>> \in Seq(Codes)
  OBVIOUS
<1>2. "AssertionError" \in Exceptions
  BY DEF Exceptions
<1>3. QED
  BY <1>1, <1>2, Zenon DEF FailToRespond, ReplyTypes

\* So does a method of the policy that raises.
LEMMA PolicyFailureTypes ==
  ASSUME TypeOK, PolicyFails
  PROVE  ReplyTypes
<1>1. <<>> \in Seq(Codes)
  OBVIOUS
<1>2. "PolicyError" \in Exceptions
  BY DEF Exceptions
<1>3. open' \in BOOLEAN
  BY DEF PolicyFails, TypeOK
<1>4. QED
  BY <1>1, <1>2, <1>3, Zenon DEF PolicyFails, ReplyTypes

\* A denied command keeps them typed and the session as it is.
LEMMA TurnedDownTypes ==
  ASSUME TypeOK, NEW d \in Verdicts, NEW code \in Codes, TurnedDown(d, code)
  PROVE  ReplyTypes /\ UNCHANGED session
<1>1. CASE FailToRespond
  BY <1>1, FailureTypes DEF TurnedDown
<1>2. CASE Respond(d, code)
  BY <1>2, RespondTypes DEF TurnedDown
<1>3. CASE PolicyFails
  BY <1>3, PolicyFailureTypes DEF TurnedDown
<1>4. QED
  BY <1>1, <1>2, <1>3 DEF TurnedDown

\* Each assignment of the handlers to an attribute of the message makes a
\* message.
LEMMA MessageTypes ==
  ASSUME NEW helo \in HeloNames \cup {None}, NEW user \in Users \cup {None},
         NEW m \in Messages
  PROVE  /\ NewMessage(helo, user) \in Messages
         /\ CopyBasicSettings(m) \in Messages
         /\ ResetMessage(m) \in Messages
         /\ \A size \in Nat : Parcel(m, size) \in Parcels
         /\ ForgetPending(m) \in Messages
         /\ [m EXCEPT !.pending = user] \in Messages
         /\ [m EXCEPT !.helo = helo] \in Messages
         /\ \A correct \in BOOLEAN : LoggedIn(m, user, correct) \in Messages
         /\ \A from \in Senders : [m EXCEPT !.from = from] \in Messages
         /\ \A to \in Recipients : [m EXCEPT !.to = Append(m.to, to)] \in Messages
<1>1. \A h \in HeloNames \cup {None}, u \in Users \cup {None} : NewMessage(h, u) \in Messages
  BY DEF NewMessage, Messages
<1>2. CopyBasicSettings(m) \in Messages /\ ResetMessage(m) \in Messages
  BY <1>1 DEF CopyBasicSettings, ResetMessage, Messages
<1>3. \A size \in Nat : Parcel(m, size) \in Parcels
  BY DEF Parcel, Parcels, Messages
<1>4. ForgetPending(m) \in Messages /\ [m EXCEPT !.pending = user] \in Messages
  BY DEF ForgetPending, Messages
<1>5. [m EXCEPT !.helo = helo] \in Messages
  BY DEF Messages
<1>6. \A correct \in BOOLEAN : LoggedIn(m, user, correct) \in Messages
  BY DEF LoggedIn, Messages
<1>7. \A from \in Senders : [m EXCEPT !.from = from] \in Messages
  BY DEF Messages
<1>8. \A to \in Recipients : [m EXCEPT !.to = Append(m.to, to)] \in Messages
  BY DEF Messages
<1>9. QED
  BY <1>1, <1>2, <1>3, <1>4, <1>5, <1>6, <1>7, <1>8

\* A message object is never None.
LEMMA NoMessageIsNone == \A m \in Messages : m # None
  BY NoneAssumption

\* What is left alone when one attribute of a message is set.
SameEnvelope(m, n) == n.from = m.from /\ n.to = m.to /\ n.username = m.username

\* helo and the pending user name are no part of the envelope; the sender,
\* the recipients and the user are set one at a time.
LEMMA UpdatedFields ==
  ASSUME NEW m \in Messages, NEW v
  PROVE  /\ SameEnvelope(m, [m EXCEPT !.helo = v])
         /\ SameEnvelope(m, [m EXCEPT !.pending = v])
         /\ [m EXCEPT !.from = v].from = v
         /\ [m EXCEPT !.from = v].to = m.to
         /\ [m EXCEPT !.from = v].username = m.username
         /\ [m EXCEPT !.to = v].from = m.from
         /\ [m EXCEPT !.to = v].to = v
         /\ [m EXCEPT !.to = v].username = m.username
  BY DEF Messages, SameEnvelope

\* A message is a record and None is none.
LEMMA ServedMessage ==
  ASSUME TypeOK, Serving
  PROVE  message \in Messages
  BY DEF TypeOK, Serving

\* TypeOK always holds: no handler leaves a variable of the wrong type.
THEOREM TypeCorrect == Spec => []TypeOK
<1>1. Init => TypeOK
  <2>1. "new" \in KnownStates(SessionTransitions)
    BY MachineStates DEF States
  <2>2. "commands" \in KnownStates(ModeTransitions)
    BY ModeStates
  <2>3. <<>> \in Seq(Codes)
    OBVIOUS
  <2>4. QED
    BY <2>1, <2>2, <2>3, Zenon DEF Init, TypeOK
<1>2. TypeOK /\ [Next]_vars => TypeOK'
  <2> SUFFICES ASSUME TypeOK, [Next]_vars
               PROVE  TypeOK'
    OBVIOUS
  <2> DEFINE SessionTypes == state' \in States /\ flags' \subseteq {"esmtp"} /\ message' \in Messages \cup {None}
             OtherTypes == /\ mode' \in {"commands", "auth_login", "data"}
                           /\ handed' \in Parcels \cup {None}
                           /\ verified' \subseteq Users
                           /\ config' = config
  <2>1. state \in States /\ flags \subseteq {"esmtp"} /\ message \in Messages \cup {None}
    BY MachineStates DEF TypeOK
  <2>2. mode \in {"commands", "auth_login", "data"} /\ handed \in Parcels \cup {None}
        /\ verified \subseteq Users
    BY ModeStates DEF TypeOK
  <2>3. ReplyTypes /\ SessionTypes /\ OtherTypes => TypeOK'
    BY MachineStates, ModeStates DEF TypeOK, ReplyTypes
  <2>4. UNCHANGED session => SessionTypes
    BY <2>1 DEF session
  <2>5. Ordinary => OtherTypes
    BY <2>2 DEF Ordinary
  <2>6. \A command : Machine!Execute(command) => state' \in States /\ flags' \subseteq {"esmtp"}
    BY <2>1, Execution
  <2>7. ASSUME NEW code \in Codes, Refuse(code)
        PROVE  ReplyTypes /\ SessionTypes
    BY <2>4, <2>7, SayTypes DEF Refuse
  <2>8. Malformed => ReplyTypes /\ SessionTypes
    BY <2>7 DEF Malformed, Codes
  <2>9. ASSUME NEW d \in Verdicts, TurnedDown(d, "550")
        PROVE  ReplyTypes /\ SessionTypes
    BY <2>4, <2>9, TurnedDownTypes DEF Codes
  <2>10. CASE UNCHANGED vars
    BY <2>10 DEF vars, TypeOK
  <2>11. CASE NewConnection
    <3>1. message' \in Messages
      BY <2>11, MessageTypes DEF NewConnection, NewMessage, Messages
    <3>2. PICK d \in Verdicts :
            \/ PolicyFails /\ UNCHANGED <<state, flags>>
            \/ WritesAfterClose(d) /\ FailToRespond /\ UNCHANGED <<state, flags>>
            \/ Approves(d) /\ ~ResponseSent(d) /\ Say("220") /\ Machine!Execute("GREET")
            \/ /\ closeAfter' = d.after
               /\ replies' = Response(d, "554")
               /\ open' \in {FALSE, d.accept /\ ~d.before}
               /\ escaped' = None
               /\ UNCHANGED <<state, flags>>
      BY <2>11 DEF NewConnection
    <3>3. CASE (FailToRespond \/ PolicyFails) /\ UNCHANGED <<state, flags>>
      <4>1. ReplyTypes
        BY <3>3, FailureTypes, PolicyFailureTypes
      <4>2. QED
        BY <2>1, <2>3, <2>5, <2>11, <3>1, <3>3, <4>1 DEF NewConnection
    <3>4. CASE Say("220") /\ Machine!Execute("GREET")
      <4>1. ReplyTypes
        BY <3>4, SayTypes DEF Codes
      <4>2. QED
        BY <4>1, <2>3, <2>5, <2>6, <2>11, <3>1, <3>4 DEF NewConnection
    <3>5. CASE /\ closeAfter' = d.after
               /\ replies' = Response(d, "554")
               /\ open' \in {FALSE, d.accept /\ ~d.before}
               /\ escaped' = None
               /\ UNCHANGED <<state, flags>>
      <4>1. d \in Decisions
        BY VerdictType
      <4>2. replies' \in Seq(Codes)
        BY <3>5, <4>1, ResponseType DEF Codes
      <4>3. closeAfter' \in BOOLEAN
        BY <3>5, <4>1, Zenon DEF Decisions
      <4>4. open' \in BOOLEAN
        BY <3>5, Zenon
      <4>5. ReplyTypes
        BY <3>5, <4>2, <4>3, <4>4 DEF ReplyTypes
      <4>6. QED
        BY <4>5, <2>1, <2>3, <2>5, <2>11, <3>1, <3>5 DEF NewConnection
    <3>6. QED
      BY <3>2, <3>3, <3>4, <3>5
  <2>12. CASE Disconnect
    <3>1. <<>> \in Seq(Codes)
      OBVIOUS
    <3>2. ReplyTypes
      BY <2>12, <3>1, Zenon DEF Disconnect, ReplyTypes, TypeOK
    <3>3. QED
      BY <2>12, <3>2, <2>3, <2>4, <2>5 DEF Disconnect, session
  <2>13. CASE Ended
    BY <2>13, <2>10 DEF Ended
  <2>14. CASE UnknownCommand
    BY <2>14, <2>3, <2>5, <2>7 DEF UnknownCommand, Codes
  <2>15. CASE CommandNotAllowed
    BY <2>15, <2>3, <2>5, <2>7 DEF CommandNotAllowed, Codes
  <2>16. ASSUME NEW command, NEW code \in Codes, Say(code),
                Machine!Execute(command), UNCHANGED message, Ordinary
         PROVE  TypeOK'
    BY <2>16, <2>1, <2>3, <2>5, <2>6, SayTypes
  <2>17. CASE Greet
    BY <2>17, <2>16 DEF Greet, Codes
  <2>18. CASE Noop
    BY <2>18, <2>16, <2>8, <2>3, <2>5 DEF Noop, Codes
  <2>19. CASE Help
    BY <2>19, <2>16 DEF Help, Codes
  <2>20. CASE Quit
    <3>1. CASE Malformed
      BY <2>20, <3>1, <2>3, <2>5, <2>8 DEF Quit
    <3>2. CASE Machine!Execute("QUIT") /\ replies' = <<"221">> /\ open' = FALSE
               /\ closeAfter' = FALSE /\ escaped' = None
      <4>1. <<"221">> \in Seq(Codes)
        BY OneElement DEF Codes
      <4>2. ReplyTypes
        BY <3>2, <4>1, Zenon DEF ReplyTypes
      <4>3. QED
        BY <2>20, <3>2, <4>2, <2>1, <2>3, <2>5, <2>6 DEF Quit
    <3>3. QED
      BY <2>20, <3>1, <3>2 DEF Quit
  <2>21. CASE Rset
    <3>1. CASE Malformed
      BY <2>21, <3>1, <2>3, <2>5, <2>8 DEF Rset
    <3>2. CASE /\ message' = ResetMessage(message)
               /\ Say("250") /\ Machine!Execute("RSET")
      <4>1. message' \in Messages
        BY <2>21, <3>2, ServedMessage, MessageTypes DEF Rset, Ready, Submitted
      <4>2. ReplyTypes
        BY <3>2, SayTypes DEF Codes
      <4>3. QED
        BY <2>21, <3>2, <4>1, <4>2, <2>3, <2>5, <2>6 DEF Rset
    <3>3. QED
      BY <2>21, <3>1, <3>2 DEF Rset
  <2>22. ASSUME NEW command, NEW d \in Verdicts, NEW code \in Codes,
                Respond(d, code), Machine!Execute(command),
                message' \in Messages, Ordinary
         PROVE  TypeOK'
    BY <2>22, <2>3, <2>5, <2>6, RespondTypes
  <2>23. ASSUME NEW command, NEW name \in HeloNames, HeloOrEhlo(command, name)
         PROVE  TypeOK'
    <3>1. CASE Malformed
      BY <2>23, <3>1, <2>3, <2>5, <2>8 DEF HeloOrEhlo
    <3>2. ASSUME NEW d \in Verdicts, TurnedDown(d, "550")
          PROVE  TypeOK'
      BY <2>23, <3>2, <2>3, <2>5, <2>9 DEF HeloOrEhlo
    <3>3. ASSUME NEW d \in Verdicts, message' = [message EXCEPT !.helo = name],
                 Respond(d, "250"), Machine!Execute(command)
          PROVE  TypeOK'
      <4>1. message' \in Messages
        BY <2>23, <3>3, ServedMessage, MessageTypes DEF HeloOrEhlo, Ready, Submitted
      <4>2. QED
        BY <2>23, <3>3, <4>1, <2>22 DEF HeloOrEhlo, Codes
    <3>4. QED
      BY <2>23, <3>1, <3>2, <3>3 DEF HeloOrEhlo
  <2>24. CASE Helo \/ Ehlo
    BY <2>24, <2>23 DEF Helo, Ehlo
  <2>25. ASSUME NEW sender \in Senders, NEW size, MailFrom(sender, size)
         PROVE  TypeOK'
    <3>1. CASE Malformed
      BY <2>25, <3>1, <2>3, <2>5, <2>8 DEF MailFrom
    <3>2. CASE Refuse("552")
      BY <2>25, <3>2, <2>3, <2>5, <2>7 DEF MailFrom, Codes
    <3>3. ASSUME NEW d \in Verdicts, TurnedDown(d, "550")
          PROVE  TypeOK'
      BY <2>25, <3>3, <2>3, <2>5, <2>9 DEF MailFrom
    <3>4. ASSUME NEW d \in Verdicts, message' = [message EXCEPT !.from = sender],
                 Respond(d, "250"), Machine!Execute("MAIL FROM")
          PROVE  TypeOK'
      <4>1. message' \in Messages
        BY <2>25, <3>4, ServedMessage, MessageTypes DEF MailFrom, Ready, Submitted
      <4>2. QED
        BY <2>25, <3>4, <4>1, <2>22 DEF MailFrom, Codes
    <3>5. QED
      BY <2>25, <3>1, <3>2, <3>3, <3>4 DEF MailFrom
  <2>26. ASSUME NEW recipient \in Recipients, RcptTo(recipient)
         PROVE  TypeOK'
    <3>1. CASE Malformed
      BY <2>26, <3>1, <2>3, <2>5, <2>8 DEF RcptTo
    <3>2. ASSUME NEW d \in Verdicts, TurnedDown(d, "550")
          PROVE  TypeOK'
      BY <2>26, <3>2, <2>3, <2>5, <2>9 DEF RcptTo
    <3>3. ASSUME NEW d \in Verdicts,
                 message' = [message EXCEPT !.to = Append(message.to, recipient)],
                 Respond(d, "250"), Machine!Execute("RCPT TO")
          PROVE  TypeOK'
      <4>1. message' \in Messages
        BY <2>26, <3>3, ServedMessage, MessageTypes DEF RcptTo, Ready, Submitted
      <4>2. QED
        BY <2>26, <3>3, <4>1, <2>22 DEF RcptTo, Codes
    <3>4. QED
      BY <2>26, <3>1, <3>2, <3>3 DEF RcptTo
  <2>27. ASSUME NEW m \in Messages, NEW user \in Users \cup {None}, CheckPassword(m, user),
                user # None
         PROVE  /\ message' \in Messages /\ verified' \subseteq Users
                /\ replies' \in Seq(Codes)
    <3>1. PICK correct \in BOOLEAN :
            /\ message' = LoggedIn(m, user, correct)
            /\ verified' = IF correct THEN verified \cup {user} ELSE verified
            /\ replies' = <<IF correct THEN "235" ELSE "535">>
      BY <2>27 DEF CheckPassword
    <3>2. <<"235">> \in Seq(Codes) /\ <<"535">> \in Seq(Codes)
      BY OneElement DEF Codes
    <3>3. message' \in Messages
      BY <3>1, MessageTypes
    <3>4. verified' \subseteq Users
      BY <3>1, <2>2, <2>27
    <3>5. QED
      BY <3>1, <3>2, <3>3, <3>4
  <2>27a. ASSUME AuthenticatorFails, closeAfter' \in BOOLEAN, open' \in BOOLEAN
          PROVE  ReplyTypes
    <3>1. <<>> \in Seq(Codes)
      OBVIOUS
    <3>2. "AuthenticatorError" \in Exceptions
      BY DEF Exceptions
    <3>3. QED
      BY <2>27a, <3>1, <3>2, Zenon DEF AuthenticatorFails, ReplyTypes
  <2>28. ASSUME NEW user \in Users, AuthPlain(user)
         PROVE  TypeOK'
    <3>1. UNCHANGED verified => OtherTypes
      BY <2>28, <2>2 DEF AuthPlain
    <3>2. CASE Refuse("535") /\ UNCHANGED verified
      BY <3>1, <3>2, <2>3, <2>7 DEF Codes
    <3>3. CASE Malformed /\ UNCHANGED verified
      BY <3>1, <3>3, <2>3, <2>8
    <3>4. ASSUME NEW d \in Verdicts, TurnedDown(d, "550"), UNCHANGED verified
          PROVE  TypeOK'
      BY <3>1, <3>4, <2>3, <2>9
    <3>5. ASSUME NEW d \in Verdicts, Respond(d, "235"), Machine!Execute("AUTH PLAIN"),
                 UNCHANGED <<message, verified>>
          PROVE  TypeOK'
      <4>1. ReplyTypes
        BY <3>5, RespondTypes DEF Codes
      <4>2. QED
        BY <4>1, <3>1, <3>5, <2>1, <2>3, <2>6
    <3>6. ASSUME NEW d \in Verdicts, CheckPassword(message, user), closeAfter' = d.after,
                 open' \in {FALSE, ~d.after}, escaped' = None,
                 Machine!Execute("AUTH PLAIN")
          PROVE  TypeOK'
      <4>1. user # None /\ message \in Messages
        BY <2>28, NoneAssumption, ServedMessage DEF AuthPlain, Ready, Submitted
      <4>2. message' \in Messages /\ verified' \subseteq Users /\ replies' \in Seq(Codes)
        BY <4>1, <3>6, <2>27
      <4>3. closeAfter' \in BOOLEAN
        BY <3>6, VerdictType, Zenon DEF Decisions
      <4>4. open' \in BOOLEAN
        BY <3>6, Zenon
      <4>5. ReplyTypes
        BY <3>6, <4>2, <4>3, <4>4 DEF ReplyTypes
      <4>6. OtherTypes
        BY <2>28, <2>2, <4>2 DEF AuthPlain
      <4>7. QED
        BY <3>6, <4>2, <4>5, <4>6, <2>3, <2>6
    <3>7. ASSUME NEW d \in Verdicts, AuthenticatorFails, closeAfter' = d.after,
                 open' = ~d.after, UNCHANGED session
          PROVE  TypeOK'
      <4>1. closeAfter' \in BOOLEAN /\ open' \in BOOLEAN
        BY <3>7, VerdictType, Zenon DEF Decisions
      <4>2. ReplyTypes
        BY <3>7, <4>1, <2>27a
      <4>3. QED
        BY <3>1, <3>7, <4>2, <2>3, <2>4 DEF AuthenticatorFails
    <3>8. QED
      BY <2>28, <3>2, <3>3, <3>4, <3>5, <3>6, <3>7 DEF AuthPlain
  <2>29. ASSUME NEW user \in Users \cup {None}, AuthLogin(user)
         PROVE  TypeOK'
    <3>1. mode' \in {"commands", "auth_login"} => OtherTypes
      BY <2>29, <2>2 DEF AuthLogin
    <3>2. mode = "commands"
      BY <2>29 DEF AuthLogin, Ready, Submitted
    <3>3. CASE Malformed /\ UNCHANGED mode
      BY <3>1, <3>2, <3>3, <2>3, <2>8
    <3>4. ASSUME NEW d \in Verdicts, TurnedDown(d, "550"), UNCHANGED mode
          PROVE  TypeOK'
      BY <3>1, <3>2, <3>4, <2>3, <2>9
    <3>5. ASSUME NEW d \in Verdicts, Machine!Execute("AUTH LOGIN"),
                 Respond(d, IF user = None THEN "334 Username:" ELSE "334 Password:"),
                 IF ResponseSent(d) THEN UNCHANGED <<message, mode>>
                 ELSE /\ SwitchToAuthLoginMode
                      /\ message' = IF user = None THEN message
                                    ELSE [message EXCEPT !.pending = user]
          PROVE  TypeOK'
      <4>1. ReplyTypes
        BY <3>5, RespondTypes DEF Codes
      <4>2. OtherTypes
        BY <3>1, <3>2, <3>5, ModeSwitches
      <4>3. message \in Messages
        BY <2>29, ServedMessage DEF AuthLogin, Ready, Submitted
      <4>4. message' \in Messages
        BY <4>3, <3>5, MessageTypes
      <4>5. QED
        BY <4>1, <4>2, <4>4, <3>5, <2>3, <2>6
    <3>6. QED
      BY <2>29, <3>3, <3>4, <3>5 DEF AuthLogin
  <2>30. CASE GarbledCredentials
    <3>1. <<>> \in Seq(Codes)
      OBVIOUS
    <3>2. {"InvalidDataError", "ValueError"} \subseteq Exceptions
      BY DEF Exceptions
    <3>3. ReplyTypes
      BY <2>30, <3>1, <3>2, Zenon DEF GarbledCredentials, ReplyTypes, TypeOK
    <3>4. QED
      BY <2>30, <3>3, <2>2, <2>3, <2>4 DEF GarbledCredentials, CredentialsExpected, session
  <2>31. ASSUME NEW user \in Users \cup {None}, UsernameLine(user)
         PROVE  TypeOK'
    <3>1. message' \in Messages
      BY <2>31, ServedMessage, MessageTypes DEF UsernameLine, CredentialsExpected
    <3>2. closeAfter' \in BOOLEAN
      BY <2>31, Zenon DEF UsernameLine, TypeOK
    <3>3. ReplyTypes
      BY <2>31, <3>2, AnswerTypes DEF UsernameLine, Codes
    <3>4. QED
      BY <2>31, <3>1, <3>3, <2>1, <2>2, <2>3 DEF UsernameLine, CredentialsExpected
  <2>32. CASE PasswordLine
    <3>1. message \in Messages /\ message.pending \in Users
      BY <2>32, ServedMessage DEF PasswordLine, CredentialsExpected, Messages
    <3>2. ForgetPending(message) \in Messages
      BY <3>1, MessageTypes
    <3>3. CASE CheckPassword(ForgetPending(message), message.pending) /\ escaped' = None
      <4>1. message.pending # None
        BY <2>32 DEF PasswordLine
      <4>2. message' \in Messages /\ verified' \subseteq Users /\ replies' \in Seq(Codes)
        BY <3>1, <3>2, <3>3, <4>1, <2>27
      <4>3. closeAfter' \in BOOLEAN /\ open' \in BOOLEAN
        BY <2>32, Zenon DEF PasswordLine, TypeOK
      <4>4. ReplyTypes
        BY <3>3, <4>2, <4>3 DEF ReplyTypes
      <4>5. OtherTypes
        BY <2>32, <2>2, <4>2, ModeSwitches DEF PasswordLine, CredentialsExpected
      <4>6. QED
        BY <2>32, <4>2, <4>4, <4>5, <2>1, <2>3 DEF PasswordLine
    <3>4. CASE /\ message' = ForgetPending(message)
               /\ replies' = <<"535">>
               /\ escaped' = "InvalidParametersError"
               /\ UNCHANGED verified
      <4>1. <<"535">> \in Seq(Codes) /\ "InvalidParametersError" \in Exceptions
        BY OneElement DEF Codes, Exceptions
      <4>2. closeAfter' \in BOOLEAN /\ open' \in BOOLEAN
        BY <2>32, Zenon DEF PasswordLine, TypeOK
      <4>3. ReplyTypes
        BY <3>4, <4>1, <4>2 DEF ReplyTypes
      <4>4. OtherTypes
        BY <2>32, <3>4, <2>2, ModeSwitches DEF PasswordLine, CredentialsExpected
      <4>5. QED
        BY <2>32, <3>2, <3>4, <4>3, <4>4, <2>1, <2>3 DEF PasswordLine
    <3>5. CASE AuthenticatorFails /\ message' = ForgetPending(message)
      <4>1. closeAfter' \in BOOLEAN /\ open' \in BOOLEAN
        BY <2>32, Zenon DEF PasswordLine, TypeOK
      <4>2. OtherTypes
        BY <2>32, <3>5, <2>2, ModeSwitches DEF PasswordLine, CredentialsExpected, AuthenticatorFails
      <4>3. ReplyTypes
        BY <3>5, <4>1, <2>27a
      <4>4. QED
        BY <2>32, <3>2, <3>5, <4>2, <4>3, <2>1, <2>3 DEF PasswordLine
    <3>6. QED
      BY <2>32, <3>3, <3>4, <3>5 DEF PasswordLine
  <2>33. CASE Credentials
    BY <2>33, <2>30, <2>31, <2>32 DEF Credentials
  <2>34. CASE Data
    <3>1. mode' \in {"commands", "data"} => OtherTypes
      BY <2>34, <2>2 DEF Data
    <3>2. mode = "commands"
      BY <2>34 DEF Data, Ready, Submitted
    <3>3. CASE Malformed /\ UNCHANGED mode
      BY <3>1, <3>2, <3>3, <2>3, <2>8
    <3>4. ASSUME NEW d \in Verdicts, TurnedDown(d, "550"), UNCHANGED mode
          PROVE  TypeOK'
      BY <3>1, <3>2, <3>4, <2>3, <2>9
    <3>5. ASSUME NEW d \in Verdicts, Machine!Execute("DATA"), Respond(d, "354"),
                 IF ResponseSent(d) THEN UNCHANGED mode ELSE SwitchToDataMode,
                 UNCHANGED message
          PROVE  TypeOK'
      <4>1. ReplyTypes
        BY <3>5, RespondTypes DEF Codes
      <4>2. OtherTypes
        BY <3>1, <3>2, <3>5, ModeSwitches
      <4>3. QED
        BY <4>1, <4>2, <3>5, <2>1, <2>3, <2>6
    <3>6. QED
      BY <2>34, <3>3, <3>4, <3>5 DEF Data
  <2>35. ASSUME NEW size \in Sizes, MsgData(size)
         PROVE  TypeOK'
    <3>1. handed' \in Parcels \cup {None} => OtherTypes
      BY <2>35, <2>2, ModeSwitches DEF MsgData
    <3>2. CASE Refuse("552") /\ handed' = None
      BY <3>1, <3>2, <2>3, <2>7 DEF Codes
    <3>3. ASSUME NEW d \in Verdicts, TurnedDown(d, "550"), handed' = None
          PROVE  TypeOK'
      BY <3>1, <3>3, <2>3, <2>9
    <3>4. ASSUME NEW d \in Verdicts, DelivererFails(d)
          PROVE  TypeOK'
      <4>1. replies' \in Seq(Codes)
        <5>1. <<>> \in Seq(Codes)
          OBVIOUS
        <5>2. HasReply(d) => <<d.reply>> \in Seq(Codes)
          BY VerdictType, CustomReplyType
        <5>3. QED
          BY <3>4, <5>1, <5>2, Zenon DEF DelivererFails
      <4>2. closeAfter' \in BOOLEAN
        BY <3>4, VerdictType, Zenon DEF DelivererFails, Decisions
      <4>3. open' \in BOOLEAN
        BY <3>4, Zenon DEF DelivererFails
      <4>4. ReplyTypes
        BY <3>4, <4>1, <4>2, <4>3 DEF ReplyTypes, DelivererFails, Exceptions
      <4>5. QED
        BY <3>4, <4>4, <3>1, <2>3, <2>4 DEF DelivererFails
    <3>5. ASSUME NEW d \in Verdicts, HandOver(d, size)
          PROVE  TypeOK'
      <4>1. message \in Messages /\ size \in Nat
        BY <2>35, SizeAssumption, ServedMessage DEF MsgData, Ready, Submitted, Sizes
      <4>2. message' \in Messages /\ handed' \in Parcels
        BY <3>5, <4>1, MessageTypes DEF HandOver
      <4>3. ReplyTypes
        BY <3>5, RespondTypes DEF HandOver, Codes
      <4>4. QED
        BY <3>5, <4>2, <4>3, <3>1, <2>3, <2>6 DEF HandOver
    <3>6. QED
      BY <2>35, <3>2, <3>3, <3>4, <3>5 DEF MsgData
  <2>36. CASE AuthLoginFails
    <3>1. <<>> \in Seq(Codes)
      OBVIOUS
    <3>2. "ValueError" \in Exceptions
      BY DEF Exceptions
    <3>3. ReplyTypes
      BY <2>36, <3>1, <3>2, Zenon DEF AuthLoginFails, ReplyTypes, TypeOK
    <3>4. QED
      BY <2>36, <3>3, <2>3, <2>4, <2>5 DEF AuthLoginFails
  <2>37. QED
    BY <2>10, <2>11, <2>12, <2>13, <2>14, <2>15, <2>17, <2>18, <2>19, <2>20, <2>21,
       <2>24, <2>25, <2>26, <2>28, <2>29, <2>33, <2>34, <2>35, <2>36 DEF Next
<1>3. QED
  BY <1>1, <1>2, PTL DEF Spec

-----------------------------------------------------------------------------
(***************************************************************************)
(* The inductive invariant: what the states promise, together.             *)
(***************************************************************************)

Inv ==
    /\ ModesAgree
    /\ NoStaleEnvelope
    /\ EnvelopeComplete
    /\ AuthenticUser
    /\ StatesExplained

\* A handler that raised or only replied disturbs nothing, even if it put the
\* parser back to command mode.
LEMMA QuietStep ==
  ASSUME Inv, UNCHANGED session, UNCHANGED verified, handed' = None,
         mode' \in {mode, "commands"}
  PROVE  Inv'
  BY DEF Inv, ModesAgree, NoStaleEnvelope, BetweenMails, EnvelopeComplete, HasEnvelope,
         AuthenticUser, StatesExplained, session

\* A step to a state between two mails whose message is fresh.
LEMMA FreshMessage ==
  ASSUME NEW helo, NEW user, message' = NewMessage(helo, user),
         message' # None,
         user # None => user \in verified' /\ "esmtp" \in flags',
         handed' # None => HasEnvelope(handed') /\ (handed'.username # None => handed'.username \in verified'),
         mode' = "commands",
         state' \in {"new", "greeted", "initialized"}
  PROVE  Inv'
<1>1. message'.from = None /\ message'.to = <<>> /\ message'.username = user
  BY DEF NewMessage
<1>2. QED
  BY <1>1 DEF Inv, ModesAgree, NoStaleEnvelope, BetweenMails, EnvelopeComplete, HasEnvelope,
         AuthenticUser, StatesExplained

(***************************************************************************)
(* The invariant read state by state: the envelope the message has, the    *)
(* user it may name, the modes the parser may be in.                       *)
(***************************************************************************)
EnvelopeFits(s, m) ==
    /\ s \in BetweenMails => m.from = None /\ m.to = <<>>
    /\ s = "sender_known" => m.from # None /\ m.to = <<>>
    /\ s \in {"recipient_known", "receiving_message"} => HasEnvelope(m)

UserFits(f, m, v) == m.username # None => m.username \in v /\ "esmtp" \in f

ModeFits(md, s) ==
    /\ md = "data" => s = "receiving_message"
    /\ md = "auth_login" => s = "authenticated"

\* Inv, said of the current state by the three predicates above.
LEMMA Unfold ==
  ASSUME Inv, message # None
  PROVE  /\ EnvelopeFits(state, message)
         /\ UserFits(flags, message, verified)
         /\ ModeFits(mode, state)
         /\ state = "authenticated" => "esmtp" \in flags
  BY DEF EnvelopeFits, UserFits, ModeFits, Inv, ModesAgree, NoStaleEnvelope, BetweenMails,
         EnvelopeComplete, HasEnvelope, AuthenticUser, StatesExplained

\* The three predicates above give Inv after a step.
LEMMA Fold ==
  ASSUME message' # None, handed' = None,
         EnvelopeFits(state', message'), UserFits(flags', message', verified'),
         ModeFits(mode', state'), state' = "authenticated" => "esmtp" \in flags'
  PROVE  Inv'
  BY DEF EnvelopeFits, UserFits, ModeFits, Inv, ModesAgree, NoStaleEnvelope, BetweenMails,
         EnvelopeComplete, HasEnvelope, AuthenticUser, StatesExplained

\* A user that was approved stays approved.
LEMMA UserKept ==
  ASSUME UserFits(flags, message, verified), message'.username = message.username,
         flags \subseteq flags', verified \subseteq verified'
  PROVE  UserFits(flags', message', verified')
  BY DEF UserFits

\* Inv always holds.  Each handler is checked alone; only those that switch
\* the mode, set a part of the envelope or log in need more than QuietStep or
\* FreshMessage.
THEOREM SessionInvariant == Spec => []Inv
<1>1. Init => Inv
  BY DEF Init, Inv, ModesAgree, NoStaleEnvelope, BetweenMails, EnvelopeComplete, AuthenticUser,
         StatesExplained
<1>2. TypeOK /\ TypeOK' /\ Inv /\ [Next]_vars => Inv'
  <2> SUFFICES ASSUME TypeOK, TypeOK', Inv, [Next]_vars
               PROVE  Inv'
    OBVIOUS
  <2>1. flags \subseteq {"esmtp"}
    BY DEF TypeOK
  <2>2. ASSUME NEW command, Ready(command), command # "MSGDATA"
        PROVE  /\ mode = "commands" /\ message \in Messages /\ message # None
    BY <2>2, ServedMessage DEF Ready, Submitted, Serving
  <2>3. ASSUME Ordinary, UNCHANGED session
        PROVE  Inv'
    BY <2>3, QuietStep DEF Ordinary
  <2>4. \A code : Refuse(code) => UNCHANGED session
    BY DEF Refuse
  <2>5. Malformed => UNCHANGED session
    BY <2>4 DEF Malformed
  <2>6. \A d, code : TurnedDown(d, code) => UNCHANGED session
    BY DEF TurnedDown
  <2>10. CASE UNCHANGED vars
    BY <2>10 DEF vars, Inv, ModesAgree, NoStaleEnvelope, BetweenMails, EnvelopeComplete,
         HasEnvelope, AuthenticUser, StatesExplained
  <2>11. CASE NewConnection
    <3>1. state = "new" /\ mode' = "commands" /\ handed' = None
      BY <2>11 DEF NewConnection, Ordinary, Inv, StatesExplained
    <3>2. state' \in {"new", "greeted"}
      BY <2>1, <2>11, <3>1, Execution DEF NewConnection
    <3>3. message' # None
      <4>1. NewMessage(None, None) \in Messages
        BY DEF NewMessage, Messages
      <4>2. QED
        BY <2>11, <4>1, NoneAssumption DEF NewConnection
    <3>4. QED
      BY <2>11, <3>1, <3>2, <3>3, FreshMessage DEF NewConnection
  <2>12. CASE Disconnect \/ AuthLoginFails
    BY <2>12, <2>3 DEF Disconnect, AuthLoginFails, session
  <2>13. CASE Ended
    BY <2>13, <2>10 DEF Ended
  <2>14. CASE UnknownCommand \/ CommandNotAllowed
    BY <2>14, <2>3, <2>4 DEF UnknownCommand, CommandNotAllowed
  <2>7. ASSUME message # None, message' # None, handed' = None, mode' \in {mode, "commands"},
               mode = "commands", flags \subseteq flags', verified \subseteq verified',
               message'.username = message.username,
               EnvelopeFits(state', message'),
               state' = "authenticated" => state = "authenticated"
        PROVE  Inv'
    BY <2>7, Unfold, Fold, UserKept DEF ModeFits
  <2>15. CASE Greet
    <3>1. state = "new" /\ state' = "greeted" /\ flags \subseteq flags'
      BY <2>1, <2>15, Execution DEF Greet
    <3>2. message # None /\ mode = "commands" /\ message' = message
      BY <2>2, <2>15 DEF Greet
    <3>3. EnvelopeFits(state', message')
      BY <3>1, <3>2, Unfold DEF EnvelopeFits, BetweenMails
    <3>4. QED
      BY <2>7, <2>15, <3>1, <3>2, <3>3 DEF Greet, Ordinary
  <2>16. ASSUME NEW command \in {"NOOP", "HELP", "QUIT"}, Machine!Execute(command),
                UNCHANGED message, message # None, Ordinary, mode = "commands"
         PROVE  Inv'
    <3>1. state' \in {state, "finished"} /\ flags \subseteq flags'
      BY <2>1, <2>16, Execution
    <3>2. EnvelopeFits(state', message')
      BY <2>16, <3>1, Unfold DEF EnvelopeFits, BetweenMails
    <3>3. QED
      BY <2>7, <2>16, <3>1, <3>2 DEF Ordinary
  <2>17. CASE Noop \/ Help \/ Quit
    BY <2>2, <2>3, <2>5, <2>16, <2>17 DEF Noop, Help, Quit
  <2>18. CASE Rset
    <3>1. CASE Malformed
      BY <2>3, <2>5, <2>18, <3>1 DEF Rset
    <3>2. CASE message' = ResetMessage(message) /\ Machine!Execute("RSET")
      <4>1. message' # None
        BY <2>2, <2>18, <3>2, MessageTypes, NoneAssumption DEF Rset
      <4>2. state' \in {"new", "initialized"} /\ mode' = "commands" /\ handed' = None
        BY <2>1, <2>2, <2>18, <3>2, Execution DEF Rset, Ordinary
      <4>3. QED
        BY <3>2, <4>1, <4>2, FreshMessage DEF ResetMessage
    <3>3. QED
      BY <2>18, <3>1, <3>2 DEF Rset
  <2>19. ASSUME NEW command \in {"HELO", "EHLO"}, NEW name \in HeloNames,
                HeloOrEhlo(command, name)
         PROVE  Inv'
    <3>1. ASSUME message' = [message EXCEPT !.helo = name], Machine!Execute(command)
          PROVE  Inv'
      <4>1. message \in Messages /\ mode = "commands" /\ message # None
        BY <2>2, <2>19 DEF HeloOrEhlo
      <4>2. SameEnvelope(message, message') /\ message' # None
        BY <3>1, <4>1, UpdatedFields, MessageTypes, NoMessageIsNone
      <4>3. state = "greeted" /\ state' = "initialized" /\ flags \subseteq flags'
        BY <2>1, <3>1, Execution
      <4>4. EnvelopeFits(state', message')
        BY <4>1, <4>2, <4>3, Unfold DEF EnvelopeFits, BetweenMails, SameEnvelope
      <4>5. QED
        BY <2>7, <2>19, <4>1, <4>2, <4>3, <4>4 DEF HeloOrEhlo, Ordinary, SameEnvelope
    <3>2. QED
      BY <2>3, <2>5, <2>6, <2>19, <3>1 DEF HeloOrEhlo
  <2>20. CASE Helo \/ Ehlo
    BY <2>19, <2>20 DEF Helo, Ehlo
  <2>21. ASSUME NEW m \in Messages, NEW user \in Users, CheckPassword(m, user),
                m.from = message.from, m.to = message.to, m.username = message.username
         PROVE  /\ message' \in Messages /\ message' # None /\ verified \subseteq verified'
                /\ message'.from = message.from /\ message'.to = message.to
                /\ message'.username # message.username => message'.username \in verified'
    <3>1. PICK correct \in BOOLEAN :
            /\ message' = LoggedIn(m, user, correct)
            /\ verified' = IF correct THEN verified \cup {user} ELSE verified
      BY <2>21 DEF CheckPassword
    <3>2. message' \in Messages /\ message' # None
      BY <3>1, MessageTypes, NoneAssumption
    <3>3. QED
      BY <2>21, <3>1, <3>2 DEF LoggedIn, Messages
  <2>22. ASSUME NEW user \in Users, AuthPlain(user)
         PROVE  Inv'
    <3>1. message \in Messages /\ mode = "commands" /\ message # None
      BY <2>2, <2>22 DEF AuthPlain
    <3>2. mode' = mode /\ handed' = None
      BY <2>22 DEF AuthPlain
    <3>3. ASSUME UNCHANGED session, UNCHANGED verified
          PROVE  Inv'
      BY <3>2, <3>3, QuietStep
    <3>4. Machine!Execute("AUTH PLAIN") =>
            /\ state = "initialized" /\ state' = "authenticated"
            /\ "esmtp" \in flags /\ flags \subseteq flags'
      BY <2>1, Execution
    <3>5. CASE Machine!Execute("AUTH PLAIN") /\ UNCHANGED <<message, verified>>
      <4>1. EnvelopeFits(state', message')
        BY <3>1, <3>4, <3>5, Unfold DEF EnvelopeFits, BetweenMails
      <4>2. UserFits(flags', message', verified')
        BY <3>1, <3>4, <3>5, Unfold, UserKept
      <4>3. QED
        BY <3>1, <3>2, <3>4, <3>5, <4>1, <4>2, Fold DEF ModeFits
    <3>6. CASE Machine!Execute("AUTH PLAIN") /\ CheckPassword(message, user)
      <4>1. /\ message'.from = message.from /\ message'.to = message.to /\ message' # None
            /\ message'.username # message.username => message'.username \in verified'
            /\ verified \subseteq verified'
        BY <2>21, <3>1, <3>6
      <4>2. EnvelopeFits(state', message')
        BY <3>1, <3>4, <3>6, <4>1, Unfold DEF EnvelopeFits, BetweenMails
      <4>3. UserFits(flags', message', verified')
        BY <3>1, <3>4, <3>6, <4>1, Unfold DEF UserFits
      <4>4. QED
        BY <3>1, <3>2, <3>4, <3>6, <4>1, <4>2, <4>3, Fold DEF ModeFits
    <3>7. QED
      BY <2>4, <2>5, <2>6, <2>22, <3>3, <3>5, <3>6 DEF AuthPlain, AuthenticatorFails
  <2>23. ASSUME NEW user \in Users \cup {None}, AuthLogin(user)
         PROVE  Inv'
    <3>1. message \in Messages /\ mode = "commands" /\ message # None
      BY <2>2, <2>23 DEF AuthLogin
    <3>2. handed' = None /\ verified' = verified
      BY <2>23 DEF AuthLogin
    <3>3. ASSUME UNCHANGED session, UNCHANGED mode
          PROVE  Inv'
      BY <3>2, <3>3, QuietStep
    <3>4. ASSUME NEW d \in Verdicts, Machine!Execute("AUTH LOGIN"),
                 IF ResponseSent(d) THEN UNCHANGED <<message, mode>>
                 ELSE /\ SwitchToAuthLoginMode
                      /\ message' = IF user = None THEN message
                                    ELSE [message EXCEPT !.pending = user]
          PROVE  Inv'
      <4>1. SameEnvelope(message, message') /\ message' # None
        <5>1. CASE message' = message
          BY <3>1, <5>1 DEF SameEnvelope
        <5>2. CASE message' = [message EXCEPT !.pending = user]
          BY <3>1, <5>2, UpdatedFields, MessageTypes, NoMessageIsNone
        <5>3. QED
          BY <3>4, <5>1, <5>2
      <4>2. mode' \in {"commands", "auth_login"}
        BY <3>1, <3>4, ModeSwitches
      <4>3. /\ state \in {"initialized", "authenticated"} /\ state' = "authenticated"
            /\ state = "initialized" => "esmtp" \in flags
            /\ flags \subseteq flags'
        BY <2>1, <3>4, Execution
      <4>4. "esmtp" \in flags'
        BY <3>1, <4>3, Unfold
      <4>5. EnvelopeFits(state', message')
        BY <3>1, <4>1, <4>3, Unfold DEF EnvelopeFits, BetweenMails, SameEnvelope
      <4>6. UserFits(flags', message', verified')
        BY <3>1, <3>2, <4>1, <4>3, Unfold, UserKept DEF SameEnvelope
      <4>7. QED
        BY <3>2, <4>1, <4>2, <4>3, <4>4, <4>5, <4>6, Fold DEF ModeFits
    <3>5. QED
      BY <2>5, <2>6, <2>23, <3>3, <3>4 DEF AuthLogin
  <2>24. CASE GarbledCredentials
    BY <2>24, QuietStep DEF GarbledCredentials, CredentialsExpected, session
  <2>25. ASSUME NEW user \in Users \cup {None}, UsernameLine(user)
         PROVE  Inv'
    <3>1. message \in Messages /\ message # None /\ handed' = None
      BY <2>25, ServedMessage DEF UsernameLine, CredentialsExpected, Serving
    <3>2. SameEnvelope(message, message') /\ message' # None
      BY <2>25, <3>1, UpdatedFields, MessageTypes, NoMessageIsNone DEF UsernameLine
    <3>3. UNCHANGED <<state, flags, mode, verified>>
      BY <2>25 DEF UsernameLine
    <3>4. EnvelopeFits(state', message')
      BY <3>1, <3>2, <3>3, Unfold DEF EnvelopeFits, SameEnvelope, HasEnvelope
    <3>5. UserFits(flags', message', verified')
      BY <3>1, <3>2, <3>3, Unfold, UserKept DEF SameEnvelope
    <3>6. QED
      BY <3>1, <3>2, <3>3, <3>4, <3>5, Unfold, Fold
  <2>26. CASE PasswordLine
    <3>1. message \in Messages /\ message # None /\ handed' = None
      BY <2>26, ServedMessage DEF PasswordLine, CredentialsExpected, Serving
    <3>2. state = "authenticated" /\ mode' = "commands" /\ UNCHANGED <<state, flags>>
      BY <2>26, ModeSwitches DEF PasswordLine, CredentialsExpected, Inv, ModesAgree
    <3>3. DEFINE forgotten == ForgetPending(message)
    <3>4. forgotten \in Messages /\ forgotten # None /\ SameEnvelope(message, forgotten)
      BY <3>1, UpdatedFields, MessageTypes, NoMessageIsNone DEF ForgetPending
    <3>5. message.pending \in Users
      BY <2>26, <3>1 DEF PasswordLine, Messages
    <3> HIDE DEF forgotten
    <3>6. CASE CheckPassword(forgotten, message.pending)
      <4>1. /\ message'.from = message.from /\ message'.to = message.to /\ message' # None
            /\ message'.username # message.username => message'.username \in verified'
            /\ verified \subseteq verified'
        BY <2>21, <3>4, <3>5, <3>6 DEF SameEnvelope
      <4>2. EnvelopeFits(state', message')
        BY <3>1, <3>2, <4>1, Unfold DEF EnvelopeFits, BetweenMails
      <4>3. UserFits(flags', message', verified') /\ "esmtp" \in flags'
        BY <3>1, <3>2, <4>1, Unfold DEF UserFits
      <4>4. QED
        BY <3>1, <3>2, <4>1, <4>2, <4>3, Fold DEF ModeFits
    <3>7. CASE message' = forgotten /\ UNCHANGED verified
      <4>1. EnvelopeFits(state', message')
        BY <3>1, <3>2, <3>4, <3>7, Unfold DEF EnvelopeFits, BetweenMails, SameEnvelope
      <4>2. UserFits(flags', message', verified') /\ "esmtp" \in flags'
        BY <3>1, <3>2, <3>4, <3>7, Unfold DEF UserFits, SameEnvelope
      <4>3. QED
        BY <3>1, <3>2, <3>4, <3>7, <4>1, <4>2, Fold DEF ModeFits
    <3>8. QED
      BY <2>26, <3>6, <3>7 DEF PasswordLine, AuthenticatorFails, forgotten
  <2>27. CASE Credentials
    BY <2>24, <2>25, <2>26, <2>27 DEF Credentials
  <2>28. ASSUME NEW sender \in Senders, NEW size, MailFrom(sender, size)
         PROVE  Inv'
    <3>1. ASSUME message' = [message EXCEPT !.from = sender], Machine!Execute("MAIL FROM")
          PROVE  Inv'
      <4>1. message \in Messages /\ mode = "commands" /\ message # None
        BY <2>2, <2>28 DEF MailFrom
      <4>2. /\ message'.from = sender /\ message'.to = message.to /\ message' # None
            /\ message'.username = message.username
        BY <3>1, <4>1, UpdatedFields, MessageTypes, NoMessageIsNone
      <4>3. /\ state \in {"initialized", "authenticated"} /\ state' = "sender_known"
            /\ flags \subseteq flags'
        BY <2>1, <3>1, Execution
      <4>4. sender # None
        BY NoneAssumption
      <4>5. EnvelopeFits(state', message')
        BY <4>1, <4>2, <4>3, <4>4, Unfold DEF EnvelopeFits, BetweenMails
      <4>6. QED
        BY <2>7, <2>28, <4>1, <4>2, <4>3, <4>5 DEF MailFrom, Ordinary
    <3>2. QED
      BY <2>3, <2>4, <2>5, <2>6, <2>28, <3>1 DEF MailFrom
  <2>29. ASSUME NEW recipient \in Recipients, RcptTo(recipient)
         PROVE  Inv'
    <3>1. ASSUME message' = [message EXCEPT !.to = Append(message.to, recipient)],
                 Machine!Execute("RCPT TO")
          PROVE  Inv'
      <4>1. message \in Messages /\ mode = "commands" /\ message # None
        BY <2>2, <2>29 DEF RcptTo
      <4>2. Append(message.to, recipient) # <<>>
        BY <4>1 DEF Messages
      <4>3. /\ message'.from = message.from /\ message'.to # <<>> /\ message' # None
            /\ message'.username = message.username
        BY <3>1, <4>1, <4>2, UpdatedFields, MessageTypes, NoMessageIsNone
      <4>4. /\ state \in {"sender_known", "recipient_known"} /\ state' = "recipient_known"
            /\ flags \subseteq flags'
        BY <2>1, <3>1, Execution
      <4>5. EnvelopeFits(state', message')
        BY <4>1, <4>3, <4>4, Unfold DEF EnvelopeFits, BetweenMails, HasEnvelope
      <4>6. QED
        BY <2>7, <2>29, <4>1, <4>3, <4>4, <4>5 DEF RcptTo, Ordinary
    <3>2. QED
      BY <2>3, <2>5, <2>6, <2>29, <3>1 DEF RcptTo
  <2>30. CASE Data
    <3>1. mode = "commands" /\ message # None /\ handed' = None /\ verified' = verified
      BY <2>2, <2>30 DEF Data
    <3>2. ASSUME UNCHANGED session, UNCHANGED mode
          PROVE  Inv'
      BY <3>1, <3>2, QuietStep
    <3>3. ASSUME NEW d \in Verdicts, Machine!Execute("DATA"), UNCHANGED message,
                 IF ResponseSent(d) THEN UNCHANGED mode ELSE SwitchToDataMode
          PROVE  Inv'
      <4>1. state = "recipient_known" /\ state' = "receiving_message" /\ flags \subseteq flags'
        BY <2>1, <3>3, Execution
      <4>2. mode' \in {"commands", "data"}
        BY <3>1, <3>3, ModeSwitches
      <4>3. EnvelopeFits(state', message')
        BY <3>1, <3>3, <4>1, Unfold DEF EnvelopeFits, BetweenMails
      <4>4. UserFits(flags', message', verified')
        BY <3>1, <3>3, <4>1, Unfold, UserKept
      <4>5. QED
        BY <3>1, <3>3, <4>1, <4>2, <4>3, <4>4, Fold DEF ModeFits
    <3>4. QED
      BY <2>5, <2>6, <2>30, <3>2, <3>3 DEF Data
  <2>31. ASSUME NEW size \in Sizes, MsgData(size)
         PROVE  Inv'
    <3>1. mode' = "commands" /\ verified' = verified
      BY <2>31, ModeSwitches DEF MsgData
    <3>2. ASSUME UNCHANGED session, handed' = None
          PROVE  Inv'
      BY <3>1, <3>2, QuietStep
    <3>3. ASSUME NEW d \in Verdicts, HandOver(d, size)
          PROVE  Inv'
      <4>1. message \in Messages /\ message # None
        BY <2>31, ServedMessage DEF MsgData, Ready, Submitted, Serving
      <4>2. state = "receiving_message" /\ state' = "initialized" /\ flags \subseteq flags'
        BY <2>1, <3>3, Execution DEF HandOver
      <4>3. HasEnvelope(message)
        BY <4>1, <4>2 DEF Inv, EnvelopeComplete
      <4>4. handed'.from = message.from /\ handed'.to = message.to
            /\ handed'.username = message.username
        BY <3>3 DEF HandOver, Parcel
      <4>5. message.username # None => message.username \in verified' /\ "esmtp" \in flags'
        BY <3>1, <4>1, <4>2 DEF Inv, AuthenticUser
      <4>6. message' = NewMessage(message.helo, message.username) /\ message' # None
        BY <3>3, <4>1, MessageTypes, NoneAssumption DEF HandOver, CopyBasicSettings
      <4>7. HasEnvelope(handed') /\ (handed'.username # None => handed'.username \in verified')
        BY <4>3, <4>4, <4>5 DEF HasEnvelope
      <4>8. QED
        BY <3>1, <4>2, <4>5, <4>6, <4>7, FreshMessage
    <3>4. QED
      BY <2>4, <2>6, <2>31, <3>2, <3>3 DEF MsgData, DelivererFails
  <2>32. QED
    BY <2>10, <2>11, <2>12, <2>13, <2>14, <2>15, <2>17, <2>18, <2>20, <2>22, <2>23,
       <2>27, <2>28, <2>29, <2>30, <2>31 DEF Next
<1>3. QED
  BY <1>1, <1>2, TypeCorrect, PTL DEF Spec

\* The parser collects a body only in "receiving_message" and credentials
\* only in "authenticated", whatever handler switched the modes.
THEOREM ModesAgreeAlways == Spec => []ModesAgree
  BY SessionInvariant, PTL DEF Inv

\* Nothing of an earlier transaction is left between mails: smtp_msgdata()
\* and smtp_rset() always replace the message.
THEOREM NoStaleEnvelopeAlways == Spec => []NoStaleEnvelope
  BY SessionInvariant, PTL DEF Inv

\* A message that is received or handed to the deliverer has a sender and a
\* recipient.
THEOREM EnvelopeCompleteAlways == Spec => []EnvelopeComplete
  BY SessionInvariant, PTL DEF Inv

\* smtp_auth_plain() and the AUTH LOGIN dialogue never put a user on a
\* message whose password was not approved.
THEOREM AuthenticUserAlways == Spec => []AuthenticUser
  BY SessionInvariant, PTL DEF Inv

\* Whatever way leads to it, a state says which commands it has seen: only
\* EHLO opens the way to "authenticated", RSET included.
THEOREM StatesExplainedAlways == Spec => []StatesExplained
  BY SessionInvariant, PTL DEF Inv

-----------------------------------------------------------------------------
(***************************************************************************)
(* Refinement: every step is a step of MailTransaction.                    *)
(***************************************************************************)

\* A step that keeps the envelope and the login and hands over nothing is an
\* idle step of the promise.
LEMMA IdleStep ==
  ASSUME handed' = None,
         \/ message' = message
         \/ message # None /\ message' # None /\ SameEnvelope(message, message')
         \/ message = None /\ message' # None /\ message' = NewMessage(None, None)
  PROVE  Transaction!Idle
<1>1. CASE message' = message
  BY <1>1 DEF Transaction!Idle
<1>2. CASE message # None /\ message' # None /\ SameEnvelope(message, message')
  BY <1>2 DEF Transaction!Idle, SameEnvelope
<1>3. CASE message = None /\ message' # None /\ message' = NewMessage(None, None)
  BY <1>3 DEF Transaction!Idle, NewMessage
<1>4. QED
  BY <1>1, <1>2, <1>3

\* Checking a password is a login of the promise or an idle step.
LEMMA LoginStep ==
  ASSUME NEW m \in Messages, NEW user \in Users, CheckPassword(m, user), handed' = None,
         message \in Messages, message.from = None, SameEnvelope(message, m)
  PROVE  Transaction!Next
<1>1. PICK correct \in BOOLEAN : message' = LoggedIn(m, user, correct)
  BY DEF CheckPassword
<1>2. message # None /\ message' # None
  BY <1>1, MessageTypes, NoMessageIsNone
<1>3. CASE correct
  <2>1. message'.from = None /\ message'.to = message.to /\ message'.username = user
    BY <1>1, <1>3 DEF LoggedIn, Messages, SameEnvelope
  <2>2. Transaction!Login(user)
    BY <1>2, <2>1 DEF Transaction!Login
  <2>3. QED
    BY <2>2 DEF Transaction!Next
<1>4. CASE ~correct
  <2>1. SameEnvelope(message, message')
    BY <1>1, <1>4 DEF LoggedIn
  <2>2. QED
    BY <1>2, <2>1, IdleStep DEF Transaction!Next
<1>5. QED
  BY <1>3, <1>4

\* The session implements MailTransaction: what the deliverer gets is the
\* transaction as it was collected, once, under the user logged in before it.
THEOREM Refinement == Spec => MailTransactionSpec
<1>1. Init => Transaction!Init
  BY DEF Init, Transaction!Init, Transaction!Nothing
<1>2. TypeOK /\ TypeOK' /\ Inv /\ [Next]_vars => [Transaction!Next]_(Transaction!vars)
  <2> SUFFICES ASSUME TypeOK, TypeOK', Inv, [Next]_vars
               PROVE  Transaction!Next \/ UNCHANGED Transaction!vars
    BY Zenon
  <2>1. flags \subseteq {"esmtp"}
    BY DEF TypeOK
  <2>2. ASSUME NEW command, Ready(command)
        PROVE  message \in Messages /\ message # None
    BY <2>2, ServedMessage DEF Ready, Submitted, Serving
  <2>3. ASSUME handed' = None, message' = message
        PROVE  Transaction!Next
    BY <2>3, IdleStep DEF Transaction!Next
  <2>4. ASSUME handed' = None, message # None, message' # None, SameEnvelope(message, message')
        PROVE  Transaction!Next
    BY <2>4, IdleStep DEF Transaction!Next
  <2>5. \A code : Refuse(code) => message' = message
    BY DEF Refuse, session
  <2>6. Malformed => message' = message
    BY <2>5 DEF Malformed
  <2>7. \A d, code : TurnedDown(d, code) => message' = message
    BY DEF TurnedDown, session
  <2>10. CASE UNCHANGED vars
    BY <2>10 DEF vars, Transaction!vars
  <2>11. CASE NewConnection
    <3>1. NewMessage(None, None) # None
      <4>1. NewMessage(None, None) \in Messages
        BY DEF NewMessage, Messages
      <4>2. QED
        BY <4>1, NoMessageIsNone
    <3>2. QED
      BY <2>11, <3>1, IdleStep DEF NewConnection, Ordinary, Transaction!Next
  <2>12. CASE Disconnect \/ UnknownCommand \/ CommandNotAllowed \/ AuthLoginFails
    BY <2>3, <2>5, <2>12
      DEF Disconnect, UnknownCommand, CommandNotAllowed, AuthLoginFails, session, Ordinary
  <2>13. CASE Ended
    BY <2>10, <2>13 DEF Ended
  <2>14. CASE Greet \/ Noop \/ Help \/ Quit
    BY <2>3, <2>14 DEF Greet, Noop, Help, Quit, Ordinary
  <2>15. CASE Rset
    <3>1. CASE Malformed
      BY <2>3, <2>6, <2>15, <3>1 DEF Rset, Ordinary
    <3>2. CASE message' = ResetMessage(message)
      <4>1. message' # None
        BY <2>2, <2>15, <3>2, MessageTypes, NoMessageIsNone DEF Rset
      <4>2. message'.from = None /\ message'.to = <<>> /\ message'.username = None
        BY <3>2 DEF ResetMessage, NewMessage
      <4>3. Transaction!Abort
        BY <2>15, <4>1, <4>2 DEF Rset, Ordinary, Transaction!Abort, Transaction!Nothing
      <4>4. QED
        BY <4>3 DEF Transaction!Next
    <3>3. QED
      BY <2>15, <3>1, <3>2 DEF Rset
  <2>16. ASSUME NEW command, NEW name \in HeloNames, HeloOrEhlo(command, name)
         PROVE  Transaction!Next
    <3>1. CASE message' = [message EXCEPT !.helo = name]
      <4>1. message \in Messages /\ message # None
        BY <2>2, <2>16 DEF HeloOrEhlo
      <4>2. SameEnvelope(message, message') /\ message' # None
        BY <3>1, <4>1, UpdatedFields, MessageTypes, NoMessageIsNone
      <4>3. QED
        BY <2>4, <2>16, <4>1, <4>2 DEF HeloOrEhlo, Ordinary
    <3>2. QED
      BY <2>3, <2>6, <2>7, <2>16, <3>1 DEF HeloOrEhlo, Ordinary
  <2>17. CASE Helo \/ Ehlo
    BY <2>16, <2>17 DEF Helo, Ehlo
  <2>18. ASSUME NEW user \in Users, AuthPlain(user)
         PROVE  Transaction!Next
    <3>1. CASE Machine!Execute("AUTH PLAIN") /\ CheckPassword(message, user)
      <4>1. message \in Messages /\ message # None /\ handed' = None
        BY <2>2, <2>18 DEF AuthPlain
      <4>2. message.from = None
        BY <2>1, <3>1, <4>1, Execution, Unfold DEF EnvelopeFits, BetweenMails
      <4>3. QED
        BY <3>1, <4>1, <4>2, LoginStep DEF SameEnvelope
    <3>2. QED
      BY <2>3, <2>5, <2>6, <2>7, <2>18, <3>1 DEF AuthPlain, session
  <2>19. ASSUME NEW user \in Users \cup {None}, AuthLogin(user)
         PROVE  Transaction!Next
    <3>1. CASE message' = [message EXCEPT !.pending = user]
      <4>1. message \in Messages /\ message # None /\ handed' = None
        BY <2>2, <2>19 DEF AuthLogin
      <4>2. SameEnvelope(message, message') /\ message' # None
        BY <3>1, <4>1, UpdatedFields, MessageTypes, NoMessageIsNone
      <4>3. QED
        BY <2>4, <4>1, <4>2
    <3>2. QED
      BY <2>3, <2>6, <2>7, <2>19, <3>1 DEF AuthLogin
  <2>20. CASE GarbledCredentials
    BY <2>3, <2>20 DEF GarbledCredentials, CredentialsExpected
  <2>21. ASSUME NEW user \in Users \cup {None}, UsernameLine(user)
         PROVE  Transaction!Next
    <3>1. message \in Messages /\ message # None /\ handed' = None
      BY <2>21, ServedMessage DEF UsernameLine, CredentialsExpected, Serving
    <3>2. SameEnvelope(message, message') /\ message' # None
      BY <2>21, <3>1, UpdatedFields, MessageTypes, NoMessageIsNone DEF UsernameLine
    <3>3. QED
      BY <2>4, <3>1, <3>2
  <2>22. CASE PasswordLine
    <3>1. message \in Messages /\ message # None /\ handed' = None
      BY <2>22, ServedMessage DEF PasswordLine, CredentialsExpected, Serving
    <3>2. message.from = None
      BY <2>22, <3>1, Unfold
        DEF PasswordLine, CredentialsExpected, EnvelopeFits, ModeFits, BetweenMails
    <3>3. /\ ForgetPending(message) \in Messages /\ ForgetPending(message) # None
          /\ SameEnvelope(message, ForgetPending(message))
      BY <3>1, UpdatedFields, MessageTypes, NoMessageIsNone DEF ForgetPending
    <3>4. message.pending \in Users
      BY <2>22, <3>1 DEF PasswordLine, Messages
    <3>5. CASE CheckPassword(ForgetPending(message), message.pending)
      BY <3>1, <3>2, <3>3, <3>4, <3>5, LoginStep
    <3>6. CASE message' = ForgetPending(message)
      BY <2>4, <3>1, <3>3, <3>6
    <3>7. QED
      BY <2>22, <3>5, <3>6 DEF PasswordLine
  <2>23. CASE Credentials
    BY <2>20, <2>21, <2>22, <2>23 DEF Credentials
  <2>24. ASSUME NEW sender \in Senders, NEW size, MailFrom(sender, size)
         PROVE  Transaction!Next
    <3>1. CASE message' = [message EXCEPT !.from = sender] /\ Machine!Execute("MAIL FROM")
      <4>1. message \in Messages /\ message # None /\ handed' = None
        BY <2>2, <2>24 DEF MailFrom, Ordinary
      <4>2. /\ message'.from = sender /\ message'.to = message.to /\ message' # None
            /\ message'.username = message.username
        BY <3>1, <4>1, UpdatedFields, MessageTypes, NoMessageIsNone
      <4>3. message.from = None
        BY <2>1, <3>1, <4>1, Execution, Unfold DEF EnvelopeFits, BetweenMails
      <4>4. Transaction!Begin(sender)
        BY <4>1, <4>2, <4>3 DEF Transaction!Begin
      <4>5. QED
        BY <4>4 DEF Transaction!Next
    <3>2. QED
      BY <2>3, <2>5, <2>6, <2>7, <2>24, <3>1 DEF MailFrom, Ordinary
  <2>25. ASSUME NEW recipient \in Recipients, RcptTo(recipient)
         PROVE  Transaction!Next
    <3>1. CASE message' = [message EXCEPT !.to = Append(message.to, recipient)]
               /\ Machine!Execute("RCPT TO")
      <4>1. message \in Messages /\ message # None /\ handed' = None
        BY <2>2, <2>25 DEF RcptTo, Ordinary
      <4>2. /\ message'.from = message.from /\ message'.to = Append(message.to, recipient)
            /\ message'.username = message.username /\ message' # None
        BY <3>1, <4>1, UpdatedFields, MessageTypes, NoMessageIsNone
      <4>3. message.from # None
        BY <2>1, <3>1, <4>1, Execution, Unfold DEF EnvelopeFits, HasEnvelope
      <4>4. Transaction!AddRecipient(recipient)
        BY <4>1, <4>2, <4>3 DEF Transaction!AddRecipient
      <4>5. QED
        BY <4>4 DEF Transaction!Next
    <3>2. QED
      BY <2>3, <2>6, <2>7, <2>25, <3>1 DEF RcptTo, Ordinary
  <2>26. CASE Data
    BY <2>3, <2>6, <2>7, <2>26 DEF Data
  <2>27. ASSUME NEW size \in Sizes, MsgData(size)
         PROVE  Transaction!Next
    <3>1. ASSUME NEW d \in Verdicts, HandOver(d, size)
          PROVE  Transaction!Next
      <4>1. message \in Messages /\ message # None
        BY <2>2, <2>27 DEF MsgData
      <4>2. HasEnvelope(message)
        BY <2>1, <3>1, <4>1, Execution, Unfold DEF HandOver, EnvelopeFits
      <4>3. /\ handed'.from = message.from /\ handed'.to = message.to
            /\ handed'.username = message.username /\ handed' # None
        <5>1. handed' = Parcel(message, size)
          BY <3>1 DEF HandOver
        <5>2. size \in Nat
          BY SizeAssumption DEF Sizes
        <5>3. handed' # None
          BY <4>1, <5>1, <5>2, MessageTypes, NoneAssumption
        <5>4. QED
          BY <5>1, <5>3 DEF Parcel
      <4>4. message' = NewMessage(message.helo, message.username) /\ message' # None
        BY <3>1, <4>1, MessageTypes, NoMessageIsNone DEF HandOver, CopyBasicSettings
      <4>5. /\ message'.from = None /\ message'.to = <<>>
            /\ message'.username = message.username
        BY <4>4 DEF NewMessage
      <4>6. Transaction!Commit
        BY <4>1, <4>2, <4>3, <4>4, <4>5 DEF Transaction!Commit, HasEnvelope
      <4>7. QED
        BY <4>6 DEF Transaction!Next
    <3>2. QED
      BY <2>3, <2>5, <2>7, <2>27, <3>1 DEF MsgData, DelivererFails, session
  <2>28. QED
    BY <2>10, <2>11, <2>12, <2>13, <2>14, <2>15, <2>17, <2>18, <2>19, <2>23, <2>24,
       <2>25, <2>26, <2>27 DEF Next
<1>3. QED
  BY <1>1, <1>2, TypeCorrect, SessionInvariant, PTL DEF Spec, MailTransactionSpec, Transaction!Spec

=============================================================================
