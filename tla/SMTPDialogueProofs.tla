------------------------- MODULE SMTPDialogueProofs -------------------------
(***************************************************************************)
(* Proofs about what a client of SMTPSession sees, for every choice of the *)
(* constants:                                                              *)
(*                                                                         *)
(*   DialogueInvariant   client and server stay in step (Dialogue), given  *)
(*                       TypeOK and Inv of SMTPSessionProofs;              *)
(*   FailuresHarmless    a command answered with an error changes nothing; *)
(*   ReceiptsTruthful    what the replies to a message say is true.        *)
(***************************************************************************)
EXTENDS SMTPSessionProofs

\* The replies that make the client send a body or credentials next.
Announcing == {"354", "334 Username:", "334 Password:"}

Dialogue ==
    /\ OneReplyPerInput
    /\ ModeAnnounced
    /\ PasswordPrompted
    /\ CloseRequestsHonoured
    /\ SizeLimitRespected

\* While no credentials are expected, no user name waits for its password.
LEMMA NothingPending ==
  ASSUME Dialogue, Serving, mode # "auth_login"
  PROVE  message.pending = None
  BY DEF Dialogue, PasswordPrompted

\* After a step that leaves the parser in command mode the dialogue is right
\* if one reply was written that does not announce another mode.
LEMMA PlainEnd ==
  ASSUME NEW code, code \notin Announcing,
         replies' \in {<<code>>} \cup CustomAnswers \/ ~open' \/ escaped' # None,
         mode' = "commands",
         message' = None \/ message'.pending = None,
         closeAfter' => ~open' \/ state' = "new",
         handed' = None \/ SizeLimitRespected'
  PROVE  Dialogue'
<1>1. SizeLimitRespected'
  BY DEF SizeLimitRespected
<1>2. CloseRequestsHonoured'
  BY DEF CloseRequestsHonoured
<1>3. PasswordPrompted'
  BY DEF PasswordPrompted, Serving
<1>4. ASSUME Serving'
      PROVE  Len(replies') = 1 /\ replies' \notin {<<c>> : c \in Announcing}
  <2>1. replies' \in {<<code>>} \cup CustomAnswers
    BY <1>4 DEF Serving
  <2>2. CustomReplies \cap Announcing = {}
    BY DEF Announcing, CustomReplies
  <2>3. \A b, c : <<b>> = <<c>> => b = c
    OBVIOUS
  <2>4. PICK b : replies' = <<b>> /\ b \notin Announcing
    BY <2>1, <2>2 DEF CustomAnswers
  <2>5. Len(replies') = 1
    BY <2>4
  <2>6. QED
    BY <2>3, <2>4, <2>5
<1>5. QED
  BY <1>1, <1>2, <1>3, <1>4 DEF Dialogue, OneReplyPerInput, ModeAnnounced, Announcing

\* What a policy writes itself is one of its replies.
LEMMA CustomAnswer ==
  ASSUME NEW d \in Decisions, HasReply(d)
  PROVE  <<d.reply>> \in CustomAnswers
  BY DEF Decisions, HasReply, CustomAnswers

\* How a handler ends that raised a denial or answered: with one reply, or
\* without a connection, and then no request to close is left.
LEMMA RespondEnd ==
  ASSUME NEW d \in Verdicts, NEW code, Respond(d, code)
  PROVE  /\ replies' \in {<<code>>} \cup CustomAnswers \/ ~open'
         /\ closeAfter' => ~open'
         /\ escaped' = None
         /\ ~ResponseSent(d) => replies' = <<code>>
         /\ ResponseSent(d) => replies' \in CustomAnswers \/ ~open'
         /\ replies' \in {<<code>>, <<>>} \cup CustomAnswers
<1>1. /\ replies' = IF HasReply(d) THEN <<d.reply>> ELSE IF d.before THEN <<>> ELSE <<code>>
      /\ open' = FALSE \/ open' = ~(d.before \/ d.after)
      /\ closeAfter' = d.after
      /\ escaped' = None
  BY Zenon DEF Respond, Response
<1>0. HasReply(d) => <<d.reply>> \in CustomAnswers
  BY VerdictType, CustomAnswer
<1>2. replies' \in {<<code>>} \cup CustomAnswers \/ ~open'
  BY <1>0, <1>1, Zenon
<1>3. closeAfter' => ~open'
  BY <1>1, Zenon
<1>4. ~ResponseSent(d) => replies' = <<code>>
  BY <1>1, Zenon DEF ResponseSent
<1>5. ResponseSent(d) => replies' \in CustomAnswers \/ ~open'
  BY <1>0, <1>1, Zenon DEF ResponseSent
<1>6. replies' \in {<<code>>, <<>>} \cup CustomAnswers
  BY <1>0, <1>1, Zenon
<1>7. QED
  BY <1>1, <1>2, <1>3, <1>4, <1>5, <1>6

LEMMA TurnedDownEnd ==
  ASSUME NEW d \in Verdicts, NEW code, TurnedDown(d, code)
  PROVE  /\ replies' \in {<<code>>} \cup CustomAnswers \/ ~open' \/ escaped' # None
         /\ closeAfter' => ~open'
         /\ replies' \in {<<code>>, <<>>} \cup CustomAnswers
         /\ UNCHANGED session
<1>1. CASE FailToRespond
  BY <1>1, Zenon DEF FailToRespond, TurnedDown
<1>2. CASE Respond(d, code)
  BY <1>2, RespondEnd DEF TurnedDown
<1>3. CASE PolicyFails
  <2>1. "PolicyError" # None
    BY NoneAssumption DEF Exceptions
  <2>2. QED
    BY <1>3, <2>1, Zenon DEF PolicyFails, TurnedDown
<1>4. QED
  BY <1>1, <1>2, <1>3 DEF TurnedDown

LEMMA SayEnd ==
  ASSUME NEW code, Say(code)
  PROVE  replies' = <<code>> /\ ~closeAfter' /\ escaped' = None
  BY DEF Say, Answer

\* A body that arrives in data mode is never out of order.
LEMMA MsgDataAllowed ==
  ASSUME state = "receiving_message"
  PROVE  "MSGDATA" \in Machine!AllowedActions
<1> DEFINE row == Arc("receiving_message", "MSGDATA", "initialized")
<1>1. row \in SessionTransitions
  BY DEF SessionTransitions, CoreTransitions
<1>2. row.from = state /\ row.action = "MSGDATA" /\ row.ifSet = {} /\ row.ifNot = {}
  BY DEF Arc
<1>3. row \in Machine!Available
  BY <1>1, <1>2 DEF Machine!Available, Machine!IsConditionSatisfied
<1>4. QED
  BY <1>2, <1>3 DEF Machine!AllowedActions

\* Client and server stay in step: each input gets one reply, which says what
\* to send next, and no request to close is forgotten.
THEOREM DialogueInvariant == Spec => []Dialogue
<1>1. Init => Dialogue
  BY DEF Init, Dialogue, OneReplyPerInput, ModeAnnounced, PasswordPrompted,
         CloseRequestsHonoured, SizeLimitRespected, Serving
<1>2. TypeOK /\ Inv /\ Dialogue /\ [Next]_vars => Dialogue'
  <2> SUFFICES ASSUME TypeOK, Inv, Dialogue, [Next]_vars
               PROVE  Dialogue'
    OBVIOUS
  <2>1. \A code \in {"220", "221", "214", "235", "250", "500", "501", "503", "535", "550",
                      "552", "554"} : code \notin Announcing
    BY DEF Announcing
  <2>2. ASSUME NEW command, Ready(command)
        PROVE  /\ message \in Messages /\ message.pending = None
               /\ command # "MSGDATA" => mode = "commands"
    BY <2>2, ServedMessage, NothingPending DEF Ready, Submitted
  <2>3. ASSUME NEW code, code \notin Announcing, Refuse(code), mode = "commands",
               Serving, Ordinary
        PROVE  Dialogue'
    BY <2>3, SayEnd, NothingPending, PlainEnd DEF Refuse, session, Ordinary
  <2>4. ASSUME NEW command, command # "MSGDATA", Ready(command), Malformed,
               handed' = None, mode' = mode
        PROVE  Dialogue'
    BY <2>1, <2>2, <2>4, SayEnd, PlainEnd DEF Malformed, Refuse, session
  <2>5. ASSUME NEW command, command # "MSGDATA", Ready(command), NEW d \in Verdicts,
               TurnedDown(d, "550"), handed' = None, mode' = mode
        PROVE  Dialogue'
    BY <2>1, <2>2, <2>5, TurnedDownEnd, PlainEnd DEF session
  <2>6. ASSUME NEW command, command # "MSGDATA", Ready(command), NEW code, code \notin Announcing,
               Say(code), message'.pending = None, Ordinary
        PROVE  Dialogue'
    BY <2>2, <2>6, SayEnd, PlainEnd DEF Ordinary
  <2>7. ASSUME NEW command, command # "MSGDATA", Ready(command), NEW code, code \notin Announcing,
               NEW d \in Verdicts, Respond(d, code), message'.pending = None, handed' = None,
               mode' = mode
        PROVE  Dialogue'
    BY <2>2, <2>7, RespondEnd, PlainEnd
  <2>10. CASE UNCHANGED vars
    BY <2>10 DEF vars, Dialogue, OneReplyPerInput, ModeAnnounced, PasswordPrompted,
         CloseRequestsHonoured, SizeLimitRespected, Serving
  <2>11. CASE NewConnection
    <3>1. state = "new" /\ mode' = "commands" /\ handed' = None
      BY <2>11 DEF NewConnection, Ordinary, Inv, StatesExplained
    <3>2. message'.pending = None
      BY <2>11 DEF NewConnection, NewMessage
    <3>3. PICK d \in Verdicts :
            \/ PolicyFails
            \/ FailToRespond
            \/ Say("220")
            \/ /\ d.accept => ResponseSent(d)
               /\ replies' = Response(d, "554")
               /\ open' \in {FALSE, d.accept /\ ~d.before}
               /\ state' = state
      BY <2>11, Zenon DEF NewConnection
    <3>4. CASE FailToRespond
      <4>1. ~open' /\ ~closeAfter'
        BY <3>4 DEF FailToRespond
      <4>2. QED
        BY <2>1, <3>1, <3>2, <4>1, PlainEnd
    <3>4a. CASE PolicyFails
      <4>1. escaped' # None /\ ~closeAfter'
        BY <3>4a, NoneAssumption DEF PolicyFails, Exceptions
      <4>2. QED
        BY <2>1, <3>1, <3>2, <4>1, PlainEnd
    <3>5. CASE Say("220")
      BY <2>1, <3>1, <3>2, <3>5, SayEnd, PlainEnd
    <3>6. CASE /\ d.accept => ResponseSent(d)
               /\ replies' = Response(d, "554")
               /\ open' \in {FALSE, d.accept /\ ~d.before}
               /\ state' = state
      <4>1. replies' \in {<<"554">>} \cup CustomAnswers \/ ~open'
        BY <3>6, VerdictType, CustomAnswer DEF Response, ResponseSent
      <4>2. QED
        BY <2>1, <3>1, <3>2, <3>6, <4>1, PlainEnd
    <3>7. QED
      BY <3>3, <3>4, <3>4a, <3>5, <3>6
  <2>12. CASE Disconnect
    <3>1. ~open' /\ handed' = None
      BY <2>12 DEF Disconnect, Ordinary
    <3>2. QED
      BY <3>1 DEF Dialogue, OneReplyPerInput, ModeAnnounced, PasswordPrompted,
         CloseRequestsHonoured, SizeLimitRespected, Serving
  <2>13. CASE Ended
    BY <2>10, <2>13 DEF Ended
  <2>14. CASE UnknownCommand
    BY <2>3, <2>14 DEF UnknownCommand, Announcing
  <2>15. CASE CommandNotAllowed
    <3>1. PICK command \in KnownActions(SessionTransitions) \ Machine!AllowedActions :
            Submitted(command) /\ Refuse("503") /\ Ordinary
      BY <2>15 DEF CommandNotAllowed
    <3>2. mode = "commands"
      BY <3>1, MsgDataAllowed DEF Submitted, Inv, ModesAgree
    <3>3. QED
      BY <2>3, <3>1, <3>2 DEF Submitted, Announcing
  <2>16. CASE Greet \/ Help
    BY <2>2, <2>6, <2>16 DEF Greet, Help, Announcing
  <2>17. CASE Noop
    BY <2>2, <2>4, <2>6, <2>17 DEF Noop, Ordinary, Announcing
  <2>18. CASE Quit
    <3>1. CASE Malformed
      BY <2>4, <2>18, <3>1 DEF Quit, Ordinary
    <3>2. CASE replies' = <<"221">> /\ open' = FALSE /\ closeAfter' = FALSE
      BY <2>1, <2>2, <2>18, <3>2, PlainEnd DEF Quit, Ordinary
    <3>3. QED
      BY <2>18, <3>1, <3>2 DEF Quit
  <2>19. CASE Rset
    <3>1. CASE Malformed
      BY <2>4, <2>19, <3>1 DEF Rset, Ordinary
    <3>2. CASE message' = ResetMessage(message) /\ Say("250")
      <4>1. message'.pending = None
        BY <3>2 DEF ResetMessage, NewMessage
      <4>2. QED
        BY <2>6, <2>19, <3>2, <4>1 DEF Rset, Announcing
    <3>3. QED
      BY <2>19, <3>1, <3>2 DEF Rset
  <2>20. ASSUME NEW command \in {"HELO", "EHLO"}, NEW name \in HeloNames,
                HeloOrEhlo(command, name)
         PROVE  Dialogue'
    <3>1. Ready(command) /\ command # "MSGDATA" /\ handed' = None /\ mode' = mode
      BY <2>20 DEF HeloOrEhlo, Ordinary
    <3>2. ASSUME NEW d \in Verdicts, message' = [message EXCEPT !.helo = name],
                 Respond(d, "250")
          PROVE  Dialogue'
      <4>1. message'.pending = None
        BY <2>2, <3>1, <3>2 DEF Messages
      <4>2. QED
        BY <2>7, <3>1, <3>2, <4>1 DEF Announcing
    <3>3. QED
      BY <2>4, <2>5, <2>20, <3>1, <3>2 DEF HeloOrEhlo
  <2>21. CASE Helo \/ Ehlo
    BY <2>20, <2>21 DEF Helo, Ehlo
  <2>22. ASSUME NEW sender \in Senders, NEW size, MailFrom(sender, size)
         PROVE  Dialogue'
    <3>1. Ready("MAIL FROM") /\ handed' = None /\ mode' = mode /\ Ordinary
      BY <2>22 DEF MailFrom, Ordinary
    <3>2. CASE Refuse("552")
      BY <2>2, <2>3, <3>1, <3>2 DEF Ready, Submitted, Announcing
    <3>3. ASSUME NEW d \in Verdicts, message' = [message EXCEPT !.from = sender],
                 Respond(d, "250")
          PROVE  Dialogue'
      <4>1. message'.pending = None
        BY <2>2, <3>1, <3>3 DEF Messages
      <4>2. QED
        BY <2>7, <3>1, <3>3, <4>1 DEF Announcing
    <3>4. QED
      BY <2>4, <2>5, <2>22, <3>1, <3>2, <3>3 DEF MailFrom
  <2>23. ASSUME NEW recipient \in Recipients, RcptTo(recipient)
         PROVE  Dialogue'
    <3>1. Ready("RCPT TO") /\ handed' = None /\ mode' = mode
      BY <2>23 DEF RcptTo, Ordinary
    <3>2. ASSUME NEW d \in Verdicts, Respond(d, "250"),
                 message' = [message EXCEPT !.to = Append(message.to, recipient)]
          PROVE  Dialogue'
      <4>1. message'.pending = None
        BY <2>2, <3>1, <3>2 DEF Messages
      <4>2. QED
        BY <2>7, <3>1, <3>2, <4>1 DEF Announcing
    <3>3. QED
      BY <2>4, <2>5, <2>23, <3>1, <3>2 DEF RcptTo
  <2>24. ASSUME NEW m \in Messages, NEW user, CheckPassword(m, user), m.pending = None
         PROVE  replies' \in {<<"235">>, <<"535">>} /\ message'.pending = None
    <3>1. PICK correct \in BOOLEAN :
            /\ message' = LoggedIn(m, user, correct)
            /\ replies' = <<IF correct THEN "235" ELSE "535">>
      BY <2>24 DEF CheckPassword
    <3>2. message'.pending = None
      BY <2>24, <3>1 DEF LoggedIn, Messages
    <3>3. QED
      BY <3>1, <3>2
  <2>25. ASSUME replies' \in {<<"235">>, <<"535">>}, message'.pending = None,
                mode' = "commands", closeAfter' => ~open' \/ state' = "new", handed' = None
         PROVE  Dialogue'
    BY <2>1, <2>25, PlainEnd
  <2>25a. AuthenticatorFails => escaped' # None
    BY NoneAssumption DEF AuthenticatorFails, Exceptions
  <2>26. ASSUME NEW user \in Users, AuthPlain(user)
         PROVE  Dialogue'
    <3>0. Ready("AUTH PLAIN") /\ mode' = mode /\ handed' = None
      BY <2>26 DEF AuthPlain
    <3>1. mode' = "commands" /\ message \in Messages /\ message.pending = None
      <4>1. mode = "commands"
        BY <3>0 DEF Ready, Submitted
      <4>2. message \in Messages /\ message.pending = None
        BY <3>0, <4>1, ServedMessage, NothingPending DEF Ready, Submitted
      <4>3. QED
        BY <3>0, <4>1, <4>2
    <3>2. CASE Refuse("535")
      BY <2>1, <3>0, <3>1, <3>2, SayEnd, PlainEnd DEF Refuse, session
    <3>3. ASSUME NEW d \in Verdicts, Respond(d, "235"), message' = message
          PROVE  Dialogue'
      BY <2>1, <2>7, <3>0, <3>1, <3>3
    <3>4. ASSUME NEW d \in Verdicts, CheckPassword(message, user), closeAfter' = d.after,
                 open' \in {FALSE, ~d.after}
          PROVE  Dialogue'
      <4>1. closeAfter' => ~open'
        BY <3>4, Zenon
      <4>2. QED
        BY <2>24, <2>25, <3>0, <3>1, <3>4, <4>1
    <3>5. ASSUME NEW d \in Verdicts, AuthenticatorFails, closeAfter' = d.after, open' = ~d.after,
                 UNCHANGED session
          PROVE  Dialogue'
      <4>1. closeAfter' => ~open'
        BY <3>5, Zenon
      <4>2. QED
        BY <2>1, <2>25a, <3>0, <3>1, <3>5, <4>1, PlainEnd DEF session
    <3>6. QED
      BY <2>4, <2>5, <2>26, <3>0, <3>2, <3>3, <3>4, <3>5 DEF AuthPlain
  <2>27. ASSUME NEW user \in Users \cup {None}, AuthLogin(user)
         PROVE  Dialogue'
    <3>0. Ready("AUTH LOGIN") /\ handed' = None
      BY <2>27 DEF AuthLogin
    <3>1. mode = "commands" /\ message \in Messages /\ message.pending = None
      <4>1. mode = "commands"
        BY <3>0 DEF Ready, Submitted
      <4>2. QED
        BY <3>0, <4>1, ServedMessage, NothingPending DEF Ready, Submitted
    <3>2. ASSUME NEW d \in Verdicts,
                 Respond(d, IF user = None THEN "334 Username:" ELSE "334 Password:"),
                 ResponseSent(d), UNCHANGED <<message, mode>>
          PROVE  Dialogue'
      <4>1. (replies' \in CustomAnswers \/ ~open') /\ (closeAfter' => ~open')
        BY <3>2, RespondEnd
      <4>2. QED
        BY <2>1, <3>0, <3>1, <3>2, <4>1, PlainEnd
    <3>3. ASSUME NEW d \in Verdicts,
                 Respond(d, IF user = None THEN "334 Username:" ELSE "334 Password:"),
                 ~ResponseSent(d), SwitchToAuthLoginMode,
                 message' = IF user = None THEN message
                            ELSE [message EXCEPT !.pending = user]
          PROVE  Dialogue'
      <4>1. /\ replies' = <<IF user = None THEN "334 Username:" ELSE "334 Password:">>
            /\ closeAfter' => ~open'
            /\ mode' = "auth_login"
        BY <3>3, RespondEnd, ModeSwitches
      <4>2. message'.pending # None => user # None
        BY <3>1, <3>3
      <4>3. QED
        BY <3>0, <3>1, <4>1, <4>2 DEF Dialogue, OneReplyPerInput, ModeAnnounced,
           PasswordPrompted, CloseRequestsHonoured, SizeLimitRespected
    <3>4. QED
      BY <2>4, <2>5, <2>27, <3>0, <3>2, <3>3 DEF AuthLogin
  <2>28. CASE AuthLoginFails
    <3>1. /\ Ready("AUTH LOGIN") /\ message' = message /\ mode' = mode /\ handed' = None
          /\ escaped' = "ValueError" /\ ~closeAfter'
      BY <2>28 DEF AuthLoginFails, Ordinary, session
    <3>2. escaped' # None
      BY <3>1, NoneAssumption DEF Exceptions
    <3>3. mode = "commands"
      BY <3>1 DEF Ready, Submitted
    <3>4. message.pending = None
      BY <3>1, <3>3, NothingPending DEF Ready, Submitted
    <3>5. QED
      BY <2>1, <3>1, <3>2, <3>3, <3>4, PlainEnd
  <2>29. CASE GarbledCredentials
    <3>1. escaped' # None /\ handed' = None /\ UNCHANGED <<state, closeAfter, open>>
      BY <2>29, NoneAssumption DEF GarbledCredentials, CredentialsExpected, Exceptions
    <3>2. QED
      BY <3>1 DEF Dialogue, OneReplyPerInput, ModeAnnounced, PasswordPrompted,
         CloseRequestsHonoured, SizeLimitRespected, Serving
  <2>30. ASSUME CredentialsExpected, UNCHANGED <<state, closeAfter>>
         PROVE  ~closeAfter'
    BY <2>30 DEF CredentialsExpected, Serving, Inv, ModesAgree, Dialogue, CloseRequestsHonoured
  <2>31. ASSUME NEW user \in Users \cup {None}, UsernameLine(user)
         PROVE  Dialogue'
    <3>1. /\ replies' = <<"334 Password:">> /\ mode' = "auth_login" /\ handed' = None
          /\ ~closeAfter'
      BY <2>30, <2>31 DEF UsernameLine, CredentialsExpected, Answer
    <3>2. QED
      BY <3>1 DEF Dialogue, OneReplyPerInput, ModeAnnounced, PasswordPrompted,
         CloseRequestsHonoured, SizeLimitRespected
  <2>32. CASE PasswordLine
    <3>1. /\ mode' = "commands" /\ handed' = None /\ ~closeAfter'
          /\ message \in Messages
      BY <2>30, <2>32, ModeSwitches, ServedMessage DEF PasswordLine, CredentialsExpected
    <3>2. ForgetPending(message) \in Messages /\ ForgetPending(message).pending = None
      BY <3>1, MessageTypes DEF ForgetPending, Messages
    <3>3. CASE AuthenticatorFails /\ message' = ForgetPending(message)
      BY <2>1, <2>25a, <3>1, <3>2, <3>3, PlainEnd
    <3>4. QED
      BY <2>24, <2>25, <2>32, <3>1, <3>2, <3>3 DEF PasswordLine
  <2>33. CASE Credentials
    BY <2>29, <2>31, <2>32, <2>33 DEF Credentials
  <2>34. CASE Data
    <3>0. Ready("DATA") /\ handed' = None
      BY <2>34 DEF Data
    <3>1. mode = "commands" /\ message.pending = None
      BY <2>2, <3>0
    <3>2. ASSUME NEW d \in Verdicts, Respond(d, "354"), ResponseSent(d),
                 UNCHANGED <<message, mode>>
          PROVE  Dialogue'
      <4>1. (replies' \in CustomAnswers \/ ~open') /\ (closeAfter' => ~open')
        BY <3>2, RespondEnd
      <4>2. QED
        BY <2>1, <3>0, <3>1, <3>2, <4>1, PlainEnd
    <3>3. ASSUME NEW d \in Verdicts, Respond(d, "354"), ~ResponseSent(d),
                 SwitchToDataMode, UNCHANGED message
          PROVE  Dialogue'
      <4>1. replies' = <<"354">> /\ (closeAfter' => ~open') /\ mode' = "data"
        BY <3>3, RespondEnd, ModeSwitches
      <4>2. QED
        BY <3>0, <3>1, <3>3, <4>1 DEF Dialogue, OneReplyPerInput, ModeAnnounced,
           PasswordPrompted, CloseRequestsHonoured, SizeLimitRespected
    <3>4. QED
      BY <2>4, <2>5, <2>34, <3>0, <3>2, <3>3 DEF Data
  <2>35. ASSUME NEW size \in Sizes, MsgData(size)
         PROVE  Dialogue'
    <3>1. /\ Ready("MSGDATA") /\ mode' = "commands" /\ config' = config
          /\ message \in Messages /\ message.pending = None
      BY <2>2, <2>35, ModeSwitches DEF MsgData
    <3>2. CASE Refuse("552") /\ handed' = None
      BY <2>1, <3>1, <3>2, SayEnd, PlainEnd DEF Refuse, session
    <3>3. ASSUME NEW d \in Verdicts, TurnedDown(d, "550"), handed' = None
          PROVE  Dialogue'
      BY <2>1, <3>1, <3>3, TurnedDownEnd, PlainEnd DEF session
    <3>4. ASSUME NEW d \in Verdicts, DelivererFails(d)
          PROVE  Dialogue'
      <4>1. closeAfter' => ~open'
        BY <3>4, Zenon DEF DelivererFails
      <4>2. escaped' # None /\ handed' = None /\ message' = message
        BY <3>4, NoneAssumption DEF DelivererFails, Exceptions, session
      <4>3. QED
        BY <2>1, <3>1, <4>1, <4>2, PlainEnd
    <3>5. ASSUME NEW d \in Verdicts, ~TooBig(size), HandOver(d, size)
          PROVE  Dialogue'
      <4>1. message'.pending = None
        BY <3>5 DEF HandOver, CopyBasicSettings, NewMessage
      <4>2. handed'.size = size /\ size \in Nat
        BY <3>5, SizeAssumption DEF HandOver, Parcel, Sizes
      <4>3. config.policy /\ config.limit # None => size <= config.limit
        <5>1. config.policy => MaxMessageSize = config.limit
          BY Zenon DEF MaxMessageSize
        <5>2. config.limit \in Limits \cup {None}
          BY DEF TypeOK
        <5>3. MaxMessageSize # None => ~(size > MaxMessageSize)
          BY <3>5 DEF TooBig
        <5>4. config.limit # None /\ ~(size > config.limit) => size <= config.limit
          <6> SUFFICES ASSUME config.limit # None, ~(size > config.limit)
                       PROVE  size <= config.limit
            OBVIOUS
          <6>1. config.limit \in Nat
            BY <5>2, SizeAssumption
          <6>2. \A n \in Nat : ~(size > n) => size <= n
            BY <4>2
          <6>3. QED
            BY <6>1, <6>2
        <5>5. QED
          BY <5>1, <5>3, <5>4, Zenon
      <4>4. SizeLimitRespected'
        BY <3>1, <4>2, <4>3 DEF SizeLimitRespected
      <4>5. QED
        BY <2>1, <3>1, <3>5, <4>1, <4>4, RespondEnd, PlainEnd DEF HandOver
    <3>6. QED
      BY <2>35, <3>2, <3>3, <3>4, <3>5 DEF MsgData
  <2>36. QED
    BY <2>10, <2>11, <2>12, <2>13, <2>14, <2>15, <2>16, <2>17, <2>18, <2>19, <2>21, <2>22,
       <2>23, <2>26, <2>27, <2>28, <2>33, <2>34, <2>35 DEF Next
<1>3. QED
  BY <1>1, <1>2, TypeCorrect, SessionInvariant, PTL DEF Spec

\* As long as the server goes on, an input gets one reply and no second one,
\* whoever wrote it.
COROLLARY OneReplyPerInputAlways == Spec => []OneReplyPerInput
  BY DialogueInvariant, PTL DEF Dialogue

\* The session's own 354 and 334, and nothing else, not even a 354 that a policy
\* wrote, announce that the parser collects a body or credentials.
COROLLARY ModeAnnouncedAlways == Spec => []ModeAnnounced
  BY DialogueInvariant, PTL DEF Dialogue

\* No user name of an AUTH LOGIN dialogue is left behind for a later one.
COROLLARY PasswordPromptedAlways == Spec => []PasswordPrompted
  BY DialogueInvariant, PTL DEF Dialogue

\* No handler, nested or failing, forgets that the policy wants to close.
COROLLARY CloseRequestsHonouredAlways == Spec => []CloseRequestsHonoured
  BY DialogueInvariant, PTL DEF Dialogue

\* Nothing larger than the policy's limit is handed over, whatever the limits.
COROLLARY SizeLimitRespectedAlways == Spec => []SizeLimitRespected
  BY DialogueInvariant, PTL DEF Dialogue

-----------------------------------------------------------------------------
(***************************************************************************)
(* What single steps may not do.                                           *)
(***************************************************************************)

RefusalCodes == {"500", "501", "503", "550", "552"}

\* A step that wrote a code of another kind, a custom reply or nothing is not
\* one that refused its command.
LEMMA NotRefused ==
  ASSUME NEW code, code \notin RefusalCodes, replies' \in {<<code>>, <<>>} \cup CustomAnswers
  PROVE  replies' \notin {<<c>> : c \in RefusalCodes}
<1>1. CustomReplies \cap RefusalCodes = {}
  BY DEF RefusalCodes, CustomReplies
<1>2. \A c : <<c>> = <<code>> => c = code
  OBVIOUS
<1>3. \A b, c : <<b>> = <<c>> => b = c
  OBVIOUS
<1>4. \A c : <<c>> # <<>>
  OBVIOUS
<1>5. QED
  BY <1>1, <1>2, <1>3, <1>4 DEF CustomAnswers

\* A handler that raises leaves the session as it is: _dispatch_commands()
\* answers for it, and the state machine has not moved yet.
THEOREM FailuresHarmless == Spec => FailedCommandsChangeNothing
<1> DEFINE Harmless == Serving /\ replies' \in {<<c>> : c \in RefusalCodes} => UNCHANGED session
<1>1. TypeOK /\ [Next]_vars => Harmless
  <2> SUFFICES ASSUME TypeOK, [Next]_vars, Serving
               PROVE  \/ UNCHANGED session
                      \/ replies' \notin {<<c>> : c \in RefusalCodes}
    OBVIOUS
  <2>1. \A code \in {"214", "220", "221", "235", "250", "334 Username:", "334 Password:",
                      "354", "535"} : code \notin RefusalCodes
    BY DEF RefusalCodes
  <2>2. ASSUME NEW code, code \notin RefusalCodes, Say(code) \/ Answer(code)
        PROVE  replies' \notin {<<c>> : c \in RefusalCodes}
    BY <2>2, NotRefused DEF Say, Answer
  <2>3. ASSUME NEW code, code \notin RefusalCodes, NEW d \in Verdicts, Respond(d, code)
        PROVE  replies' \notin {<<c>> : c \in RefusalCodes}
    BY <2>3, RespondEnd, NotRefused
  <2>4. ASSUME NEW code, Refuse(code)
        PROVE  UNCHANGED session
    BY <2>4 DEF Refuse
  <2>5. Malformed => UNCHANGED session
    BY <2>4 DEF Malformed
  <2>6. ASSUME NEW d \in Verdicts, NEW code, TurnedDown(d, code)
        PROVE  UNCHANGED session
    BY <2>6 DEF TurnedDown
  <2>7. ASSUME NEW m, NEW user, CheckPassword(m, user)
        PROVE  replies' \notin {<<c>> : c \in RefusalCodes}
    <3>1. replies' = <<"235">> \/ replies' = <<"535">>
      BY <2>7 DEF CheckPassword
    <3>2. QED
      BY <2>1, <3>1, NotRefused
  <2>10. CASE UNCHANGED vars \/ Ended \/ Disconnect \/ AuthLoginFails \/ GarbledCredentials
    BY <2>10 DEF vars, Ended, Disconnect, AuthLoginFails, GarbledCredentials, session
  <2>11. CASE NewConnection
    BY <2>11 DEF NewConnection, Serving
  <2>12. CASE UnknownCommand \/ CommandNotAllowed
    BY <2>4, <2>12 DEF UnknownCommand, CommandNotAllowed
  <2>13. CASE Greet \/ Help
    BY <2>1, <2>2, <2>13 DEF Greet, Help
  <2>14. CASE Noop
    BY <2>1, <2>2, <2>5, <2>14 DEF Noop
  <2>15. CASE Quit
    BY <2>1, <2>5, <2>15, NotRefused DEF Quit
  <2>16. CASE Rset
    BY <2>1, <2>2, <2>5, <2>16 DEF Rset
  <2>17. ASSUME NEW command, NEW name, HeloOrEhlo(command, name)
         PROVE  UNCHANGED session \/ replies' \notin {<<c>> : c \in RefusalCodes}
    BY <2>1, <2>3, <2>5, <2>6, <2>17 DEF HeloOrEhlo
  <2>18. CASE Helo \/ Ehlo
    BY <2>17, <2>18 DEF Helo, Ehlo
  <2>19. ASSUME NEW user, AuthPlain(user)
         PROVE  UNCHANGED session \/ replies' \notin {<<c>> : c \in RefusalCodes}
    BY <2>1, <2>3, <2>4, <2>5, <2>6, <2>7, <2>19 DEF AuthPlain
  <2>20. ASSUME NEW user, AuthLogin(user)
         PROVE  UNCHANGED session \/ replies' \notin {<<c>> : c \in RefusalCodes}
    BY <2>1, <2>3, <2>5, <2>6, <2>20 DEF AuthLogin
  <2>21. ASSUME NEW user, UsernameLine(user)
         PROVE  replies' \notin {<<c>> : c \in RefusalCodes}
    BY <2>1, <2>2, <2>21 DEF UsernameLine
  <2>22. CASE PasswordLine
    BY <2>1, <2>7, <2>22, NotRefused DEF PasswordLine, AuthenticatorFails
  <2>23. CASE Credentials
    BY <2>10, <2>21, <2>22, <2>23 DEF Credentials
  <2>24. ASSUME NEW sender, NEW size, MailFrom(sender, size)
         PROVE  UNCHANGED session \/ replies' \notin {<<c>> : c \in RefusalCodes}
    BY <2>1, <2>3, <2>4, <2>5, <2>6, <2>24 DEF MailFrom
  <2>25. ASSUME NEW recipient, RcptTo(recipient)
         PROVE  UNCHANGED session \/ replies' \notin {<<c>> : c \in RefusalCodes}
    BY <2>1, <2>3, <2>5, <2>6, <2>25 DEF RcptTo
  <2>26. CASE Data
    BY <2>1, <2>3, <2>5, <2>6, <2>26 DEF Data
  <2>27. ASSUME NEW size, MsgData(size)
         PROVE  UNCHANGED session \/ replies' \notin {<<c>> : c \in RefusalCodes}
    BY <2>1, <2>3, <2>4, <2>6, <2>27 DEF MsgData, DelivererFails, HandOver
  <2>28. QED
    BY <2>10, <2>11, <2>12, <2>13, <2>14, <2>15, <2>16, <2>18, <2>19, <2>20, <2>23, <2>24,
       <2>25, <2>26, <2>27 DEF Next
<1>2. Harmless => (Serving /\ replies' \in {<<c>> : c \in {"500", "501", "503", "550", "552"}}
                      => UNCHANGED session)
  BY DEF RefusalCodes
<1>3. TypeOK /\ [Next]_vars =>
        [Serving /\ replies' \in {<<c>> : c \in {"500", "501", "503", "550", "552"}}
            => UNCHANGED session]_vars
  BY <1>1, <1>2
<1>4. QED
  BY <1>3, TypeCorrect, PTL DEF Spec, FailedCommandsChangeNothing

\* The replies to a message body are true: 250 follows the deliverer's call,
\* and what the deliverer took is never refused.
THEOREM ReceiptsTruthful == Spec => ReceiptIsTruthful
<1> DEFINE Truthful ==
        /\ mode = "data" /\ replies' = <<"250">> => handed' # None
        /\ handed' # None =>
             \/ replies' \in {<<"250">>} \cup CustomAnswers
             \/ replies' = <<>> /\ ~open'
<1>1. TypeOK /\ Inv /\ [Next]_vars => Truthful \/ UNCHANGED vars
  <2> SUFFICES ASSUME TypeOK, Inv, Next, ~UNCHANGED vars
               PROVE  Truthful
    OBVIOUS
  <2>1. \A code : <<code>> = <<"250">> => code = "250"
    OBVIOUS
  <2>2. ASSUME handed' = None, mode # "data" \/ replies' # <<"250">>
        PROVE  Truthful
    BY <2>2
  <2>3. ASSUME NEW command, command # "MSGDATA", Ready(command), handed' = None
        PROVE  Truthful
    BY <2>2, <2>3 DEF Ready, Submitted
  <2>4. ASSUME NEW code, code # "250", Refuse(code), handed' = None
        PROVE  Truthful
    BY <2>1, <2>2, <2>4 DEF Refuse, Say, Answer
  <2>5. <<"250">> \notin CustomAnswers /\ <<>> # <<"250">>
    <3>1. \A c \in CustomReplies : c # "250"
      BY DEF CustomReplies
    <3>2. QED
      BY <2>1, <3>1 DEF CustomAnswers
  <2>10. CASE NewConnection
    BY <2>2, <2>10 DEF NewConnection, Ordinary, Inv, StatesExplained
  <2>11. CASE Disconnect
    BY <2>2, <2>11 DEF Disconnect, Ordinary
  <2>12. CASE UnknownCommand \/ CommandNotAllowed
    BY <2>4, <2>12 DEF UnknownCommand, CommandNotAllowed, Ordinary
  <2>13. CASE Greet \/ Help \/ Noop \/ Quit \/ Rset
    BY <2>3, <2>13 DEF Greet, Help, Noop, Quit, Rset, Ordinary
  <2>14. CASE Helo \/ Ehlo
    BY <2>3, <2>14 DEF Helo, Ehlo, HeloOrEhlo, Ordinary
  <2>15. ASSUME NEW user, AuthPlain(user) \/ AuthLogin(user)
         PROVE  Truthful
    BY <2>3, <2>15 DEF AuthPlain, AuthLogin
  <2>16. CASE AuthLoginFails
    BY <2>3, <2>16 DEF AuthLoginFails, Ordinary
  <2>17. CASE Credentials
    BY <2>2, <2>17 DEF Credentials, GarbledCredentials, UsernameLine, PasswordLine,
       CredentialsExpected
  <2>18. ASSUME NEW sender, NEW size, MailFrom(sender, size)
         PROVE  Truthful
    BY <2>3, <2>18 DEF MailFrom, Ordinary
  <2>19. ASSUME NEW recipient, RcptTo(recipient)
         PROVE  Truthful
    BY <2>3, <2>19 DEF RcptTo, Ordinary
  <2>20. CASE Data
    BY <2>3, <2>20 DEF Data
  <2>21. ASSUME NEW size \in Sizes, MsgData(size)
         PROVE  Truthful
    <3>1. CASE Refuse("552") /\ handed' = None
      BY <2>4, <3>1
    <3>2. ASSUME NEW d \in Verdicts, TurnedDown(d, "550"), handed' = None
          PROVE  Truthful
      <4>1. replies' \in {<<"550">>, <<>>} \cup CustomAnswers
        BY <3>2, TurnedDownEnd
      <4>2. replies' # <<"250">>
        BY <2>1, <2>5, <4>1
      <4>3. QED
        BY <2>2, <3>2, <4>2
    <3>3. ASSUME NEW d \in Verdicts, DelivererFails(d)
          PROVE  Truthful
      <4>1. replies' \in CustomAnswers \/ replies' = <<>>
        BY <3>3, VerdictType, CustomAnswer DEF DelivererFails
      <4>2. handed' = None
        BY <3>3 DEF DelivererFails
      <4>3. replies' # <<"250">>
        BY <2>5, <4>1
      <4>4. QED
        BY <2>2, <4>2, <4>3, Zenon
    <3>4. ASSUME NEW d \in Verdicts, HandOver(d, size)
          PROVE  Truthful
      <4>1. message \in Messages
        BY <2>21, ServedMessage DEF MsgData, Ready, Submitted
      <4>2. size \in Nat
        BY SizeAssumption DEF Sizes
      <4>3. handed' # None
        BY <3>4, <4>1, <4>2, MessageTypes, NoneAssumption DEF HandOver
      <4>4. Respond(d, "250")
        BY <3>4 DEF HandOver
      <4>5. \/ replies' \in {<<"250">>} \cup CustomAnswers
            \/ replies' = <<>> /\ ~open'
        BY <4>4, RespondEnd
      <4>6. QED
        BY <4>3, <4>5
    <3>5. QED
      BY <2>21, <3>1, <3>2, <3>3, <3>4 DEF MsgData
  <2>22. CASE Ended
    BY <2>22 DEF Ended
  <2>23. QED
    BY <2>10, <2>11, <2>12, <2>13, <2>14, <2>15, <2>16, <2>17, <2>18, <2>19, <2>20,
       <2>21, <2>22 DEF Next
<1>2. TypeOK /\ Inv /\ [Next]_vars => [Truthful]_vars
  BY <1>1
<1>3. QED
  BY <1>2, TypeCorrect, SessionInvariant, PTL DEF Spec, ReceiptIsTruthful

=============================================================================
