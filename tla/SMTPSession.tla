----------------------------- MODULE SMTPSession -----------------------------
(***************************************************************************)
(* One SMTP connection as pymta/session.py serves it: the SMTPSession      *)
(* object with its state machine and its current message, the parts of the *)
(* SMTPCommandParser and of the WorkerProcess it drives (the input mode,   *)
(* the replies, the connection), and around it the client, the policy, the *)
(* authenticator and the deliverer, which may do anything their interfaces *)
(* in pymta/api.py allow.                                                  *)
(*                                                                         *)
(* One step is the complete handling of one input: a command line, a       *)
(* credentials line of AUTH LOGIN, or a message body.  The server is       *)
(* single-threaded per connection, so nothing interleaves with a handler.  *)
(*                                                                         *)
(* An operator called Faulty... is not part of the specification: it is a  *)
(* plausible defect of the definition below it, and shows that the         *)
(* property named in its comment would notice.                             *)
(***************************************************************************)
EXTENDS Naturals, Sequences, TransitionTable

CONSTANTS
    None,           \* Python's None
    HeloNames,      \* names clients introduce themselves with
    Senders,        \* valid arguments of MAIL FROM
    Recipients,     \* valid arguments of RCPT TO
    Users,          \* user names in credentials
    Limits,         \* values of max_message_size() other than None
    MaxBodySize,    \* bound: longest message and largest announced size
    MaxRecipients   \* bound: recipients a client adds to one message

(***************************************************************************)
(* Message objects, with pending for unvalidated_input["username"]; what   *)
(* the deliverer gets to see of one, with the length of msg_data; and the  *)
(* exceptions that leave a handler.                                        *)
(***************************************************************************)
Messages ==
    [helo : HeloNames \cup {None}, from : Senders \cup {None},
     to : Seq(Recipients), username : Users \cup {None},
     pending : Users \cup {None}]

Parcels ==
    [from : Senders \cup {None}, to : Seq(Recipients),
     username : Users \cup {None}, size : Nat]

Exceptions ==
    {"AssertionError", "InvalidDataError", "InvalidParametersError", "ValueError",
     "PolicyError", "AuthenticatorError", "DelivererError"}

ASSUME NoneAssumption ==
    /\ None \notin HeloNames \cup Senders \cup Users
    /\ None \notin Limits
    /\ None \notin Exceptions
    /\ None \notin Messages
    /\ None \notin Parcels

ASSUME SizeAssumption ==
    /\ Limits \subseteq Nat
    /\ MaxBodySize \in Nat
    /\ MaxRecipients \in Nat \ {0}

VARIABLES
    config,         \* what the session was constructed with
    state, flags,   \* the SMTP state machine: self.state
    message,        \* self._message, None before new_connection()
    closeAfter,     \* self._close_connection_after_response
    mode,           \* the state machine of SMTPCommandParser
    open,           \* whether the worker still has the connection
    replies,        \* the replies the last step wrote
    handed,         \* the message the deliverer took in the last step
    escaped,        \* the exception that left the handler, or None
    verified        \* history: users whose password was correct

vars == <<config, state, flags, message, closeAfter, mode, open, replies,
          handed, escaped, verified>>

-----------------------------------------------------------------------------
(***************************************************************************)
(* The two state machines.                                                 *)
(***************************************************************************)

CoreTransitions ==
    {Arc("new",                 "GREET",        "greeted"),
     Arc("greeted",             "HELO",         "initialized"),
     Setting("esmtp",
       Arc("greeted",           "EHLO",         "initialized")),
     Arc("initialized",         "MAIL FROM",    "sender_known"),
     IfSet("esmtp",
       Arc("initialized",       "AUTH PLAIN",   "authenticated")),
     IfSet("esmtp",
       Arc("initialized",       "AUTH LOGIN",   "authenticated")),
     Arc("authenticated",       "AUTH LOGIN",   "authenticated"),
     Arc("authenticated",       "MAIL FROM",    "sender_known"),
     Arc("sender_known",        "RCPT TO",      "recipient_known"),
     Arc("recipient_known",     "RCPT TO",      "recipient_known"),
     Arc("recipient_known",     "DATA",         "receiving_message"),
     Arc("receiving_message",   "MSGDATA",      "initialized")}

HelpNoopAndQuitTransitions(table) ==
    UNION {{Arc(s, "NOOP", s), Arc(s, "HELP", s), Arc(s, "QUIT", "finished")} :
              s \in KnownStates(table) \ {"new", "finished"}}

\* EnvelopeComplete: RSET leads back to where it was sent.
FaultyRsetTransitions(table) == {Arc(s, "RSET", s) : s \in NonFinalStates(table)}

RsetTransitions(table) ==
    {Arc(s, "RSET", IF s = "new" THEN "new" ELSE "initialized") :
        s \in NonFinalStates(table)}

SessionTransitions ==
    LET table == CoreTransitions \cup HelpNoopAndQuitTransitions(CoreTransitions)
    IN  table \cup RsetTransitions(table)

ModeTransitions ==
    {Arc("commands",    "COMMAND",      "commands"),
     Arc("commands",    "AUTH_LOGIN",   "auth_login"),
     Arc("auth_login",  "COMMAND",      "commands"),
     Arc("commands",    "DATA",         "data"),
     Arc("data",        "COMMAND",      "commands")}

Machine == INSTANCE StateMachine WITH Transitions <- SessionTransitions

Modes == INSTANCE StateMachine
            WITH Transitions <- ModeTransitions, state <- mode, flags <- {}

SwitchToAuthLoginMode == Modes!Execute("AUTH_LOGIN")
SwitchToDataMode == Modes!Execute("DATA")

\* ModesAgree, ModeAnnounced: the parser stays in its mode.
FaultySwitchToCommandMode == UNCHANGED mode

SwitchToCommandMode == Modes!Execute("COMMAND")

-----------------------------------------------------------------------------
\* TypeOK: the default of smtp_to is None and not an empty list.
FaultyNewMessage(helo, user) ==
    [helo |-> helo, from |-> None, to |-> None, username |-> user,
     pending |-> None]

NewMessage(helo, user) ==
    [helo |-> helo, from |-> None, to |-> <<>>, username |-> user,
     pending |-> None]

\* NoStaleEnvelope: the recipients are carried over.
FaultyCopyBasicSettings(m) == [NewMessage(m.helo, m.username) EXCEPT !.to = m.to]

CopyBasicSettings(m) == NewMessage(m.helo, m.username)

\* MailTransactionSpec: RSET empties the envelope but keeps the login.
FaultyResetMessage(m) == NewMessage(m.helo, m.username)

ResetMessage(m) == NewMessage(m.helo, None)

Parcel(m, size) ==
    [from |-> m.from, to |-> m.to, username |-> m.username, size |-> size]

MaxMessageSize == IF config.policy THEN config.limit ELSE None

\* SizeLimitRespected: the comparison is off by one.
FaultyTooBig(size) == MaxMessageSize # None /\ size > MaxMessageSize + 1

TooBig(size) == MaxMessageSize # None /\ size > MaxMessageSize

-----------------------------------------------------------------------------
(***************************************************************************)
(* Policy verdicts.  A policy method answers with a boolean, a pair or a   *)
(* PolicyDecision; all of them are records saying whether the command is   *)
(* acceptable, which custom reply is set, and whether the connection is to *)
(* be closed before or after the response.  The code of a custom reply is  *)
(* the policy's choice: it may well be a 354 or a 334, with which the      *)
(* session itself announces that it expects something but a command.       *)
(***************************************************************************)

CustomReplies == {"custom", "custom 354", "custom 334"}

Decisions ==
    [accept : BOOLEAN, reply : CustomReplies \cup {"none"},
     before : BOOLEAN, after : BOOLEAN]

Verdicts ==
    IF config.policy
    THEN Decisions
    ELSE {[accept |-> TRUE, reply |-> "none", before |-> FALSE, after |-> FALSE]}

HasReply(d) == d.reply # "none"

ResponseSent(d) == HasReply(d) \/ d.before

\* The custom reply is written although the connection is closed already: the
\* assertion of WorkerProcess.write() fails.
WritesAfterClose(d) == HasReply(d) /\ d.before

\* OneReplyPerInput: the default reply follows a custom one.
FaultyResponse(d, code) ==
    (IF HasReply(d) THEN <<d.reply>> ELSE <<>>) \o (IF d.before THEN <<>> ELSE <<code>>)

\* What is written for verdict d where code is the default reply.
Response(d, code) ==
    IF HasReply(d) THEN <<d.reply>> ELSE IF d.before THEN <<>> ELSE <<code>>

-----------------------------------------------------------------------------
(***************************************************************************)
(* How a handler ends.  Whatever is written, sending may fail, and then    *)
(* WorkerProcess.write() closes the connection and the handler goes on.    *)
(***************************************************************************)

session == <<state, flags, message>>

Answer(code) == replies' = <<code>> /\ open' \in BOOLEAN /\ escaped' = None

\* handle_input() around a handler that asks no policy or gets no verdict.
Say(code) == Answer(code) /\ closeAfter' = FALSE

\* An error reply; the handler raised, so the session stays as it is.
Refuse(code) == Say(code) /\ UNCHANGED session

\* FailedCommandsChangeNothing: _dispatch_commands() catches InvalidDataError
\* itself, and the state is moved forward.
FaultyMalformed ==
    /\ Say("501")
    /\ \E row \in Machine!Available : state' = row.to
    /\ UNCHANGED <<flags, message>>

Malformed == Refuse("501")

\* CloseRequestsHonoured: handle_input() forgets the pending close.
FaultyRespond(d, code) ==
    /\ closeAfter' = d.after
    /\ replies' = Response(d, code)
    /\ open' \in {FALSE, ~d.before}
    /\ escaped' = None

\* handle_input() around a handler whose policy gave verdict d.
Respond(d, code) ==
    /\ closeAfter' = d.after
    /\ replies' = Response(d, code)
    /\ open' \in {FALSE, ~(d.before \/ d.after)}
    /\ escaped' = None

\* The failed assertion reaches nobody who would catch it.
FailToRespond ==
    /\ closeAfter' = FALSE
    /\ replies' = <<>>
    /\ open' = FALSE
    /\ escaped' = "AssertionError"

\* The policy's method raises, or answers what is_allowed() does not understand.
PolicyFails ==
    /\ config.policy
    /\ closeAfter' = FALSE
    /\ replies' = <<>>
    /\ escaped' = "PolicyError"
    /\ UNCHANGED open

Approves(d) == d.accept /\ ~WritesAfterClose(d)

\* PolicyDenial, a verdict whose own reply cannot be written, or no verdict.
TurnedDown(d, code) ==
    /\ UNCHANGED session
    /\ \/ PolicyFails
       \/ WritesAfterClose(d) /\ FailToRespond
       \/ ~WritesAfterClose(d) /\ ~d.accept /\ Respond(d, code)

-----------------------------------------------------------------------------
(***************************************************************************)
(* The life of the connection.                                             *)
(***************************************************************************)

Init ==
    /\ config \in [policy : BOOLEAN, authenticator : BOOLEAN,
                   limit : Limits \cup {None}]
    /\ state = "new"
    /\ flags = {}
    /\ message = None
    /\ closeAfter = FALSE
    /\ mode = "commands"
    /\ open = TRUE
    /\ replies = <<>>
    /\ handed = None
    /\ escaped = None
    /\ verified = {}

\* The connection is up and the worker waits for the client's next input.
Serving == message # None /\ open /\ escaped = None

\* A handler that neither switches the input mode nor checks a password nor
\* hands a message over.
Ordinary == handed' = None /\ UNCHANGED <<config, mode, verified>>

(***************************************************************************)
(* new_connection(): a verdict with a reply of its own skips smtp_greet(), *)
(* the state stays "new", and the request to close after the response is   *)
(* only recorded.  The nested handle_input("greet") resets that request.   *)
(***************************************************************************)
NewConnection ==
    /\ message = None
    /\ message' = NewMessage(None, None)
    /\ Ordinary
    /\ \E d \in Verdicts :
        \/ PolicyFails /\ UNCHANGED <<state, flags>>
        \/ WritesAfterClose(d) /\ FailToRespond /\ UNCHANGED <<state, flags>>
        \/ Approves(d) /\ ~ResponseSent(d) /\ Say("220") /\ Machine!Execute("GREET")
        \/ /\ ~WritesAfterClose(d)
           /\ d.accept => ResponseSent(d)
           /\ closeAfter' = d.after
           /\ replies' = Response(d, "554")
           /\ open' \in {FALSE, d.accept /\ ~d.before}
           /\ escaped' = None
           /\ UNCHANGED <<state, flags>>

\* recv() failed or returned nothing: handle_connection() closes its end.
Disconnect ==
    /\ Serving
    /\ open' = FALSE
    /\ replies' = <<>>
    /\ Ordinary
    /\ UNCHANGED <<state, flags, message, closeAfter, escaped>>

\* Nothing happens on this connection any more.
Ended == message # None /\ ~Serving /\ UNCHANGED vars

-----------------------------------------------------------------------------
(***************************************************************************)
(* Commands.  In data mode the parser passes every body on as MSGDATA; a   *)
(* client in command mode may send any word, MSGDATA and GREET included.   *)
(***************************************************************************)

Submitted(command) ==
    /\ Serving
    /\ mode = "commands" \/ (mode = "data" /\ command = "MSGDATA")

Ready(command) == Submitted(command) /\ command \in Machine!AllowedActions

UnknownCommand == Serving /\ mode = "commands" /\ Refuse("500") /\ Ordinary

CommandNotAllowed ==
    \E command \in KnownActions(SessionTransitions) \ Machine!AllowedActions :
        Submitted(command) /\ Refuse("503") /\ Ordinary

Greet ==
    /\ Ready("GREET")
    /\ Say("220")
    /\ Machine!Execute("GREET")
    /\ Ordinary
    /\ UNCHANGED message

Noop ==
    /\ Ready("NOOP")
    /\ Ordinary
    /\ UNCHANGED message
    /\ \/ Malformed
       \/ Say("250") /\ Machine!Execute("NOOP")

Help ==
    /\ Ready("HELP")
    /\ Say("214")
    /\ Machine!Execute("HELP")
    /\ Ordinary
    /\ UNCHANGED message

Quit ==
    /\ Ready("QUIT")
    /\ Ordinary
    /\ UNCHANGED message
    /\ \/ Malformed
       \/ /\ Machine!Execute("QUIT")
          /\ replies' = <<"221">>
          /\ open' = FALSE
          /\ closeAfter' = FALSE
          /\ escaped' = None

Rset ==
    /\ Ready("RSET")
    /\ Ordinary
    /\ \/ Malformed
       \/ /\ message' = ResetMessage(message)
          /\ Say("250")
          /\ Machine!Execute("RSET")

\* HELO and EHLO differ in the capabilities listed and in their transitions.
HeloOrEhlo(command, name) ==
    /\ Ready(command)
    /\ Ordinary
    /\ \/ Malformed
       \/ \E d \in Verdicts :
            \/ TurnedDown(d, "550")
            \/ /\ Approves(d)
               /\ message' = [message EXCEPT !.helo = name]
               /\ Respond(d, "250")
               /\ Machine!Execute(command)

Helo == \E name \in HeloNames : HeloOrEhlo("HELO", name)
Ehlo == \E name \in HeloNames : HeloOrEhlo("EHLO", name)

-----------------------------------------------------------------------------
(***************************************************************************)
(* Authentication.  A wrong password raises nothing: the command succeeds  *)
(* as far as the state machine is concerned.                               *)
(***************************************************************************)

\* AuthenticUser: the user name is stored whatever the authenticator says.
FaultyLoggedIn(m, user, correct) == [m EXCEPT !.username = user]

LoggedIn(m, user, correct) ==
    IF correct THEN [m EXCEPT !.username = user] ELSE m

\* _check_password() with an authenticator; m is the message it works on.
CheckPassword(m, user) ==
    \E correct \in BOOLEAN :
        /\ message' = LoggedIn(m, user, correct)
        /\ verified' = IF correct THEN verified \cup {user} ELSE verified
        /\ replies' = <<IF correct THEN "235" ELSE "535">>

\* authenticate() raises, which nobody catches.
AuthenticatorFails ==
    /\ config.authenticator
    /\ replies' = <<>>
    /\ escaped' = "AuthenticatorError"
    /\ UNCHANGED verified

AuthPlain(user) ==
    /\ Ready("AUTH PLAIN")
    /\ handed' = None
    /\ UNCHANGED <<config, mode>>
    /\ \/ ~config.authenticator /\ Refuse("535") /\ UNCHANGED verified
       \/ config.authenticator /\ Malformed /\ UNCHANGED verified
       \/ /\ config.authenticator
          /\ \E d \in Verdicts :
               \/ TurnedDown(d, "550") /\ UNCHANGED verified
               \/ /\ Approves(d) /\ ResponseSent(d)
                  /\ Respond(d, "235")
                  /\ Machine!Execute("AUTH PLAIN")
                  /\ UNCHANGED <<message, verified>>
               \/ /\ Approves(d) /\ ~ResponseSent(d)
                  /\ CheckPassword(message, user)
                  /\ closeAfter' = d.after
                  /\ open' \in {FALSE, ~d.after}
                  /\ escaped' = None
                  /\ Machine!Execute("AUTH PLAIN")
               \/ /\ Approves(d) /\ ~ResponseSent(d)
                  /\ AuthenticatorFails
                  /\ closeAfter' = d.after
                  /\ open' = ~d.after
                  /\ UNCHANGED session

(***************************************************************************)
(* AUTH LOGIN, with user # None if the command line names one.  It starts  *)
(* the dialogue without looking whether there is an authenticator.         *)
(***************************************************************************)
AuthLogin(user) ==
    /\ Ready("AUTH LOGIN")
    /\ handed' = None
    /\ UNCHANGED <<config, verified>>
    /\ \/ Malformed /\ UNCHANGED mode
       \/ \E d \in Verdicts :
            \/ TurnedDown(d, "550") /\ UNCHANGED mode
            \/ /\ Approves(d)
               /\ Machine!Execute("AUTH LOGIN")
               /\ Respond(d, IF user = None THEN "334 Username:" ELSE "334 Password:")
               /\ IF ResponseSent(d)
                  THEN UNCHANGED <<message, mode>>
                  ELSE /\ SwitchToAuthLoginMode
                       /\ message' = IF user = None THEN message
                                     ELSE [message EXCEPT !.pending = user]

\* "username_b64, = parameters" fails for more than one word.
AuthLoginFails ==
    /\ Ready("AUTH LOGIN")
    /\ Ordinary
    /\ replies' = <<>>
    /\ closeAfter' = FALSE
    /\ escaped' = "ValueError"
    /\ UNCHANGED <<session, open>>

\* PasswordPrompted: the user name stays behind when the password arrived.
FaultyForgetPending(m) == m

ForgetPending(m) == [m EXCEPT !.pending = None]

(***************************************************************************)
(* handle_auth_credentials(), which process_new_data() calls without       *)
(* handle_input(): nobody catches what it raises.  A blank line decodes to *)
(* None.                                                                   *)
(***************************************************************************)
CredentialsExpected ==
    Serving /\ mode = "auth_login" /\ handed' = None /\ UNCHANGED config

GarbledCredentials ==
    /\ CredentialsExpected
    /\ replies' = <<>>
    /\ escaped' \in {"InvalidDataError", "ValueError"}
    /\ UNCHANGED <<state, flags, message, closeAfter, mode, open, verified>>

UsernameLine(user) ==
    /\ CredentialsExpected
    /\ message.pending = None
    /\ message' = [message EXCEPT !.pending = user]
    /\ Answer("334 Password:")
    /\ UNCHANGED <<state, flags, closeAfter, mode, verified>>

PasswordLine ==
    /\ CredentialsExpected
    /\ message.pending # None
    /\ SwitchToCommandMode
    /\ UNCHANGED <<state, flags, closeAfter>>
    /\ open' \in BOOLEAN
    /\ \/ /\ config.authenticator
          /\ CheckPassword(ForgetPending(message), message.pending)
          /\ escaped' = None
       \/ /\ AuthenticatorFails
          /\ message' = ForgetPending(message)
          /\ UNCHANGED open
       \/ /\ ~config.authenticator
          /\ message' = ForgetPending(message)
          /\ replies' = <<"535">>
          /\ escaped' = "InvalidParametersError"
          /\ UNCHANGED verified

Credentials ==
    \/ GarbledCredentials
    \/ \E user \in Users \cup {None} : UsernameLine(user)
    \/ PasswordLine

-----------------------------------------------------------------------------
(***************************************************************************)
(* Mail.                                                                   *)
(***************************************************************************)

\* MAIL FROM, with size # None if the client announces one (ESMTP only).
MailFrom(sender, size) ==
    /\ Ready("MAIL FROM")
    /\ size # None => "esmtp" \in flags
    /\ Ordinary
    /\ \/ Malformed
       \/ size # None /\ TooBig(size) /\ Refuse("552")
       \/ /\ size # None => ~TooBig(size)
          /\ \E d \in Verdicts :
               \/ TurnedDown(d, "550")
               \/ /\ Approves(d)
                  /\ message' = [message EXCEPT !.from = sender]
                  /\ Respond(d, "250")
                  /\ Machine!Execute("MAIL FROM")

RcptTo(recipient) ==
    /\ Ready("RCPT TO")
    /\ Ordinary
    /\ \/ Malformed
       \/ \E d \in Verdicts :
            \/ TurnedDown(d, "550")
            \/ /\ Approves(d)
               /\ Len(message.to) < MaxRecipients
               /\ message' = [message EXCEPT !.to = Append(message.to, recipient)]
               /\ Respond(d, "250")
               /\ Machine!Execute("RCPT TO")

\* An acceptance with a reply of its own does not switch to data mode.
Data ==
    /\ Ready("DATA")
    /\ handed' = None
    /\ UNCHANGED <<config, verified>>
    /\ \/ Malformed /\ UNCHANGED mode
       \/ \E d \in Verdicts :
            \/ TurnedDown(d, "550") /\ UNCHANGED mode
            \/ /\ Approves(d)
               /\ IF ResponseSent(d) THEN UNCHANGED mode ELSE SwitchToDataMode
               /\ Respond(d, "354")
               /\ Machine!Execute("DATA")
               /\ UNCHANGED message

(***************************************************************************)
(* MSGDATA with a body of this size; typed as a command it has none.  The  *)
(* parser is back in command mode whatever becomes of the message.  A      *)
(* custom reply is written before the deliverer is called.                 *)
(***************************************************************************)

\* ReceiptIsTruthful: the reply precedes the call of the deliverer.
FaultyDelivererFails(d) ==
    /\ Respond(d, "250")
    /\ handed' = None
    /\ UNCHANGED session

DelivererFails(d) ==
    /\ escaped' = "DelivererError"
    /\ handed' = None
    /\ replies' = IF HasReply(d) THEN <<d.reply>> ELSE <<>>
    /\ closeAfter' = d.after
    /\ open' \in {FALSE, ~(d.before \/ d.after)}
    /\ UNCHANGED session

HandOver(d, size) ==
    /\ handed' = Parcel(message, size)
    /\ message' = CopyBasicSettings(message)
    /\ Respond(d, "250")
    /\ Machine!Execute("MSGDATA")

MsgData(size) ==
    /\ Ready("MSGDATA")
    /\ mode = "commands" => size = 0
    /\ UNCHANGED <<config, verified>>
    /\ SwitchToCommandMode
    /\ \/ TooBig(size) /\ Refuse("552") /\ handed' = None
       \/ /\ ~TooBig(size)
          /\ \E d \in Verdicts :
               \/ TurnedDown(d, "550") /\ handed' = None
               \/ Approves(d) /\ (DelivererFails(d) \/ HandOver(d, size))

-----------------------------------------------------------------------------

Sizes == 0..MaxBodySize

Next ==
    \/ NewConnection \/ Disconnect \/ Ended
    \/ UnknownCommand \/ CommandNotAllowed
    \/ Greet \/ Noop \/ Help \/ Quit \/ Rset \/ Helo \/ Ehlo
    \/ \E user \in Users : AuthPlain(user)
    \/ \E user \in Users \cup {None} : AuthLogin(user)
    \/ AuthLoginFails
    \/ Credentials
    \/ \E sender \in Senders, size \in (Sizes \ {0}) \cup {None} :
            MailFrom(sender, size)
    \/ \E recipient \in Recipients : RcptTo(recipient)
    \/ Data
    \/ \E size \in Sizes : MsgData(size)

Spec == Init /\ [][Next]_vars

=============================================================================
