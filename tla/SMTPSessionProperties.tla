------------------------ MODULE SMTPSessionProperties ------------------------
(***************************************************************************)
(* What makes an SMTP session correct.                                     *)
(***************************************************************************)
EXTENDS SMTPSession

Codes ==
    {"214", "220", "221", "235", "250", "334 Username:", "334 Password:", "354",
     "500", "501", "503", "535", "550", "552", "554"} \cup CustomReplies

CustomAnswers == {<<c>> : c \in CustomReplies}

TypeOK ==
    /\ config \in [policy : BOOLEAN, authenticator : BOOLEAN,
                   limit : Limits \cup {None}]
    /\ state \in KnownStates(SessionTransitions)
    /\ flags \subseteq {"esmtp"}
    /\ message \in Messages \cup {None}
    /\ closeAfter \in BOOLEAN
    /\ mode \in KnownStates(ModeTransitions)
    /\ open \in BOOLEAN
    /\ replies \in Seq(Codes)
    /\ handed \in Parcels \cup {None}
    /\ escaped \in Exceptions \cup {None}
    /\ verified \subseteq Users

-----------------------------------------------------------------------------
(***************************************************************************)
(* Safety.                                                                 *)
(***************************************************************************)

(***************************************************************************)
(* The two state machines agree although neither reads the other: the      *)
(* parser collects a message body only while the session expects one, and  *)
(* credentials only after the session accepted AUTH LOGIN.                 *)
(***************************************************************************)
ModesAgree ==
    /\ mode = "data" => state = "receiving_message"
    /\ mode = "auth_login" => state = "authenticated"

(***************************************************************************)
(* The parser's mode follows the session's own replies and nothing else: a *)
(* body is collected exactly after the session's 354, credentials exactly  *)
(* after its 334.  After every reply a policy wrote the parser reads       *)
(* commands, also after a 354 or a 334 of the policy's; so a client that   *)
(* goes by the code alone can be wrong about the mode.                     *)
(***************************************************************************)
ModeAnnounced ==
    Serving =>
        /\ mode = "data" <=> replies = <<"354">>
        /\ mode = "auth_login" <=>
             replies \in {<<"334 Username:">>, <<"334 Password:">>}

(***************************************************************************)
(* Nothing of a finished, reset or rejected transaction is left when the   *)
(* session waits for MAIL FROM, and no recipient is when it waits for the  *)
(* first RCPT TO.                                                          *)
(***************************************************************************)
BetweenMails == {"new", "greeted", "initialized", "authenticated"}

NoStaleEnvelope ==
    message # None =>
        /\ state \in BetweenMails => message.from = None
        /\ state \in BetweenMails \cup {"sender_known"} => message.to = <<>>

(***************************************************************************)
(* A message that may be received, and one that was handed over, has a     *)
(* sender and at least one recipient.                                      *)
(***************************************************************************)
HasEnvelope(m) == m.from # None /\ m.to # <<>>

EnvelopeComplete ==
    /\ message # None /\ state \in {"recipient_known", "receiving_message"} =>
         HasEnvelope(message)
    /\ handed # None => HasEnvelope(handed)

(***************************************************************************)
(* A message names a user only if the authenticator approved this user's   *)
(* password on this connection, after EHLO.                                *)
(***************************************************************************)
AuthenticUser ==
    /\ message # None /\ message.username # None =>
         message.username \in verified /\ "esmtp" \in flags
    /\ handed # None /\ handed.username # None => handed.username \in verified

(***************************************************************************)
(* What a state of the session stands for, beyond the above: no command is *)
(* taken before new_connection(), a sender is known in "sender_known", and *)
(* only a client that used EHLO gets to "authenticated".                   *)
(***************************************************************************)
StatesExplained ==
    /\ message = None => state = "new" /\ mode = "commands"
    /\ state = "sender_known" => message.from # None
    /\ state = "authenticated" => "esmtp" \in flags

(***************************************************************************)
(* A user name waits for its password only while the client has been asked *)
(* for one, so no later dialogue finds a name left behind.                 *)
(***************************************************************************)
PasswordPrompted ==
    Serving /\ message.pending # None =>
        mode = "auth_login" /\ replies = <<"334 Password:">>

(***************************************************************************)
(* Client and server stay in step: as long as the server goes on, each     *)
(* input was answered by exactly one reply, whoever wrote it.              *)
(***************************************************************************)
OneReplyPerInput == Serving => Len(replies) = 1

(***************************************************************************)
(* The server does not wait for more input once a policy asked for the     *)
(* connection to be closed after the response.  (The greeting is an        *)
(* exception: new_connection() only acts on such a request if it refuses.) *)
(***************************************************************************)
CloseRequestsHonoured == closeAfter /\ state # "new" => ~open

\* No message exceeds the limit the policy set, by whatever command it came.
SizeLimitRespected ==
    handed # None /\ config.policy /\ config.limit # None =>
        handed.size <= config.limit

(***************************************************************************)
(* The server's own 250 for a message body means that the deliverer took   *)
(* the message; and a message the deliverer took was not refused: the      *)
(* reply is positive, the policy's own, or the connection is closed.       *)
(***************************************************************************)
ReceiptIsTruthful ==
    [][ /\ mode = "data" /\ replies' = <<"250">> => handed' # None
        /\ handed' # None =>
             \/ replies' \in {<<"250">>} \cup CustomAnswers
             \/ replies' = <<>> /\ ~open' ]_vars

(***************************************************************************)
(* A command answered with an error leaves state, flags and message as     *)
(* they were (535 is not among these replies: a wrong password moves the   *)
(* session to "authenticated").                                            *)
(***************************************************************************)
FailedCommandsChangeNothing ==
    [][ Serving /\ replies' \in {<<c>> : c \in {"500", "501", "503", "550", "552"}} =>
            UNCHANGED session ]_vars

(***************************************************************************)
(* Every session is a sequence of mail transactions as MailTransaction     *)
(* promises them.                                                          *)
(***************************************************************************)
Transaction == INSTANCE MailTransaction WITH
    sender <- IF message = None THEN None ELSE message.from,
    rcpts <- IF message = None THEN <<>> ELSE message.to,
    user <- IF message = None THEN None ELSE message.username,
    handed <- IF handed = None THEN None
              ELSE [from |-> handed.from, to |-> handed.to,
                    username |-> handed.username]

MailTransactionSpec == Transaction!Spec

-----------------------------------------------------------------------------
(***************************************************************************)
(* What the documentation says and the code does not do.                   *)
(***************************************************************************)

(***************************************************************************)
(* smtp_msgdata() "is called when the whole message was received": the     *)
(* client can call it itself when the last body was rejected, or when the  *)
(* policy accepted DATA with a reply of its own.                           *)
(***************************************************************************)
MsgDataAfterTransfer == [][handed' # None => mode = "data"]_vars

(***************************************************************************)
(* accept_data(): "the actual message contents will be transferred after   *)
(* this method allowed it": not if it allowed it with a reply of its own.  *)
(***************************************************************************)
AcceptedDataIsTransferred ==
    [][ state # "receiving_message" /\ state' = "receiving_message" /\ open' =>
            mode' = "data" ]_vars

(***************************************************************************)
(* The tests of AUTH LOGIN with garbled credentials expect reply 501 and a *)
(* session that goes on; in the worker nobody catches the exception.       *)
(***************************************************************************)
GarbledCredentialsAnswered == escaped # "InvalidDataError"

=============================================================================
