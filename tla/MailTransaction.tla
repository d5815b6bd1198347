--------------------------- MODULE MailTransaction ---------------------------
(***************************************************************************)
(* What an SMTP connection promises to the deliverer, without commands,    *)
(* replies, policies or modes: a transaction is begun by one sender,       *)
(* collects recipients in order, and is either handed over exactly as it   *)
(* was collected or dropped; nothing of it reaches the next transaction.   *)
(* The user name a message is handed over with is the one the client       *)
(* logged in with before it began the transaction.                         *)
(***************************************************************************)
EXTENDS Sequences

CONSTANTS None, Senders, Recipients, Users

VARIABLES
    sender,     \* who began the open transaction, None if there is none
    rcpts,      \* the recipients it has collected, in order
    user,       \* the name the client is logged in with, or None
    handed      \* the message handed over by the last step, or None

vars == <<sender, rcpts, user, handed>>

Nothing == sender = None /\ rcpts = <<>> /\ handed = None

Init == Nothing /\ user = None

Idle == handed' = None /\ UNCHANGED <<sender, rcpts, user>>

\* A login is only possible between transactions.
Login(name) ==
    /\ sender = None
    /\ user' = name
    /\ handed' = None
    /\ UNCHANGED <<sender, rcpts>>

Begin(from) ==
    /\ sender = None
    /\ sender' = from
    /\ handed' = None
    /\ UNCHANGED <<rcpts, user>>

AddRecipient(to) ==
    /\ sender # None
    /\ rcpts' = Append(rcpts, to)
    /\ handed' = None
    /\ UNCHANGED <<sender, user>>

Commit ==
    /\ sender # None
    /\ rcpts # <<>>
    /\ handed' = [from |-> sender, to |-> rcpts, username |-> user]
    /\ sender' = None
    /\ rcpts' = <<>>
    /\ UNCHANGED user

\* RSET forgets the login as well as the transaction.
Abort == Nothing' /\ user' = None

Next ==
    \/ Idle
    \/ \E name \in Users : Login(name)
    \/ \E from \in Senders : Begin(from)
    \/ \E to \in Recipients : AddRecipient(to)
    \/ Commit
    \/ Abort

Spec == Init /\ [][Next]_vars

=============================================================================
