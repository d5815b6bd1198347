---------------------------- MODULE MCSMTPSession ----------------------------
(***************************************************************************)
(* SMTPSession for TLC: one name to introduce oneself with is enough, two  *)
(* senders, recipients and users tell transactions apart; a limit of one   *)
(* byte lies between an empty body, a body of just that size and one more. *)
(***************************************************************************)
EXTENDS SMTPSessionProperties

CONSTANTS h1, s1, s2, r1, r2, u1, u2

\* add() would raise StateMachineDefinitionError otherwise.
ASSUME TablesWellDefined ==
    WellDefined(SessionTransitions) /\ WellDefined(ModeTransitions)

MCHeloNames == {h1}
MCSenders == {s1, s2}
MCRecipients == {r1, r2}
MCUsers == {u1, u2}
MCLimits == {1}

=============================================================================
