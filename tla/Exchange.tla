------------------------------ MODULE Exchange ------------------------------
(***************************************************************************)
(* What the input side of a connection promises, without bytes, packets,   *)
(* terminators or buffers: a client that waits for the answer to each      *)
(* input has it passed to the session exactly once, in order and as it was *)
(* meant, and needs to send nothing else for that to happen.               *)
(***************************************************************************)
CONSTANTS None, Inputs

VARIABLES
    pending,    \* the input that is on its way, or None
    passed,     \* the input the last step passed to the session, or None
    connected

vars == <<pending, passed, connected>>

Init == pending = None /\ passed = None /\ connected = TRUE

Submit(input) ==
    /\ connected /\ pending = None
    /\ pending' = input
    /\ passed' = None
    /\ UNCHANGED connected

\* The session may close the connection after any input.
Pass ==
    /\ connected /\ pending # None
    /\ passed' = pending
    /\ pending' = None
    /\ connected' \in BOOLEAN

HangUp ==
    /\ connected
    /\ connected' = FALSE
    /\ passed' = None
    /\ UNCHANGED pending

Next == (\E input \in Inputs : Submit(input)) \/ Pass \/ HangUp

Spec == Init /\ [][Next]_vars

FairSpec == Spec /\ WF_vars(Pass \/ (pending # None /\ HangUp))

=============================================================================
