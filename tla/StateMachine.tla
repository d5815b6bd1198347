---------------------------- MODULE StateMachine ----------------------------
(***************************************************************************)
(* The table-driven state machine of pymta/statemachine.py.  One object of *)
(* the class is one instance of this module: Transitions is the table that *)
(* add() filled, state and flags are its two attributes.  A transition is  *)
(* taken by Execute, which a client module conjoins with what the handler  *)
(* of the transition does.  The handler runs before the state and the      *)
(* flags change (execute, lines 61-66), so a handler that raises leaves    *)
(* both alone: that is a step without Execute.                             *)
(***************************************************************************)
EXTENDS TransitionTable

CONSTANT Transitions

VARIABLES
    state,      \* _state
    flags       \* the names that are True in _flags

IsConditionSatisfied(row) ==
    row.ifSet \subseteq flags /\ row.ifNot \cap flags = {}

\* The rows that can be taken now, and the names of their actions.
Available == {row \in Transitions : row.from = state /\ IsConditionSatisfied(row)}

AllowedActions == {row.action : row \in Available}

\* The rest of execute() after its handler returned.
Execute(action) ==
    \E row \in Available :
        /\ row.action = action
        /\ flags' = flags \cup row.sets
        /\ state' = row.to

=============================================================================
