--------------------------- MODULE TransitionTable ---------------------------
(***************************************************************************)
(* The tables of pymta/statemachine.py: what add() stores and what the     *)
(* introspection methods of the class compute from it.                     *)
(***************************************************************************)

(***************************************************************************)
(* One row of a table, without operations and without a condition.  sets   *)
(* holds the flags its operations set ("set_x" is the only kind there is), *)
(* ifSet and ifNot the flags its condition requires to be set ("if_x") or  *)
(* not set ("if_not_x").                                                   *)
(***************************************************************************)
Arc(from, action, to) ==
    [from |-> from, action |-> action, to |-> to,
     sets |-> {}, ifSet |-> {}, ifNot |-> {}]

Setting(flag, arc) == [arc EXCEPT !.sets = {flag}]

\* StatesExplained of SMTPSessionProperties: the condition gets lost.  (An
\* operator called Faulty... is no part of the specification but a plausible
\* defect of the definition below it, which the property would notice.)
FaultyIfSet(flag, arc) == arc

IfSet(flag, arc) == [arc EXCEPT !.ifSet = {flag}]

\* known_non_final_states(), known_states() and known_actions().
NonFinalStates(table) == {row.from : row \in table}

KnownStates(table) == NonFinalStates(table) \cup {row.to : row \in table}

KnownActions(table) == {row.action : row \in table}

\* What add() enforces by raising StateMachineDefinitionError: an action has
\* at most one row per state.
WellDefined(table) ==
    \A r, s \in table :
        r.from = s.from /\ r.action = s.action => r = s

=============================================================================
