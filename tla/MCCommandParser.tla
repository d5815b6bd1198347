--------------------------- MODULE MCCommandParser ---------------------------
(***************************************************************************)
(* CommandParser for TLC: lines and bodies that start with dots, end with  *)
(* dots, consist of nothing but dots, are empty, or come close to a        *)
(* terminator, and pieces of every length.                                 *)
(***************************************************************************)
EXTENDS CommandParser

CONSTANTS a, u

MCBytes == {CR, LF, Dot, a, u}

MCLines == {<<>>, <<a>>, <<a, CR>>, <<Dot>>, <<a, u>>}

BodyLines == {<<>>, <<a>>, <<Dot>>, <<Dot, Dot>>, <<Dot, a>>, <<CR, Dot>>}

MCBodies == {<<l>> : l \in BodyLines} \cup {<<k, l>> : k, l \in BodyLines}
            \cup {<<<<a>>, <<>>, l>> : l \in BodyLines}

MCWithoutBody == {<<>>, <<<<a>>>>}
MCFewLines == {<<a>>}
MCLimits == {1}

=============================================================================
