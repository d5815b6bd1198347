------------------------- MODULE MCCommandArguments -------------------------
(***************************************************************************)
(* For each kind of argument what is right, and each way to get it wrong.  *)
(***************************************************************************)
EXTENDS CommandArguments

Addresses ==
    {Address(TRUE, "foo", TRUE), Address(FALSE, "foo", FALSE),
     Address(TRUE, "foo", FALSE), Address(FALSE, "foo", TRUE)}

Options ==
    {Option("size", TRUE, Number(1)), Option("size", FALSE, Number(2)),
     Option("size", TRUE, Number(0)), Option("size", TRUE, Text("fnord")),
     Option("body", TRUE, Text("fnord")),
     Option("email", TRUE, Address(TRUE, "bar", TRUE))}

\* The encodings of these are six, seven and eight digits long, which need
\* two "=", one and none.
MCLogins ==
    {[authzid |-> None, username |-> <<117>>, password |-> <<112>>],
     [authzid |-> <<127>>, username |-> <<85>>, password |-> <<111>>],
     [authzid |-> None, username |-> <<119, 1>>, password |-> <<113, 114>>]}

Codes == {Encoded(Message(login)) : login \in MCLogins}

(***************************************************************************)
(* Credentials that are filled up with "=", too much or not at all; cut in *)
(* the middle of a group; with other low bits in the last digit; and bits  *)
(* of text: one Nul with and without a name, a name without, an octet that *)
(* is not ASCII, nothing, and only "=".                                    *)
(***************************************************************************)
Encodings ==
    {Base64(code, pads) : code \in Codes, pads \in {0, 2}} \cup
    {Base64(SubSeq(code, 1, 3), 0) : code \in Codes} \cup
    {Base64(SubSeq(code, 4, Len(code)), 1) : code \in Codes} \cup
    {Base64([code EXCEPT ![Len(code)] = @ + 3], 1) : code \in {c \in Codes : Len(c) = 7}} \cup
    {Base64(Encoded(text), 0) : text \in {<<Nul, 117, Nul>>, <<118, 112, Nul>>, <<112>>, <<>>}} \cup
    {Base64(<<63, 63, 63, 63>>, 0), Base64(<<>>, 2)}

MCWords ==
    [verb \in Verbs |->
        CASE verb = "MAIL FROM" -> {Text("fnord")} \cup Addresses \cup Options
          [] verb = "RCPT TO" -> {Text("fnord")} \cup Addresses
          [] verb \in {"AUTH PLAIN", "AUTH LOGIN"} -> Encodings
          [] OTHER -> {Text("fnord")}]

=============================================================================
