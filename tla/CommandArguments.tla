-------------------------- MODULE CommandArguments --------------------------
(***************************************************************************)
(* From a command line to what a handler of SMTPSession works with: the    *)
(* regular expression of ParserImplementation in pymta/command_parser.py,  *)
(* the upper-casing of _handle_command() and the schema the handler        *)
(* validates its arguments with (pymta/validation.py).  Whether the state  *)
(* machine allows the command is the business of SMTPSession.              *)
(*                                                                         *)
(* A line is a sequence of tokens: Blank, Colon, and the records below.    *)
(***************************************************************************)
EXTENDS Integers, Sequences, SequencesExt, FiniteSetsExt

CONSTANTS
    None,
    Blank, Colon,
    Rejected,       \* InvalidDataError: a reply with code 501
    Crashed,        \* an exception that _handle_command() does not catch
    Words,          \* for each verb, the arguments that clients try
    Logins,         \* the credentials that clients mean by AUTH PLAIN
    MaxWords,       \* bound: arguments in a line
    MaxBlanks       \* bound: superfluous blanks in a row

Verb(name, upper) == [verb |-> name, upper |-> upper]

\* An address, with or without each angle bracket.
Address(opened, mailbox, closed) ==
    [opened |-> opened, mailbox |-> mailbox, closed |-> closed]

\* KEY=value, with the key as its lower case and whether it is spelled so.
Option(key, lower, value) == [key |-> key, lower |-> lower, value |-> value]

Number(n) == [number |-> n]

\* The digits of base64 in a word, and how many "=" it ends with.  Characters
\* that are no digits are not here: b64decode() drops them.
Base64(digits, pads) == [digits |-> digits, pads |-> pads]

\* Any other word.
Text(name) == [text |-> name]

Is(kind, word) == kind \in DOMAIN word

WithoutArguments == {"NOOP", "RSET", "QUIT", "DATA"}
Verbs == WithoutArguments \cup
    {"HELP", "HELO", "EHLO", "MAIL FROM", "RCPT TO", "AUTH PLAIN", "AUTH LOGIN"}

\* Text is a sequence of octets, Nul among them.
Nul == 0
Names == Seq(1..127) \ {<<>>}
Credentials == [authzid : Names \cup {None}, username : Names, password : Names]

AllWords == UNION {Words[verb] : verb \in Verbs}

ASSUME ArgumentAssumption ==
    /\ DOMAIN Words = Verbs
    /\ {MaxWords, MaxBlanks} \subseteq Nat

\* No token is taken for one of another kind, and no reply for the fields of MAIL.
ASSUME TokenAssumption ==
    /\ Blank \notin AllWords
    /\ \A verb \in Verbs, upper \in BOOLEAN : Verb(verb, upper) \notin {Blank, Colon}
    /\ None \notin Int
    /\ \A word \in AllWords : Is("mailbox", word) =>
          [email |-> word.mailbox, size |-> None] \notin {Rejected, Crashed}

\* What the parts of a word are.
ASSUME WordAssumption ==
    /\ \A word \in AllWords : Is("key", word) /\ Is("number", word.value) =>
          word.value \in [number : Int]
    /\ \A verb \in {"AUTH PLAIN", "AUTH LOGIN"} : \A word \in Words[verb] :
          word.digits \in Seq(0..63) /\ word.pads \in Nat

ASSUME LoginAssumption == None \notin Names /\ Logins \subseteq Credentials

VARIABLES
    esmtp,      \* uses_esmtp(): the client said EHLO
    request,    \* what the client means: a verb and its arguments
    line,       \* how it writes that, or None
    outcome     \* what the handler gets, None before

vars == <<esmtp, request, line, outcome>>

-----------------------------------------------------------------------------
(***************************************************************************)
(* ParserImplementation.parse()                                            *)
(***************************************************************************)

\* UnderstoodAsMeant: only a blank ends the command.
FaultySeparates(token) == token = Blank

Separates(token) == token \in {Blank, Colon}

Matches(tokens) ==
    /\ Len(tokens) > 1
    /\ Head(tokens) \notin {Blank, Colon}
    /\ Is("verb", Head(tokens))
    /\ Separates(tokens[2])

\* A line that does not match is a command as a whole.
Command(tokens) == IF Matches(tokens) THEN <<Head(tokens)>> ELSE tokens

WithoutBlanks(tokens) ==
    FlattenSeq([i \in DOMAIN tokens |->
                   IF tokens[i] = Blank THEN <<>> ELSE <<tokens[i]>>])

\* strip(), and re.split() at the separator_pattern() of the schemas.
Parameters(tokens) ==
    IF Matches(tokens) THEN WithoutBlanks(SubSeq(tokens, 3, Len(tokens))) ELSE <<>>

-----------------------------------------------------------------------------
(***************************************************************************)
(* The schemas: a record of fields, or Rejected, or Crashed.               *)
(***************************************************************************)

NoArguments(words) == IF words = <<>> THEN <<>> ELSE Rejected

HeloSchema(words) == IF Len(words) = 1 THEN [helo |-> Head(words)] ELSE Rejected

Balanced(word) == word.opened = word.closed

SMTPEmailValidator(word) == Is("mailbox", word) /\ Balanced(word)

RcptToSchema(words) ==
    IF Len(words) = 1 /\ SMTPEmailValidator(Head(words))
    THEN [email |-> Head(words).mailbox]
    ELSE Rejected

\* TypeOK: min=0.
FaultySizeExtensionValidator(value) == Is("number", value) /\ value.number >= 0

SizeExtensionValidator(value) == Is("number", value) /\ value.number >= 1

KnownExtension(word) == Is("key", word) /\ word.key \in {"email", "size"}

(***************************************************************************)
(* aggregate_values(): options are appended to the positional fields by    *)
(* name, and the last one of a name wins.  "email" is a name like "size".  *)
(***************************************************************************)
Fields(words) == {"email"} \cup {words[i].key : i \in 2..Len(words)}

Field(words, name) ==
    LET named == {i \in 2..Len(words) : words[i].key = name}
    IN  IF named = {} THEN Head(words) ELSE words[Max(named)].value

\* MailAsAnnounced: plain SMTP may use extensions, too.
FaultyExtensionsAllowed(words) == TRUE

\* _process_fields() counts fields and not options.
ExtensionsAllowed(words) == Cardinality(Fields(words)) > 1 => esmtp

MailFromSchema(words) ==
    LET size == Field(words, "size")
    IN  IF /\ words # <<>>
           /\ \A i \in 2..Len(words) : KnownExtension(words[i])
           /\ ExtensionsAllowed(words)
           /\ SMTPEmailValidator(Field(words, "email"))
           /\ "size" \in Fields(words) => SizeExtensionValidator(size)
        THEN [email |-> Field(words, "email").mailbox,
              size |-> IF "size" \in Fields(words) THEN size.number ELSE None]
        ELSE Rejected

(***************************************************************************)
(* b64decode(): all digits of the text, whatever stands between them, in   *)
(* groups of four for three octets.  Of an incomplete group one digit is   *)
(* too few, and two or three need the "=" that fill it up; and the octets  *)
(* have to be ASCII.                                                       *)
(***************************************************************************)
Digits(words) == FlattenSeq([i \in DOMAIN words |-> words[i].digits])

Octets(digits) ==
    [k \in 1..((3 * Len(digits)) \div 4) |->
        LET n == k + ((k - 1) \div 3)
        IN  CASE k % 3 = 1 -> (4 * digits[n]) + (digits[n + 1] \div 16)
              [] k % 3 = 2 -> (16 * (digits[n] % 16)) + (digits[n + 1] \div 4)
              [] k % 3 = 0 -> (64 * (digits[n] % 4)) + digits[n + 1]]

\* Whether n digits are whole groups, or filled up to some.
FilledUp(n, pads) == n % 4 = 0 \/ (n % 4 # 1 /\ (n % 4) + pads >= 4)

Decodable(words) ==
    LET digits == Digits(words)
    IN  /\ FilledUp(Len(digits), IF words = <<>> THEN 0 ELSE Last(words).pads)
        /\ Range(Octets(digits)) \subseteq 0..127

Decoded(words) == Octets(Digits(words))

\* The pattern "=\s(.+)$" finds nothing behind a padded word.
OnlyLastPadded(words) == \A i \in DOMAIN words : words[i].pads > 0 => i = Len(words)

\* CredentialsAsMeant: the pattern is not anchored at the end.
FaultyThreeFields(nuls) == Cardinality(nuls) >= 2

ThreeFields(nuls) == Cardinality(nuls) = 2

\* Text up to the first Nul, up to the second, and the rest.
AuthPlainSchema(words) ==
    LET text == Decoded(words)
        nuls == {i \in DOMAIN text : text[i] = Nul}
        first == Min(nuls)
        second == Min(nuls \ {first})
        authzid == SubSeq(text, 1, first - 1)
        username == SubSeq(text, first + 1, second - 1)
        password == SubSeq(text, second + 1, Len(text))
    IN  IF /\ OnlyLastPadded(words)
           /\ Decodable(words)
           /\ ThreeFields(nuls)
           /\ <<>> \notin {username, password}
        THEN [authzid |-> IF authzid = <<>> THEN None ELSE authzid,
              username |-> username, password |-> password]
        ELSE Rejected

\* "username_b64, = parameters" fails for more than one word.
AuthLoginSchema(words) ==
    IF words = <<>> THEN [username |-> None]
    ELSE IF Len(words) > 1 THEN Crashed
    ELSE IF Decodable(words)
    THEN [username |-> IF Decoded(words) = <<>> THEN None ELSE Decoded(words)]
    ELSE Rejected

\* Which schema a handler uses; HELP ignores its arguments.
Validate(verb, words) ==
    CASE verb \in WithoutArguments  -> NoArguments(words)
      [] verb = "HELP"              -> <<>>
      [] verb \in {"HELO", "EHLO"}  -> HeloSchema(words)
      [] verb = "MAIL FROM"         -> MailFromSchema(words)
      [] verb = "RCPT TO"           -> RcptToSchema(words)
      [] verb = "AUTH PLAIN"        -> AuthPlainSchema(words)
      [] verb = "AUTH LOGIN"        -> AuthLoginSchema(words)

-----------------------------------------------------------------------------

Init ==
    /\ esmtp \in BOOLEAN
    /\ request = [verb |-> "NOOP", words |-> <<>>]
    /\ line = None
    /\ outcome = None

Blanks(n) == [i \in 1..n |-> Blank]

\* What clients write for a verb and its arguments; n superfluous blanks.
Spellings(verb, words, separator, n) ==
    LET argument(i) == Blanks(IF i = 1 THEN n ELSE n + 1) \o <<words[i]>>
        written == <<separator>> \o FlattenSeq([i \in DOMAIN words |-> argument(i)])
                                 \o Blanks(n)
    IN  {<<Verb(verb, upper)>> \o written : upper \in BOOLEAN}

Write ==
    /\ line = None /\ outcome = None
    /\ \E verb \in Verbs, separator \in {Blank, Colon}, n \in 0..MaxBlanks :
          \E words \in SeqOf(Words[verb], MaxWords) :
             /\ request' = [verb |-> verb, words |-> words]
             /\ \/ line' \in Spellings(verb, words, separator, n)
                \/ words = <<>> /\ line' = <<Verb(verb, TRUE)>>
    /\ UNCHANGED <<esmtp, outcome>>

\* _handle_command(): upper(), and a command that is no verb gets a 500.
Handle ==
    /\ line # None
    /\ LET command == Command(line)
           known == Len(command) = 1 /\ Is("verb", Head(command))
           words == Parameters(line)
       IN  outcome' =
              IF known
              THEN [verb |-> Head(command).verb, words |-> words,
                    fields |-> Validate(Head(command).verb, words)]
              ELSE [verb |-> None, words |-> <<>>, fields |-> Rejected]
    /\ line' = None
    /\ UNCHANGED <<esmtp, request>>

\* One line is enough, the arguments of one never reach the next.
Ended == outcome # None /\ UNCHANGED vars

Next == Write \/ Handle \/ Ended

Spec == Init /\ [][Next]_vars

-----------------------------------------------------------------------------

Handled(verb) == outcome # None /\ outcome.verb = verb
Accepted(verb) == Handled(verb) /\ outcome.fields \notin {Rejected, Crashed}

\* What an address in the request means.
Mailboxes == {w.mailbox : w \in {word \in AllWords :
                                    Is("mailbox", word) /\ word.opened = word.closed}}

(***************************************************************************)
(* The fields a handler gets are those it takes: addresses have lost their *)
(* brackets, and a size is a positive number.                              *)
(***************************************************************************)
TypeOK ==
    /\ esmtp \in BOOLEAN
    /\ request.verb \in Verbs /\ request.words \in Seq(Words[request.verb])
    /\ Accepted("RCPT TO") => outcome.fields.email \in Mailboxes
    /\ Accepted("MAIL FROM") =>
          /\ outcome.fields.size \in (Nat \ {0}) \cup {None}
          /\ DOMAIN outcome.fields = {"email", "size"}

(***************************************************************************)
(* Verb and arguments of a line are those the client means, whatever       *)
(* letters, separator and blanks it writes them with.                      *)
(***************************************************************************)
UnderstoodAsMeant ==
    outcome # None => outcome.verb = request.verb /\ outcome.words = request.words

(***************************************************************************)
(* MAIL FROM with its sender alone is taken if and only if the brackets    *)
(* match; a size comes from the last SIZE of an extended session and from  *)
(* nothing else; and the sender is the first argument, except that an      *)
(* option called EMAIL replaces it.                                        *)
(***************************************************************************)
MailAsAnnounced ==
    LET words == request.words
        optionsAt == {i \in 2..Len(words) : Is("key", words[i])}
        sizes == {i \in optionsAt : words[i].key = "size"}
        emails == {i \in optionsAt : words[i].key = "email"}
        sender == Head(words)
    IN  /\ Handled("MAIL FROM") /\ Len(words) = 1 =>
              (Accepted("MAIL FROM") <=>
                  Is("mailbox", sender) /\ sender.opened = sender.closed)
        /\ Accepted("MAIL FROM") =>
              /\ emails = {} => outcome.fields.email = sender.mailbox
              /\ sizes = {} <=> outcome.fields.size = None
              /\ sizes # {} =>
                    /\ esmtp
                    /\ \E i \in sizes :
                          /\ words[i].value = Number(outcome.fields.size)
                          /\ \A j \in sizes : j <= i

(***************************************************************************)
(* AUTH PLAIN takes what is the encoding of credentials, at whatever place *)
(* it is cut into words, and nothing else; and the credentials the handler *)
(* gets are the encoded ones.                                              *)
(***************************************************************************)

\* RFC 4648: digit n of the encoding of a text, whose last group is filled
\* with zeros.
Encoded(text) ==
    LET octet(i) == IF i \in DOMAIN text THEN text[i] ELSE 0
    IN  [n \in 1..((4 * Len(text) + 2) \div 3) |->
            LET k == n - ((n - 1) \div 4)
            IN  CASE n % 4 = 1 -> octet(k) \div 4
                  [] n % 4 = 2 -> (16 * (octet(k - 1) % 4)) + (octet(k) \div 16)
                  [] n % 4 = 3 -> (4 * (octet(k - 1) % 16)) + (octet(k) \div 64)
                  [] n % 4 = 0 -> octet(k - 1) % 64]

\* The digits encode the text, but for the bits of the last one that no octet
\* needs.
Encodes(digits, text) ==
    LET code == Encoded(text)
        n == Len(code)
        unused == CASE n % 4 = 2 -> 16 [] n % 4 = 3 -> 4 [] OTHER -> 1
    IN  /\ Len(digits) = n
        /\ \A i \in 1..(n - 1) : digits[i] = code[i]
        /\ n > 0 => digits[n] \div unused = code[n] \div unused

\* RFC 4616: [authzid] NUL username NUL password.
Message(login) ==
    (IF login.authzid = None THEN <<>> ELSE login.authzid)
        \o <<Nul>> \o login.username \o <<Nul>> \o login.password

Means(words, login) ==
    /\ Encodes(Digits(words), Message(login))
    /\ OnlyLastPadded(words)
    /\ FilledUp(Len(Digits(words)), Last(words).pads)

CredentialsAsMeant ==
    Handled("AUTH PLAIN") =>
        /\ Accepted("AUTH PLAIN") =>
              outcome.fields \in Credentials /\ Means(request.words, outcome.fields)
        /\ \A login \in Logins :
              Means(request.words, login) => outcome.fields = login

-----------------------------------------------------------------------------
(***************************************************************************)
(* The tests test_auth_plain_requires_exactly_one_parameter and            *)
(* test_reject_more_than_one_parameter: AUTH PLAIN takes one word.  A word *)
(* without "=" may be followed by others.                                  *)
(***************************************************************************)
OneWord == Accepted("AUTH PLAIN") => Len(request.words) = 1

=============================================================================
