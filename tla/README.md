# A formal model of pymta

pymta is a library for building an SMTP server: worker processes accept
connections, a parser turns bytes into commands and message bodies, a session
object runs the SMTP protocol and asks user-supplied policies, authenticators
and deliverers. This directory holds TLA+ specifications of its core, the TLC
configurations that check them on small instances, and TLAPS proofs.

## The system

| Component | State | Operations | Talks to |
|---|---|---|---|
| `StateMachine` (`statemachine.py`) | `_state`, `_flags`, the transition table | `add`, `execute`, introspection | calls the handler of the transition it executes |
| `SMTPSession` (`session.py`) | its state machine, the current `Message`, `_close_connection_after_response` | `new_connection`, `handle_input` with one `smtp_*` handler per command, `handle_auth_credentials` | policy, authenticator, deliverer (calls); parser (replies, mode switches, close) |
| `SMTPCommandParser` (`command_parser.py`) | input buffer, terminator, size limit, a second state machine for the input mode | `process_new_data`, `push`, the mode switches | session (handling input), worker (write, close) |
| `WorkerProcess` (`command_parser.py`) | the connection, the token it may hold | `run`, accept loop, `handle_connection`, `write`, `close` | parser; other workers through the token queue |
| `PythonMTA` (`mta.py`) | the queue, the workers, the shutdown event | `serve_forever`, `shutdown_server` | workers (queue, join) |
| `SMTPTestHelper`, `MTAThread` (`test_util.py`) | one server object, the thread it runs in | `start_mta`, `stop_mta` | `PythonMTA` (from another thread) |
| Argument validation (`validation.py`) | — | one schema per command | called by the session's handlers |
| Interfaces (`api.py`) | — | policy verdicts, password checks, delivery | called by the session |
| `Message`, `Peer` (`model.py`) | sender, recipients, user, data | construction | shared by session, policies and deliverer |
| Exceptions, compatibility (`exceptions.py`, `compat.py`) | — | `b64decode` | used by sessions and schemas |

What is hard here is not parallelism inside a connection (a connection is served
by one thread) but what several objects must agree on without looking at each
other, and the pool:

* *Two state machines.* The session's state and the parser's input mode are
  switched by different calls. A handler can switch the mode and then raise,
  which leaves the session's state where it was.
* *Who replies.* A verdict of a policy may carry a reply of its own, a request
  to close before or after the response, or both. Each handler has its own
  branches for "a response was sent already".
* *What is left over.* One message object is filled by several commands and
  replaced at the end of a mail or by RSET.
* *Failures in the middle.* The deliverer raises after the message was accepted;
  sending fails while a handler runs, and the handler goes on; credentials raise
  where nobody catches.
* *Input in pieces.* `recv()` returns what it likes; buffer, terminator and mode are
  changed by the handler of the very input that is still in the buffer.
* *Arguments.* Two regular expressions, `upper()`, `strip()` and a schema decide what a
  line means; options are collected by name, credentials are decoded as a whole.
* *The pool.* One token and one `None` go round through a queue that delivers
  late, between workers that fail, are interrupted or time out.
* *Starts and stops.* A server that is restarted shares its port and one attribute
  with the thread of the last start, which may not have ended yet.

`PROJECT.json` lists each hazard at its line with the properties that watch it.

## Modules

| Module | Models |
|---|---|
| `TransitionTable` | what `StateMachine.add()` stores and the introspection methods compute |
| `StateMachine` | conditions, `allowed_actions()`, the part of `execute()` after the handler; instantiated twice |
| `SMTPSession` | one connection: session, input modes, replies, closes, and an arbitrary client, policy, authenticator and deliverer |
| `MailTransaction` | what a connection promises: one sender, recipients in order, one hand-over of exactly that, login between mails, everything forgotten at RSET |
| `SMTPSessionProperties` | the properties of a session, the refinement of `MailTransaction`, and what the documentation says but the code does not do |
| `SMTPSessionProofs` | proofs about `SMTPSession` |
| `SMTPDialogueProofs` | proofs of the remaining properties of a session |
| `CommandParser` | bytes in pieces, terminators, modes, size limit, transparency |
| `Exchange` | what that promises: each input passed on once, in order, as it was meant |
| `TransparencyProofs` | proof that encoding and decoding a message are inverse |
| `CommandParserProofs` | proofs about `CommandParser`, with its refinement of `Exchange` |
| `CommandArguments` | from a command line to the fields a handler gets |
| `CommandArgumentsProofs` | proofs about `CommandArguments` |
| `WorkerPool` | workers, token queue, accept, shutdown, with its properties |
| `WorkerPoolProofs` | proofs about `WorkerPool` |
| `ServerLifecycle` | one server object that is started and stopped again and again |
| `ServerLifecycleProofs` | proofs about `ServerLifecycle` |
| `SequenceLemmas` | lemmas about numbers and sequences that the proofs share: induction, `FlattenSeq`, `SubSeq` |
| `MCSMTPSession`, `MCCommandParser`, `MCCommandArguments` | instances for TLC |

### SMTPSession

One step is the handling of one complete input, from the parser's call to the
last effect of the handler. `state` and `flags` are the session's state machine,
`mode` the parser's; `message` is the current message (`pending` stands for
`unvalidated_input["username"]`); `closeAfter` is the request to close after the
response; `open` says whether the worker still has its connection. `replies`,
`handed` and `escaped` hold what the last step wrote, gave to the deliverer and
raised. `verified` is the only history variable: users whose password was right.

A handler is written as its branches. `Malformed` is validation raising
`InvalidDataError`; `TurnedDown` is a refusing verdict; `Respond(d, code)` is the
end of `handle_input()` for verdict `d` with `code` as the default reply;
`Machine!Execute` is the end of `StateMachine.execute()` and is conjoined only
where the handler returns. Verdicts are all combinations of accepting or not, a
reply of its own or none, closing before and after (booleans and pairs are special
cases; without a policy there is one verdict). Of the reply the model keeps whether it
is a 354 or a 334, because those announce another input mode where the session sends
them. A policy's method may also raise or answer what `is_allowed()` does not understand
(`PolicyFails`), and `authenticate()` may raise (`AuthenticatorFails`); `ehlo_lines()` and
`max_message_size()` always answer. Sending may fail whenever something
is written, which closes the connection while the handler goes on, so `open'` is
chosen freely there. The text of replies, capabilities and addresses is left out,
and so is the peer, which never changes; a body is its length. Interleaving
cannot happen within a connection. Where `MSGDATA` is typed as a command its
argument is empty: the parser never recognises it as a command with an argument
(it is not in `get_all_allowed_internal_commands()`).

### CommandParser

`data`, `terminator`, `maximum` and `mode` are the parser's; `wire` is what the client
sent and `recv()` has not returned yet; `pending` is the input the client waits to have
answered and `passed` (a history variable) what the last step gave to the session.
`Recv(n)` is one `recv()` of n bytes with the whole of `process_new_data()`; the session
answers by choosing the next mode (`NextModes`: data mode is always left, as
`smtp_msgdata()` leaves it first) and whether the connection goes on. A client waits for
each answer and sends the kind of input the mode asks for. It knows the mode by the
replies of the session (`ModeAnnounced` of `SMTPSessionProperties`); a 354 that a policy
writes by itself announces a mode that does not come (`DataCustomReply`), and a client
that believes it is not here. A body is a sequence of lines, and
`Encoded`, `Meant` say what a client that follows RFC 821 sends and means. Bytes are
model values: the two of a line break, the dot, and others, some of them not ASCII.

Pipelined input is outside this client: the parser takes what follows a terminator in
the same `recv()` as part of the line, which a comment admits (`command_parser.py:181`).
`Framed` is the condition under which that is right: nothing is ever in the buffer that
belongs to no input or to two.

### CommandArguments

One request: a verb and words (`Write`, what clients mean and all ways they write it),
and `Handle`, the regular expression of `ParserImplementation`, `upper()` and the schema
of the handler. A word is a record of what the schemas tell apart: an address with each
of its brackets, an option with its key and value, a number, and base64 as its digits
(0 to 63) and the number of "=" behind them. The library behind the schemas, pycerberus,
is modelled by how they use it: positional fields, one word each, in the order of
`parameter_order`, and an error for a word too many.

`AuthPlainSchema` decodes the whole text at once, and so does the model: `Digits` are those
of all words, `Octets` makes three octets of four digits, wherever blanks cut them, and
`Decodable` demands that an incomplete group is filled up and that the octets are ASCII.
This is `b64decode()` of `compat.py` for Python 3, which drops characters that are no
digits; a word with a "=" in its middle is not modelled. `Encoded` is the other direction,
written from RFC 4648 for the property.

### ServerLifecycle

`at[t]` is the statement that the thread of the t-th start will execute next, from
`self._queue = Queue()` to `self._queue = None`, with the accept loop of its one worker in
between; `attribute` is `self._queue`, `queue[t]` what is in the queue thread t made,
`bound` and `backlog` belong to the sockets. `owner` is the thread that calls `start_mta()`
and `stop_mta()`. Reads and writes of the attribute are steps of their own, because the
threads share it. `start_mta()` waits for the server or, with `wait_until_ready=False`, does
not. Nobody has to be prompt: `join()` may give up wherever the thread is, the probe gives
up when it finds nobody listening or a full backlog, and clients come and stay as they like.
Two history variables say how far that went: `failed` has the methods that raised
(`"start_mta"` for the probe's `AssertionError`) and `"stop"` once `stop()` has printed its
warning; `strays` has the threads it gave up on before they reached their worker. As in the
code, a client that connects to a socket that is not accepted from stays in its backlog. The
kernel, assumed: two sockets with `SO_REUSEADDR` can be bound to a port while none listens,
the second `listen()` fails, and a socket that is dropped is closed.

### WorkerPool

`queue` is what `get()` finds; `outbox[p]` is what process `p` put and the feeder
thread of `multiprocessing.Queue` has not sent yet. A worker that has ended has
still to send what is in its outbox, as a Python process does before it exits. `Peek`
includes that `get_nowait()` reports an empty queue while another worker is in
`get()` and so holds the lock of the queue. Interrupts happen where a worker waits
(for the token, in `accept()`, in `recv()`), not between any two statements.
`ServiceFails` is any exception that leaves `handle_connection()`; those that
`SMTPSession` shows (`escaped`) are examples. The time between the put and the
event in `shutdown_server()` is not visible to the workers, which never read the
event, and the main process reads it before it joins; both are one step. A process
that is killed outright is not modelled: the code has no answer to it.

Operators called `Faulty...` are no part of the specifications. Each is a plausible
bug in the definition that follows it, and names the property that finds it when it
takes that definition's place.

## What is checked

| Run | Question |
|---|---|
| `SessionSafety` | all properties of a session and the refinement of `MailTransaction`, over every order of commands, verdict and failure |
| `ParserFraming` | lines and dotted messages arrive once, in order and unchanged, however `recv()` cuts them, and nobody waits for ever |
| `CommandArguments` | a line reaches its handler as the client means it, or is rejected |
| `Pool` | exactly one token, whoever fails or is interrupted; no notice of shutdown is lost without the end of a worker, and none is made up; a waiting client is accepted while a worker is free; as many shutdowns as workers end the server |
| `Lifecycle` | two starts, waited for or not, and stops at any moment: until a stop has warned that its thread is alive, the server that works is the last one, alone, with the port, and can be stopped; own queue and one token for each worker unless a stop gave up on a thread that was still starting; starts, stops and notified servers end |

The properties of a session: the two machines agree (`ModesAgree`) and the input mode
follows the session's own 354 and 334, and no reply of a policy (`ModeAnnounced`); nothing
of an earlier mail is left between mails (`NoStaleEnvelope`); what is received or delivered
has sender and recipient (`EnvelopeComplete`); a user name on a message was approved
(`AuthenticUser`); a pending user name always awaits its own password (`PasswordPrompted`);
every input has exactly one reply (`OneReplyPerInput`); a requested close happens
(`CloseRequestsHonoured`); the size limit holds by every route (`SizeLimitRespected`); a 250
for a body means delivery, and what was delivered was not refused (`ReceiptIsTruthful`); an
error reply leaves the session alone (`FailedCommandsChangeNothing`); a session is a
sequence of mail transactions (`MailTransactionSpec`).

*Bounds.* Two senders, recipients and users tell one transaction or login from
another. Bodies of 0 to `MaxBodySize` = 2 bytes around a limit of 1 are below, at
and above it. `MaxRecipients` = 2 gives a first and a further recipient;
the code has no limit. One HELO name suffices, as only its presence matters. The
number of mails on a connection is not bounded: the state space is finite without
a bound. In the pool, `MaxShutdowns` bounds the calls of `shutdown_server()` and
`BacklogSize` stands for `listen(5)`; two of each connection tell a full backlog from
one with room. Clients come back for ever. Four workers give one that serves, one that
accepts and two that wait, of which each may take the other's `None`; the theorem has no
such bound. Three are used where shutdown hangs. `MaxChunk` is the longest piece
`recv()` returns, 20 of its 4096 bytes and more than any input of the run has, so that
every cut is tried. The bodies of `MCCommandParser` are all of one and two lines, and those of
three that begin with a line and an empty one, over lines that are empty, plain, begin with one or
two dots, or with a carriage return and a dot. `MaxWords` = 3 gives MAIL FROM two options, which
may repeat or replace each other, and AUTH PLAIN a word on each side; `MaxBlanks` is the
number of superfluous blanks in a row. The words of AUTH PLAIN are the encodings of three
logins, six, seven and eight digits long, whole and cut in the middle of a group, padded
too little, rightly and too much, with other unused bits, and bits of text with one Nul, none, or
an octet that is not ASCII. `MaxStarts` = 2 gives a server a late predecessor; more
threads only repeat that, and the theorems have no such bound. `BindTries` = 2 of ten
attempts are one that fails and one that is the last.

*Fairness.* None for a session and for arguments: their properties are of safety, and a
client owes the server nothing. In the pool, the operating system runs every process and
feeder thread that can go on (`FairSpec`). It does not make clients leave, because
`recv()` has no timeout; `PendingServed` therefore allows all workers to be
engaged, and `EnoughShutdowns` allows a client that stays for ever. Weak
fairness suffices: what a worker waits for, once there, stays until some worker
takes it. For the parser, the network delivers what was sent (`WF_vars(Receive)`): TCP
does. For the life cycle, the system runs every thread that can go on, that of the test
too, and clients leave some time (`WF_vars(Serve(t))` includes `Finish`), which is owed to
them alone, since `recv()` has no timeout. Nothing is assumed about who is first: the probe
may give up instead of getting into the backlog, and `join()` instead of seeing the end.

*Deadlock.* A session, a parser and the owner of a server never deadlock: a finished
connection, an answered request, and a server nobody stops are the stuttering action
`Ended`. The pool stops when all workers have ended, so its
configurations switch the check off.

### Where the code differs from what it says

Each of these runs checks one sentence of the documentation, a comment or a test
and is expected to end with a counterexample. The findings in `PROJECT.json` quote
the sentences.

| Run | What happens |
|---|---|
| `MsgDataTyped` | a client that types `MSGDATA` in command mode, after a rejected body, delivers an empty message |
| `DataCustomReply` | a policy that accepts DATA with its own reply: the body is read as commands |
| `GarbledLogin` | credentials that are not base64 end the worker |
| `SecondWord` | AUTH PLAIN accepts credentials that are spread over several words: only a word behind a padded one is noticed |
| `EmptyMessage` | a client that sends "." as the first line of a message waits for ever |
| `LateServer` | a server that ends after `stop()` gave up on it removes the queue of its successor, and `shutdown_server()` fails |
| `ShutdownHangs` | one shutdown ends at most two of the workers; `serve_forever()` joins the others for ever |

Also seen while modelling, and plain in the source or in the model:

* RSET leads from "greeted" to "initialized", so a client can send mail without HELO or
  EHLO (`session.py:94`).
* A close after the response is ignored if it is asked for at the greeting
  (`session.py:221`), and after a greeting the policy wrote itself HELP, NOOP and QUIT
  are refused (`session.py:222`).
* A verdict with a reply and a close before it makes an assertion fail and ends the
  worker (`session.py:189`).
* The policy's own receipt for a body is sent before the deliverer, which may fail, is
  called (`session.py:504`).
* `AUTH LOGIN` starts its dialogue without an authenticator (`session.py:399`); two words
  after it raise `ValueError`, which ends the worker (`validation.py:198`).
* An option `EMAIL=` of MAIL FROM replaces the sender, as it is a field like `SIZE`
  (`validation.py:109`).
* The constructor of the parser overwrites the limit `new_connection()` has set with None
  (`command_parser.py:66`, `MaximumAfterConstruction`), so a message of any size is collected,
  although `set_maximum_message_size()` says that big messages are not stored. If the limit were
  kept, a body given up in its middle would be read as commands: the mutant of
  `ExchangeSpec` shows that.
* The test helper, `start_mta(wait_until_ready=False)` and then `stop_mta()` at once:
  `shutdown_server()` may find no queue yet and raise, and then `stop_mta()` leaves the server
  running (`mta.py:119`; `ServerInPlace` names the exception).
* A thread that `stop()` gave up on while it was still starting puts its token, or its worker,
  to the queue of its successor when it goes on (`mta.py:100`, `mta.py:111`;
  `OneTokenEach` names the exception).
* Policy, authenticator and deliverer objects are made once per worker and not per
  connection (`command_parser.py:215`); `BlackholeDeliverer` replaces the messages of its
  class with each new object, hence with each start (`test_util.py:48`).

## What is proved

`SMTPSessionProofs` proves, for all values of the constants that satisfy
`NoneAssumption` and `SizeAssumption` (None is none of the values it could be
confused with; limits and bounds are numbers):

* `TypeCorrect`: `TypeOK` is an invariant.
* `SessionInvariant`: `Inv`, the conjunction of `ModesAgree`, `NoStaleEnvelope`,
  `EnvelopeComplete`, `AuthenticUser` and `StatesExplained`, is inductive given
  `TypeOK`. The parts need each other: `EnvelopeComplete` holds after RCPT TO because
  a message in "sender_known" has its sender (`StatesExplained`); after RSET and the
  hand-over it holds because nothing is received in the states they lead to; and
  `AuthenticUser` needs the flag "esmtp" wherever a password is checked, which the table
  demands in "initialized" and `StatesExplained` carries to "authenticated", with
  `ModesAgree` for the lines of the AUTH LOGIN dialogue.
* `ModesAgreeAlways`, `NoStaleEnvelopeAlways`, `EnvelopeCompleteAlways`,
  `AuthenticUserAlways` follow.
* `Refinement`: a session implements `MailTransaction`. The mapping reads sender,
  recipients and user off the current message. With `Inv`, a hand-over is a
  `Commit`, MAIL FROM a `Begin` (there is no open transaction in the states where
  it is allowed), a right password a `Login`, RSET an `Abort`; the rest is `Idle`.

The lemmas first turn the two tables into facts (`CoreRows`, `RowForms`,
`Execution`): where each command can be given and where it leads. Everything else
uses these facts, never the tables. `QuietStep` and `FreshMessage` cover most
handlers at once; the others read `Inv` state by state (`Unfold`, `Fold`).

`WorkerPoolProofs` proves, for any number of workers, clients and shutdowns that
satisfies `PoolAssumption`:

* `TypeCorrect`: `TypeOK` is an invariant.
* `TokenExclusive`: `Exclusive` is inductive given `TypeOK`. `OneToken` speaks of
  positions in sequences, which shift with every get and put; `Exclusive` says the same
  by places: the token is with a worker, in the queue or in an outbox, has one
  position there, and no other place has it. Every step either leaves it
  (`TokenStays`) or moves it from one place to another (`TokenTaken`,
  `TokenPutBack`, `TokenSent`). The lemmas `Appended` and `Removed` say what that does to a
  sequence.
* `OneTokenAlways`: `Exclusive` implies `OneToken`.
* `NoticesInvariant`: `NoticesInv` counts the `None`s. The queue and the outboxes are one
  function from places to sequences; an item added (`NoticeAdded`) adds a pair of place and
  position to a set, an item taken (`NoticeTaken`) shifts the others, which is a
  bijection. Every action is one or several of these, so a worker that looks at a notice
  (`ItemBack`) and the threads of the queue (`ItemSent`) leave the number alone, and only a
  worker that ends lowers it, by at most one. `NoticesKeptAlways` follows (a `None` that is
  put back can end a second worker, which only leaves more for the others), and `EachHasNoticeAlways`: with
  as many calls as workers, there is a notice for each that has not ended. That each gets to
  its notice is liveness (`EnoughShutdowns`).

`SMTPDialogueProofs` proves the rest of the session's properties from the same two
assumptions. `DialogueInvariant` adds to `Inv` what replies, prompts, closes and sizes have to do
with mode and state; `OneReplyPerInputAlways`, `ModeAnnouncedAlways`,
`PasswordPromptedAlways`, `CloseRequestsHonouredAlways` and `SizeLimitRespectedAlways`
follow. `FailuresHarmless` and `ReceiptsTruthful` are about steps: with the invariant,
each handler either writes no error or leaves the session alone, and only `HandOver`
writes a receipt.

`CommandParserProofs` proves, for any bytes, lines, limits and lengths of pieces:

* `FramingInvariant`: `Framing` is inductive: types; `Framed`; the maximum is None
  (`Unlimited`), without which the parser gives inputs up; and the input that is waited
  for has not been passed on, so something of it is still on its way (`NotPassedYet`).
  `TypeCorrect` and `FramedAlways` follow.
* `Refinement`: the parser implements `Exchange!Spec`. A piece that completes a
  terminator completes the input: a line has no terminator within
  (`ParserAssumption`), nor has an encoded body (`RoundTrip`).

`TransparencyProofs` proves `RoundTrip`, for messages of any number of lines of any
bytes but line feeds (`ParserAssumption`; a line feed ends a line): what a
message is sent as consists of bytes; no beginning of it contains the end of a message;
it contains the end exactly if it has a line (`EmptyMessage` shows the other case); and the
two substitutions of the parser turn what precedes the end into what was meant. The
substitutions look at the neighbours of each byte, so the proof cuts at line breaks, where
the neighbours do not matter (`DecodedBehindLine`), decodes one line (`LineDecoded`) and
goes on by induction over the lines (`SentLines`). The hypothesis, `Faithful`, includes that
what was sent so far is `Open`: it ends a line and has no dot on a line by itself, which
the next line, with its dot doubled, keeps so (`OpenNext`).

`CommandArgumentsProofs` proves, for any words, any number of them and of blanks:

* `ArgumentsInvariant`: `ArgumentsInv` is inductive: the line on its way is a spelling of
  the request, and the outcome is what the request means. The step `Handle` is the whole of
  `_handle_command()`; that it finds verb and arguments in every spelling (`SpellsRead`)
  is an induction over the arguments (`WrittenRead`), each with its blanks in front.
  `UnderstoodAlways` follows.
* `ArgumentTypesAlways`, `MailAsAnnouncedAlways`, `CredentialsAsMeantAlways`: what the
  schemas make of the arguments. For MAIL FROM, the last option of a name decides, which
  is the greatest position with that name. For AUTH PLAIN, decoding and encoding are shown
  to be inverse, three octets and four digits at a time (`OctetsEncoded`, `EncodedText`); the
  Nuls of a message are the two around the user name (`NulPositions`), so that cutting the
  text at them gives back the credentials (`CutText`), and accepted text is the message of
  what was cut (`PlainSchema`).

`TokenAssumption` and `WordAssumption` say what the model values and records for data are:
no word or verb is a blank, no verb a colon, None no number, and the fields of MAIL FROM are
none of the replies to an error; the value of an option, if it is a number, is an integer,
as `int()` returns; and words of base64 have digits from 0 to 63 and a number of "=".
`LoginAssumption` says that the logins clients mean are credentials and None is no name.
They are about the abstraction of the data, not about the code, and the run evaluates them.

`SequenceLemmas` has no system in it. Induction over the natural numbers is there as
`Induction`: the hypothesis is a set of numbers, since the provers cannot instantiate an
operator, and the lemma follows from the library's theorem that `<` on the natural numbers
is well-founded. `FlattenSeq` of the community modules is characterised by what an
additional sequence at its end contributes (`FlattenAppend`), from which its type, its
value for a concatenation and the place of each part follow.

`ServerLifecycleProofs` proves, for any number of starts, tries and connections:

* `OrderInvariant`: `Order`, that is types, and `Orderly` as long as there are no `strays`: one
  thread at a time is on its way to its worker, and it is the current one; the attribute
  is its own or was cleared; each queue has the token its own server put there. A start
  stops its predecessor first, which by then has ended or is at its worker or behind it, unless
  it became a stray. `TypeCorrect` and `OneTokenEachAlways` follow.
* `InPlaceInvariant`, and from it `ServerInPlaceAlways`: before the first warning, all
  threads but the current one are unborn or ended, so that nobody else binds, listens, or
  touches the attribute; and a notice is in the queue only when the owner joins. `Join` keeps
  that: if the thread has not ended, it warns.

*Only model-checked:* liveness, that is `PendingServed`, `EnoughShutdowns`,
`StartsAndStops` and the fairness of `ExchangeSpec`. Temporal properties under fairness and
`ENABLED` are out of the prover's reach and stay with TLC. All invariants and action
properties of the runs that pass are theorems.

## Not modelled

* Processes that are killed, and interrupts between two statements of a worker: the code
  has no answer to either, and an interrupt ends all workers of a server.
* Two threads that call `serve_forever()` with worker processes on one object: the test
  helper rules it out, and the event they would share is set and read once per run.
* The mock parser and the assertions of `test_util.py`, which repeat the parser for unit
  tests; the aliases of the compatibility layer, its Python 2 side, the examples, the
  documentation and packaging.
* `ehlo_lines()` and `max_message_size()` that raise after a reply was written; base64 words
  with a "=" in their middle.
* Texts of replies, host names, addresses of peers, and the syntax of mailboxes.

## How the plan went

All its steps are done: `SMTPSession` and `MailTransaction` with proofs; `WorkerPool`
with the proof of `OneToken`; `CommandParser` with its transparency and its abstract
specification; `CommandArguments`; `ServerLifecycle`; the proofs of the dialogue; and the
proofs about data, that is command lines and encoded messages. What could follow: a client
that pipelines, as a second client of `CommandParser`, once the code handles one; and a
variant of `WorkerPool` with interrupts between any two statements.
