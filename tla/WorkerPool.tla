------------------------------ MODULE WorkerPool ------------------------------
(***************************************************************************)
(* The server process and its workers: PythonMTA in pymta/mta.py and       *)
(* WorkerProcess in pymta/command_parser.py.  All workers listen on one    *)
(* socket; a worker calls accept() only while it holds the token that goes *)
(* round through a queue.  The token is True ("go"); to shut down, the     *)
(* server puts None ("stop") into the same queue.                          *)
(*                                                                         *)
(* With use_multiprocessing there are five workers and a                   *)
(* multiprocessing.Queue: what a process puts is sent by a thread of its   *)
(* own some time later, and a process ends when all it put is sent.        *)
(* Without, Workers has one element and the thread is prompt.              *)
(*                                                                         *)
(* What is said on a connection is SMTPSession; here a connection is       *)
(* served, and the service ends or fails with an uncaught exception.       *)
(* Operators called Faulty... are plausible defects of the definition      *)
(* below them and no part of the specification.                            *)
(***************************************************************************)
EXTENDS Naturals, Sequences, FiniteSets

CONSTANTS
    None,           \* no connection
    Workers,
    Main,           \* the process that called serve_forever()
    Clients,
    BacklogSize,    \* connections the kernel keeps until accept()
    MaxShutdowns    \* bound: calls of shutdown_server()

ASSUME PoolAssumption ==
    /\ Main \notin Workers
    /\ None \notin Clients \cup Workers \cup {Main}
    /\ IsFiniteSet(Workers) /\ Workers # {}
    /\ BacklogSize \in Nat \ {0}
    /\ MaxShutdowns \in Nat

Processes == Workers \cup {Main}

VARIABLES
    pc,             \* where each worker is, see Phases
    connection,     \* self._connection of each worker
    queue,          \* what get() finds in self._queue
    outbox,         \* what each process put into it that is not sent yet
    backlog,        \* clients waiting for accept()
    shutdowns,      \* calls of shutdown_server() so far
    server          \* serve_forever(): "running" or "returned"

vars == <<pc, connection, queue, outbox, backlog, shutdowns, server>>

\* Waiting for the token, in accept() with it, accept() having timed out,
\* serving a connection without it, and ended.
Phases == {"waiting", "accepting", "timed out", "serving", "ended"}

Goto(w, phase) == pc' = [pc EXCEPT ![w] = phase]

Put(p, items) == outbox' = [outbox EXCEPT ![p] = @ \o items]

\* OneToken: "token = None" comes before the put.
FaultyPutToken(w) == Put(w, <<"stop">>)

PutToken(w) == Put(w, <<"go">>)

\* get(): the first item; the lock of the queue makes this one step.
Get(item) == queue # <<>> /\ Head(queue) = item /\ queue' = Tail(queue)

Listening == UNCHANGED <<connection, backlog>>
ServerRuns == UNCHANGED <<shutdowns, server>>

-----------------------------------------------------------------------------

\* serve_forever() put the token and started the workers.
Init ==
    /\ pc = [w \in Workers |-> "waiting"]
    /\ connection = [w \in Workers |-> None]
    /\ queue = <<>>
    /\ outbox = [p \in Processes |-> IF p = Main THEN <<"go">> ELSE <<>>]
    /\ backlog = <<>>
    /\ shutdowns = 0
    /\ server = "running"

\* The thread behind multiprocessing.Queue.put().
Send(p) ==
    /\ outbox[p] # <<>>
    /\ queue' = Append(queue, Head(outbox[p]))
    /\ outbox' = [outbox EXCEPT ![p] = Tail(@)]
    /\ Listening /\ ServerRuns
    /\ UNCHANGED pc

\* _get_token_with_timeout(), and what run() does with its result.
GetToken(w) ==
    /\ pc[w] = "waiting"
    /\ \/ Get("go") /\ Goto(w, "accepting")
       \/ Get("stop") /\ Goto(w, "ended")
    /\ Listening /\ ServerRuns
    /\ UNCHANGED outbox

\* PendingServed: the put between accept() and handle_connection() is missing.
FaultyRelease(w) == UNCHANGED outbox

Release(w) == PutToken(w)

\* accept() returns, run() puts the token back and sets up the connection.
Accept(w) ==
    /\ pc[w] = "accepting"
    /\ backlog # <<>>
    /\ connection' = [connection EXCEPT ![w] = Head(backlog)]
    /\ backlog' = Tail(backlog)
    /\ Release(w)
    /\ Goto(w, "serving")
    /\ ServerRuns
    /\ UNCHANGED queue

\* accept() raised another error: run() puts the token back and raises.
AcceptFails(w) ==
    /\ pc[w] = "accepting"
    /\ PutToken(w)
    /\ Goto(w, "ended")
    /\ Listening /\ ServerRuns
    /\ UNCHANGED queue

AcceptTimesOut(w) ==
    /\ pc[w] = "accepting"
    /\ backlog = <<>>
    /\ Goto(w, "timed out")
    /\ Listening /\ ServerRuns
    /\ UNCHANGED <<queue, outbox>>

\* EnoughShutdowns: the loop goes on after putting None back.
FaultyItemSeen(w, item) == Put(w, <<item>>) /\ Goto(w, "accepting")

\* NoticesKept: the item is not put back and None not noticed.
FaultyItemForgotten(w, item) == Goto(w, "accepting") /\ UNCHANGED outbox

\* The item is put back; None ends the worker, which then puts the token.
ItemSeen(w, item) ==
    /\ Put(w, IF item = "stop" THEN <<item, "go">> ELSE <<item>>)
    /\ Goto(w, IF item = "stop" THEN "ended" ELSE "accepting")

(***************************************************************************)
(* After accept() timed out, get_nowait().  It also raises Empty while     *)
(* another process is in get(), which holds the lock of the queue.  What   *)
(* it takes is back in the queue some time later, and until then the queue *)
(* lacks it.                                                               *)
(***************************************************************************)
Peek(w) ==
    /\ pc[w] = "timed out"
    /\ \/ /\ queue = <<>> \/ \E v \in Workers \ {w} : pc[v] = "waiting"
          /\ Goto(w, "accepting")
          /\ UNCHANGED <<queue, outbox>>
       \/ \E item \in {"go", "stop"} : Get(item) /\ ItemSeen(w, item)
    /\ Listening /\ ServerRuns

\* TypeOK: close() closes the socket but does not forget it.
FaultyClose(w) == UNCHANGED connection

Close(w) == connection' = [connection EXCEPT ![w] = None]

\* handle_connection() returned: the client left or the server hung up.
Finish(w) ==
    /\ pc[w] = "serving"
    /\ Close(w)
    /\ Goto(w, "waiting")
    /\ ServerRuns
    /\ UNCHANGED <<queue, outbox, backlog>>

\* An exception or an interrupt left handle_connection() and then run().
ServiceFails(w) ==
    /\ pc[w] = "serving"
    /\ connection' = [connection EXCEPT ![w] = None]
    /\ Goto(w, "ended")
    /\ ServerRuns
    /\ UNCHANGED <<queue, outbox, backlog>>

\* KeyboardInterrupt where the worker waits for something.
Interrupt(w) ==
    /\ \/ pc[w] = "waiting" /\ UNCHANGED outbox
       \/ pc[w] = "accepting" /\ PutToken(w)
    /\ Goto(w, "ended")
    /\ Listening /\ ServerRuns
    /\ UNCHANGED queue

-----------------------------------------------------------------------------

Queueing == UNCHANGED <<pc, connection, queue>>

Connect(c) ==
    /\ server = "running"
    /\ Len(backlog) < BacklogSize
    /\ \A i \in DOMAIN backlog : backlog[i] # c
    /\ \A w \in Workers : connection[w] # c
    /\ backlog' = Append(backlog, c)
    /\ Queueing /\ ServerRuns
    /\ UNCHANGED outbox

\* shutdown_server(), called by another thread of the main process: the put
\* and then the event, which only Return looks at.
ShutdownServer ==
    /\ server = "running"
    /\ shutdowns < MaxShutdowns
    /\ Put(Main, <<"stop">>)
    /\ shutdowns' = shutdowns + 1
    /\ Queueing
    /\ UNCHANGED <<backlog, server>>

\* serve_forever() saw the event, joined all workers and closed the socket.
Return ==
    /\ server = "running"
    /\ shutdowns > 0
    /\ \A w \in Workers : pc[w] = "ended" /\ outbox[w] = <<>>
    /\ server' = "returned"
    /\ backlog' = <<>>
    /\ Queueing
    /\ UNCHANGED <<outbox, shutdowns>>

Step(w) ==
    \/ GetToken(w) \/ Accept(w) \/ AcceptFails(w) \/ AcceptTimesOut(w)
    \/ Peek(w) \/ Finish(w) \/ ServiceFails(w) \/ Interrupt(w)

Next ==
    \/ \E w \in Workers : Step(w)
    \/ \E p \in Processes : Send(p)
    \/ \E c \in Clients : Connect(c)
    \/ ShutdownServer
    \/ Return

Spec == Init /\ [][Next]_vars

(***************************************************************************)
(* What the operating system owes the processes.  Nothing obliges a client *)
(* to leave, and the sockets have no timeout while a client is served.     *)
(***************************************************************************)
FairSpec ==
    /\ Spec
    /\ \A w \in Workers :
          /\ WF_vars(GetToken(w))
          /\ WF_vars(Accept(w))
          /\ WF_vars(AcceptTimesOut(w))
          /\ WF_vars(Peek(w))
    /\ \A p \in Processes : WF_vars(Send(p))
    /\ WF_vars(Return)

-----------------------------------------------------------------------------

TypeOK ==
    /\ pc \in [Workers -> Phases]
    /\ connection \in [Workers -> Clients \cup {None}]
    /\ \A w \in Workers : connection[w] # None <=> pc[w] = "serving"
    /\ queue \in Seq({"go", "stop"})
    /\ outbox \in [Processes -> Seq({"go", "stop"})]
    /\ backlog \in Seq(Clients)
    /\ shutdowns \in 0..MaxShutdowns
    /\ server \in {"running", "returned"}

(***************************************************************************)
(* There is always exactly one token, whoever failed or was interrupted:   *)
(* with two of them two workers would be in accept(), without one nobody   *)
(* ever would again.                                                       *)
(***************************************************************************)
Places(item) ==
    {<<None, i>> : i \in {j \in DOMAIN queue : queue[j] = item}}
    \cup UNION {{<<p, i>> : i \in {j \in DOMAIN outbox[p] : outbox[p][j] = item}} :
                   p \in Processes}

TokenPlaces ==
    {<<w, 0>> : w \in {v \in Workers : pc[v] \in {"accepting", "timed out"}}}
    \cup Places("go")

OneToken == \E place \in TokenPlaces : TokenPlaces = {place}

(***************************************************************************)
(* No None of shutdown_server() is lost without the end of a worker, and   *)
(* none is made up: those that are left are at most the calls, and with    *)
(* the workers that have ended at least the calls.  (A worker that finds   *)
(* one on its look into the queue puts it back and ends, so the same None  *)
(* can end a second worker, as ShutdownTerminates says; this only leaves   *)
(* more of them for the others.)                                           *)
(***************************************************************************)
NoticesKept ==
    LET notices == Cardinality(Places("stop"))
        ended == Cardinality({w \in Workers : pc[w] = "ended"})
    IN  notices <= shutdowns /\ shutdowns <= notices + ended

(***************************************************************************)
(* A client in the backlog is accepted, unless a time comes when every     *)
(* worker is busy with another client or has ended.                        *)
(***************************************************************************)
Engaged == \A w \in Workers : pc[w] \in {"serving", "ended"}

PendingServed ==
    \A c \in Clients :
        (\E i \in DOMAIN backlog : backlog[i] = c) ~>
            (Engaged \/ \A i \in DOMAIN backlog : backlog[i] # c)

(***************************************************************************)
(* The server shuts down if shutdown_server() is called once for each      *)
(* worker (for the one worker of the threaded server once is enough) and   *)
(* no client keeps a worker for ever.                                      *)
(***************************************************************************)
Returns == <>(server = "returned") \/ \E w \in Workers : <>[](pc[w] = "serving")

EnoughShutdowns == <>(shutdowns >= Cardinality(Workers)) => Returns

(***************************************************************************)
(* shutdown_server() "notifies the server that it should stop listening    *)
(* for new messages and shut down itself": its one None ends at most two   *)
(* workers, and serve_forever() joins the others for ever.                 *)
(***************************************************************************)
ShutdownTerminates == <>(shutdowns > 0) => Returns

=============================================================================
