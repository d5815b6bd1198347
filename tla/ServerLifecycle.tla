--------------------------- MODULE ServerLifecycle ---------------------------
(***************************************************************************)
(* One PythonMTA object that is started and stopped again and again, as    *)
(* SMTPTestHelper and MTAThread in pymta/test_util.py do it: each start    *)
(* runs serve_forever() of pymta/mta.py, with a single worker, in a thread *)
(* of its own.  All these threads use the same port and, statement by      *)
(* statement, the same attribute self._queue.  (The event of the object is *)
(* only read by a server with worker processes.)  The other sides of a     *)
(* worker are in WorkerPool and SMTPSession.                               *)
(***************************************************************************)
EXTENDS Naturals, Sequences, FiniteSets

CONSTANTS
    None,
    MaxStarts,      \* bound: how often the server is started
    BacklogSize,    \* connections the kernel keeps until accept()
    BindTries       \* ten in the code

Threads == 1..MaxStarts

ASSUME LifecycleAssumption ==
    /\ {MaxStarts, BacklogSize, BindTries} \subseteq Nat \ {0}
    /\ None \notin Nat

VARIABLES
    at,         \* the statement each thread will execute next, see Places
    attribute,  \* self._queue: None or the thread that created the queue
    queue,      \* what is in the queue each thread created
    worksOn,    \* the queue that the worker of each thread was given
    tries,      \* failed attempts of each thread to bind its socket
    bound,      \* the threads whose socket has the configured port
    backlog,    \* how many connections wait on each thread's socket
    owner,      \* what the thread that starts and stops is doing
    current,    \* self.mta_thread
    failed,     \* history: the methods that raised, and stop() if it warned
    strays      \* history: threads that stop() gave up on while they started

vars == <<at, attribute, queue, worksOn, tries, bound, backlog, owner,
          current, failed, strays>>

Starting == {"create", "put token", "bind", "listen", "launch"}
Working == {"waiting", "accepting", "serving"}
Places == Starting \cup Working \cup {"unborn", "close", "forget", "ended"}

Goto(t, place) == at' = [at EXCEPT ![t] = place]

\* The threads whose socket listens on the configured port.
Listening == {t \in bound : at[t] \in {"launch", "close"} \cup Working}

Put(q, items) == queue' = [queue EXCEPT ![q] = @ \o items]

Owner == UNCHANGED <<owner, current, strays>>
Network == UNCHANGED <<bound, backlog>>

-----------------------------------------------------------------------------

Init ==
    /\ at = [t \in Threads |-> "unborn"]
    /\ attribute = None
    /\ queue = [t \in Threads |-> <<>>]
    /\ worksOn = [t \in Threads |-> None]
    /\ tries = [t \in Threads |-> 0]
    /\ bound = {}
    /\ backlog = [t \in Threads |-> 0]
    /\ owner = "idle"
    /\ current = None
    /\ failed = {}
    /\ strays = {}

(***************************************************************************)
(* serve_forever()                                                         *)
(***************************************************************************)

ReleaseSocket(t) == bound' = bound \ {t} /\ backlog' = [backlog EXCEPT ![t] = 0]

\* An exception ends the thread, and its frame takes the socket along.
Dies(t) == Goto(t, "ended") /\ ReleaseSocket(t)

\* OneTokenEach: a queue that is there is used again.
FaultyCreate(t) ==
    /\ at[t] = "create"
    /\ attribute' = IF attribute = None THEN t ELSE attribute
    /\ Goto(t, "put token")
    /\ Owner /\ Network
    /\ UNCHANGED <<queue, worksOn, tries, failed>>

\* self._queue = Queue()
Create(t) ==
    /\ at[t] = "create"
    /\ attribute' = t
    /\ Goto(t, "put token")
    /\ Owner /\ Network
    /\ UNCHANGED <<queue, worksOn, tries, failed>>

\* self._queue.put(True)
PutToken(t) ==
    /\ at[t] = "put token"
    /\ Owner
    /\ UNCHANGED <<attribute, worksOn, tries>>
    /\ IF attribute = None
       THEN Dies(t) /\ failed' = failed \cup {"serve_forever"} /\ UNCHANGED queue
       ELSE Put(attribute, <<"go">>) /\ Goto(t, "bind") /\ Network /\ UNCHANGED failed

\* TypeOK: one attempt too many.
FaultyTryAgain(n) == n <= BindTries

TryAgain(n) == n < BindTries

\* After the last attempt the socket stays unbound, and nobody is told.
Bind(t) ==
    /\ at[t] = "bind"
    /\ Owner
    /\ UNCHANGED <<attribute, queue, worksOn, backlog, failed>>
    /\ IF Listening = {}
       THEN bound' = bound \cup {t} /\ Goto(t, "listen") /\ UNCHANGED tries
       ELSE /\ tries' = [tries EXCEPT ![t] = @ + 1]
            /\ Goto(t, IF TryAgain(tries'[t]) THEN "bind" ELSE "listen")
            /\ UNCHANGED bound

\* listen(): the system chooses a port for a socket that has none; of two
\* that were bound to the same port the second fails.
Listen(t) ==
    /\ at[t] = "listen"
    /\ Owner
    /\ IF t \in bound /\ Listening # {} THEN Dies(t) ELSE Goto(t, "launch") /\ Network
    /\ UNCHANGED <<attribute, queue, worksOn, tries, failed>>

\* run_worker(self._queue, ...), and the first get() of the worker.
Launch(t) ==
    /\ at[t] = "launch"
    /\ Owner
    /\ UNCHANGED <<attribute, queue, tries>>
    /\ worksOn' = [worksOn EXCEPT ![t] = attribute]
    /\ IF attribute = None
       THEN Dies(t) /\ failed' = failed \cup {"serve_forever"}
       ELSE Goto(t, "waiting") /\ Network /\ UNCHANGED failed

\* server_socket.close()
Close(t) ==
    /\ at[t] = "close"
    /\ Goto(t, "forget")
    /\ ReleaseSocket(t)
    /\ Owner
    /\ UNCHANGED <<attribute, queue, worksOn, tries, failed>>

\* self._queue = None
Forget(t) ==
    /\ at[t] = "forget"
    /\ attribute' = None
    /\ Goto(t, "ended")
    /\ Owner /\ Network
    /\ UNCHANGED <<queue, worksOn, tries, failed>>

-----------------------------------------------------------------------------
(***************************************************************************)
(* Its worker                                                              *)
(***************************************************************************)

Worker == Owner /\ UNCHANGED <<attribute, worksOn, tries, failed>>

Waiting(t) == queue[worksOn[t]]

\* get(), then put() of these items.
Exchange(t, items) ==
    /\ Waiting(t) # <<>>
    /\ queue' = [queue EXCEPT ![worksOn[t]] = Tail(@) \o items]

GetToken(t) ==
    /\ at[t] = "waiting"
    /\ Exchange(t, <<>>)
    /\ Goto(t, IF Head(Waiting(t)) = "go" THEN "accepting" ELSE "close")
    /\ Worker /\ Network

Accept(t) ==
    /\ at[t] = "accepting"
    /\ backlog[t] > 0
    /\ backlog' = [backlog EXCEPT ![t] = @ - 1]
    /\ Put(worksOn[t], <<"go">>)
    /\ Goto(t, "serving")
    /\ Worker
    /\ UNCHANGED bound

\* None is put back, and the worker that saw it puts the token and ends.
Seen(item) == IF item = "go" THEN <<item>> ELSE <<item, "go">>

\* StartsAndStops: settimeout() is left out, accept() blocks.
FaultyTimesOut(t) == FALSE

TimesOut(t) == backlog[t] = 0

\* accept() timed out, and the queue is not empty.
Peek(t) ==
    /\ at[t] = "accepting"
    /\ TimesOut(t)
    /\ Exchange(t, Seen(Head(Waiting(t))))
    /\ IF Head(Waiting(t)) = "go" THEN UNCHANGED at ELSE Goto(t, "close")
    /\ Worker /\ Network

\* The client left, or the server hung up.
Finish(t) ==
    /\ at[t] = "serving"
    /\ Goto(t, "waiting")
    /\ Worker /\ Network
    /\ UNCHANGED queue

\* What nobody catches leaves the worker and serve_forever(), too.
ServiceFails(t) ==
    /\ at[t] = "serving"
    /\ Dies(t)
    /\ Worker
    /\ UNCHANGED queue

-----------------------------------------------------------------------------
(***************************************************************************)
(* start_mta() and stop_mta(), and the clients.                            *)
(***************************************************************************)

Server == UNCHANGED <<attribute, worksOn, tries, bound>>

Unborn == {t \in Threads : at[t] = "unborn"}

\* ServerInPlace: the thread of the start before is not stopped first.
FaultyStartMTA ==
    /\ owner = "idle"
    /\ Unborn # {}
    /\ owner' = "spawn"
    /\ Server
    /\ UNCHANGED <<at, queue, backlog, current, failed, strays>>

\* start_mta(): the thread of the start before it is stopped first.
StartMTA ==
    /\ owner = "idle"
    /\ Unborn # {}
    /\ owner' = IF current = None THEN "spawn" ELSE "stop and spawn"
    /\ Server
    /\ UNCHANGED <<at, queue, backlog, current, failed, strays>>

\* wait_until_ready says whether the new server is waited for.
Spawn ==
    /\ owner = "spawn"
    /\ \E t \in Unborn :
          /\ \A s \in Unborn : t <= s
          /\ Goto(t, "create")
          /\ current' = t
    /\ owner' \in {"probe", "idle"}
    /\ Server
    /\ UNCHANGED <<queue, backlog, failed, strays>>

Knock ==
    \E t \in Listening :
        /\ backlog[t] < BacklogSize
        /\ backlog' = [backlog EXCEPT ![t] = @ + 1]

\* _try_to_connect_to_mta() connects, to whatever server has the port, and
\* hangs up at once.
Probe ==
    /\ owner = "probe"
    /\ Knock
    /\ owner' = "idle"
    /\ Server
    /\ UNCHANGED <<at, queue, current, failed, strays>>

\* 'MTA not reachable on port', after ten attempts: the thread may be late,
\* or clients fill the backlog.
ProbeGivesUp ==
    /\ owner = "probe"
    /\ \A t \in Listening : backlog[t] = BacklogSize
    /\ owner' = "idle"
    /\ failed' = failed \cup {"start_mta"}
    /\ Server
    /\ UNCHANGED <<at, queue, backlog, current, strays>>

StopMTA ==
    /\ owner = "idle"
    /\ current # None
    /\ owner' = "stop"
    /\ Server
    /\ UNCHANGED <<at, queue, backlog, current, failed, strays>>

Stopping == owner \in {"stop", "stop and spawn"}

\* shutdown_server(): self._queue.put(None)
ShutdownServer ==
    /\ Stopping
    /\ Server
    /\ UNCHANGED <<at, backlog, current, strays>>
    /\ IF attribute = None
       THEN /\ owner' = "idle"
            /\ failed' = failed \cup {"shutdown_server"}
            /\ UNCHANGED queue
       ELSE /\ owner' = IF owner = "stop" THEN "join" ELSE "join and spawn"
            /\ Put(attribute, <<"stop">>)
            /\ UNCHANGED failed

\* join() returns when the thread has ended or, with a warning, when five
\* seconds are over, wherever the thread is by then.
Join ==
    /\ owner \in {"join", "join and spawn"}
    /\ owner' = IF owner = "join" THEN "idle" ELSE "spawn"
    /\ current' = None
    /\ failed' = IF at[current] = "ended" THEN failed ELSE failed \cup {"stop"}
    /\ strays' = IF at[current] \in Starting THEN strays \cup {current} ELSE strays
    /\ Server
    /\ UNCHANGED <<at, queue, backlog>>

Connect ==
    /\ Knock
    /\ Owner /\ Server
    /\ UNCHANGED <<at, queue, failed>>

\* The last server may go on as long as nobody stops it.
Ended == owner = "idle" /\ UNCHANGED vars

-----------------------------------------------------------------------------

Serve(t) ==
    \/ Create(t) \/ PutToken(t) \/ Bind(t) \/ Listen(t) \/ Launch(t)
    \/ GetToken(t) \/ Accept(t) \/ Peek(t) \/ Finish(t) \/ ServiceFails(t)
    \/ Close(t) \/ Forget(t)

Control == Spawn \/ Probe \/ ProbeGivesUp \/ ShutdownServer \/ Join

Next ==
    \/ \E t \in Threads : Serve(t)
    \/ StartMTA \/ StopMTA \/ Control
    \/ Connect
    \/ Ended

Spec == Init /\ [][Next]_vars

(***************************************************************************)
(* The system runs all threads, that of the test, too.  Clients leave some *)
(* time: as their socket has no time-out this is owed to them alone.       *)
(***************************************************************************)
FairSpec ==
    /\ Spec
    /\ WF_vars(Control)
    /\ \A t \in Threads : WF_vars(Serve(t))

-----------------------------------------------------------------------------

TypeOK ==
    /\ at \in [Threads -> Places]
    /\ {attribute, current} \subseteq Threads \cup {None}
    /\ queue \in [Threads -> Seq({"go", "stop"})]
    /\ worksOn \in [Threads -> Threads \cup {None}]
    /\ tries \in [Threads -> 0..BindTries]
    /\ bound \subseteq Threads
    /\ backlog \in [Threads -> 0..BacklogSize]
    /\ owner \in {"idle", "spawn", "probe", "stop", "stop and spawn", "join",
                  "join and spawn"}
    /\ failed \subseteq {"serve_forever", "shutdown_server", "start_mta", "stop"}
    /\ strays \subseteq Threads

(***************************************************************************)
(* Unless stop() has given up on a thread that had not reached its worker, *)
(* a worker never works on the queue of another server, and there is one   *)
(* token in its queue or, while it is in accept(), with itself: a server   *)
(* that stays when stop() has given up on it and its successor do not      *)
(* steal each other's tokens.  (A stray thread that goes on when the next  *)
(* one is there does put its token, or its worker, to the other's queue.)  *)
(***************************************************************************)
Tokens(t) ==
    Cardinality({i \in DOMAIN queue[t] : queue[t][i] = "go"})
        + (IF at[t] = "accepting" THEN 1 ELSE 0)

OneTokenEach ==
    strays = {} =>
        \A t \in Threads : at[t] \in Working => worksOn[t] = t /\ Tokens(t) = 1

(***************************************************************************)
(* As long as no stop() has warned that the thread is still alive, nothing *)
(* a server has left behind harms the next, however late a thread or a     *)
(* client is: no server finds its queue missing, the server that works is  *)
(* the one that was started last, alone, on the configured port, and       *)
(* shutdown_server() reaches the server unless it was not waited for and   *)
(* has no queue yet.                                                       *)
(***************************************************************************)
ServerInPlace ==
    "stop" \notin failed =>
        /\ "serve_forever" \notin failed
        /\ \A t \in Threads :
              at[t] \in Working => t = current /\ attribute = t /\ Listening = {t}
        /\ Stopping => attribute = current \/ at[current] = "create"

(***************************************************************************)
(* Neither start_mta() nor stop_mta() hangs; a thread gets to its worker   *)
(* or ends; and a server that has a notice in its queue ends, though       *)
(* stop() may have given up on it, unless there is a stray thread, whose   *)
(* worker may take the notice away.                                        *)
(***************************************************************************)
Noticed(t) == \E i \in DOMAIN queue[t] : queue[t][i] = "stop"

StartsAndStops ==
    /\ owner # "idle" ~> owner = "idle"
    /\ \A t \in Threads :
          /\ at[t] = "create" ~> at[t] \in Working \cup {"ended"}
          /\ Noticed(t) ~> at[t] = "ended" \/ strays # {}

(***************************************************************************)
(* shutdown_server() "notifies the server that it should stop listening    *)
(* for new messages and shut down itself": a server that ended late, when  *)
(* stop() had given up on it, has removed the queue of its successor.      *)
(***************************************************************************)
ShutdownReachesServer ==
    Stopping /\ at[current] \in Working => attribute = current

=============================================================================
