------------------------ MODULE ServerLifecycleProofs ------------------------
(***************************************************************************)
(* Proofs about ServerLifecycle for any number of starts: its variables    *)
(* keep their types; as long as stop() gives up on no thread that has not  *)
(* reached its worker, a worker has the queue of its own server with one   *)
(* token (Orderly); and as long as no stop() warns, the server that was    *)
(* started last is the only one and the one that shutdown_server() reaches *)
(* (InPlace).                                                              *)
(***************************************************************************)
EXTENDS ServerLifecycle, TLAPS, FiniteSetTheorems

Items == {"go", "stop"}
Stops == {"stop", "stop and spawn"}
Joins == {"join", "join and spawn"}
Unbound == {"unborn", "create", "put token", "bind", "forget", "ended"}

\* What TypeOK needs: only an attempt that may fail is made.
TriesLeft ==
    \A t \in Threads :
        /\ at[t] \in {"unborn", "create", "put token"} => tries[t] = 0
        /\ at[t] = "bind" => tries[t] < BindTries

\* A worker was given a queue.
QueueGiven == \A t \in Threads : at[t] \in Working => worksOn[t] \in Threads

\* There is a thread to wait for, and none when the next one is made.
ThreadKnown ==
    /\ owner = "spawn" => current = None
    /\ owner \notin {"idle", "spawn"} => current # None

Types == TypeOK /\ TriesLeft /\ QueueGiven /\ ThreadKnown

-----------------------------------------------------------------------------

NoToken(q) == \A i \in DOMAIN q : q[i] # "go"

SingleToken(q) == \E i \in DOMAIN q : \A j \in DOMAIN q : q[j] = "go" <=> j = i

\* One thread at a time is on its way to its worker, the current one.
OneStarts ==
    /\ current # None => at[current] # "unborn"
    /\ \A t \in Threads : at[t] \in Starting => t = current

\* The attribute is that of the thread that starts, or a late one cleared it.
AttributeFits ==
    \A t \in Threads :
        /\ attribute = t => at[t] \notin {"unborn", "create"}
        /\ at[t] \in Starting \ {"create"} => attribute \in {t, None}

TokenFits ==
    \A t \in Threads :
        /\ at[t] \in Working => worksOn[t] = t
        /\ at[t] = "unborn" => queue[t] = <<>>
        /\ at[t] \in {"create", "put token", "accepting"} => NoToken(queue[t])
        /\ at[t] \in {"bind", "listen", "launch", "waiting", "serving"} =>
              SingleToken(queue[t])

\* A socket ends with the thread that has it.
SocketFits == \A t \in Threads : at[t] \in Unbound => t \notin bound

Orderly == OneStarts /\ AttributeFits /\ TokenFits /\ SocketFits

\* A stray thread may put its token, or its worker, to the queue of another.
Order == Types /\ (strays = {} => Orderly)

-----------------------------------------------------------------------------

NoStop(q) == \A i \in DOMAIN q : q[i] # "stop"

\* What holds of the current server and all others before the first warning.
OthersEnded ==
    \A t \in Threads : t # current => at[t] \in {"unborn", "ended"}

CurrentFits ==
    current # None =>
        /\ at[current] \in (Starting \ {"create"}) \cup Working \cup {"close", "forget"}
              => attribute = current
        /\ at[current] \in {"listen", "launch", "close"} \cup Working => current \in bound
        /\ owner \notin Joins =>
              /\ NoStop(queue[current])
              /\ at[current] \notin {"close", "forget"}
              /\ at[current] = "ended" => attribute = current

InPlace ==
    "stop" \notin failed =>
        /\ strays = {} /\ "serve_forever" \notin failed
        /\ OthersEnded /\ CurrentFits

-----------------------------------------------------------------------------
(***************************************************************************)
(* Types                                                                   *)
(***************************************************************************)

\* What is assumed of the constants, one by one.
LEMMA Constants ==
  /\ BacklogSize \in Nat \ {0} /\ BindTries \in Nat \ {0}
  /\ 0 \in 0..BacklogSize /\ 0 \in 0..BindTries /\ 0 < BindTries
  /\ \A n \in 0..BindTries : n < BindTries => n + 1 \in 0..BindTries
  /\ None \notin Threads
<1>1. MaxStarts \in Nat /\ BacklogSize \in Nat \ {0} /\ BindTries \in Nat \ {0} /\ None \notin Nat
  BY LifecycleAssumption
<1>2. Threads \subseteq Nat
  BY <1>1 DEF Threads
<1>3. 0 \in 0..BacklogSize /\ 0 \in 0..BindTries /\ 0 < BindTries
  BY <1>1
<1>4. \A n \in 0..BindTries : n < BindTries => n + 1 \in 0..BindTries
  BY <1>1
<1>5. QED
  BY <1>1, <1>2, <1>3, <1>4

\* put() and get() keep every queue typed.
LEMMA QueueTypes ==
  ASSUME queue \in [Threads -> Seq(Items)], NEW q \in Threads,
         NEW items \in Seq(Items)
  PROVE  /\ [queue EXCEPT ![q] = @ \o items] \in [Threads -> Seq(Items)]
         /\ queue[q] # <<>> =>
               [queue EXCEPT ![q] = Tail(@) \o items] \in [Threads -> Seq(Items)]
<1>1. queue[q] \in Seq(Items) /\ queue[q] \o items \in Seq(Items)
  OBVIOUS
<1>2. queue[q] # <<>> => Tail(queue[q]) \in Seq(Items) /\ Tail(queue[q]) \o items \in Seq(Items)
  BY <1>1
<1>3. QED
  BY <1>1, <1>2

\* What is put is a sequence of items.
LEMMA PutItems ==
  /\ <<>> \in Seq(Items) /\ <<"go">> \in Seq(Items) /\ <<"stop">> \in Seq(Items)
  /\ \A item \in Items : Seen(item) \in Seq(Items)
  BY DEF Items, Seen

\* Goto() moves one thread.
LEMMA Moved ==
  ASSUME at \in [Threads -> Places], NEW t \in Threads, NEW place \in Places,
         Goto(t, place)
  PROVE  /\ at' \in [Threads -> Places]
         /\ at'[t] = place
         /\ \A s \in Threads \ {t} : at'[s] = at[s]
  BY DEF Goto

\* A dying thread's socket is gone.
LEMMA Died ==
  ASSUME TypeOK, NEW t \in Threads, Dies(t)
  PROVE  /\ at' \in [Threads -> Places]
         /\ at'[t] = "ended"
         /\ \A s \in Threads \ {t} : at'[s] = at[s]
         /\ bound' = bound \ {t}
         /\ bound' \subseteq Threads
         /\ backlog' \in [Threads -> 0..BacklogSize]
<1>1. "ended" \in Places /\ at \in [Threads -> Places] /\ Goto(t, "ended")
  BY DEF Dies, Places, TypeOK
<1>2. 0 \in 0..BacklogSize
  BY Constants
<1>3. /\ bound' = bound \ {t} /\ bound' \subseteq Threads
      /\ backlog' \in [Threads -> 0..BacklogSize]
  BY <1>2 DEF Dies, ReleaseSocket, TypeOK
<1>4. QED
  BY <1>1, <1>3, Moved

\* A connection request fits into the backlog it gets into.
LEMMA Knocked ==
  ASSUME TypeOK, Knock
  PROVE  backlog' \in [Threads -> 0..BacklogSize]
<1>1. PICK t \in Listening : backlog[t] < BacklogSize /\ backlog' = [backlog EXCEPT ![t] = @ + 1]
  BY DEF Knock
<1>2. t \in Threads /\ backlog[t] \in 0..BacklogSize /\ BacklogSize \in Nat
  BY Constants DEF Listening, TypeOK
<1>3. backlog[t] + 1 \in 0..BacklogSize
  BY <1>1, <1>2
<1>4. QED
  BY <1>1, <1>2, <1>3 DEF TypeOK

\* A statement of serve_forever() keeps the types.
LEMMA StatementTypes ==
  ASSUME Types, NEW t \in Threads,
         \/ Create(t) \/ PutToken(t) \/ Bind(t) \/ Listen(t) \/ Launch(t)
         \/ Close(t) \/ Forget(t)
  PROVE  Types'
<1>a. SUFFICES TypeOK' /\ TriesLeft' /\ QueueGiven'
  <2>1. ThreadKnown'
    BY DEF Types, ThreadKnown, Owner, Create, PutToken, Bind, Listen, Launch, Close, Forget
  <2>2. QED
    BY <2>1 DEF Types
<1>1. /\ at \in [Threads -> Places] /\ tries \in [Threads -> 0..BindTries]
      /\ attribute \in Threads \cup {None} /\ BindTries \in Nat \ {0}
      /\ queue \in [Threads -> Seq(Items)] /\ None \notin Threads
  BY Constants DEF Types, TypeOK, Items
<1> USE DEF Types, TriesLeft, QueueGiven, Working, TypeOK, Owner, Network, Items
<1>2. CASE Create(t)
  <2>1. Goto(t, "put token") /\ "put token" \in Places
    BY <1>2 DEF Create, Places, Starting
  <2>2. QED
    BY <1>1, <1>2, <2>1, Moved DEF Create
<1>3. CASE PutToken(t)
  <2>1. CASE attribute = None
    BY <1>1, <1>3, <2>1, Died DEF PutToken
  <2>2. CASE attribute # None
    <3>1. /\ Goto(t, "bind") /\ "bind" \in Places
          /\ Put(attribute, <<"go">>) /\ attribute \in Threads
      BY <1>1, <1>3, <2>2 DEF PutToken, Places, Starting
    <3>a. tries[t] = 0 /\ tries' = tries /\ at[t] = "put token"
      BY <1>1, <1>3 DEF PutToken
    <3>2. queue' \in [Threads -> Seq(Items)]
      BY <1>1, <2>2, <3>1, QueueTypes, PutItems DEF Put
    <3>3. /\ at' \in [Threads -> Places] /\ at'[t] = "bind"
          /\ \A s \in Threads \ {t} : at'[s] = at[s]
      BY <1>1, <3>1, Moved
    <3>4. ASSUME NEW s \in Threads
          PROVE  /\ at'[s] \in {"unborn", "create", "put token"} => tries'[s] = 0
                 /\ at'[s] = "bind" => tries'[s] < BindTries
      <4>1. CASE s = t
        BY Constants, <4>1, <3>a, <3>3
      <4>2. CASE s # t
        BY <4>2, <3>a, <3>3
      <4>3. QED
        BY <4>1, <4>2
    <3>5. TypeOK'
      BY <1>3, <2>2, <3>2, <3>3 DEF PutToken
    <3>6. QueueGiven'
      BY <1>3, <3>1, <3>3 DEF PutToken
    <3>7. QED
      BY <3>4, <3>5, <3>6
  <2>3. QED
    BY <2>1, <2>2
<1>4. CASE Bind(t)
  <2>1. CASE Listening = {}
    <3>1. Goto(t, "listen") /\ "listen" \in Places
      BY <1>4, <2>1 DEF Bind, Places, Starting
    <3>2. /\ at' \in [Threads -> Places] /\ at'[t] = "listen"
          /\ \A s \in Threads \ {t} : at'[s] = at[s]
      BY <1>1, <3>1, Moved
    <3>3. /\ UNCHANGED <<attribute, queue, worksOn, tries, backlog, owner, current, strays>>
          /\ UNCHANGED failed /\ bound' = bound \cup {t}
      BY <1>4, <2>1 DEF Bind
    <3>4. QED
      BY <3>2, <3>3
  <2>2. CASE Listening # {}
    <3>1. tries[t] < BindTries /\ tries' = [tries EXCEPT ![t] = @ + 1]
      BY <1>4, <2>2 DEF Bind
    <3>b. tries[t] + 1 \in 0..BindTries
      BY <1>1, <3>1, Constants
    <3>2. tries'[t] = tries[t] + 1 /\ tries' \in [Threads -> 0..BindTries]
      BY <1>1, <3>1, <3>b
    <3>3. PICK place \in {"bind", "listen"} :
             Goto(t, place) /\ (place = "bind" => tries'[t] < BindTries)
      BY <1>4, <2>2 DEF Bind, TryAgain
    <3>4. place \in Places
      BY DEF Places, Starting
    <3>5. /\ at' \in [Threads -> Places] /\ at'[t] = place
          /\ \A s \in Threads \ {t} : at'[s] = at[s]
      BY <1>1, <3>3, <3>4, Moved
    <3>6. /\ UNCHANGED <<attribute, queue, worksOn, backlog, owner, current, strays>>
          /\ UNCHANGED failed /\ bound' = bound
      BY <1>4, <2>2 DEF Bind
    <3>7. \A s \in Threads \ {t} : tries'[s] = tries[s]
      BY <1>1, <3>1
    <3>8. TypeOK'
      BY <3>2, <3>5, <3>6
    <3>9. TriesLeft' /\ QueueGiven'
      BY <3>3, <3>5, <3>6, <3>7
    <3>10. QED
      BY <3>8, <3>9
  <2>3. QED
    BY <2>1, <2>2
<1>5. CASE Listen(t)
  <2>1. Dies(t) \/ (Goto(t, "launch") /\ Network)
    BY <1>5 DEF Listen
  <2>2. "launch" \in Places
    BY DEF Places, Starting
  <2>3. CASE Dies(t)
    BY <1>1, <1>5, <2>3, Died DEF Listen
  <2>4. CASE Goto(t, "launch") /\ Network
    BY <1>1, <1>5, <2>2, <2>4, Moved DEF Listen
  <2>5. QED
    BY <2>1, <2>3, <2>4
<1>6. CASE Launch(t)
  <2>1. CASE attribute = None
    <3>1. /\ at'[t] = "ended" /\ \A s \in Threads \ {t} : at'[s] = at[s]
          /\ worksOn' = [worksOn EXCEPT ![t] = attribute] /\ UNCHANGED tries
      BY <1>6, <2>1, Died DEF Launch
    <3>2. TypeOK'
      BY <1>1, <1>6, <2>1, Died DEF Launch
    <3>3. TriesLeft' /\ QueueGiven'
      BY <1>1, <3>1
    <3>4. QED
      BY <3>2, <3>3
  <2>2. CASE attribute # None
    <3>1. Goto(t, "waiting") /\ "waiting" \in Places
      BY <1>6, <2>2 DEF Launch, Places, Working
    <3>2. QED
      BY <1>1, <1>6, <2>2, <3>1, Moved DEF Launch
  <2>3. QED
    BY <2>1, <2>2
<1>7. CASE Close(t)
  <2>1. Goto(t, "forget") /\ "forget" \in Places
    BY <1>7 DEF Close, Places
  <2>2. bound' \subseteq Threads /\ backlog' \in [Threads -> 0..BacklogSize]
    BY <1>7, Constants DEF Close, ReleaseSocket
  <2>3. QED
    BY <1>1, <1>7, <2>1, <2>2, Moved DEF Close
<1>8. CASE Forget(t)
  <2>1. Goto(t, "ended") /\ "ended" \in Places
    BY <1>8 DEF Forget, Places
  <2>2. QED
    BY <1>1, <1>8, <2>1, Moved DEF Forget
<1>9. QED
  BY <1>2, <1>3, <1>4, <1>5, <1>6, <1>7, <1>8

\* A step of a worker keeps the types.
LEMMA WorkerTypes ==
  ASSUME Types, NEW t \in Threads,
         \/ GetToken(t) \/ Accept(t) \/ Peek(t) \/ Finish(t) \/ ServiceFails(t)
  PROVE  Types'
<1>1. /\ at \in [Threads -> Places] /\ queue \in [Threads -> Seq(Items)]
      /\ {"waiting", "accepting", "serving", "close", "ended"} \subseteq Places
  BY DEF Types, TypeOK, Items, Places, Working
<1>2. PICK place \in {"waiting", "accepting", "serving", "close", "ended"} :
         /\ Goto(t, place) \/ (place = at[t] /\ UNCHANGED at)
         /\ at[t] \in Working
  BY <1>1 DEF GetToken, Accept, Peek, Finish, ServiceFails, Dies, Working
<1>3. /\ at' \in [Threads -> Places] /\ at'[t] \notin {"unborn", "create", "put token", "bind"}
      /\ \A s \in Threads \ {t} : at'[s] = at[s]
  BY <1>1, <1>2, Moved
<1>4. UNCHANGED <<owner, current, attribute, worksOn, tries, failed, strays>>
  BY DEF GetToken, Accept, Peek, Finish, ServiceFails, Worker, Owner
<1>5. TriesLeft' /\ ThreadKnown'
  BY <1>3, <1>4 DEF Types, TriesLeft, ThreadKnown
<1>a. QueueGiven'
  BY <1>2, <1>3, <1>4 DEF Types, QueueGiven
<1>6. bound' \subseteq Threads /\ backlog' \in [Threads -> 0..BacklogSize]
  <2>1. CASE ServiceFails(t)
    BY <2>1, Died DEF ServiceFails, Types
  <2>2. CASE Accept(t)
    <3>1. /\ backlog \in [Threads -> 0..BacklogSize] /\ backlog[t] \in 0..BacklogSize
          /\ backlog[t] > 0 /\ backlog' = [backlog EXCEPT ![t] = @ - 1]
          /\ UNCHANGED bound /\ bound \subseteq Threads
      BY <2>2 DEF Accept, Types, TypeOK
    <3>2. backlog[t] - 1 \in 0..BacklogSize
      BY <3>1, Constants
    <3>3. QED
      BY <3>1, <3>2
  <2>3. CASE GetToken(t) \/ Peek(t) \/ Finish(t)
    BY <2>3 DEF GetToken, Peek, Finish, Network, Types, TypeOK
  <2>4. QED
    BY <2>1, <2>2, <2>3
<1>7. queue' \in [Threads -> Seq(Items)]
  <2> DEFINE q == worksOn[t]
  <2>1. q \in Threads
    BY <1>2 DEF Types, QueueGiven
  <2> HIDE DEF q
  <2>2. CASE GetToken(t)
    BY <1>1, <2>1, <2>2, QueueTypes, PutItems DEF GetToken, Exchange, Waiting, q
  <2>3. CASE Accept(t)
    BY <1>1, <2>1, <2>3, QueueTypes, PutItems DEF Accept, Put, q
  <2>4. CASE Peek(t)
    <3>1. queue[q] # <<>> /\ queue' = [queue EXCEPT ![q] = Tail(@) \o Seen(Head(queue[q]))]
      BY <2>1, <2>4 DEF Peek, Exchange, Waiting, q
    <3>2. Head(queue[q]) \in Items
      BY <1>1, <2>1, <3>1
    <3>3. QED
      BY <1>1, <2>1, <3>1, <3>2, QueueTypes, PutItems
  <2>5. CASE Finish(t) \/ ServiceFails(t)
    BY <1>1, <2>5 DEF Finish, ServiceFails
  <2>6. QED
    BY <2>2, <2>3, <2>4, <2>5
<1>8. QED
  BY <1>3, <1>4, <1>5, <1>a, <1>6, <1>7 DEF Types, TypeOK, Items

\* So does what the thread that starts and stops does, and a client.
LEMMA ControlTypes ==
  ASSUME Types, StartMTA \/ StopMTA \/ Control \/ Connect \/ Ended
  PROVE  Types'
<1>1. /\ at \in [Threads -> Places] /\ queue \in [Threads -> Seq(Items)]
      /\ attribute \in Threads \cup {None}
  BY DEF Types, TypeOK, Items
<1>2. CASE StartMTA
  BY <1>2 DEF StartMTA, Server, Types, TypeOK, TriesLeft, QueueGiven, ThreadKnown
<1>3. CASE StopMTA
  BY <1>3 DEF StopMTA, Server, Types, TypeOK, TriesLeft, QueueGiven, ThreadKnown
<1>4. CASE Spawn
  <2>1. PICK t \in Unborn : Goto(t, "create") /\ current' = t
    BY <1>4 DEF Spawn
  <2>2. t \in Threads /\ at[t] = "unborn" /\ "create" \in Places
    BY <2>1 DEF Unborn, Places, Starting
  <2>3. /\ at' \in [Threads -> Places] /\ at'[t] = "create"
        /\ \A s \in Threads \ {t} : at'[s] = at[s]
    BY <1>1, <2>1, <2>2, Moved
  <2>4. /\ UNCHANGED <<queue, attribute, worksOn, tries, bound, backlog, failed, strays>>
        /\ owner' \in {"probe", "idle"} /\ current' = t
    BY <1>4, <2>1 DEF Spawn, Server
  <2>5. TypeOK'
    BY <2>2, <2>3, <2>4 DEF Types, TypeOK
  <2>6. TriesLeft' /\ QueueGiven' /\ ThreadKnown'
    BY <2>2, <2>3, <2>4, Constants DEF Types, TriesLeft, QueueGiven, ThreadKnown, Working
  <2>7. QED
    BY <2>5, <2>6 DEF Types
<1>5. CASE Probe
  <2>1. Knock /\ owner' = "idle" /\ Server /\ UNCHANGED <<at, queue, current, failed, strays>>
    BY <1>5 DEF Probe
  <2>2. backlog' \in [Threads -> 0..BacklogSize]
    BY <2>1, Knocked DEF Types
  <2>3. QED
    BY <2>1, <2>2 DEF Server, Types, TypeOK, TriesLeft, QueueGiven, ThreadKnown
<1>6. CASE ProbeGivesUp
  BY <1>6 DEF ProbeGivesUp, Server, Types, TypeOK, TriesLeft, QueueGiven, ThreadKnown
<1>7. CASE ShutdownServer
  <2>1. queue' \in [Threads -> Seq(Items)]
    <3>1. CASE attribute = None
      BY <1>1, <1>7, <3>1 DEF ShutdownServer
    <3>2. CASE attribute # None
      <4>1. attribute \in Threads /\ queue' = [queue EXCEPT ![attribute] = @ \o <<"stop">>]
        BY <1>1, <1>7, <3>2 DEF ShutdownServer, Put
      <4>2. QED
        BY <1>1, <4>1, QueueTypes, PutItems
    <3>3. QED
      BY <3>1, <3>2
  <2>2. /\ Server /\ UNCHANGED <<at, backlog, current, strays>>
        /\ owner' \in {"idle", "join", "join and spawn"}
        /\ failed' \subseteq {"serve_forever", "shutdown_server", "start_mta", "stop"}
    BY <1>7 DEF ShutdownServer, Types, TypeOK
  <2>3. current # None
    BY <1>7 DEF ShutdownServer, Stopping, Types, ThreadKnown
  <2>4. TypeOK'
    BY <2>1, <2>2 DEF Server, Types, TypeOK, Items
  <2>5. TriesLeft' /\ QueueGiven' /\ ThreadKnown'
    BY <2>2, <2>3 DEF Server, Types, TriesLeft, QueueGiven, ThreadKnown
  <2>6. QED
    BY <2>4, <2>5 DEF Types
<1>8. CASE Join
  <2>1. /\ UNCHANGED <<at, queue, attribute, worksOn, tries, bound, backlog>>
        /\ owner' \in {"idle", "spawn"} /\ current' = None
        /\ failed' \in {failed, failed \cup {"stop"}}
        /\ strays' \in {strays, strays \cup {current}}
    BY <1>8 DEF Join, Server
  <2>2. current \in Threads
    BY <1>8 DEF Join, Types, TypeOK, ThreadKnown
  <2>3. QED
    BY <2>1, <2>2 DEF Types, TypeOK, TriesLeft, QueueGiven, ThreadKnown
<1>9. CASE Connect
  <2>1. backlog' \in [Threads -> 0..BacklogSize]
    BY <1>9, Knocked DEF Types, Connect
  <2>2. QED
    BY <1>9, <2>1 DEF Connect, Owner, Server, Types, TypeOK, TriesLeft, QueueGiven, ThreadKnown
<1>10. CASE Ended
  BY <1>10 DEF Ended, vars, Types, TypeOK, TriesLeft, QueueGiven, ThreadKnown
<1>11. QED
  BY <1>2, <1>3, <1>4, <1>5, <1>6, <1>7, <1>8, <1>9, <1>10 DEF Control

-----------------------------------------------------------------------------
(***************************************************************************)
(* One token for each worker                                               *)
(***************************************************************************)

\* What is put into a queue.
LEMMA TokenPut ==
  ASSUME NEW q \in Seq(Items)
  PROVE  /\ NoToken(q) => SingleToken(q \o <<"go">>) /\ NoToken(q \o <<"stop">>)
         /\ SingleToken(q) => SingleToken(q \o <<"stop">>)
         /\ NoStop(q) => NoStop(q \o <<"go">>)
<1>1. ASSUME NEW x \in Items
      PROVE  /\ DOMAIN q = 1..Len(q) /\ Len(q) \in Nat
             /\ DOMAIN (q \o <<x>>) = 1..(Len(q) + 1)
             /\ \A i \in 1..Len(q) : (q \o <<x>>)[i] = q[i]
             /\ (q \o <<x>>)[Len(q) + 1] = x
  OBVIOUS
<1>2. 1..(Len(q) + 1) = 1..Len(q) \cup {Len(q) + 1} /\ Len(q) + 1 \notin 1..Len(q)
  BY <1>1 DEF Items
<1>3. "go" \in Items /\ "stop" \in Items
  BY DEF Items
<1>4. NoToken(q) => SingleToken(q \o <<"go">>)
  BY <1>1, <1>2, <1>3 DEF NoToken, SingleToken
<1>5. NoToken(q) => NoToken(q \o <<"stop">>)
  BY <1>1, <1>2, <1>3 DEF NoToken
<1>6. SingleToken(q) => SingleToken(q \o <<"stop">>)
  <2>1. SUFFICES ASSUME NEW i \in DOMAIN q, \A j \in DOMAIN q : q[j] = "go" <=> j = i
                 PROVE  SingleToken(q \o <<"stop">>)
    BY DEF SingleToken
  <2>2. \A j \in DOMAIN (q \o <<"stop">>) : (q \o <<"stop">>)[j] = "go" <=> j = i
    BY <1>1, <1>2, <1>3, <2>1
  <2>3. i \in DOMAIN (q \o <<"stop">>)
    BY <1>1, <1>2, <1>3
  <2>4. QED
    BY <2>2, <2>3 DEF SingleToken
<1>7. NoStop(q) => NoStop(q \o <<"go">>)
  BY <1>1, <1>2, <1>3 DEF NoStop
<1>8. QED
  BY <1>4, <1>5, <1>6, <1>7

\* What is taken from a queue.
LEMMA TokenGot ==
  ASSUME NEW q \in Seq(Items), q # <<>>
  PROVE  /\ Head(q) = "go" /\ SingleToken(q) => NoToken(Tail(q) \o <<>>)
         /\ NoStop(q) => Head(q) = "go" /\ NoStop(Tail(q) \o <<>>)
<1>1. /\ Head(q) = q[1] /\ DOMAIN q = 1..Len(q) /\ Len(q) \in Nat \ {0}
      /\ Tail(q) \o <<>> = Tail(q) /\ DOMAIN Tail(q) = 1..(Len(q) - 1)
      /\ \A i \in 1..(Len(q) - 1) : Tail(q)[i] = q[i + 1]
      /\ Head(q) \in Items
  OBVIOUS
<1>2. \A i \in 1..(Len(q) - 1) : i + 1 \in 1..Len(q) /\ i + 1 # 1
  BY <1>1
<1>3. 1 \in 1..Len(q)
  BY <1>1
<1>4. Head(q) = "go" /\ SingleToken(q) => NoToken(Tail(q) \o <<>>)
  BY <1>1, <1>2, <1>3 DEF NoToken, SingleToken
<1>5. NoStop(q) => Head(q) = "go" /\ NoStop(Tail(q) \o <<>>)
  BY <1>1, <1>2, <1>3 DEF NoStop, Items
<1>6. QED
  BY <1>4, <1>5

\* A statement of serve_forever() keeps the order.
LEMMA StatementOrderly ==
  ASSUME Types, Orderly, NEW t \in Threads,
         \/ Create(t) \/ PutToken(t) \/ Bind(t) \/ Listen(t) \/ Launch(t)
         \/ Close(t) \/ Forget(t)
  PROVE  Orderly'
<1> DEFINE others == \A s \in Threads \ {t} : at'[s] = at[s]
<1>1. /\ at \in [Threads -> Places] /\ queue \in [Threads -> Seq(Items)]
      /\ attribute \in Threads \cup {None} /\ None \notin Threads
      /\ bound \subseteq Threads /\ current \in Threads \cup {None}
      /\ worksOn \in [Threads -> Threads \cup {None}]
  BY Constants DEF Types, TypeOK, Items
<1>2. UNCHANGED <<owner, current>>
  BY DEF Create, PutToken, Bind, Listen, Launch, Close, Forget, Owner
<1>3. CASE Create(t)
  <2>1. /\ at[t] = "create" /\ at'[t] = "put token" /\ others
        /\ attribute' = t /\ UNCHANGED <<queue, worksOn, bound>>
    BY <1>1, <1>3 DEF Create, Goto, Network
  <2>2. QED
    BY <1>1, <1>2, <2>1 DEF Orderly, OneStarts, AttributeFits, TokenFits, SocketFits, Starting, Working, Unbound
<1>4. CASE PutToken(t)
  <2>1. CASE attribute = None
    <3>1. /\ at[t] = "put token" /\ at'[t] = "ended" /\ others
          /\ bound' = bound \ {t} /\ UNCHANGED <<queue, worksOn, attribute>>
      BY <1>1, <1>4, <2>1, Died DEF PutToken, Types
    <3>2. QED
      BY <1>1, <1>2, <3>1 DEF Orderly, OneStarts, AttributeFits, TokenFits, SocketFits, Starting, Working, Unbound
  <2>2. CASE attribute # None
    <3>1. /\ at[t] = "put token" /\ at'[t] = "bind" /\ others
          /\ queue' = [queue EXCEPT ![attribute] = @ \o <<"go">>]
          /\ UNCHANGED <<attribute, worksOn, bound>>
      BY <1>1, <1>4, <2>2 DEF PutToken, Goto, Network, Put
    <3>2. attribute = t
      BY <2>2, <3>1 DEF Orderly, AttributeFits, Starting
    <3>3. NoToken(queue[t]) /\ SingleToken(queue[t] \o <<"go">>)
      BY <1>1, <3>1, TokenPut DEF Orderly, TokenFits
    <3>4. SingleToken(queue'[t]) /\ \A s \in Threads \ {t} : queue'[s] = queue[s]
      BY <1>1, <3>1, <3>2, <3>3
    <3>5. QED
      BY <1>1, <1>2, <3>1, <3>4 DEF Orderly, OneStarts, AttributeFits, TokenFits, SocketFits, Starting, Working, Unbound
  <2>3. QED
    BY <2>1, <2>2
<1>5. CASE Bind(t)
  <2>1. /\ at[t] = "bind" /\ at'[t] \in {"bind", "listen"} /\ others
        /\ bound' = bound \/ (bound' = bound \cup {t} /\ at'[t] = "listen")
        /\ UNCHANGED <<attribute, queue, worksOn>>
    BY <1>1, <1>5 DEF Bind, Goto
  <2>2. QED
    BY <1>1, <1>2, <2>1 DEF Orderly, OneStarts, AttributeFits, TokenFits, SocketFits, Starting, Working, Unbound
<1>6. CASE Listen(t)
  <2>1. /\ at[t] = "listen" /\ others
        /\ \/ at'[t] = "ended" /\ bound' = bound \ {t}
           \/ at'[t] = "launch" /\ UNCHANGED bound
        /\ UNCHANGED <<attribute, queue, worksOn>>
    BY <1>1, <1>6, Died DEF Listen, Goto, Network, Types
  <2>2. QED
    BY <1>1, <1>2, <2>1 DEF Orderly, OneStarts, AttributeFits, TokenFits, SocketFits, Starting, Working, Unbound
<1>7. CASE Launch(t)
  <2>1. /\ at[t] = "launch" /\ others
        /\ \/ at'[t] = "ended" /\ bound' = bound \ {t}
           \/ at'[t] = "waiting" /\ UNCHANGED bound /\ attribute # None
        /\ worksOn' = [worksOn EXCEPT ![t] = attribute]
        /\ UNCHANGED <<attribute, queue>>
    BY <1>1, <1>7, Died DEF Launch, Goto, Network, Types
  <2>2. attribute # None => attribute = t
    BY <2>1 DEF Orderly, AttributeFits, Starting
  <2>3. worksOn'[t] = attribute /\ \A s \in Threads \ {t} : worksOn'[s] = worksOn[s]
    BY <1>1, <2>1
  <2>4. QED
    BY <1>1, <1>2, <2>1, <2>2, <2>3 DEF Orderly, OneStarts, AttributeFits, TokenFits, SocketFits, Starting, Working, Unbound
<1>8. CASE Close(t)
  <2>1. /\ at[t] = "close" /\ at'[t] = "forget" /\ others /\ bound' = bound \ {t}
        /\ UNCHANGED <<attribute, queue, worksOn>>
    BY <1>1, <1>8 DEF Close, Goto, ReleaseSocket
  <2>2. OneStarts'
    BY <1>1, <1>2, <2>1 DEF Orderly, OneStarts, Starting
  <2>3. AttributeFits'
    BY <1>1, <2>1 DEF Orderly, AttributeFits, Starting
  <2>4. TokenFits'
    BY <1>1, <2>1 DEF Orderly, TokenFits, Working
  <2>5. SocketFits'
    BY <1>1, <2>1 DEF Orderly, SocketFits, Unbound
  <2>6. QED
    BY <2>2, <2>3, <2>4, <2>5 DEF Orderly
<1>9. CASE Forget(t)
  <2>1. /\ at[t] = "forget" /\ at'[t] = "ended" /\ others /\ attribute' = None
        /\ UNCHANGED <<queue, worksOn, bound>>
    BY <1>1, <1>9 DEF Forget, Goto, Network
  <2>2. OneStarts'
    BY <1>1, <1>2, <2>1 DEF Orderly, OneStarts, Starting
  <2>3. AttributeFits'
    BY <1>1, <2>1 DEF Orderly, AttributeFits, Starting
  <2>4. TokenFits'
    BY <1>1, <2>1 DEF Orderly, TokenFits, Working
  <2>5. SocketFits'
    BY <1>1, <2>1 DEF Orderly, SocketFits, Unbound
  <2>6. QED
    BY <2>2, <2>3, <2>4, <2>5 DEF Orderly
<1>10. QED
  BY <1>3, <1>4, <1>5, <1>6, <1>7, <1>8, <1>9

\* A step of a worker keeps the order: only "accepting" and the queue trade tokens.
LEMMA WorkerOrderly ==
  ASSUME Types, Orderly, NEW t \in Threads,
         \/ GetToken(t) \/ Accept(t) \/ Peek(t) \/ Finish(t) \/ ServiceFails(t)
  PROVE  Orderly'
<1> DEFINE others == /\ \A s \in Threads \ {t} : at'[s] = at[s]
                     /\ \A s \in Threads \ {t} : queue'[s] = queue[s]
<1>1. /\ at \in [Threads -> Places] /\ queue \in [Threads -> Seq(Items)]
      /\ attribute \in Threads \cup {None} /\ None \notin Threads
      /\ bound \subseteq Threads /\ current \in Threads \cup {None}
  BY Constants DEF Types, TypeOK, Items
<1>2. UNCHANGED <<owner, current, attribute, worksOn>>
  BY DEF GetToken, Accept, Peek, Finish, ServiceFails, Worker, Owner
<1>3. at[t] \in Working /\ worksOn[t] = t
  BY DEF GetToken, Accept, Peek, Finish, ServiceFails, Working, Orderly, TokenFits
<1>4. /\ others /\ bound' \in {bound, bound \ {t}}
      /\ \/ at'[t] \in Working /\ UNCHANGED bound
         \/ at'[t] = "close" /\ UNCHANGED bound
         \/ at'[t] = "ended" /\ bound' = bound \ {t}
      /\ at'[t] = "accepting" => NoToken(queue'[t])
      /\ at'[t] \in {"waiting", "serving"} => SingleToken(queue'[t])
  <2>1. CASE GetToken(t)
    <3>1. /\ at[t] = "waiting" /\ queue[t] # <<>>
          /\ queue' = [queue EXCEPT ![t] = Tail(@) \o <<>>]
          /\ at' = [at EXCEPT ![t] = IF Head(queue[t]) = "go" THEN "accepting" ELSE "close"]
          /\ UNCHANGED bound
      BY <1>3, <2>1 DEF GetToken, Exchange, Waiting, Goto, Network
    <3>2. queue'[t] = Tail(queue[t]) \o <<>> /\ SingleToken(queue[t])
      BY <1>1, <3>1 DEF Orderly, TokenFits
    <3>3. Head(queue[t]) = "go" => NoToken(queue'[t])
      BY <1>1, <3>1, <3>2, TokenGot
    <3>4. QED
      BY <1>1, <3>1, <3>3 DEF Working
  <2>2. CASE Accept(t)
    <3>1. /\ at[t] = "accepting" /\ queue' = [queue EXCEPT ![t] = @ \o <<"go">>]
          /\ at' = [at EXCEPT ![t] = "serving"] /\ UNCHANGED bound
      BY <1>3, <2>2 DEF Accept, Put, Goto
    <3>2. queue'[t] = queue[t] \o <<"go">> /\ NoToken(queue[t])
      BY <1>1, <3>1 DEF Orderly, TokenFits
    <3>3. SingleToken(queue'[t])
      BY <1>1, <3>2, TokenPut
    <3>4. QED
      BY <1>1, <3>1, <3>3 DEF Working
  <2>3. CASE Peek(t)
    <3>1. /\ at[t] = "accepting" /\ queue[t] # <<>> /\ UNCHANGED bound
          /\ queue' = [queue EXCEPT ![t] = Tail(@) \o Seen(Head(queue[t]))]
          /\ IF Head(queue[t]) = "go" THEN UNCHANGED at ELSE at' = [at EXCEPT ![t] = "close"]
      BY <1>3, <2>3 DEF Peek, Exchange, Waiting, Goto, Network
    <3>2. Head(queue[t]) # "go"
      <4>1. NoToken(queue[t]) /\ queue[t] \in Seq(Items)
        BY <1>1, <3>1 DEF Orderly, TokenFits
      <4>2. 1 \in DOMAIN queue[t] /\ Head(queue[t]) = queue[t][1]
        BY <3>1, <4>1
      <4>3. QED
        BY <4>1, <4>2 DEF NoToken
    <3>3. QED
      BY <1>1, <3>1, <3>2
  <2>4. CASE Finish(t)
    <3>1. at[t] = "serving" /\ at' = [at EXCEPT ![t] = "waiting"] /\ UNCHANGED <<queue, bound>>
      BY <2>4 DEF Finish, Goto, Network
    <3>2. QED
      BY <1>1, <3>1 DEF Orderly, TokenFits, Working
  <2>5. CASE ServiceFails(t)
    BY <1>1, <2>5, Died DEF ServiceFails, Types
  <2>6. QED
    BY <2>1, <2>2, <2>3, <2>4, <2>5
<1>5. OneStarts'
  BY <1>1, <1>2, <1>3, <1>4 DEF Orderly, OneStarts, Starting, Working
<1>6. AttributeFits'
  BY <1>1, <1>2, <1>3, <1>4 DEF Orderly, AttributeFits, Starting, Working
<1>7. TokenFits'
  BY <1>1, <1>2, <1>3, <1>4 DEF Orderly, TokenFits, Working
<1>8. SocketFits'
  BY <1>1, <1>3, <1>4 DEF Orderly, SocketFits, Working, Unbound
<1>9. QED
  BY <1>5, <1>6, <1>7, <1>8 DEF Orderly

\* So does what the thread that starts and stops does, and a client.
LEMMA ControlOrderly ==
  ASSUME Types, Orderly, strays' = {}, StartMTA \/ StopMTA \/ Control \/ Connect \/ Ended
  PROVE  Orderly'
<1>1. /\ at \in [Threads -> Places] /\ queue \in [Threads -> Seq(Items)]
      /\ attribute \in Threads \cup {None} /\ None \notin Threads
      /\ bound \subseteq Threads /\ current \in Threads \cup {None}
  BY Constants DEF Types, TypeOK, Items
<1>2. ASSUME UNCHANGED <<at, queue, attribute, worksOn, bound>>, OneStarts'
      PROVE  Orderly'
  BY <1>2 DEF Orderly, AttributeFits, TokenFits, SocketFits
<1>3. CASE StartMTA \/ StopMTA \/ Probe \/ ProbeGivesUp
  <2>1. /\ UNCHANGED <<at, queue, attribute, worksOn, bound, current>>
        /\ \/ owner' = "idle"
           \/ current = None /\ owner' = "spawn"
           \/ current # None /\ owner' \in Stops
    BY <1>3 DEF StartMTA, StopMTA, Probe, ProbeGivesUp, Server, Stops
  <2>2. OneStarts'
    BY <2>1 DEF Orderly, OneStarts, Stops
  <2>3. QED
    BY <1>2, <2>1, <2>2
<1>4. CASE Spawn
  <2>1. PICK t \in Unborn : Goto(t, "create") /\ current' = t
    BY <1>4 DEF Spawn
  <2>2. /\ t \in Threads /\ at[t] = "unborn" /\ at'[t] = "create"
        /\ \A s \in Threads \ {t} : at'[s] = at[s]
        /\ owner = "spawn" /\ owner' \in {"probe", "idle"}
        /\ UNCHANGED <<queue, attribute, worksOn, bound>>
    BY <1>1, <1>4, <2>1 DEF Unborn, Goto, Spawn, Server
  <2>3. current = None
    BY <2>2 DEF Types, ThreadKnown
  <2>4. OneStarts'
    BY <1>1, <2>1, <2>2, <2>3 DEF Orderly, OneStarts, Starting
  <2>5. AttributeFits'
    BY <1>1, <2>2 DEF Orderly, AttributeFits, Starting
  <2>6. NoToken(queue'[t])
    <3>1. queue'[t] = <<>>
      BY <2>2 DEF Orderly, TokenFits
    <3>2. NoToken(<<>>)
      BY DEF NoToken
    <3>3. QED
      BY <3>1, <3>2
  <2>7. TokenFits'
    BY <1>1, <2>2, <2>6 DEF Orderly, TokenFits, Working
  <2>8. SocketFits'
    BY <1>1, <2>2 DEF Orderly, SocketFits, Unbound
  <2>9. QED
    BY <2>4, <2>5, <2>7, <2>8 DEF Orderly
<1>5. CASE ShutdownServer
  <2>1. /\ owner \in Stops /\ owner' \in {"idle"} \cup Joins
        /\ UNCHANGED <<at, attribute, worksOn, bound, current>>
    BY <1>5 DEF ShutdownServer, Stopping, Server, Stops, Joins
  <2>2. OneStarts'
    BY <1>1, <2>1 DEF Orderly, OneStarts, Stops, Joins
  <2>3. CASE attribute = None
    BY <1>2, <1>5, <2>1, <2>2, <2>3 DEF ShutdownServer
  <2>4. CASE attribute # None
    <3>1. attribute \in Threads /\ queue' = [queue EXCEPT ![attribute] = @ \o <<"stop">>]
      BY <1>1, <1>5, <2>4 DEF ShutdownServer, Put
    <3>2. at[attribute] # "unborn"
      BY <3>1 DEF Orderly, AttributeFits
    <3>3. /\ queue'[attribute] = queue[attribute] \o <<"stop">>
          /\ \A s \in Threads \ {attribute} : queue'[s] = queue[s]
      BY <1>1, <3>1
    <3>4. /\ NoToken(queue[attribute]) => NoToken(queue'[attribute])
          /\ SingleToken(queue[attribute]) => SingleToken(queue'[attribute])
      BY <1>1, <3>1, <3>3, TokenPut
    <3>5. TokenFits'
      BY <2>1, <3>1, <3>2, <3>3, <3>4 DEF Orderly, TokenFits
    <3>6. AttributeFits' /\ SocketFits'
      BY <2>1 DEF Orderly, AttributeFits, SocketFits
    <3>7. QED
      BY <2>2, <3>5, <3>6 DEF Orderly
  <2>5. QED
    BY <2>3, <2>4
<1>6. CASE Join
  <2>1. /\ current = None \/ at[current] \notin Starting
        /\ owner \in Joins /\ owner' \in {"idle", "spawn"} /\ current' = None
        /\ UNCHANGED <<at, queue, attribute, worksOn, bound>>
    BY <1>1, <1>6 DEF Join, Server, Joins
  <2>2. OneStarts'
    BY <1>1, <2>1 DEF Orderly, OneStarts, Starting, Working
  <2>3. QED
    BY <1>2, <2>1, <2>2
<1>7. CASE Connect \/ Ended
  <2>1. UNCHANGED <<at, queue, attribute, worksOn, bound, owner, current>>
    BY <1>7 DEF Connect, Ended, Owner, Server, vars
  <2>2. QED
    BY <1>2, <2>1 DEF Orderly, OneStarts
<1>8. QED
  BY <1>3, <1>4, <1>5, <1>6, <1>7 DEF Control

\* The types are never lost, and the order is not until there is a stray thread.
LEMMA OrderStep == Order /\ [Next]_vars => Order'
<1>1. SUFFICES ASSUME Types, strays = {} => Orderly, [Next]_vars
               PROVE  Types' /\ (strays' = {} => Orderly')
  BY DEF Order
<1>2. CASE UNCHANGED vars
  BY <1>1, <1>2 DEF vars, Types, TypeOK, TriesLeft, QueueGiven, ThreadKnown, Orderly, OneStarts,
              AttributeFits, TokenFits, SocketFits
<1>3. ASSUME NEW t \in Threads, Serve(t)
      PROVE  Types' /\ (strays' = {} => Orderly')
  <2>1. UNCHANGED strays
    BY <1>3 DEF Serve, Create, PutToken, Bind, Listen, Launch, Close, Forget, GetToken,
                Accept, Peek, Finish, ServiceFails, Worker, Owner
  <2>2. CASE \/ Create(t) \/ PutToken(t) \/ Bind(t) \/ Listen(t) \/ Launch(t)
             \/ Close(t) \/ Forget(t)
    BY <1>1, <2>1, <2>2, StatementTypes, StatementOrderly
  <2>3. CASE GetToken(t) \/ Accept(t) \/ Peek(t) \/ Finish(t) \/ ServiceFails(t)
    BY <1>1, <2>1, <2>3, WorkerTypes, WorkerOrderly
  <2>4. QED
    BY <1>3, <2>2, <2>3 DEF Serve
<1>4. CASE StartMTA \/ StopMTA \/ Control \/ Connect \/ Ended
  <2>1. strays' = {} => strays = {}
    BY <1>4 DEF StartMTA, StopMTA, Control, Spawn, Probe, ProbeGivesUp, ShutdownServer,
                Join, Connect, Ended, Owner, vars
  <2>2. QED
    BY <1>1, <1>4, <2>1, ControlTypes, ControlOrderly
<1>5. QED
  BY <1>1, <1>2, <1>3, <1>4 DEF Next

\* A thread that was not started has touched nothing.
LEMMA OrderInit == Init => Order
<1>1. SUFFICES ASSUME Init
               PROVE  Types /\ Orderly
  BY DEF Order
<1>2. "unborn" \in Places /\ "unborn" \notin Working /\ <<>> \in Seq(Items)
  BY DEF Places, Working
<1>3. Types
  BY <1>1, <1>2, Constants DEF Init, Types, TypeOK, TriesLeft, QueueGiven, ThreadKnown,
                         Items
<1>4. Orderly
  BY <1>1, Constants DEF Init, Orderly, OneStarts, AttributeFits, TokenFits, SocketFits,
                         Starting, Working
<1>5. QED
  BY <1>3, <1>4

\* Order is inductive. Until stop() gives up on a thread that has not reached its
\* worker, a thread that starts is the current one, the attribute is its own or was
\* cleared by one that is late, and each queue has the token that its server put there.
THEOREM OrderInvariant == Spec => []Order
<1>1. QED
  BY OrderInit, OrderStep, PTL DEF Spec

\* TypeOK always holds; above all, bind() is not called more often than the code
\* says.
COROLLARY TypeCorrect == Spec => []TypeOK
<1>1. Order => TypeOK
  BY DEF Order, Types
<1>2. QED
  BY <1>1, OrderInvariant, PTL

\* What TokenFits says by positions is one token by number.
LEMMA TokenCounted ==
  ASSUME Order
  PROVE  OneTokenEach
<1>1. SUFFICES ASSUME Orderly, NEW t \in Threads, at[t] \in Working
               PROVE  worksOn[t] = t /\ Tokens(t) = 1
  BY DEF OneTokenEach, Order
<1> DEFINE tokens == {i \in DOMAIN queue[t] : queue[t][i] = "go"}
<1>2. worksOn[t] = t
  BY <1>1 DEF Orderly, TokenFits
<1>3. CASE at[t] = "accepting"
  <2>1. tokens = {}
    BY <1>1, <1>3 DEF Orderly, TokenFits, NoToken
  <2>2. Cardinality(tokens) = 0
    BY <2>1, FS_EmptySet
  <2>3. QED
    BY <1>2, <1>3, <2>2 DEF Tokens
<1>4. CASE at[t] # "accepting"
  <2>1. SingleToken(queue[t])
    BY <1>1, <1>4 DEF Orderly, TokenFits, Working
  <2>2. PICK i \in DOMAIN queue[t] : \A j \in DOMAIN queue[t] : queue[t][j] = "go" <=> j = i
    BY <2>1 DEF SingleToken
  <2>3. tokens = {i}
    BY <2>2
  <2>4. Cardinality(tokens) = 1
    BY <2>3, FS_Singleton
  <2>5. QED
    BY <1>2, <1>4, <2>4 DEF Tokens
<1>5. QED
  BY <1>3, <1>4

\* For any number of starts, and however long clients keep a server that stop() has
\* given up on: until a thread is given up on that has not reached its worker, each
\* worker works on the queue of its own server, and there is exactly one token for it.
THEOREM OneTokenEachAlways == Spec => []OneTokenEach
<1>1. Order => OneTokenEach
  BY TokenCounted
<1>2. QED
  BY <1>1, OrderInvariant, PTL

-----------------------------------------------------------------------------
(***************************************************************************)
(* Before the first warning                                                *)
(***************************************************************************)

\* A thread that does anything is the current one, and no other one listens.
LEMMA OnlyCurrent ==
  ASSUME OthersEnded, bound \subseteq Threads
  PROVE  /\ \A t \in Threads : at[t] \notin {"unborn", "ended"} => t = current
         /\ \A t \in Listening : t = current
  BY DEF OthersEnded, Listening, Working

\* A statement of serve_forever() keeps the server in place.
LEMMA StatementInPlace ==
  ASSUME Types, Orderly, InPlace, "stop" \notin failed, NEW t \in Threads,
         \/ Create(t) \/ PutToken(t) \/ Bind(t) \/ Listen(t) \/ Launch(t)
         \/ Close(t) \/ Forget(t)
  PROVE  InPlace'
<1> DEFINE others == \A s \in Threads \ {t} : at'[s] = at[s]
<1>1. /\ at \in [Threads -> Places] /\ queue \in [Threads -> Seq(Items)]
      /\ None \notin Threads /\ bound \subseteq Threads
  BY Constants DEF Types, TypeOK, Items
<1>2. UNCHANGED <<owner, current, strays>>
  BY DEF Create, PutToken, Bind, Listen, Launch, Close, Forget, Owner
<1>3. strays = {} /\ "serve_forever" \notin failed /\ OthersEnded /\ CurrentFits
  BY DEF InPlace
<1>4. t = current /\ current # None /\ at[t] \notin {"unborn", "ended"}
  BY <1>1, <1>3, OnlyCurrent DEF Create, PutToken, Bind, Listen, Launch, Close, Forget
<1>5. ASSUME others
      PROVE  OthersEnded'
  BY <1>2, <1>3, <1>4, <1>5 DEF OthersEnded
<1>6. ASSUME at[t] \in {"bind", "listen"}
      PROVE  Listening = {}
  BY <1>1, <1>3, <1>4, <1>6, OnlyCurrent DEF Listening, Working
<1>7. CASE Create(t)
  <2>1. /\ at[t] = "create" /\ at'[t] = "put token" /\ others
        /\ attribute' = t /\ UNCHANGED <<queue, bound, failed>>
    BY <1>1, <1>7 DEF Create, Goto, Network
  <2>2. CurrentFits'
    BY <1>2, <1>3, <1>4, <2>1 DEF CurrentFits, Starting, Working, Joins
  <2>3. QED
    BY <1>2, <1>3, <1>5, <2>1, <2>2 DEF InPlace
<1>8. CASE PutToken(t)
  <2>1. at[t] = "put token" /\ attribute = t
    BY <1>3, <1>4, <1>8 DEF PutToken, CurrentFits, Starting
  <2>2. /\ at'[t] = "bind" /\ others
        /\ queue' = [queue EXCEPT ![t] = @ \o <<"go">>]
        /\ UNCHANGED <<attribute, bound, failed>>
    BY <1>1, <1>8, <2>1 DEF PutToken, Goto, Network, Put
  <2>3. NoStop(queue[t]) => NoStop(queue'[t])
    BY <1>1, <2>2, TokenPut
  <2>4. CurrentFits'
    BY <1>2, <1>3, <1>4, <2>1, <2>2, <2>3 DEF CurrentFits, Starting, Working, Joins
  <2>5. QED
    BY <1>2, <1>3, <1>5, <2>2, <2>4 DEF InPlace
<1>9. CASE Bind(t)
  <2>1. /\ at[t] = "bind" /\ at'[t] = "listen" /\ others /\ bound' = bound \cup {t}
        /\ UNCHANGED <<attribute, queue, failed>>
    BY <1>1, <1>6, <1>9 DEF Bind, Goto
  <2>2. CurrentFits'
    BY <1>2, <1>3, <1>4, <2>1 DEF CurrentFits, Starting, Working, Joins
  <2>3. QED
    BY <1>2, <1>3, <1>5, <2>1, <2>2 DEF InPlace
<1>10. CASE Listen(t)
  <2>1. /\ at[t] = "listen" /\ at'[t] = "launch" /\ others
        /\ UNCHANGED <<attribute, queue, bound, failed>>
    BY <1>1, <1>6, <1>10 DEF Listen, Goto, Network
  <2>2. CurrentFits'
    BY <1>2, <1>3, <1>4, <2>1 DEF CurrentFits, Starting, Working, Joins
  <2>3. QED
    BY <1>2, <1>3, <1>5, <2>1, <2>2 DEF InPlace
<1>11. CASE Launch(t)
  <2>1. at[t] = "launch" /\ attribute = t
    BY <1>3, <1>4, <1>11 DEF Launch, CurrentFits, Starting
  <2>2. /\ at'[t] = "waiting" /\ others /\ UNCHANGED <<attribute, queue, bound, failed>>
    BY <1>1, <1>11, <2>1 DEF Launch, Goto, Network
  <2>3. CurrentFits'
    BY <1>2, <1>3, <1>4, <2>1, <2>2 DEF CurrentFits, Starting, Working, Joins
  <2>4. QED
    BY <1>2, <1>3, <1>5, <2>2, <2>3 DEF InPlace
<1>12. CASE Close(t)
  <2>1. /\ at[t] = "close" /\ at'[t] = "forget" /\ others
        /\ UNCHANGED <<attribute, queue, failed>>
    BY <1>1, <1>12 DEF Close, Goto
  <2>2. CurrentFits'
    BY <1>2, <1>3, <1>4, <2>1 DEF CurrentFits, Starting, Working, Joins
  <2>3. QED
    BY <1>2, <1>3, <1>5, <2>1, <2>2 DEF InPlace
<1>13. CASE Forget(t)
  <2>1. /\ at[t] = "forget" /\ at'[t] = "ended" /\ others
        /\ UNCHANGED <<queue, bound, failed>>
    BY <1>1, <1>13 DEF Forget, Goto, Network
  <2>2. CurrentFits'
    BY <1>2, <1>3, <1>4, <2>1 DEF CurrentFits, Starting, Working, Joins
  <2>3. QED
    BY <1>2, <1>3, <1>5, <2>1, <2>2 DEF InPlace
<1>14. QED
  BY <1>7, <1>8, <1>9, <1>10, <1>11, <1>12, <1>13

\* A step of its worker keeps it, too: only a notice makes it leave.
LEMMA WorkerInPlace ==
  ASSUME Types, Orderly, InPlace, "stop" \notin failed, NEW t \in Threads,
         \/ GetToken(t) \/ Accept(t) \/ Peek(t) \/ Finish(t) \/ ServiceFails(t)
  PROVE  InPlace'
<1> DEFINE others == \A s \in Threads \ {t} : at'[s] = at[s]
<1>1. /\ at \in [Threads -> Places] /\ queue \in [Threads -> Seq(Items)]
      /\ None \notin Threads /\ bound \subseteq Threads
  BY Constants DEF Types, TypeOK, Items
<1>2. UNCHANGED <<owner, current, attribute, failed, strays>>
  BY DEF GetToken, Accept, Peek, Finish, ServiceFails, Worker, Owner
<1>3. strays = {} /\ "serve_forever" \notin failed /\ OthersEnded /\ CurrentFits
  BY DEF InPlace
<1>4. at[t] \in Working /\ worksOn[t] = t
  BY DEF GetToken, Accept, Peek, Finish, ServiceFails, Working, Orderly, TokenFits
<1>5. t = current /\ current # None
  BY <1>1, <1>3, <1>4, OnlyCurrent DEF Working
<1>6. attribute = t /\ t \in bound
  BY <1>3, <1>4, <1>5 DEF CurrentFits
<1>7. /\ others
      /\ owner \notin Joins => NoStop(queue'[t])
      /\ \/ at'[t] \in Working /\ UNCHANGED bound
         \/ at'[t] = "close" /\ UNCHANGED bound /\ owner \in Joins
         \/ at'[t] = "ended"
  <2>1. owner \notin Joins => NoStop(queue[t])
    BY <1>3, <1>5 DEF CurrentFits
  <2>2. CASE GetToken(t)
    <3>1. /\ queue[t] # <<>> /\ UNCHANGED bound
          /\ queue' = [queue EXCEPT ![t] = Tail(@) \o <<>>]
          /\ at' = [at EXCEPT ![t] = IF Head(queue[t]) = "go" THEN "accepting" ELSE "close"]
      BY <1>4, <2>2 DEF GetToken, Exchange, Waiting, Goto, Network
    <3>2. queue'[t] = Tail(queue[t]) \o <<>>
      BY <1>1, <3>1
    <3>3. NoStop(queue[t]) => Head(queue[t]) = "go" /\ NoStop(queue'[t])
      BY <1>1, <3>1, <3>2, TokenGot
    <3>4. QED
      BY <1>1, <2>1, <3>1, <3>3 DEF Working
  <2>3. CASE Accept(t)
    <3>1. /\ queue' = [queue EXCEPT ![t] = @ \o <<"go">>]
          /\ at' = [at EXCEPT ![t] = "serving"] /\ UNCHANGED bound
      BY <1>4, <2>3 DEF Accept, Put, Goto
    <3>2. NoStop(queue[t]) => NoStop(queue'[t])
      BY <1>1, <3>1, TokenPut
    <3>3. QED
      BY <1>1, <2>1, <3>1, <3>2 DEF Working
  <2>4. CASE Peek(t)
    <3>1. /\ at[t] = "accepting" /\ queue[t] # <<>> /\ UNCHANGED bound
          /\ IF Head(queue[t]) = "go" THEN UNCHANGED at ELSE at' = [at EXCEPT ![t] = "close"]
      BY <1>4, <2>4 DEF Peek, Exchange, Waiting, Goto, Network
    <3>2. Head(queue[t]) # "go"
      <4>1. NoToken(queue[t]) /\ queue[t] \in Seq(Items)
        BY <1>1, <3>1 DEF Orderly, TokenFits
      <4>2. 1 \in DOMAIN queue[t] /\ Head(queue[t]) = queue[t][1]
        BY <3>1, <4>1
      <4>3. QED
        BY <4>1, <4>2 DEF NoToken
    <3>3. NoStop(queue[t]) => Head(queue[t]) = "go"
      BY <1>1, <3>1, TokenGot
    <3>4. QED
      BY <1>1, <2>1, <3>1, <3>2, <3>3
  <2>5. CASE Finish(t)
    BY <1>1, <2>1, <2>5 DEF Finish, Goto, Network, Working
  <2>6. CASE ServiceFails(t)
    BY <1>1, <2>1, <2>6, Died DEF ServiceFails, Types
  <2>7. QED
    BY <2>2, <2>3, <2>4, <2>5, <2>6
<1>8. OthersEnded'
  BY <1>2, <1>3, <1>5, <1>7 DEF OthersEnded
<1>9. CurrentFits'
  BY <1>2, <1>3, <1>4, <1>5, <1>6, <1>7 DEF CurrentFits, Starting, Working, Joins
<1>10. QED
  BY <1>2, <1>3, <1>8, <1>9 DEF InPlace

\* And so does whoever starts and stops it: a start finds nothing left of the last
\* one, and a stop without a warning leaves nothing.
LEMMA ControlInPlace ==
  ASSUME Types, Orderly, InPlace, "stop" \notin failed',
         StartMTA \/ StopMTA \/ Control \/ Connect \/ Ended
  PROVE  InPlace'
<1>1. /\ at \in [Threads -> Places] /\ queue \in [Threads -> Seq(Items)]
      /\ attribute \in Threads \cup {None} /\ None \notin Threads
      /\ current \in Threads \cup {None} /\ bound \subseteq Threads
  BY Constants DEF Types, TypeOK, Items
<1>a. "stop" \notin failed
  BY DEF StartMTA, StopMTA, Control, Spawn, Probe, ProbeGivesUp, ShutdownServer, Join,
         Connect, Ended, vars
<1>2. /\ strays = {} /\ "serve_forever" \notin failed /\ OthersEnded /\ CurrentFits
      /\ OneStarts
  BY <1>a DEF InPlace, Orderly
<1>3. CASE StartMTA \/ StopMTA \/ Connect \/ Ended
  <2>1. /\ UNCHANGED <<at, queue, attribute, bound, current, failed, strays>>
        /\ owner' \notin Joins \/ UNCHANGED owner
        /\ owner' \in Joins => owner \in Joins
        /\ owner' = owner \/ owner = "idle"
    BY <1>3 DEF StartMTA, StopMTA, Connect, Ended, Owner, Server, Joins, vars
  <2>2. owner' \notin Joins => owner \notin Joins
    BY <2>1 DEF Joins
  <2>3. OthersEnded' /\ CurrentFits'
    BY <1>2, <2>1, <2>2 DEF OthersEnded, CurrentFits
  <2>4. QED
    BY <1>2, <2>1, <2>3 DEF InPlace
<1>4. CASE Spawn
  <2>1. PICK t \in Unborn : Goto(t, "create") /\ current' = t
    BY <1>4 DEF Spawn
  <2>2. /\ t \in Threads /\ at[t] = "unborn" /\ at'[t] = "create"
        /\ \A s \in Threads \ {t} : at'[s] = at[s]
        /\ owner = "spawn" /\ UNCHANGED <<queue, failed, strays>>
    BY <1>1, <1>4, <2>1 DEF Unborn, Goto, Spawn
  <2>3. current = None
    BY <2>2 DEF Types, ThreadKnown
  <2>4. OthersEnded'
    BY <1>1, <1>2, <2>1, <2>2, <2>3 DEF OthersEnded
  <2>5. NoStop(queue'[t])
    <3>1. queue'[t] = <<>>
      BY <2>2 DEF Orderly, TokenFits
    <3>2. NoStop(<<>>)
      BY DEF NoStop
    <3>3. QED
      BY <3>1, <3>2
  <2>6. CurrentFits'
    BY <2>1, <2>2, <2>5 DEF CurrentFits, Starting, Working, Joins
  <2>7. QED
    BY <1>2, <2>2, <2>4, <2>6 DEF InPlace
<1>5. CASE Probe \/ ProbeGivesUp
  <2>1. /\ owner = "probe" /\ owner' = "idle"
        /\ UNCHANGED <<at, queue, attribute, bound, current, strays>>
        /\ failed' = failed \/ failed' = failed \cup {"start_mta"}
    BY <1>5 DEF Probe, ProbeGivesUp, Server
  <2>2. OthersEnded' /\ CurrentFits'
    BY <1>2, <2>1 DEF OthersEnded, CurrentFits, Joins
  <2>3. QED
    BY <1>2, <2>1, <2>2 DEF InPlace
<1>6. CASE ShutdownServer
  <2>1. /\ owner \in Stops /\ owner' \in {"idle"} \cup Joins
        /\ UNCHANGED <<at, attribute, bound, current, strays>>
        /\ failed' = failed \/ failed' = failed \cup {"shutdown_server"}
        /\ owner' \notin Joins => UNCHANGED queue
    BY <1>6 DEF ShutdownServer, Stopping, Server, Stops, Joins
  <2>2. owner \notin Joins
    BY <2>1 DEF Stops, Joins
  <2>3. OthersEnded' /\ CurrentFits'
    BY <1>2, <2>1, <2>2 DEF OthersEnded, CurrentFits
  <2>4. QED
    BY <1>2, <2>1, <2>3 DEF InPlace
<1>7. CASE Join
  <2>1. at[current] = "ended"
    BY <1>7 DEF Join
  <2>2. current' = None /\ UNCHANGED <<at, failed, strays>>
    BY <1>7, <2>1 DEF Join, Starting
  <2>3. OthersEnded' /\ CurrentFits'
    BY <1>1, <1>2, <2>1, <2>2 DEF OthersEnded, CurrentFits
  <2>4. QED
    BY <1>2, <2>2, <2>3 DEF InPlace
<1>8. QED
  BY <1>3, <1>4, <1>5, <1>6, <1>7 DEF Control

\* A warning is never taken back.
LEMMA InPlaceStep == Order /\ InPlace /\ [Next]_vars => InPlace'
<1>1. SUFFICES ASSUME Order, InPlace, [Next]_vars, "stop" \notin failed'
               PROVE  InPlace'
  BY DEF InPlace
<1>2. CASE UNCHANGED vars
  BY <1>1, <1>2 DEF vars, InPlace, OthersEnded, CurrentFits
<1>3. CASE Next
  <2>1. "stop" \notin failed
    BY <1>1, <1>3 DEF Next, Serve, Create, PutToken, Bind, Listen, Launch, Close, Forget,
                GetToken, Accept, Peek, Finish, ServiceFails, Worker,
                StartMTA, StopMTA, Control, Spawn, Probe, ProbeGivesUp, ShutdownServer,
                Join, Connect, Ended, vars
  <2>2. Types /\ Orderly
    BY <1>1, <2>1 DEF Order, InPlace
  <2>3. ASSUME NEW t \in Threads, Serve(t)
        PROVE  InPlace'
    <3>1. CASE \/ Create(t) \/ PutToken(t) \/ Bind(t) \/ Listen(t) \/ Launch(t)
               \/ Close(t) \/ Forget(t)
      BY <1>1, <2>1, <2>2, <3>1, StatementInPlace
    <3>2. CASE GetToken(t) \/ Accept(t) \/ Peek(t) \/ Finish(t) \/ ServiceFails(t)
      BY <1>1, <2>1, <2>2, <3>2, WorkerInPlace
    <3>3. QED
      BY <2>3, <3>1, <3>2 DEF Serve
  <2>4. CASE StartMTA \/ StopMTA \/ Control \/ Connect \/ Ended
    BY <1>1, <2>2, <2>4, ControlInPlace
  <2>5. QED
    BY <1>3, <2>3, <2>4 DEF Next
<1>4. QED
  BY <1>1, <1>2, <1>3

\* InPlace is inductive given the order: before the first warning no two servers are
\* there at once, so each has the port, the attribute and the queue to itself until it
\* is joined.
THEOREM InPlaceInvariant == Spec => [](Order /\ InPlace)
<1>1. Init => InPlace
  BY Constants DEF Init, InPlace, OthersEnded, CurrentFits
<1>2. QED
  BY <1>1, OrderInit, OrderStep, InPlaceStep, PTL DEF Spec

\* Until a stop() warns that the thread is still alive, and however late threads and
\* clients are, no server finds its queue missing, the server that works is the last
\* one, alone and on the configured port, and shutdown_server() reaches it unless it
\* has not created its queue.
THEOREM ServerInPlaceAlways == Spec => []ServerInPlace
<1>1. ASSUME Order, InPlace
      PROVE  ServerInPlace
  <2>1. SUFFICES ASSUME "stop" \notin failed
                 PROVE  /\ "serve_forever" \notin failed
                        /\ \A t \in Threads :
                              at[t] \in Working =>
                                 t = current /\ attribute = t /\ Listening = {t}
                        /\ Stopping => attribute = current \/ at[current] = "create"
    BY DEF ServerInPlace
  <2>2. /\ "serve_forever" \notin failed /\ OthersEnded /\ CurrentFits /\ OneStarts
        /\ ThreadKnown
        /\ bound \subseteq Threads /\ at \in [Threads -> Places]
        /\ current \in Threads \cup {None} /\ None \notin Threads
    BY <1>1, <2>1, Constants DEF InPlace, Order, Orderly, Types, TypeOK
  <2>3. ASSUME NEW t \in Threads, at[t] \in Working
        PROVE  t = current /\ attribute = t /\ Listening = {t}
    <3>1. t = current /\ current # None
      BY <2>2, <2>3, OnlyCurrent DEF Working
    <3>2. attribute = t /\ t \in bound
      BY <2>2, <2>3, <3>1 DEF CurrentFits
    <3>3. t \in Listening
      BY <2>3, <3>2 DEF Listening
    <3>4. Listening = {t}
      BY <2>2, <3>1, <3>3, OnlyCurrent
    <3>5. QED
      BY <3>1, <3>2, <3>4
  <2>4. ASSUME Stopping
        PROVE  attribute = current \/ at[current] = "create"
    <3>1. current \in Threads /\ owner \notin Joins /\ at[current] # "unborn"
      BY <2>2, <2>4 DEF Stopping, OneStarts, ThreadKnown, Joins
    <3>2. at[current] \in Places \ {"unborn", "close", "forget"}
      BY <2>2, <3>1 DEF CurrentFits
    <3>3. QED
      BY <2>2, <3>1, <3>2 DEF CurrentFits, Places, Starting
  <2>5. QED
    BY <2>2, <2>3, <2>4
<1>2. QED
  BY <1>1, InPlaceInvariant, PTL

=============================================================================
