--------------------------- MODULE WorkerPoolProofs ---------------------------
(***************************************************************************)
(* Proofs about WorkerPool for any number of workers, clients and calls of *)
(* shutdown_server(): its variables keep their types, and there is always  *)
(* exactly one token.  Exclusive says the latter by what each place - a    *)
(* worker, the queue, an outbox - knows of the others.  The second part    *)
(* counts the notices of shutdown_server(): each stays until it ends a     *)
(* worker.                                                                 *)
(***************************************************************************)
EXTENDS WorkerPool, FiniteSetTheorems, FunctionTheorems, TLAPS

Items == {"go", "stop"}

Carries(s) == \E i \in DOMAIN s : s[i] = "go"

Single(s) == \A i, j \in DOMAIN s : s[i] = "go" /\ s[j] = "go" => i = j

\* What is put at the end of a sequence.
LEMMA Appended ==
  ASSUME NEW s \in Seq(Items), NEW x \in Items
  PROVE  /\ Append(s, x) \in Seq(Items)
         /\ Carries(Append(s, x)) <=> Carries(s) \/ x = "go"
         /\ Single(s) /\ (x = "go" => ~Carries(s)) => Single(Append(s, x))
<1>1. /\ Append(s, x) \in Seq(Items)
      /\ DOMAIN s = 1..Len(s) /\ Len(s) \in Nat
      /\ DOMAIN Append(s, x) = 1..(Len(s) + 1)
      /\ \A i \in 1..Len(s) : Append(s, x)[i] = s[i]
      /\ Append(s, x)[Len(s) + 1] = x
  OBVIOUS
<1>2. 1..(Len(s) + 1) = 1..Len(s) \cup {Len(s) + 1}
  BY <1>1
<1>3. Carries(Append(s, x)) <=> Carries(s) \/ x = "go"
  BY <1>1, <1>2 DEF Carries
<1>4. Single(s) /\ (x = "go" => ~Carries(s)) => Single(Append(s, x))
  BY <1>1, <1>2 DEF Carries, Single
<1>5. QED
  BY <1>1, <1>3, <1>4

\* What is taken from the front of a sequence.
LEMMA Removed ==
  ASSUME NEW s \in Seq(Items), s # <<>>
  PROVE  /\ Head(s) \in Items
         /\ Tail(s) \in Seq(Items)
         /\ Single(s) /\ Head(s) = "go" => Carries(s) /\ ~Carries(Tail(s))
         /\ Head(s) # "go" => (Carries(Tail(s)) <=> Carries(s))
         /\ Single(s) => Single(Tail(s))
<1>1. /\ Head(s) \in Items /\ Tail(s) \in Seq(Items)
      /\ DOMAIN s = 1..Len(s) /\ Len(s) \in Nat \ {0}
      /\ DOMAIN Tail(s) = 1..(Len(s) - 1)
      /\ \A i \in 1..(Len(s) - 1) : Tail(s)[i] = s[i + 1]
      /\ Head(s) = s[1]
  OBVIOUS
<1>2. Single(s) /\ Head(s) = "go" => Carries(s) /\ ~Carries(Tail(s))
  BY <1>1 DEF Carries, Single
<1>3. ASSUME Head(s) # "go"
      PROVE  Carries(Tail(s)) <=> Carries(s)
  <2>1. ASSUME NEW i \in DOMAIN s, s[i] = "go"
        PROVE  i - 1 \in DOMAIN Tail(s) /\ Tail(s)[i - 1] = "go"
    BY <1>1, <1>3, <2>1
  <2>2. QED
    BY <1>1, <2>1, SMTT(30) DEF Carries
<1>4. Single(s) => Single(Tail(s))
  BY <1>1 DEF Single
<1>5. QED
  BY <1>1, <1>2, <1>3, <1>4

\* The sequences that processes put at once.
LEMMA PutTogether ==
  ASSUME NEW s \in Seq(Items)
  PROVE  /\ s \o <<"go">> = Append(s, "go")
         /\ s \o <<"stop">> = Append(s, "stop")
         /\ s \o <<"stop", "go">> = Append(Append(s, "stop"), "go")
  BY DEF Items

\* An empty outbox carries nothing.
LEMMA EmptyCarriesNothing == ~Carries(<<>>) /\ Single(<<>>) /\ <<>> \in Seq(Items)
  BY DEF Carries, Single

-----------------------------------------------------------------------------

\* put() keeps the outboxes typed and changes that of the caller only.
LEMMA PutTypes ==
  ASSUME NEW p \in Processes, NEW items \in Seq(Items), Put(p, items),
         outbox \in [Processes -> Seq(Items)]
  PROVE  /\ outbox' \in [Processes -> Seq(Items)]
         /\ outbox'[p] = outbox[p] \o items
         /\ \A q \in Processes \ {p} : outbox'[q] = outbox[q]
  BY DEF Put

\* The three sequences that are put are sequences of items.
LEMMA PutItems == <<"go">> \in Seq(Items) /\ <<"stop">> \in Seq(Items) /\ <<"stop", "go">> \in Seq(Items)
  BY DEF Items

\* get() keeps the queue typed.
LEMMA GetTypes ==
  ASSUME queue \in Seq(Items), NEW item, Get(item)
  PROVE  queue' \in Seq(Items) /\ item \in Items
  BY DEF Get

\* Going to a phase keeps pc typed and moves no other worker.
LEMMA GotoTypes ==
  ASSUME NEW w \in Workers, NEW phase \in Phases, Goto(w, phase),
         pc \in [Workers -> Phases]
  PROVE  /\ pc' \in [Workers -> Phases]
         /\ pc'[w] = phase
         /\ \A v \in Workers \ {w} : pc'[v] = pc[v]
  BY DEF Goto

\* TypeOK always holds; in particular a worker has a connection exactly while it
\* serves one.
THEOREM TypeCorrect == Spec => []TypeOK
<1> USE DEF Processes
<1>1. Init => TypeOK
  <2> SUFFICES ASSUME Init PROVE TypeOK
    OBVIOUS
  <2>1. outbox \in [Processes -> Seq(Items)]
    BY PutItems, EmptyCarriesNothing DEF Init
  <2>2. pc \in [Workers -> Phases] /\ queue \in Seq(Items) /\ backlog \in Seq(Clients)
    BY DEF Init, Phases
  <2>3. shutdowns \in 0..MaxShutdowns
    BY PoolAssumption DEF Init
  <2>4. QED
    BY <2>1, <2>2, <2>3 DEF Init, TypeOK, Items
<1>2. TypeOK /\ [Next]_vars => TypeOK'
  <2> SUFFICES ASSUME TypeOK, [Next]_vars PROVE TypeOK'
    OBVIOUS
  <2> USE DEF Items
  <2>1. ASSUME NEW w \in Workers, GetToken(w) PROVE TypeOK'
    <3>1. PICK item \in {"go", "stop"}, phase \in {"accepting", "ended"} :
            Get(item) /\ Goto(w, phase)
      BY <2>1 DEF GetToken
    <3>2. queue' \in Seq(Items)
      BY <3>1, GetTypes DEF TypeOK
    <3>3. pc' \in [Workers -> Phases] /\ pc'[w] # "serving" /\ \A v \in Workers \ {w} : pc'[v] = pc[v]
      BY <3>1, GotoTypes DEF TypeOK, Phases
    <3>4. QED
      BY <2>1, <3>2, <3>3 DEF TypeOK, GetToken, Listening, ServerRuns
  <2>2. ASSUME NEW w \in Workers, Accept(w) PROVE TypeOK'
    <3>1. outbox' \in [Processes -> Seq(Items)]
      BY <2>2, PutTypes, PutItems DEF Accept, Release, PutToken, TypeOK
    <3>2. pc' \in [Workers -> Phases] /\ pc'[w] = "serving" /\ \A v \in Workers \ {w} : pc'[v] = pc[v]
      BY <2>2, GotoTypes DEF TypeOK, Phases, Accept
    <3>3. Head(backlog) \in Clients /\ backlog' \in Seq(Clients)
      BY <2>2 DEF Accept, TypeOK
    <3>4. QED
      BY <2>2, <3>1, <3>2, <3>3, PoolAssumption DEF TypeOK, Accept, ServerRuns
  <2>3. ASSUME NEW w \in Workers, AcceptFails(w) \/ Interrupt(w) PROVE TypeOK'
    <3>1. outbox' \in [Processes -> Seq(Items)]
      BY <2>3, PutTypes, PutItems DEF AcceptFails, Interrupt, PutToken, TypeOK
    <3>2. pc' \in [Workers -> Phases] /\ pc'[w] = "ended" /\ \A v \in Workers \ {w} : pc'[v] = pc[v]
      BY <2>3, GotoTypes DEF TypeOK, Phases, AcceptFails, Interrupt
    <3>3. QED
      BY <2>3, <3>1, <3>2 DEF TypeOK, AcceptFails, Interrupt, ServerRuns, Listening
  <2>4. ASSUME NEW w \in Workers, AcceptTimesOut(w) PROVE TypeOK'
    <3>1. pc' \in [Workers -> Phases] /\ pc'[w] = "timed out" /\ \A v \in Workers \ {w} : pc'[v] = pc[v]
      BY <2>4, GotoTypes DEF TypeOK, Phases, AcceptTimesOut
    <3>2. QED
      BY <2>4, <3>1 DEF TypeOK, AcceptTimesOut, ServerRuns, Listening
  <2>5. ASSUME NEW w \in Workers, Peek(w) PROVE TypeOK'
    <3>1. PICK phase \in {"accepting", "ended"} : Goto(w, phase)
      BY <2>5 DEF Peek, ItemSeen
    <3>2. pc' \in [Workers -> Phases] /\ pc'[w] # "serving" /\ \A v \in Workers \ {w} : pc'[v] = pc[v]
      BY <3>1, GotoTypes DEF TypeOK, Phases
    <3>3. queue' \in Seq(Items) /\ outbox' \in [Processes -> Seq(Items)]
      BY <2>5, GetTypes, PutTypes, PutItems DEF Peek, ItemSeen, TypeOK
    <3>4. QED
      BY <2>5, <3>2, <3>3 DEF TypeOK, Peek, ServerRuns, Listening
  <2>6. ASSUME NEW w \in Workers, Finish(w) \/ ServiceFails(w) PROVE TypeOK'
    <3>1. PICK phase \in {"waiting", "ended"} : Goto(w, phase)
      BY <2>6 DEF Finish, ServiceFails
    <3>2. pc' \in [Workers -> Phases] /\ pc'[w] # "serving" /\ \A v \in Workers \ {w} : pc'[v] = pc[v]
      BY <3>1, GotoTypes DEF TypeOK, Phases
    <3>3. QED
      BY <2>6, <3>2 DEF TypeOK, Finish, ServiceFails, Close, ServerRuns
  <2>7. ASSUME NEW p \in Processes, Send(p) PROVE TypeOK'
    <3>1. Head(outbox[p]) \in Items /\ Tail(outbox[p]) \in Seq(Items)
      BY <2>7, Removed DEF Send, TypeOK
    <3>2. QED
      BY <2>7, <3>1 DEF TypeOK, Send, ServerRuns, Listening
  <2>8. ASSUME NEW c \in Clients, Connect(c) PROVE TypeOK'
    BY <2>8 DEF TypeOK, Connect, Queueing, ServerRuns
  <2>9. CASE ShutdownServer
    <3>1. outbox' \in [Processes -> Seq(Items)]
      BY <2>9, PutTypes, PutItems DEF ShutdownServer, TypeOK
    <3>2. shutdowns' \in 0..MaxShutdowns
      BY <2>9, PoolAssumption DEF ShutdownServer, TypeOK
    <3>3. QED
      BY <2>9, <3>1, <3>2 DEF TypeOK, ShutdownServer, Queueing
  <2>10. CASE Return
    BY <2>10 DEF TypeOK, Return, Queueing
  <2>11. CASE UNCHANGED vars
    BY <2>11 DEF TypeOK, vars
  <2>12. QED
    BY <2>1, <2>2, <2>3, <2>4, <2>5, <2>6, <2>7, <2>8, <2>9, <2>10, <2>11 DEF Next, Step
<1>3. QED
  BY <1>1, <1>2, PTL DEF Spec

-----------------------------------------------------------------------------

Holds(w) == pc[w] \in {"accepting", "timed out"}

(***************************************************************************)
(* The token is somewhere; a place that has it has it once, and no other   *)
(* place has it.                                                           *)
(***************************************************************************)
Exclusive ==
    /\ Single(queue) /\ \A p \in Processes : Single(outbox[p])
    /\ \A v, w \in Workers : Holds(v) /\ Holds(w) => v = w
    /\ \A p, q \in Processes : Carries(outbox[p]) /\ Carries(outbox[q]) => p = q
    /\ \A w \in Workers : Holds(w) =>
          ~Carries(queue) /\ \A p \in Processes : ~Carries(outbox[p])
    /\ Carries(queue) => \A p \in Processes : ~Carries(outbox[p])
    /\ \/ Carries(queue)
       \/ \E w \in Workers : Holds(w)
       \/ \E p \in Processes : Carries(outbox[p])

\* A step that leaves the token where it is.
LEMMA TokenStays ==
  ASSUME Exclusive,
         Single(queue'), \A p \in Processes : Single(outbox'[p]),
         Carries(queue') <=> Carries(queue),
         \A w \in Workers : Holds(w)' <=> Holds(w),
         \A p \in Processes : Carries(outbox'[p]) <=> Carries(outbox[p])
  PROVE  Exclusive'
  BY DEF Exclusive

\* The worker that holds the token puts it into its outbox.
LEMMA TokenPutBack ==
  ASSUME Exclusive, NEW w \in Workers, Holds(w), ~Holds(w)',
         \A v \in Workers \ {w} : Holds(v)' <=> Holds(v),
         Carries(outbox'[w]), Single(outbox'[w]),
         \A p \in Processes \ {w} : outbox'[p] = outbox[p],
         Single(queue'), Carries(queue') <=> Carries(queue)
  PROVE  Exclusive'
<1>1. w \in Processes
  BY DEF Processes
<1>2. /\ ~Carries(queue') /\ \A p \in Processes \ {w} : ~Carries(outbox'[p])
      /\ \A v \in Workers : ~Holds(v)'
  BY DEF Exclusive
<1>3. \A p \in Processes : Single(outbox'[p])
  BY DEF Exclusive
<1>4. QED
  BY <1>1, <1>2, <1>3 DEF Exclusive

\* A worker takes the token out of the queue.
LEMMA TokenTaken ==
  ASSUME Exclusive, NEW w \in Workers, Holds(w)',
         \A v \in Workers \ {w} : Holds(v)' <=> Holds(v),
         Carries(queue), ~Carries(queue'), Single(queue'),
         UNCHANGED outbox
  PROVE  Exclusive'
<1>1. /\ \A v \in Workers \ {w} : ~Holds(v)'
      /\ \A p \in Processes : ~Carries(outbox'[p]) /\ Single(outbox'[p])
  BY DEF Exclusive
<1>2. QED
  BY <1>1 DEF Exclusive

\* The thread of a process moves the token from its outbox to the queue.
LEMMA TokenSent ==
  ASSUME Exclusive, NEW p \in Processes, Carries(outbox[p]),
         ~Carries(outbox'[p]), Single(outbox'[p]),
         \A q \in Processes \ {p} : outbox'[q] = outbox[q],
         Carries(queue'), Single(queue'),
         UNCHANGED pc
  PROVE  Exclusive'
<1>1. /\ \A w \in Workers : ~Holds(w)'
      /\ \A q \in Processes : ~Carries(outbox'[q]) /\ Single(outbox'[q])
  BY DEF Exclusive, Holds
<1>2. QED
  BY <1>1 DEF Exclusive

\* Every step of a worker or a process is one of these four, so Exclusive
\* always holds.
THEOREM TokenExclusive == Spec => []Exclusive
<1>1. Init => Exclusive
  <2> SUFFICES ASSUME Init PROVE Exclusive
    OBVIOUS
  <2>1. Carries(<<"go">>) /\ Single(<<"go">>)
    BY DEF Carries, Single
  <2>2. Main \in Processes /\ outbox[Main] = <<"go">> /\ queue = <<>>
    BY DEF Init, Processes
  <2>3. \A p \in Processes \ {Main} : outbox[p] = <<>>
    BY DEF Init
  <2>4. \A w \in Workers : ~Holds(w)
    BY DEF Init, Holds
  <2>5. \A p \in Processes : Single(outbox[p]) /\ (Carries(outbox[p]) => p = Main)
    BY <2>1, <2>2, <2>3, EmptyCarriesNothing
  <2>6. QED
    BY <2>1, <2>2, <2>4, <2>5, EmptyCarriesNothing DEF Exclusive
<1>2. TypeOK /\ Exclusive /\ [Next]_vars => Exclusive'
  <2> SUFFICES ASSUME TypeOK, Exclusive, [Next]_vars PROVE Exclusive'
    OBVIOUS
  <2>types. /\ pc \in [Workers -> Phases] /\ queue \in Seq(Items)
            /\ outbox \in [Processes -> Seq(Items)]
    BY DEF TypeOK, Items
  <2>procs. Workers \subseteq Processes /\ Main \in Processes
    BY DEF Processes
  <2>single. Single(queue) /\ \A p \in Processes : Single(outbox[p])
    BY DEF Exclusive
  \* Putting the token, for a worker that holds it.
  <2>put. ASSUME NEW w \in Workers, Holds(w), PutToken(w)
          PROVE  /\ Carries(outbox'[w]) /\ Single(outbox'[w])
                 /\ \A p \in Processes \ {w} : outbox'[p] = outbox[p]
    <3>1. outbox[w] \in Seq(Items) /\ ~Carries(outbox[w]) /\ Single(outbox[w])
      BY <2>put, <2>types, <2>procs, <2>single DEF Exclusive
    <3>2. outbox'[w] = Append(outbox[w], "go")
      BY <2>put, <2>types, <2>procs, <3>1, PutTypes, PutItems, PutTogether DEF PutToken
    <3>3. \A p \in Processes \ {w} : outbox'[p] = outbox[p]
      BY <2>put, <2>types, <2>procs, PutTypes, PutItems DEF PutToken
    <3>4. QED
      BY <3>1, <3>2, <3>3, Appended DEF Items
  <2>1. ASSUME NEW w \in Workers, GetToken(w) PROVE Exclusive'
    <3>1. /\ ~Holds(w) /\ queue # <<>> /\ queue' = Tail(queue) /\ UNCHANGED outbox
      BY <2>1 DEF GetToken, Get, Holds
    <3>2. CASE Get("go") /\ Goto(w, "accepting")
      <4>1. Holds(w)' /\ \A v \in Workers \ {w} : Holds(v)' <=> Holds(v)
        BY <2>types, <3>2, GotoTypes DEF Holds, Phases
      <4>2. Carries(queue) /\ ~Carries(queue') /\ Single(queue')
        BY <2>types, <2>single, <3>1, <3>2, Removed DEF Get
      <4>3. QED
        BY <3>1, <4>1, <4>2, TokenTaken
    <3>3. CASE Get("stop") /\ Goto(w, "ended")
      <4>1. \A v \in Workers : Holds(v)' <=> Holds(v)
        BY <2>types, <3>1, <3>3, GotoTypes DEF Holds, Phases
      <4>2. (Carries(queue') <=> Carries(queue)) /\ Single(queue')
        BY <2>types, <2>single, <3>1, <3>3, Removed DEF Get
      <4>3. QED
        BY <2>single, <3>1, <4>1, <4>2, TokenStays
    <3>4. QED
      BY <2>1, <3>2, <3>3 DEF GetToken
  <2>2. ASSUME NEW w \in Workers, Accept(w) \/ AcceptFails(w) PROVE Exclusive'
    <3>1. /\ Holds(w) /\ PutToken(w) /\ UNCHANGED queue
      BY <2>2 DEF Accept, AcceptFails, Release, Holds
    <3>2. PICK phase \in {"serving", "ended"} : Goto(w, phase)
      BY <2>2 DEF Accept, AcceptFails
    <3>3. ~Holds(w)' /\ \A v \in Workers \ {w} : Holds(v)' <=> Holds(v)
      BY <2>types, <3>2, GotoTypes DEF Holds, Phases
    <3>4. QED
      BY <2>put, <2>single, <3>1, <3>3, TokenPutBack
  <2>3. ASSUME NEW w \in Workers, AcceptTimesOut(w) PROVE Exclusive'
    <3>1. \A v \in Workers : Holds(v)' <=> Holds(v)
      BY <2>3, <2>types, GotoTypes DEF AcceptTimesOut, Holds, Phases
    <3>2. QED
      BY <2>3, <2>single, <3>1, TokenStays DEF AcceptTimesOut
  <2>4. ASSUME NEW w \in Workers, Peek(w) PROVE Exclusive'
    <3>1. Holds(w) /\ w \in Processes
      BY <2>4, <2>procs DEF Peek, Holds
    <3>2. ~Carries(queue) /\ outbox[w] \in Seq(Items) /\ ~Carries(outbox[w]) /\ Single(outbox[w])
      BY <2>types, <3>1 DEF Exclusive
    <3>3. CASE Goto(w, "accepting") /\ UNCHANGED <<queue, outbox>>
      <4>1. \A v \in Workers : Holds(v)' <=> Holds(v)
        BY <2>types, <3>1, <3>3, GotoTypes DEF Holds, Phases
      <4>2. QED
        BY <2>single, <3>3, <4>1, TokenStays
    <3>4. CASE Get("go")
      BY <2>types, <2>single, <3>2, <3>4, Removed DEF Get
    <3>5. CASE Get("stop") /\ ItemSeen(w, "stop")
      <4>1. Put(w, <<"stop", "go">>) /\ Goto(w, "ended")
        BY <3>5 DEF ItemSeen
      <4>2. ~Holds(w)' /\ \A v \in Workers \ {w} : Holds(v)' <=> Holds(v)
        BY <2>types, <4>1, GotoTypes DEF Holds, Phases
      <4>3. (Carries(queue') <=> Carries(queue)) /\ Single(queue')
        BY <2>types, <2>single, <3>5, Removed DEF Get
      <4>4. /\ outbox'[w] = Append(Append(outbox[w], "stop"), "go")
            /\ \A p \in Processes \ {w} : outbox'[p] = outbox[p]
        BY <2>types, <3>1, <3>2, <4>1, PutTypes, PutItems, PutTogether
      <4>5. /\ Append(outbox[w], "stop") \in Seq(Items)
            /\ ~Carries(Append(outbox[w], "stop")) /\ Single(Append(outbox[w], "stop"))
        BY <3>2, Appended DEF Items
      <4>6. Carries(outbox'[w]) /\ Single(outbox'[w])
        <5> DEFINE t == Append(outbox[w], "stop")
        <5>1. t \in Seq(Items) /\ ~Carries(t) /\ Single(t) /\ outbox'[w] = Append(t, "go")
          BY <4>4, <4>5
        <5> HIDE DEF t
        <5>2. QED
          BY <5>1, Appended DEF Items
      <4>7. QED
        BY <3>1, <4>2, <4>3, <4>4, <4>6, TokenPutBack
    <3>6. QED
      BY <2>4, <3>3, <3>4, <3>5 DEF Peek
  <2>5. ASSUME NEW w \in Workers, Finish(w) \/ ServiceFails(w) PROVE Exclusive'
    <3>1. PICK phase \in {"waiting", "ended"} : Goto(w, phase)
      BY <2>5 DEF Finish, ServiceFails
    <3>2. ~Holds(w) /\ UNCHANGED <<queue, outbox>>
      BY <2>5 DEF Finish, ServiceFails, Holds
    <3>3. \A v \in Workers : Holds(v)' <=> Holds(v)
      BY <2>types, <3>1, <3>2, GotoTypes DEF Holds, Phases
    <3>4. QED
      BY <2>single, <3>2, <3>3, TokenStays
  <2>6. ASSUME NEW w \in Workers, Interrupt(w) PROVE Exclusive'
    <3>1. ~Holds(w)' /\ \A v \in Workers \ {w} : Holds(v)' <=> Holds(v)
      BY <2>types, <2>6, GotoTypes DEF Holds, Phases, Interrupt
    <3>2. CASE pc[w] = "waiting" /\ UNCHANGED outbox
      BY <2>6, <2>single, <3>1, <3>2, TokenStays DEF Interrupt, Holds
    <3>3. CASE pc[w] = "accepting" /\ PutToken(w)
      <4>1. Holds(w) /\ UNCHANGED queue
        BY <2>6, <3>3 DEF Interrupt, Holds
      <4>2. QED
        BY <2>put, <2>single, <3>1, <3>3, <4>1, TokenPutBack
    <3>4. QED
      BY <2>6, <3>2, <3>3 DEF Interrupt
  <2>7. ASSUME NEW p \in Processes, Send(p) PROVE Exclusive'
    <3> DEFINE item == Head(outbox[p])
    <3>1. /\ outbox[p] \in Seq(Items) /\ outbox[p] # <<>> /\ item \in Items
          /\ outbox'[p] = Tail(outbox[p]) /\ queue' = Append(queue, item)
          /\ \A q \in Processes \ {p} : outbox'[q] = outbox[q]
          /\ UNCHANGED pc
      BY <2>7, <2>types, Removed DEF Send
    <3>2. CASE item = "go"
      <4>1. Carries(outbox[p]) /\ ~Carries(outbox'[p]) /\ Single(outbox'[p])
        BY <2>single, <3>1, <3>2, Removed
      <4>2. ~Carries(queue)
        BY <4>1 DEF Exclusive
      <4>3. Carries(queue') /\ Single(queue')
        BY <2>types, <2>single, <3>1, <3>2, <4>2, Appended
      <4>4. QED
        BY <3>1, <4>1, <4>3, TokenSent
    <3>3. CASE item # "go"
      <4>1. (Carries(outbox'[p]) <=> Carries(outbox[p])) /\ Single(outbox'[p])
        BY <2>single, <3>1, <3>3, Removed
      <4>2. (Carries(queue') <=> Carries(queue)) /\ Single(queue')
        BY <2>types, <2>single, <3>1, <3>3, Appended
      <4>3. \A w \in Workers : Holds(w)' <=> Holds(w)
        BY <3>1 DEF Holds
      <4>4. QED
        BY <2>single, <3>1, <4>1, <4>2, <4>3, TokenStays
    <3>4. QED
      BY <3>2, <3>3
  <2>8. CASE ShutdownServer
    <3>1. outbox[Main] \in Seq(Items) /\ Single(outbox[Main])
      BY <2>types, <2>procs, <2>single
    <3>2. /\ outbox'[Main] = Append(outbox[Main], "stop")
          /\ \A p \in Processes \ {Main} : outbox'[p] = outbox[p]
      BY <2>8, <2>types, <2>procs, <3>1, PutTypes, PutItems, PutTogether DEF ShutdownServer
    <3>3. (Carries(outbox'[Main]) <=> Carries(outbox[Main])) /\ Single(outbox'[Main])
      BY <3>1, <3>2, Appended DEF Items
    <3>4. UNCHANGED queue /\ \A w \in Workers : Holds(w)' <=> Holds(w)
      BY <2>8 DEF ShutdownServer, Queueing, Holds
    <3>5. QED
      BY <2>single, <3>2, <3>3, <3>4, TokenStays
  <2>9. ASSUME UNCHANGED <<pc, queue, outbox>> PROVE Exclusive'
    BY <2>9, <2>single, TokenStays DEF Holds
  <2>10. QED
    BY <2>1, <2>2, <2>3, <2>4, <2>5, <2>6, <2>7, <2>8, <2>9
       DEF Next, Step, Connect, Return, Queueing, vars
<1>3. QED
  BY <1>1, <1>2, TypeCorrect, PTL DEF Spec

\* OneToken always holds: whatever fails, is interrupted or shut down, the token is
\* neither lost nor doubled, so at most one worker is in accept().
THEOREM OneTokenAlways == Spec => []OneToken
<1>1. TypeOK /\ Exclusive => OneToken
  <2> SUFFICES ASSUME TypeOK, Exclusive
               PROVE  \E place \in TokenPlaces : TokenPlaces = {place}
    BY DEF OneToken
  <2>1. ASSUME NEW place \in TokenPlaces
        PROVE  \/ \E w \in Workers : Holds(w) /\ place = <<w, 0>>
               \/ \E i \in DOMAIN queue : queue[i] = "go" /\ place = <<None, i>>
               \/ \E p \in Processes : \E i \in DOMAIN outbox[p] :
                    outbox[p][i] = "go" /\ place = <<p, i>>
    BY DEF TokenPlaces, Places, Holds
  <2>2. CASE Carries(queue)
    <3>1. PICK i \in DOMAIN queue : queue[i] = "go"
      BY <2>2 DEF Carries
    <3>2. <<None, i>> \in TokenPlaces
      BY <3>1 DEF TokenPlaces, Places
    <3>3. ASSUME NEW place \in TokenPlaces PROVE place = <<None, i>>
      <4>1. /\ \A w \in Workers : ~Holds(w)
            /\ \A p \in Processes : ~Carries(outbox[p])
            /\ \A j \in DOMAIN queue : queue[j] = "go" => j = i
        BY <2>2, <3>1 DEF Exclusive, Single
      <4>2. QED
        BY <2>1, <4>1 DEF Carries
    <3>4. QED
      BY <3>2, <3>3
  <2>3. ASSUME NEW w \in Workers, Holds(w)
        PROVE  \E place \in TokenPlaces : TokenPlaces = {place}
    <3>1. <<w, 0>> \in TokenPlaces
      BY <2>3 DEF TokenPlaces, Holds
    <3>2. ASSUME NEW place \in TokenPlaces PROVE place = <<w, 0>>
      <4>1. /\ \A v \in Workers : Holds(v) => v = w
            /\ \A p \in Processes : ~Carries(outbox[p])
            /\ ~Carries(queue)
        BY <2>3 DEF Exclusive
      <4>2. QED
        BY <2>1, <4>1 DEF Carries
    <3>3. QED
      BY <3>1, <3>2
  <2>4. ASSUME NEW p \in Processes, Carries(outbox[p])
        PROVE  \E place \in TokenPlaces : TokenPlaces = {place}
    <3>1. PICK i \in DOMAIN outbox[p] : outbox[p][i] = "go"
      BY <2>4 DEF Carries
    <3> DEFINE Own(q) == {<<q, j>> : j \in {k \in DOMAIN outbox[q] : outbox[q][k] = "go"}}
    <3>2. <<p, i>> \in TokenPlaces
      <4>1. <<p, i>> \in Own(p)
        BY <3>1
      <4>2. Own(p) \subseteq UNION {Own(q) : q \in Processes}
        OBVIOUS
      <4>3. QED
        BY <4>1, <4>2 DEF TokenPlaces, Places
    <3>3. ASSUME NEW place \in TokenPlaces PROVE place = <<p, i>>
      <4>1. /\ \A w \in Workers : ~Holds(w)
            /\ ~Carries(queue)
            /\ \A q \in Processes : Carries(outbox[q]) => q = p
            /\ \A j \in DOMAIN outbox[p] : outbox[p][j] = "go" => j = i
        BY <2>4, <3>1 DEF Exclusive, Single
      <4>2. QED
        BY <2>1, <4>1 DEF Carries
    <3>4. QED
      BY <3>2, <3>3
  <2>5. QED
    BY <2>2, <2>3, <2>4 DEF Exclusive
<1>2. QED
  BY <1>1, TypeCorrect, TokenExclusive, PTL

-----------------------------------------------------------------------------
(***************************************************************************)
(* The notices: the queue and the outboxes are one function here, and a    *)
(* step adds an item to one of its sequences or takes one away.            *)
(***************************************************************************)

Queues == Processes \cup {None}

Contents == [q \in Queues |-> IF q = None THEN queue ELSE outbox[q]]

\* Where the notices are, of which WorkerPool has the same set as Places("stop").
Notice(c, q, i) == q \in Queues /\ i \in DOMAIN c[q] /\ c[q][i] = "stop"

Notices(c) == {place \in Queues \X Nat : Notice(c, place[1], place[2])}

\* What an item adds to their number.
Weight(item) == IF item = "stop" THEN 1 ELSE 0

\* A pair of Notices.
LEMMA NoticePair ==
  ASSUME NEW c \in [Queues -> Seq(Items)], NEW q, NEW i
  PROVE  <<q, i>> \in Notices(c) <=> Notice(c, q, i)
<1>1. ASSUME Notice(c, q, i) PROVE i \in Nat
  <2>1. q \in Queues /\ i \in DOMAIN c[q]
    BY <1>1 DEF Notice
  <2>2. c[q] \in Seq(Items)
    BY <2>1
  <2>3. DOMAIN c[q] = 1..Len(c[q]) /\ Len(c[q]) \in Nat
    BY <2>2
  <2> QED BY <2>1, <2>3
<1>2. Notice(c, q, i) => q \in Queues
  BY DEF Notice
<1> QED BY <1>1, <1>2 DEF Notices

\* An item at the end of one sequence.
LEMMA NoticeAdded ==
  ASSUME NEW c \in [Queues -> Seq(Items)], NEW q \in Queues, NEW x \in Items,
         IsFiniteSet(Notices(c)),
         NEW d, d = [c EXCEPT ![q] = Append(c[q], x)]
  PROVE  /\ d \in [Queues -> Seq(Items)]
         /\ IsFiniteSet(Notices(d))
         /\ Cardinality(Notices(d)) =
               Cardinality(Notices(c)) + Weight(x)
<1> DEFINE s == c[q]
           place == <<q, Len(s) + 1>>
<1>1. /\ s \in Seq(Items) /\ Len(s) \in Nat
      /\ DOMAIN s = 1..Len(s)
  OBVIOUS
<1>2. /\ Append(s, x) \in Seq(Items)
      /\ DOMAIN Append(s, x) = 1..(Len(s) + 1)
      /\ \A i \in 1..Len(s) : Append(s, x)[i] = s[i]
      /\ Append(s, x)[Len(s) + 1] = x
  BY <1>1
<1>3. /\ d \in [Queues -> Seq(Items)] /\ d[q] = Append(s, x)
      /\ \A r \in Queues \ {q} : d[r] = c[r]
  BY <1>2
<1> HIDE DEF s
<1>4. \A r, i : Notice(d, r, i) <=> Notice(c, r, i) \/ (<<r, i>> = place /\ x = "stop")
  <2>1. ASSUME NEW r, r # q, NEW i
        PROVE  Notice(d, r, i) <=> Notice(c, r, i)
    BY <1>3, <2>1 DEF Notice
  <2>2. ASSUME NEW i
        PROVE  Notice(d, q, i) <=> Notice(c, q, i) \/ (i = Len(s) + 1 /\ x = "stop")
    <3>1. Notice(d, q, i) <=> i \in 1..(Len(s) + 1) /\ Append(s, x)[i] = "stop"
      BY <1>2, <1>3 DEF Notice
    <3>2. Notice(c, q, i) <=> i \in 1..Len(s) /\ s[i] = "stop"
      BY <1>1 DEF Notice, s
    <3>3. i \in 1..(Len(s) + 1) <=> i \in 1..Len(s) \/ i = Len(s) + 1
      BY <1>1
    <3>4. Len(s) + 1 \notin 1..Len(s)
      BY <1>1
    <3> QED BY <1>2, <3>1, <3>2, <3>3, <3>4, Zenon
  <2>3. \A r, i : <<r, i>> = place <=> r = q /\ i = Len(s) + 1
    OBVIOUS
  <2> QED BY <2>1, <2>2, <2>3, Zenon
<1>5. ~ Notice(c, q, Len(s) + 1)
  <2>1. Len(s) + 1 \notin 1..Len(s)
    BY <1>1
  <2> QED BY <1>1, <2>1, Zenon DEF Notice, s
<1>6. place \notin Notices(c)
  BY <1>5, NoticePair
<1>7. Notices(d) = IF x = "stop" THEN Notices(c) \cup {place} ELSE Notices(c)
  <2>1. \A p \in Notices(d) \cup Notices(c) : \E r, i : p = <<r, i>>
    BY DEF Notices
  <2>3. \A r, i : /\ <<r, i>> \in Notices(c) <=> Notice(c, r, i)
                  /\ <<r, i>> \in Notices(d) <=> Notice(d, r, i)
    BY <1>3, NoticePair, Zenon
  <2>4. ASSUME NEW p \in Notices(d) PROVE p \in Notices(c) \/ (p = place /\ x = "stop")
    <3>1. PICK r, i : p = <<r, i>>
      BY <2>1
    <3>2. Notice(d, r, i)
      BY <2>3, <3>1, Zenon
    <3> QED BY <1>4, <2>3, <3>1, <3>2, Zenon
  <2>5. ASSUME NEW p \in Notices(c) PROVE p \in Notices(d)
    <3>1. PICK r, i : p = <<r, i>>
      BY <2>1
    <3>2. Notice(c, r, i)
      BY <2>3, <3>1, Zenon
    <3> QED BY <1>4, <2>3, <3>1, <3>2, Zenon
  <2>6. x = "stop" => place \in Notices(d)
    BY <1>4, <2>3, Zenon
  <2> HIDE DEF place
  <2> QED BY <2>4, <2>5, <2>6
<1> HIDE DEF place
<1>8. /\ IsFiniteSet(Notices(c) \cup {place})
      /\ Cardinality(Notices(c) \cup {place}) = Cardinality(Notices(c)) + 1
  BY <1>6, FS_AddElement
<1>9. Cardinality(Notices(c)) \in Nat
  BY FS_CardinalityType
<1> QED BY <1>3, <1>7, <1>8, <1>9 DEF Weight

\* The first item of one sequence is taken away; those behind it move up.
LEMMA NoticeTaken ==
  ASSUME NEW c \in [Queues -> Seq(Items)], NEW q \in Queues, c[q] # <<>>,
         IsFiniteSet(Notices(c)),
         NEW d, d = [c EXCEPT ![q] = Tail(c[q])]
  PROVE  /\ d \in [Queues -> Seq(Items)]
         /\ IsFiniteSet(Notices(d))
         /\ Cardinality(Notices(c)) =
               Cardinality(Notices(d)) + Weight(Head(c[q]))
<1> DEFINE s == c[q]
           first == <<q, 1>>
           rest == Notices(c) \ {first}
           Up(p) == IF p[1] = q THEN <<q, p[2] - 1>> ELSE p
           up == [p \in rest |-> Up(p)]
<1>1. /\ s \in Seq(Items) /\ Len(s) \in Nat /\ s # <<>>
      /\ DOMAIN s = 1..Len(s) /\ 1 \in 1..Len(s) /\ Head(s) = s[1]
      /\ Tail(s) \in Seq(Items) /\ DOMAIN Tail(s) = 1..(Len(s) - 1)
      /\ \A i \in 1..(Len(s) - 1) : Tail(s)[i] = s[i + 1]
  OBVIOUS
<1>2. /\ d \in [Queues -> Seq(Items)] /\ d[q] = Tail(s)
      /\ \A r \in Queues \ {q} : d[r] = c[r]
  BY <1>1
<1> HIDE DEF s
<1>3. \A r, i : /\ <<r, i>> \in Notices(c) <=> Notice(c, r, i)
                /\ <<r, i>> \in Notices(d) <=> Notice(d, r, i)
  BY <1>2, NoticePair, Zenon
<1>4. \A r, i : r # q => (Notice(d, r, i) <=> Notice(c, r, i))
  BY <1>2 DEF Notice
<1>5. \A i : /\ Notice(c, q, i) <=> i \in 1..Len(s) /\ s[i] = "stop"
             /\ Notice(d, q, i) <=> i \in 1..(Len(s) - 1) /\ s[i + 1] = "stop"
  <2>1. ASSUME NEW i PROVE Notice(c, q, i) <=> i \in 1..Len(s) /\ s[i] = "stop"
    BY <1>1 DEF Notice, s
  <2>2. ASSUME NEW i
        PROVE  Notice(d, q, i) <=> i \in 1..(Len(s) - 1) /\ s[i + 1] = "stop"
    <3>1. Notice(d, q, i) <=> i \in 1..(Len(s) - 1) /\ Tail(s)[i] = "stop"
      BY <1>1, <1>2 DEF Notice
    <3> QED BY <1>1, <3>1, Zenon
  <2> QED BY <2>1, <2>2, Zenon
<1>6. first \in Notices(c) <=> Head(s) = "stop"
  BY <1>1, <1>3, <1>5, Zenon
<1>7. \A p \in Notices(c) \cup Notices(d) :
         \E r \in Queues, i \in Nat : p = <<r, i>> /\ p[1] = r /\ p[2] = i
  BY DEF Notices
<1>8. ASSUME NEW p \in rest
      PROVE  /\ Up(p) \in Notices(d)
             /\ p[1] = q => Notice(c, q, p[2]) /\ p[2] # 1 /\ p = <<q, p[2]>>
  <2>1. PICK r \in Queues, i \in Nat : p = <<r, i>> /\ p[1] = r /\ p[2] = i
    BY <1>7
  <2>2. Notice(c, r, i) /\ <<r, i>> # <<q, 1>>
    BY <1>3, <2>1, Zenon
  <2>3. CASE r # q
    BY <1>3, <1>4, <2>1, <2>2, <2>3, Zenon
  <2>4. CASE r = q
    <3>1. i \in 1..Len(s) /\ s[i] = "stop" /\ i # 1
      BY <1>5, <2>2, <2>4, Zenon
    <3>2. i - 1 \in 1..(Len(s) - 1) /\ (i - 1) + 1 = i
      BY <1>1, <3>1
    <3>3. <<q, i - 1>> \in Notices(d)
      BY <1>3, <1>5, <3>1, <3>2, Zenon
    <3> QED BY <2>1, <2>2, <2>4, <3>1, <3>3, Zenon
  <2> QED BY <2>3, <2>4
<1>9. up \in Bijection(rest, Notices(d))
  <2>1. up \in [rest -> Notices(d)]
    BY <1>8
  <2>2. \A p \in rest : up[p] = Up(p)
    OBVIOUS
  <2>3. ASSUME NEW a \in rest, NEW b \in rest, Up(a) = Up(b) PROVE a = b
    <3>1. a[2] \in Nat /\ b[2] \in Nat
      BY <1>7
    <3>2. CASE a[1] = q /\ b[1] = q
      <4>1. a[2] - 1 = b[2] - 1
        BY <2>3, <3>2
      <4>2. a[2] = b[2]
        BY <3>1, <4>1
      <4> QED BY <1>8, <3>2, <4>2, Zenon
    <3>3. CASE a[1] # q \/ b[1] # q
      BY <2>3, <3>3
    <3> QED BY <3>2, <3>3
  <2>4. ASSUME NEW t \in Notices(d) PROVE \E p \in rest : Up(p) = t
    <3>1. PICK r \in Queues, i \in Nat : t = <<r, i>> /\ t[1] = r /\ t[2] = i
      BY <1>7
    <3>2. Notice(d, r, i)
      BY <1>3, <3>1, Zenon
    <3>3. CASE r # q
      <4>1. t \in rest
        BY <1>3, <1>4, <3>1, <3>2, <3>3
      <4> QED BY <3>1, <3>3, <4>1, Zenon
    <3>4. CASE r = q
      <4>1. i \in 1..(Len(s) - 1) /\ s[i + 1] = "stop"
        BY <1>5, <3>2, <3>4, Zenon
      <4>2. i + 1 \in 1..Len(s) /\ i + 1 # 1 /\ (i + 1) - 1 = i
        BY <1>1, <4>1
      <4>3. <<q, i + 1>> \in rest
        <5>1. <<q, i + 1>> \in Notices(c)
          BY <1>3, <1>5, <4>1, <4>2, Zenon
        <5> QED BY <4>2, <5>1
      <4>4. Up(<<q, i + 1>>) = t
        BY <3>1, <3>4, <4>2
      <4> QED BY <4>3, <4>4, Zenon
    <3> QED BY <3>3, <3>4
  <2> HIDE DEF rest, up, Up
  <2>5. ASSUME NEW a \in rest, NEW b \in rest, up[a] = up[b] PROVE a = b
    <3>1. Up(a) = Up(b)
      BY <2>2, <2>5
    <3> QED BY <2>3, <3>1
  <2>6. ASSUME NEW t \in Notices(d) PROVE \E p \in rest : up[p] = t
    <3>1. PICK p \in rest : Up(p) = t
      BY <2>4
    <3> QED BY <2>2, <3>1
  <2> QED BY <2>1, <2>5, <2>6, Fun_IsBij
<1> HIDE DEF up
<1>10. IsFiniteSet(rest)
       /\ Cardinality(rest) = IF first \in Notices(c)
                              THEN Cardinality(Notices(c)) - 1 ELSE Cardinality(Notices(c))
  BY FS_RemoveElement
<1> HIDE DEF rest
<1>11. IsFiniteSet(Notices(d)) /\ Cardinality(Notices(d)) = Cardinality(rest)
  <2>1. ExistsBijection(rest, Notices(d))
    BY <1>9, Zenon DEF ExistsBijection
  <2> QED BY <1>10, <2>1, FS_Bijection
<1>12. Cardinality(Notices(c)) \in Nat
  BY FS_CardinalityType
<1> QED BY <1>2, <1>6, <1>10, <1>11, <1>12 DEF s, Weight

-----------------------------------------------------------------------------

\* The two ways to say where the notices are.
LEMMA PlacesOfNotices ==
  ASSUME TypeOK
  PROVE  Places("stop") = Notices(Contents)
<1>1. Contents \in [Queues -> Seq(Items)]
  BY DEF TypeOK, Contents, Queues, Items
<1>2. None \notin Processes /\ None \in Queues /\ Processes \subseteq Queues
  BY PoolAssumption DEF Processes, Queues
<1>3. Contents[None] = queue /\ \A p \in Processes : Contents[p] = outbox[p]
  BY <1>2 DEF Contents
<1>4. ASSUME NEW place \in Places("stop") PROVE place \in Notices(Contents)
  <2>1. \/ \E i \in DOMAIN queue : queue[i] = "stop" /\ place = <<None, i>>
        \/ \E p \in Processes : \E i \in DOMAIN outbox[p] :
              outbox[p][i] = "stop" /\ place = <<p, i>>
    BY DEF Places
  <2>2. \E q, i : place = <<q, i>> /\ Notice(Contents, q, i)
    BY <1>2, <1>3, <2>1 DEF Notice
  <2> QED BY <1>1, <2>2, NoticePair, Zenon
<1>5. ASSUME NEW place \in Notices(Contents) PROVE place \in Places("stop")
  <2>1. PICK q \in Queues, i \in Nat : place = <<q, i>>
    BY DEF Notices
  <2>2. i \in DOMAIN Contents[q] /\ Contents[q][i] = "stop"
    BY <1>1, <2>1, NoticePair, Zenon DEF Notice
  <2>3. CASE q = None
    <3>1. i \in {j \in DOMAIN queue : queue[j] = "stop"}
      BY <1>3, <2>2, <2>3
    <3> QED BY <2>1, <2>3, <3>1 DEF Places
  <2>4. CASE q \in Processes
    <3> DEFINE Own(p) == {<<p, j>> : j \in {k \in DOMAIN outbox[p] : outbox[p][k] = "stop"}}
    <3>1. i \in {k \in DOMAIN outbox[q] : outbox[q][k] = "stop"}
      BY <1>3, <2>2, <2>4
    <3>2. place \in Own(q)
      BY <2>1, <3>1
    <3>3. Own(q) \subseteq UNION {Own(p) : p \in Processes}
      BY <2>4
    <3> QED BY <3>2, <3>3 DEF Places
  <2> QED BY <2>1, <2>3, <2>4 DEF Queues
<1> QED BY <1>4, <1>5

\* A process that puts one item more.
LEMMA ContentsPut ==
  ASSUME TypeOK, NEW p \in Processes, NEW items \in Seq(Items), Put(p, items),
         UNCHANGED queue
  PROVE  Contents' = [Contents EXCEPT ![p] = Contents[p] \o items]
BY PoolAssumption DEF TypeOK, Contents, Queues, Processes, Put

\* get() takes the first item.
LEMMA ContentsGot ==
  ASSUME TypeOK, NEW item, Get(item), UNCHANGED outbox
  PROVE  /\ Contents' = [Contents EXCEPT ![None] = Tail(Contents[None])]
         /\ Contents[None] # <<>> /\ Head(Contents[None]) = item
BY PoolAssumption DEF TypeOK, Contents, Queues, Processes, Get

-----------------------------------------------------------------------------

EndedWorkers == {w \in Workers : pc[w] = "ended"}

\* A worker that goes somewhere ends, or no worker does.
LEMMA EndedNext ==
  ASSUME TypeOK, NEW w \in Workers, pc[w] # "ended", NEW phase \in Phases, Goto(w, phase)
  PROVE  /\ Cardinality(EndedWorkers) \in Nat
         /\ Cardinality(EndedWorkers') =
               Cardinality(EndedWorkers) + (IF phase = "ended" THEN 1 ELSE 0)
<1>1. IsFiniteSet(EndedWorkers)
  BY PoolAssumption, FS_Subset DEF EndedWorkers
<1>2. /\ pc'[w] = phase /\ \A v \in Workers \ {w} : pc'[v] = pc[v]
  BY GotoTypes DEF TypeOK
<1>3. EndedWorkers' = IF phase = "ended" THEN EndedWorkers \cup {w} ELSE EndedWorkers
  BY <1>2 DEF EndedWorkers
<1>4. w \notin EndedWorkers
  BY DEF EndedWorkers
<1>5. /\ Cardinality(EndedWorkers) \in Nat
      /\ Cardinality(EndedWorkers \cup {w}) = Cardinality(EndedWorkers) + 1
  BY <1>1, <1>4, FS_AddElement, FS_CardinalityType
<1> QED BY <1>3, <1>5

-----------------------------------------------------------------------------

Finite == IsFiniteSet(Notices(Contents))
Remaining == Cardinality(Notices(Contents))
EndedCount == Cardinality(EndedWorkers)

(***************************************************************************)
(* NoticesKept over Notices(Contents), which have to be finite to be       *)
(* counted, however many processes there are.                              *)
(***************************************************************************)
NoticesInv ==
    /\ Finite
    /\ Remaining <= shutdowns
    /\ shutdowns <= Remaining + EndedCount

\* The same of the next state.
LEMMA NextNotices ==
  /\ Finite <=> IsFiniteSet(Notices(Contents))
  /\ Finite' <=> IsFiniteSet(Notices(Contents'))
  /\ Remaining = Cardinality(Notices(Contents))
  /\ Remaining' = Cardinality(Notices(Contents'))
BY DEF Finite, Remaining, Notices, Notice

\* The numbers are numbers.
LEMMA NoticeNumbers ==
  ASSUME TypeOK, NoticesInv
  PROVE  /\ Remaining \in Nat /\ EndedCount \in Nat /\ shutdowns \in Nat
         /\ Contents \in [Queues -> Seq(Items)]
<1>1. IsFiniteSet(EndedWorkers)
  BY PoolAssumption, FS_Subset DEF EndedWorkers
<1>2. Remaining \in Nat /\ EndedCount \in Nat
  BY <1>1, FS_CardinalityType DEF NoticesInv, Finite, Remaining, EndedCount
<1>3. shutdowns \in Nat
  BY PoolAssumption DEF TypeOK
<1>4. Contents \in [Queues -> Seq(Items)]
  BY DEF TypeOK, Contents, Queues, Items
<1> QED BY <1>2, <1>3, <1>4

\* Nobody puts or takes anything.
LEMMA NothingMoved ==
  ASSUME TypeOK, NoticesInv, UNCHANGED <<queue, outbox>>
  PROVE  Finite' /\ Remaining' = Remaining
<1>1. Contents' = Contents
  BY DEF Contents
<1> QED BY <1>1, NextNotices DEF NoticesInv

\* One item is put.
LEMMA ItemPut ==
  ASSUME TypeOK, NoticesInv, NEW p \in Processes, NEW x \in Items, Put(p, <<x>>),
         UNCHANGED queue
  PROVE  /\ Finite'
         /\ Remaining' = Remaining + Weight(x)
<1>1. Contents \in [Queues -> Seq(Items)] /\ p \in Queues
  BY NoticeNumbers DEF Queues
<1>2. Contents[p] \o <<x>> = Append(Contents[p], x)
  <2>1. Contents[p] \in Seq(Items)
    BY <1>1
  <2> QED BY <2>1
<1>3. Contents' = [Contents EXCEPT ![p] = Append(Contents[p], x)]
  <2>1. <<x>> \in Seq(Items)
    OBVIOUS
  <2> QED BY <1>2, <2>1, ContentsPut, Zenon
<1>4. IsFiniteSet(Notices(Contents))
  BY DEF NoticesInv, Finite
<1>5. /\ IsFiniteSet(Notices(Contents'))
      /\ Cardinality(Notices(Contents')) =
            Cardinality(Notices(Contents)) + Weight(x)
  BY <1>1, <1>3, <1>4, NoticeAdded, Zenon
<1> QED BY <1>5, NextNotices, Zenon

\* One item is taken.
LEMMA ItemTaken ==
  ASSUME TypeOK, NoticesInv, NEW item, Get(item), UNCHANGED outbox
  PROVE  /\ Finite'
         /\ Remaining = Remaining' + Weight(item)
<1>1. Contents \in [Queues -> Seq(Items)] /\ None \in Queues
  BY NoticeNumbers DEF Queues
<1>2. /\ Contents' = [Contents EXCEPT ![None] = Tail(Contents[None])]
      /\ Contents[None] # <<>> /\ Head(Contents[None]) = item
  BY ContentsGot, Zenon
<1>3. IsFiniteSet(Notices(Contents))
  BY DEF NoticesInv, Finite
<1>4. /\ IsFiniteSet(Notices(Contents'))
      /\ Cardinality(Notices(Contents)) =
            Cardinality(Notices(Contents')) + Weight(item)
  BY <1>1, <1>2, <1>3, NoticeTaken, Zenon
<1> QED BY <1>4, NextNotices, Zenon

\* One item is taken and put back, behind those that are there.
LEMMA ItemBack ==
  ASSUME TypeOK, NoticesInv, NEW w \in Processes, NEW item \in Items, Get(item),
         NEW items \in Seq(Items), Put(w, items),
         \/ items = <<item>>
         \/ item = "stop" /\ items = <<"stop", "go">>
  PROVE  Finite' /\ Remaining' = Remaining
<1> DEFINE c == Contents
           e == [c EXCEPT ![None] = Tail(c[None])]
           g == [e EXCEPT ![w] = Append(e[w], item)]
           h == [g EXCEPT ![w] = Append(g[w], "go")]
<1>1. c \in [Queues -> Seq(Items)] /\ None \in Queues /\ w \in Queues /\ w # None
  BY NoticeNumbers, PoolAssumption DEF Queues, Processes
<1>2. c[None] # <<>> /\ Head(c[None]) = item /\ c[None] = queue /\ c[w] = outbox[w]
  BY <1>1 DEF Get, Contents
<1>3. Contents' = [e EXCEPT ![w] = e[w] \o items]
  BY <1>1, <1>2 DEF Contents, Queues, Get, Put, TypeOK
<1>4. IsFiniteSet(Notices(c))
  BY DEF NoticesInv, Finite
<1> HIDE DEF c
<1>5. /\ e \in [Queues -> Seq(Items)]
      /\ IsFiniteSet(Notices(e))
      /\ Cardinality(Notices(c)) =
            Cardinality(Notices(e)) + Weight(item)
  BY <1>1, <1>2, <1>4, NoticeTaken, Zenon
<1> HIDE DEF e
<1>after. /\ g = [e EXCEPT ![w] = Append(e[w], item)]
       /\ h = [g EXCEPT ![w] = Append(g[w], "go")]
  OBVIOUS
<1> HIDE DEF g, h
<1>6. /\ g \in [Queues -> Seq(Items)]
      /\ IsFiniteSet(Notices(g))
      /\ Cardinality(Notices(g)) =
            Cardinality(Notices(e)) + Weight(item)
  BY <1>1, <1>5, <1>after, NoticeAdded
<1>7. CASE items = <<item>>
  <2>1. Contents' = g
    <3>1. e[w] \in Seq(Items)
      BY <1>1, <1>5
    <3>2. e[w] \o <<item>> = Append(e[w], item)
      BY <3>1
    <3> QED BY <1>3, <1>7, <1>after, <3>2, Zenon
  <2> QED BY <1>5, <1>6, <2>1, NextNotices, Zenon DEF c
<1>8. CASE item = "stop" /\ items = <<"stop", "go">>
  <2>1. Contents' = h
    <3>1. e[w] \in Seq(Items) /\ g[w] = Append(e[w], item)
      BY <1>1, <1>5, <1>after
    <3>2. e[w] \o <<"stop", "go">> = Append(g[w], "go")
      BY <1>8, <3>1, PutTogether
    <3>3. h = [e EXCEPT ![w] = Append(g[w], "go")]
      BY <1>5, <1>after
    <3> QED BY <1>3, <1>8, <3>2, <3>3, Zenon
  <2>2. /\ IsFiniteSet(Notices(h))
        /\ Cardinality(Notices(h)) =
              Cardinality(Notices(g)) + Weight("go")
    <3>1. "go" \in Items
      BY DEF Items
    <3> QED BY <1>1, <1>6, <1>after, <3>1, NoticeAdded
  <2>3. Cardinality(Notices(h)) = Cardinality(Notices(g))
    <3>1. Cardinality(Notices(g)) \in Nat
      BY <1>6, FS_CardinalityType
    <3> QED BY <2>2, <3>1 DEF Weight
  <2> QED BY <1>5, <1>6, <2>1, <2>2, <2>3, NextNotices, Zenon DEF c
<1> QED BY <1>7, <1>8

\* One item goes from an outbox to the queue.
LEMMA ItemSent ==
  ASSUME TypeOK, NoticesInv, NEW p \in Processes, Send(p)
  PROVE  Finite' /\ Remaining' = Remaining
<1> DEFINE c == Contents
           x == Head(outbox[p])
           e == [c EXCEPT ![p] = Tail(c[p])]
           g == [e EXCEPT ![None] = Append(e[None], x)]
<1>1. c \in [Queues -> Seq(Items)] /\ None \in Queues /\ p \in Queues /\ p # None
  BY NoticeNumbers, PoolAssumption DEF Queues, Processes
<1>2. c[p] # <<>> /\ Head(c[p]) = x /\ x \in Items
  BY <1>1, Removed DEF Send, Contents, TypeOK, Items
<1>3. Contents' = g
  BY <1>1, <1>2 DEF Contents, Queues, Send, TypeOK
<1>4. IsFiniteSet(Notices(c))
  BY DEF NoticesInv, Finite
<1> HIDE DEF c, x
<1>5. /\ e \in [Queues -> Seq(Items)]
      /\ IsFiniteSet(Notices(e))
      /\ Cardinality(Notices(c)) =
            Cardinality(Notices(e)) + Weight(x)
  BY <1>1, <1>2, <1>4, NoticeTaken, Zenon
<1> HIDE DEF e
<1>after. g = [e EXCEPT ![None] = Append(e[None], x)]
  OBVIOUS
<1> HIDE DEF g
<1>6. /\ IsFiniteSet(Notices(g))
      /\ Cardinality(Notices(g)) =
            Cardinality(Notices(e)) + Weight(x)
  <2>1. x \in Items /\ None \in Queues
    BY <1>1, <1>2, Zenon
  <2>2. e \in [Queues -> Seq(Items)] /\ IsFiniteSet(Notices(e))
    BY <1>5, Zenon
  <2> QED BY <1>after, <2>1, <2>2, NoticeAdded
<1> QED BY <1>3, <1>5, <1>6, NextNotices, Zenon DEF c

(***************************************************************************)
(* Workers that look at a notice put it back, the threads of the queue     *)
(* pass it on, and only a worker that ends takes one away.                 *)
(***************************************************************************)
THEOREM NoticesInvariant == Spec => []NoticesInv
<1>1. Init => NoticesInv
  <2> SUFFICES ASSUME Init PROVE NoticesInv
    OBVIOUS
  <2>1. Contents \in [Queues -> Seq(Items)]
        /\ \A q \in Queues : \A i \in DOMAIN Contents[q] : Contents[q][i] = "go"
    <3>1. /\ <<>> \in Seq(Items) /\ <<"go">> \in Seq(Items)
          /\ \A i \in DOMAIN <<>> : <<>>[i] = "go"
          /\ \A i \in DOMAIN <<"go">> : <<"go">>[i] = "go"
      BY DEF Items
    <3>2. ASSUME NEW q \in Queues
          PROVE  Contents[q] = <<>> \/ Contents[q] = <<"go">>
      BY DEF Contents, Queues, Init
    <3>3. Contents = [q \in Queues |-> Contents[q]]
      BY DEF Contents
    <3> QED BY <3>1, <3>2, <3>3
  <2>2. Notices(Contents) = {}
    BY <2>1 DEF Notices, Notice
  <2>3. Finite /\ Remaining = 0
    BY <2>2, FS_EmptySet DEF Finite, Remaining
  <2>4. EndedWorkers = {}
    BY DEF Init, EndedWorkers
  <2>5. EndedCount = 0
    BY <2>4, FS_EmptySet DEF EndedCount
  <2> QED BY <2>3, <2>5 DEF Init, NoticesInv
<1>2. TypeOK /\ NoticesInv /\ [Next]_vars => NoticesInv'
  <2> SUFFICES ASSUME TypeOK, NoticesInv, [Next]_vars PROVE NoticesInv'
    OBVIOUS
  <2>numbers. Remaining \in Nat /\ EndedCount \in Nat /\ shutdowns \in Nat
    BY NoticeNumbers
  <2>procs. Workers \subseteq Processes /\ Main \in Processes
    BY DEF Processes
  <2>phases. /\ \A phase \in {"waiting", "accepting", "timed out", "serving", "ended"} : phase \in Phases
             /\ "go" \in Items /\ "stop" \in Items
    BY DEF Phases, Items
  \* A worker that ends, or takes no notice away.
  <2>went. ASSUME NEW w \in Workers, pc[w] # "ended", NEW phase \in Phases, Goto(w, phase),
                  UNCHANGED shutdowns, Finite',
                  \/ Remaining = Remaining'
                  \/ Remaining = Remaining' + Weight("go")
                  \/ Remaining = Remaining' + Weight("stop") /\ phase = "ended"
           PROVE  NoticesInv'
    <3>1. EndedCount' = EndedCount + (IF phase = "ended" THEN 1 ELSE 0)
      BY <2>went, EndedNext DEF EndedCount
    <3> DEFINE n == Remaining'
               m == EndedCount'
    <3>2. n \in Nat
      BY <2>went, NextNotices, FS_CardinalityType
    <3>3. Remaining = n \/ (Remaining = n + 1 /\ phase = "ended")
      BY <2>went, <3>2 DEF Weight
    <3>4. Remaining <= shutdowns /\ shutdowns <= Remaining + EndedCount
      BY DEF NoticesInv
    <3>5. m = EndedCount \/ m = EndedCount + 1
      BY <2>numbers, <3>1
    <3>6. phase = "ended" => m = EndedCount + 1
      BY <3>1
    <3> HIDE DEF n, m
    <3>7. n <= shutdowns /\ shutdowns <= n + m
      <4>1. CASE Remaining = n
        BY <2>numbers, <3>2, <3>4, <3>5, <4>1
      <4>2. CASE Remaining = n + 1 /\ m = EndedCount + 1
        BY <2>numbers, <3>2, <3>4, <4>2
      <4> QED BY <3>3, <3>6, <4>1, <4>2
    <3> QED BY <2>went, <3>7 DEF NoticesInv, n, m
  <2>1. ASSUME NEW w \in Workers, GetToken(w) PROVE NoticesInv'
    <3>1. pc[w] # "ended" /\ UNCHANGED <<outbox, shutdowns>>
      BY <2>1 DEF GetToken, ServerRuns
    <3>2. CASE Get("go") /\ Goto(w, "accepting")
      <4>1. Finite' /\ Remaining = Remaining' + Weight("go")
        BY <3>1, <3>2, ItemTaken
      <4> QED BY <2>went, <2>phases, <3>1, <3>2, <4>1
    <3>3. CASE Get("stop") /\ Goto(w, "ended")
      <4>1. Finite' /\ Remaining = Remaining' + Weight("stop")
        BY <3>1, <3>3, ItemTaken
      <4> QED BY <2>went, <2>phases, <3>1, <3>3, <4>1
    <3> QED BY <2>1, <3>2, <3>3 DEF GetToken
  <2>2. ASSUME NEW w \in Workers, pc[w] # "ended", NEW phase \in Phases, Goto(w, phase),
               UNCHANGED <<queue, shutdowns>>, UNCHANGED outbox \/ PutToken(w)
        PROVE  NoticesInv'
    <3>1. CASE UNCHANGED outbox
      BY <2>2, <2>went, <3>1, NothingMoved
    <3>2. CASE PutToken(w)
      <4>1. Finite' /\ Remaining' = Remaining + Weight("go")
        BY <2>2, <2>procs, <2>phases, <3>2, ItemPut DEF PutToken
      <4>2. Remaining' = Remaining
        BY <2>numbers, <4>1 DEF Weight
      <4> QED BY <2>2, <2>went, <4>1, <4>2
    <3> QED BY <2>2, <3>1, <3>2
  <2>3. ASSUME NEW w \in Workers, Accept(w) PROVE NoticesInv'
    BY <2>2, <2>3, <2>phases DEF Accept, Release, ServerRuns
  <2>4. ASSUME NEW w \in Workers, AcceptFails(w) \/ AcceptTimesOut(w) PROVE NoticesInv'
    BY <2>2, <2>4, <2>phases DEF AcceptFails, AcceptTimesOut, ServerRuns
  <2>5. ASSUME NEW w \in Workers, Finish(w) \/ ServiceFails(w) PROVE NoticesInv'
    BY <2>2, <2>5, <2>phases DEF Finish, ServiceFails, ServerRuns
  <2>6. ASSUME NEW w \in Workers, Interrupt(w) PROVE NoticesInv'
    BY <2>2, <2>6, <2>phases DEF Interrupt, ServerRuns
  <2>7. ASSUME NEW w \in Workers, Peek(w) PROVE NoticesInv'
    <3>1. pc[w] # "ended" /\ UNCHANGED shutdowns
      BY <2>7 DEF Peek, ServerRuns
    <3>2. CASE Goto(w, "accepting") /\ UNCHANGED <<queue, outbox>>
      BY <2>2, <2>phases, <3>1, <3>2
    <3>3. ASSUME NEW item \in {"go", "stop"}, Get(item), ItemSeen(w, item)
          PROVE  NoticesInv'
      <4> DEFINE items == IF item = "stop" THEN <<item, "go">> ELSE <<item>>
      <4>1. Put(w, items) /\ w \in Processes
        BY <2>procs, <3>3, Zenon DEF ItemSeen
      <4>0. /\ items \in Seq(Items)
            /\ \/ items = <<item>>
               \/ item = "stop" /\ items = <<"stop", "go">>
        <5>1. CASE item = "stop"
          BY <5>1, PutItems
        <5>2. CASE item = "go"
          BY <5>2, PutItems
        <5> QED BY <5>1, <5>2
      <4>2. PICK phase \in Phases : Goto(w, phase)
        BY <2>phases, <3>3 DEF ItemSeen
      <4>3. Finite' /\ Remaining' = Remaining
        <5> HIDE DEF items
        <5>1. item \in Items
          BY <2>phases
        <5> QED BY <3>3, <4>0, <4>1, <5>1, ItemBack
      <4> QED BY <2>went, <3>1, <4>2, <4>3
    <3> QED BY <2>7, <3>2, <3>3 DEF Peek
  <2>8. ASSUME NEW p \in Processes, Send(p) PROVE NoticesInv'
    <3>1. Finite' /\ Remaining' = Remaining
      BY <2>8, ItemSent
    <3>2. UNCHANGED <<shutdowns, pc>>
      BY <2>8 DEF Send, ServerRuns
    <3>3. EndedCount' = EndedCount
      BY <3>2 DEF EndedCount, EndedWorkers
    <3> QED BY <3>1, <3>2, <3>3 DEF NoticesInv
  <2>9. CASE ShutdownServer
    <3>1. Finite' /\ Remaining' = Remaining + 1
      <4>1. Finite' /\ Remaining' = Remaining + Weight("stop")
        BY <2>9, <2>procs, <2>phases, ItemPut DEF ShutdownServer, Queueing
      <4> QED BY <4>1 DEF Weight
    <3>2. shutdowns' = shutdowns + 1 /\ UNCHANGED pc
      BY <2>9 DEF ShutdownServer, Queueing
    <3>3. EndedCount' = EndedCount
      BY <3>2 DEF EndedCount, EndedWorkers
    <3>4. Remaining <= shutdowns /\ shutdowns <= Remaining + EndedCount
      BY DEF NoticesInv
    <3>5. Remaining' <= shutdowns' /\ shutdowns' <= Remaining' + EndedCount'
      BY <2>numbers, <3>1, <3>2, <3>3, <3>4
    <3> QED BY <3>1, <3>5 DEF NoticesInv
  <2>10. ASSUME UNCHANGED <<pc, queue, outbox, shutdowns>> PROVE NoticesInv'
    <3>1. EndedCount' = EndedCount
      BY <2>10 DEF EndedCount, EndedWorkers
    <3> QED BY <2>10, <3>1, NothingMoved DEF NoticesInv
  <2> QED
    BY <2>1, <2>3, <2>4, <2>5, <2>6, <2>7, <2>8, <2>9, <2>10
       DEF Next, Step, Connect, Return, Queueing, ServerRuns, vars
<1> QED BY <1>1, <1>2, TypeCorrect, PTL DEF Spec

(***************************************************************************)
(* No None of shutdown_server() is lost unless a worker ends, and none is  *)
(* made up, for any number of workers that fail, are interrupted, look at  *)
(* it, put it back and end, or take it.                                    *)
(***************************************************************************)
THEOREM NoticesKeptAlways == Spec => []NoticesKept
<1>1. TypeOK /\ NoticesInv => NoticesKept
  BY PlacesOfNotices, Zenon DEF NoticesInv, NoticesKept, Finite, Remaining, EndedCount, EndedWorkers
<1> QED BY <1>1, TypeCorrect, NoticesInvariant, PTL

\* As many calls as workers, and no living worker is without a notice.
EachHasNotice ==
    Cardinality(Workers) <= shutdowns =>
        Cardinality(Workers \ EndedWorkers) <= Cardinality(Places("stop"))

(***************************************************************************)
(* Once shutdown_server() was called once for each worker there are enough *)
(* notices for all workers that still have to end: none of them can wait   *)
(* in vain, which is what EnoughShutdowns rests on.                        *)
(***************************************************************************)
THEOREM EachHasNoticeAlways == Spec => []EachHasNotice
<1>1. TypeOK /\ NoticesInv => EachHasNotice
  <2> SUFFICES ASSUME TypeOK, NoticesInv, Cardinality(Workers) <= shutdowns
               PROVE  Cardinality(Workers \ EndedWorkers) <= Cardinality(Places("stop"))
    BY DEF EachHasNotice
  <2>1. Remaining \in Nat /\ EndedCount \in Nat /\ shutdowns \in Nat
    BY NoticeNumbers
  <2>2. Cardinality(Workers \ EndedWorkers) = Cardinality(Workers) - EndedCount
    <3>1. Workers \cap EndedWorkers = EndedWorkers
      BY DEF EndedWorkers
    <3> QED BY <3>1, PoolAssumption, FS_Difference DEF EndedCount
  <2>3. shutdowns <= Remaining + EndedCount
    BY DEF NoticesInv
  <2>4. Cardinality(Workers) \in Nat
    BY PoolAssumption, FS_CardinalityType
  <2>5. Cardinality(Workers) - EndedCount <= Remaining
    BY <2>1, <2>3, <2>4
  <2> QED BY <2>2, <2>5, PlacesOfNotices DEF Remaining
<1> QED BY <1>1, TypeCorrect, NoticesInvariant, PTL

=============================================================================
