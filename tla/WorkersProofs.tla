--------------------------- MODULE WorkersProofs ---------------------------
(* Proof that the process exits cleanly, for any number of workers.            *)
EXTENDS Workers, SequenceTheorems, TLAPS

Handles == Seq(Worker)

\* Types, as far as the argument needs them.
TypeOK ==
    /\ main \in [at : {"spawn", "receive", "wait", "stop", "stopping", "exit"},
                 failed : BOOLEAN, spawned : 0..N, received : Nat,
                 handles : Handles, stop : Handles]
    /\ thread \in [Worker -> {"none", "build", "check", "shutdown", "run", "stop", "end"}]
    /\ engine \in [Worker -> {"none", "built", "running", "dropped"}]
    /\ DOMAIN callers = Worker
    /\ ready \in Seq(Worker \X BOOLEAN)
    /\ signal \in [at : {"unset", "set", "stop", "stopping"}, stop : Handles]

\* A thread and its engine go through their lives together, and who waits in
\* shutdown() waits for an engine that exists.
InStep ==
    \A i \in Worker :
        /\ engine[i] = "none" => thread[i] \in {"none", "build", "end"}
        /\ engine[i] = "built" => thread[i] \in {"check", "shutdown"}
        /\ engine[i] = "running" => thread[i] \in {"run", "stop"}
        /\ engine[i] = "dropped" => thread[i] = "end"
        /\ thread[i] \in {"check", "shutdown"} => engine[i] = "built"
        /\ thread[i] \in {"run", "stop"} => engine[i] = "running"
        /\ thread[i] \in {"none", "build"} => engine[i] = "none"
        /\ i > main.spawned => thread[i] = "none"
        /\ callers[i] # {} => engine[i] \in {"built", "running"}

Built(s) == \A k \in 1..Len(s) : engine[s[k]] # "none"

\* A handle, wherever it is kept, is that of an engine that was built.
HandlesBuilt ==
    /\ Built(main.handles) /\ Built(main.stop) /\ Built(signal.stop)
    /\ \A k \in 1..Len(ready) : ready[k][2] => engine[ready[k][1]] # "none"

\* The process has exited: see Join.
Exited == main.at = "exit" => \A i \in Worker : thread[i] \in {"none", "end"}

\* While threads are spawned there is one more to spawn.
Spawning == main.at = "spawn" => main.spawned < N

\* Whoever is blocked in shutdown() has the handle it called it on.
Stopping ==
    /\ main.at = "stopping" => main.stop # <<>>
    /\ signal.at = "stopping" => signal.stop # <<>>

IInv == TypeOK /\ InStep /\ HandlesBuilt /\ Exited /\ Spawning /\ Stopping
-----------------------------------------------------------------------------
\* A report joins the ready channel behind those that wait there.
LEMMA Reported ==
    ASSUME NEW S, NEW s \in Seq(S), NEW x \in S
    PROVE  /\ Append(s, x) \in Seq(S)
           /\ \A k \in 1..Len(Append(s, x)) :
                 (k \in 1..Len(s) /\ Append(s, x)[k] = s[k]) \/ Append(s, x)[k] = x
OBVIOUS

\* Nothing has begun.
LEMMA InitIInv == Init => IInv
<1> SUFFICES ASSUME Init PROVE IInv
  OBVIOUS
<1>1. N \in Nat /\ 0 < N /\ <<>> \in Handles /\ 0 \in 0..N
  BY WorkersAssumption DEF Handles
<1>2. TypeOK
  BY <1>1 DEF Init, TypeOK, Handles, Worker
<1>3. InStep
  BY DEF Init, InStep
<1>4. HandlesBuilt /\ Exited /\ Spawning /\ Stopping
  BY <1>1 DEF Init, HandlesBuilt, Built, Exited, Spawning, Stopping
<1> QED BY <1>2, <1>3, <1>4 DEF IInv

\* A step of worker i: what it does to the thread, the engine and the callers.
LEMMA WorkerIInv ==
    ASSUME IInv, NEW i \in Worker, WorkerStep(i) \/ LeaveLoop(i)
    PROVE  IInv'
<1> USE DEF IInv
<1>1. CASE BuildFails(i)
  <2>1. /\ thread[i] = "build" /\ thread' = [thread EXCEPT ![i] = "end"]
        /\ ready' = Append(ready, <<i, FALSE>>)
        /\ UNCHANGED <<main, engine, callers, signal>>
    BY <1>1 DEF BuildFails
  <2> DEFINE r == <<i, FALSE>>
  <2>r. r \in Worker \X BOOLEAN /\ ready \in Seq(Worker \X BOOLEAN)
    BY DEF TypeOK
  <2>a. /\ ready' \in Seq(Worker \X BOOLEAN)
        /\ \A k \in 1..Len(ready') :
              (k \in 1..Len(ready) /\ ready'[k] = ready[k]) \/ ready'[k] = r
    <3> HIDE DEF r
    <3>1. ready' = Append(ready, r)
      BY <2>1 DEF r
    <3> QED BY <3>1, <2>r, Reported
  <2>2. TypeOK'
    BY <2>1, <2>a DEF TypeOK
  <2>3. InStep'
    BY <2>1 DEF InStep, TypeOK
  <2>4. HandlesBuilt'
    BY <2>1, <2>a DEF HandlesBuilt, Built
  <2>5. Exited' /\ Spawning' /\ Stopping'
    BY <2>1 DEF Exited, Spawning, Stopping, TypeOK
  <2> QED BY <2>2, <2>3, <2>4, <2>5
<1>2. CASE BuildOk(i)
  <2>1. /\ thread[i] = "build" /\ thread' = [thread EXCEPT ![i] = "check"]
        /\ engine' = [engine EXCEPT ![i] = "built"]
        /\ ready' = Append(ready, <<i, TRUE>>)
        /\ UNCHANGED <<main, callers, signal>>
    BY <1>2 DEF BuildOk
  <2> DEFINE r == <<i, TRUE>>
  <2>r. r \in Worker \X BOOLEAN /\ ready \in Seq(Worker \X BOOLEAN)
    BY DEF TypeOK
  <2>a. /\ ready' \in Seq(Worker \X BOOLEAN)
        /\ \A k \in 1..Len(ready') :
              (k \in 1..Len(ready) /\ ready'[k] = ready[k]) \/ ready'[k] = r
    <3> HIDE DEF r
    <3>1. ready' = Append(ready, r)
      BY <2>1 DEF r
    <3> QED BY <3>1, <2>r, Reported
  <2>2. TypeOK'
    BY <2>1, <2>a DEF TypeOK
  <2>3. InStep'
    BY <2>1 DEF InStep, TypeOK
  <2>4. HandlesBuilt'
    <3>1. \A j \in Worker : engine[j] # "none" => engine'[j] # "none"
      BY <2>1 DEF TypeOK
    <3>2. engine'[i] # "none"
      BY <2>1 DEF TypeOK
    <3>3. \A s \in Handles : Built(s) => \A k \in 1..Len(s) : engine'[s[k]] # "none"
      BY <3>1 DEF Built, Handles
    <3>4. \A k \in 1..Len(ready) : ready[k] \in Worker \X BOOLEAN
      BY <2>r
    <3>5. \A k \in 1..Len(ready') : ready'[k][2] => engine'[ready'[k][1]] # "none"
      <4> SUFFICES ASSUME NEW k \in 1..Len(ready'), ready'[k][2]
                   PROVE  engine'[ready'[k][1]] # "none"
        OBVIOUS
      <4>1. CASE ready'[k] = r
        BY <3>2, <4>1
      <4>2. CASE k \in 1..Len(ready) /\ ready'[k] = ready[k]
        <5>1. ready[k][1] \in Worker /\ engine[ready[k][1]] # "none"
          BY <3>4, <4>2 DEF HandlesBuilt
        <5> QED BY <3>1, <4>2, <5>1
      <4> QED BY <2>a, <4>1, <4>2
    <3>6. main.handles \in Handles /\ main.stop \in Handles /\ signal.stop \in Handles
      BY DEF TypeOK
    <3> QED BY <2>1, <3>3, <3>5, <3>6 DEF HandlesBuilt, Built
  <2>5. Exited' /\ Spawning' /\ Stopping'
    BY <2>1 DEF Exited, Spawning, Stopping, TypeOK
  <2> QED BY <2>2, <2>3, <2>4, <2>5
<1>3. CASE CallOwnShutdown(i)
  <2>1. /\ thread[i] = "check" /\ thread' = [thread EXCEPT ![i] = "shutdown"]
        /\ callers' = [callers EXCEPT ![i] = @ \cup {<<"worker", i>>}]
        /\ UNCHANGED <<main, engine, ready, signal>>
    BY <1>3 DEF CallOwnShutdown
  <2>2. TypeOK'
    BY <2>1 DEF TypeOK
  <2>3. InStep'
    BY <2>1 DEF InStep, TypeOK
  <2>4. HandlesBuilt'
    BY <2>1 DEF HandlesBuilt, Built
  <2>5. Exited' /\ Spawning' /\ Stopping'
    BY <2>1 DEF Exited, Spawning, Stopping, TypeOK
  <2> QED BY <2>2, <2>3, <2>4, <2>5
<1>4. CASE RunEngine(i)
  <2>1. /\ thread[i] \in {"check", "shutdown"} /\ thread' = [thread EXCEPT ![i] = "run"]
        /\ engine' = [engine EXCEPT ![i] = "running"]
        /\ UNCHANGED <<main, callers, ready, signal>>
    BY <1>4 DEF RunEngine
  <2>2. TypeOK'
    BY <2>1 DEF TypeOK
  <2>3. InStep'
    BY <2>1 DEF InStep, TypeOK
  <2>4. HandlesBuilt'
    BY <2>1 DEF HandlesBuilt, Built, TypeOK, Handles
  <2>5. Exited' /\ Spawning' /\ Stopping'
    BY <2>1 DEF Exited, Spawning, Stopping, TypeOK
  <2> QED BY <2>2, <2>3, <2>4, <2>5
<1>5. CASE TakeShutdown(i) \/ LeaveLoop(i)
  <2>1. /\ thread[i] = "run" /\ thread' = [thread EXCEPT ![i] = "stop"]
        /\ DOMAIN callers' = Worker
        /\ \A j \in Worker : callers'[j] # {} => callers[j] # {}
        /\ UNCHANGED <<main, engine, ready, signal>>
    BY <1>5 DEF TakeShutdown, LeaveLoop, TypeOK
  <2>2. TypeOK'
    BY <2>1 DEF TypeOK
  <2>3. InStep'
    BY <2>1 DEF InStep, TypeOK
  <2>4. HandlesBuilt'
    BY <2>1 DEF HandlesBuilt, Built
  <2>5. Exited' /\ Spawning' /\ Stopping'
    BY <2>1 DEF Exited, Spawning, Stopping, TypeOK
  <2> QED BY <2>2, <2>3, <2>4, <2>5
<1>6. CASE EngineEnds(i)
  <2>1. /\ thread[i] = "stop" /\ thread' = [thread EXCEPT ![i] = "end"]
        /\ engine' = [engine EXCEPT ![i] = "dropped"]
        /\ callers' = [callers EXCEPT ![i] = {}]
        /\ UNCHANGED <<main, ready, signal>>
    BY <1>6 DEF EngineEnds
  <2>2. TypeOK'
    BY <2>1 DEF TypeOK
  <2>3. InStep'
    BY <2>1 DEF InStep, TypeOK
  <2>4. HandlesBuilt'
    BY <2>1 DEF HandlesBuilt, Built, TypeOK, Handles
  <2>5. Exited' /\ Spawning' /\ Stopping'
    BY <2>1 DEF Exited, Spawning, Stopping, TypeOK
  <2> QED BY <2>2, <2>3, <2>4, <2>5
<1> QED BY <1>1, <1>2, <1>3, <1>4, <1>5, <1>6 DEF WorkerStep

\* The main thread spawns: a thread begins to build.
LEMMA SpawnIInv ==
    ASSUME IInv, Spawn \/ SpawnFails
    PROVE  IInv'
<1> USE DEF IInv
<1>1. CASE Spawn
  <2> DEFINE i == main.spawned + 1
  <2>1. /\ main.at = "spawn" /\ thread' = [thread EXCEPT ![i] = "build"]
        /\ main' = [main EXCEPT !.spawned = i, !.at = IF i = N THEN "receive" ELSE "spawn"]
        /\ UNCHANGED <<engine, callers, ready, signal>>
    BY <1>1 DEF Spawn, TypeOK
  <2>2. /\ i \in Worker /\ i \in 0..N /\ main.spawned \in Nat /\ (i # N => i < N)
        /\ i > main.spawned
    BY <2>1, WorkersAssumption DEF Spawning, TypeOK, Worker
  <2>3. /\ main'.at \in {"receive", "spawn"} /\ main'.spawned = i
        /\ main'.handles = main.handles /\ main'.stop = main.stop
        /\ main'.at = "spawn" => i < N
    BY <2>1, <2>2 DEF TypeOK
  <2>4. TypeOK'
    BY <2>1, <2>2 DEF TypeOK
  <2>5. InStep'
    <3>1. thread[i] = "none" /\ engine[i] = "none"
      BY <2>2 DEF InStep
    <3>2. \A j \in Worker : j \in Nat
      BY WorkersAssumption DEF Worker
    <3>3. \A j \in Worker : j > i => j > main.spawned /\ j # i
      BY <2>2, <3>2
    <3> HIDE DEF i
    <3> QED BY <2>1, <2>2, <2>3, <3>1, <3>3 DEF InStep, TypeOK
  <2>6. HandlesBuilt' /\ Exited' /\ Spawning' /\ Stopping'
    BY <2>1, <2>3 DEF HandlesBuilt, Built, Exited, Spawning, Stopping
  <2> QED BY <2>4, <2>5, <2>6
<1>2. CASE SpawnFails
  <2>1. /\ main' = [main EXCEPT !.failed = TRUE, !.at = "receive"]
        /\ UNCHANGED <<thread, engine, callers, ready, signal>>
    BY <1>2 DEF SpawnFails
  <2>2. /\ main'.at = "receive" /\ main'.spawned = main.spawned
        /\ main'.handles = main.handles /\ main'.stop = main.stop
    BY <2>1 DEF TypeOK
  <2>3. TypeOK'
    BY <2>1 DEF TypeOK
  <2>4. InStep' /\ HandlesBuilt' /\ Exited' /\ Spawning' /\ Stopping'
    BY <2>1, <2>2 DEF InStep, HandlesBuilt, Built, Exited, Spawning, Stopping
  <2> QED BY <2>3, <2>4
<1> QED BY <1>1, <1>2

\* The main thread receives: what it appends to its handles was built.
LEMMA ReceiveIInv ==
    ASSUME IInv, Receive
    PROVE  IInv'
<1> USE DEF IInv
<1> DEFINE ok == Head(ready)[2]
           handles == IF ok THEN Append(main.handles, Head(ready)[1]) ELSE main.handles
<1>1. /\ ready # <<>> /\ main.at = "receive" /\ ready' = Tail(ready)
      /\ main' = [main EXCEPT !.received = @ + 1, !.handles = handles,
                              !.failed = @ \/ ~ok]
      /\ UNCHANGED <<thread, engine, callers, signal>>
  BY DEF Receive, TypeOK
<1>2. /\ ready \in Seq(Worker \X BOOLEAN) /\ Head(ready) \in Worker \X BOOLEAN
      /\ Head(ready) = ready[1] /\ 1 \in 1..Len(ready) /\ Tail(ready) \in Seq(Worker \X BOOLEAN)
      /\ \A k \in 1..Len(Tail(ready)) : Tail(ready)[k] = ready[k + 1] /\ k + 1 \in 1..Len(ready)
  BY <1>1 DEF TypeOK
<1>3. handles \in Handles /\ Built(handles)
  <2>1. main.handles \in Handles /\ Built(main.handles)
    BY DEF HandlesBuilt, TypeOK
  <2>2. CASE ok
    <3>1. engine[Head(ready)[1]] # "none" /\ Head(ready)[1] \in Worker
      BY <1>2, <2>2 DEF HandlesBuilt
    <3>2. handles = Append(main.handles, Head(ready)[1])
      BY <2>2
    <3> QED BY <2>1, <3>1, <3>2 DEF Built, Handles
  <2>3. CASE ~ok
    BY <2>1, <2>3
  <2> QED BY <2>2, <2>3
<1>4. main.received + 1 \in Nat /\ (main.failed \/ ~ok) \in BOOLEAN
  BY DEF TypeOK
<1> HIDE DEF handles, ok
<1>5. /\ main'.at = "receive" /\ main'.spawned = main.spawned
      /\ main'.handles = handles /\ main'.stop = main.stop
  BY <1>1 DEF TypeOK
<1>6. main' \in [at : {"spawn", "receive", "wait", "stop", "stopping", "exit"},
                 failed : BOOLEAN, spawned : 0..N, received : Nat,
                 handles : Handles, stop : Handles]
  BY <1>1, <1>3, <1>4 DEF TypeOK
<1>7. TypeOK'
  BY <1>1, <1>2, <1>6 DEF TypeOK
<1>8. InStep' /\ Exited' /\ Spawning' /\ Stopping'
  BY <1>1, <1>5 DEF InStep, Exited, Spawning, Stopping
<1>9. \A k \in 1..Len(ready') : ready'[k][2] => engine[ready'[k][1]] # "none"
  BY <1>1, <1>2 DEF HandlesBuilt
<1>10. HandlesBuilt'
  BY <1>1, <1>3, <1>5, <1>9 DEF HandlesBuilt, Built
<1> QED BY <1>7, <1>8, <1>10

\* The main thread goes on to wait, to stop the engines, or to exit.
LEMMA MainIInv ==
    ASSUME IInv, Received \/ FirstDone \/ StopReturns \/ Join
    PROVE  IInv'
<1> USE DEF IInv
<1>1. main.stop \in Handles /\ (main.stop # <<>> => Tail(main.stop) \in Handles /\ Built(Tail(main.stop)))
  BY DEF TypeOK, HandlesBuilt, Built, Handles
<1>2. CASE Received \/ FirstDone
  <2>1. /\ \/ main' = [main EXCEPT !.at = "stop", !.stop = main.handles]
           \/ main' = [main EXCEPT !.at = "wait"]
        /\ UNCHANGED <<thread, engine, callers, ready>>
        /\ signal' = signal \/ signal' = [signal EXCEPT !.at = "set"]
    BY <1>2 DEF Received, FirstDone
  <2>2. /\ main'.at \in {"stop", "wait"} /\ main'.spawned = main.spawned
        /\ main'.handles = main.handles /\ main'.stop \in {main.stop, main.handles}
        /\ signal'.stop = signal.stop /\ signal'.at \in {signal.at, "set"}
    BY <2>1 DEF TypeOK
  <2>3. TypeOK'
    <3>1. main' \in [at : {"spawn", "receive", "wait", "stop", "stopping", "exit"},
                     failed : BOOLEAN, spawned : 0..N, received : Nat,
                     handles : Handles, stop : Handles]
      BY <2>1 DEF TypeOK
    <3>2. signal' \in [at : {"unset", "set", "stop", "stopping"}, stop : Handles]
      BY <2>1 DEF TypeOK
    <3> QED BY <2>1, <3>1, <3>2 DEF TypeOK
  <2>4. InStep' /\ HandlesBuilt' /\ Exited' /\ Spawning' /\ Stopping'
    BY <2>1, <2>2 DEF InStep, HandlesBuilt, Built, Exited, Spawning, Stopping
  <2> QED BY <2>3, <2>4
<1>3. CASE StopReturns
  <2>1. /\ main' = [main EXCEPT !.at = "stop", !.stop = Tail(main.stop)]
        /\ UNCHANGED <<thread, engine, callers, ready, signal>>
        /\ main.at = "stopping"
    BY <1>3 DEF StopReturns, TypeOK
  <2>2. Tail(main.stop) \in Handles /\ Built(Tail(main.stop))
    BY <1>1, <2>1 DEF Stopping
  <2>3. /\ main'.at = "stop" /\ main'.spawned = main.spawned
        /\ main'.handles = main.handles /\ main'.stop = Tail(main.stop)
    BY <2>1 DEF TypeOK
  <2>4. TypeOK'
    BY <2>1, <2>2 DEF TypeOK
  <2>5. InStep' /\ HandlesBuilt' /\ Exited' /\ Spawning' /\ Stopping'
    BY <2>1, <2>2, <2>3 DEF InStep, HandlesBuilt, Built, Exited, Spawning, Stopping
  <2> QED BY <2>4, <2>5
<1>4. CASE Join
  <2>1. /\ main' = [main EXCEPT !.at = "exit"]
        /\ \A i \in 1..main.spawned : thread[i] = "end"
        /\ UNCHANGED <<thread, engine, callers, ready, signal>>
    BY <1>4 DEF Join
  <2>2. /\ main'.at = "exit" /\ main'.spawned = main.spawned
        /\ main'.handles = main.handles /\ main'.stop = main.stop
    BY <2>1 DEF TypeOK
  <2>3. TypeOK'
    BY <2>1 DEF TypeOK
  <2>4. \A i \in Worker : i \in 1..main.spawned \/ i > main.spawned
    BY WorkersAssumption DEF TypeOK, Worker
  <2>5. Exited'
    BY <2>1, <2>4 DEF Exited, InStep
  <2>6. InStep' /\ HandlesBuilt' /\ Spawning' /\ Stopping'
    BY <2>1, <2>2 DEF InStep, HandlesBuilt, Built, Spawning, Stopping
  <2> QED BY <2>3, <2>5, <2>6
<1> QED BY <1>2, <1>3, <1>4

\* A call of shutdown() on a handle finds an engine that was built: it blocks on
\* one that will end, and not on one that ended.
LEMMA CallFine ==
    ASSUME IInv, NEW c, NEW s \in Handles, s # <<>>, Built(s),
           CallShutdown(c, Head(s))
    PROVE  /\ DOMAIN callers' = Worker
           /\ \A j \in Worker : callers'[j] # {} => engine[j] \in {"built", "running"}
<1> USE DEF IInv
<1>1. Head(s) \in Worker /\ engine[Head(s)] # "none"
  BY DEF Built, Handles
<1>2. engine[Head(s)] \in {"dropped", "built", "running"}
  BY <1>1 DEF TypeOK
<1>3. CASE engine[Head(s)] = "dropped"
  BY <1>3 DEF CallShutdown, InStep, TypeOK
<1>4. CASE engine[Head(s)] # "dropped"
  <2>1. callers' = [callers EXCEPT ![Head(s)] = @ \cup {c}]
    BY <1>4 DEF CallShutdown
  <2> QED BY <1>1, <1>2, <1>4, <2>1 DEF InStep, TypeOK
<1> QED BY <1>3, <1>4

\* The main thread or the signal handler calls shutdown().
LEMMA StopIInv ==
    ASSUME IInv, StopNext \/ SignalStop
    PROVE  IInv'
<1> USE DEF IInv
<1>1. CASE StopNext
  <2>1. /\ main.stop # <<>> /\ CallShutdown(<<"main">>, Head(main.stop))
        /\ main' = [main EXCEPT !.at = "stopping"]
        /\ UNCHANGED <<thread, engine, ready, signal>>
    BY <1>1 DEF StopNext
  <2>2. main.stop \in Handles /\ Built(main.stop)
    BY DEF TypeOK, HandlesBuilt
  <2>3. /\ DOMAIN callers' = Worker
        /\ \A j \in Worker : callers'[j] # {} => engine[j] \in {"built", "running"}
    BY <2>1, <2>2, CallFine
  <2>4. /\ main'.at = "stopping" /\ main'.spawned = main.spawned
        /\ main'.handles = main.handles /\ main'.stop = main.stop
    BY <2>1 DEF TypeOK
  <2>5. TypeOK'
    BY <2>1, <2>3 DEF TypeOK
  <2>6. InStep' /\ HandlesBuilt' /\ Exited' /\ Spawning' /\ Stopping'
    BY <2>1, <2>3, <2>4 DEF InStep, HandlesBuilt, Built, Exited, Spawning, Stopping
  <2> QED BY <2>5, <2>6
<1>2. CASE SignalStop
  <2>1. /\ signal.stop # <<>> /\ CallShutdown(<<"signal">>, Head(signal.stop))
        /\ signal' = [signal EXCEPT !.at = "stopping"]
        /\ UNCHANGED <<main, thread, engine, ready>>
    BY <1>2 DEF SignalStop
  <2>2. signal.stop \in Handles /\ Built(signal.stop)
    BY DEF TypeOK, HandlesBuilt
  <2>3. /\ DOMAIN callers' = Worker
        /\ \A j \in Worker : callers'[j] # {} => engine[j] \in {"built", "running"}
    BY <2>1, <2>2, CallFine
  <2>4. signal'.at = "stopping" /\ signal'.stop = signal.stop
    BY <2>1 DEF TypeOK
  <2>5. TypeOK'
    BY <2>1, <2>3 DEF TypeOK
  <2>6. InStep' /\ HandlesBuilt' /\ Exited' /\ Spawning' /\ Stopping'
    BY <2>1, <2>3, <2>4 DEF InStep, HandlesBuilt, Built, Exited, Spawning, Stopping
  <2> QED BY <2>5, <2>6
<1> QED BY <1>1, <1>2

\* A signal comes, or a shutdown() of its handler returns.
LEMMA SignalIInv ==
    ASSUME IInv, Signal \/ SignalReturns
    PROVE  IInv'
<1> USE DEF IInv
<1>1. PICK s \in Handles : /\ signal' = [at |-> "stop", stop |-> s] /\ Built(s)
                           /\ UNCHANGED <<main, thread, engine, callers, ready>>
  <2>1. CASE Signal
    BY <2>1 DEF Signal, TypeOK, HandlesBuilt
  <2>2. CASE SignalReturns
    <3>1. signal.stop \in Handles /\ signal.stop # <<>> /\ Built(signal.stop)
      BY <2>2 DEF SignalReturns, Stopping, TypeOK, HandlesBuilt
    <3>2. Tail(signal.stop) \in Handles /\ Built(Tail(signal.stop))
      BY <3>1 DEF Built, Handles
    <3> QED BY <2>2, <3>2 DEF SignalReturns
  <2> QED BY <2>1, <2>2
<1>2. TypeOK'
  BY <1>1 DEF TypeOK
<1>3. InStep' /\ HandlesBuilt' /\ Exited' /\ Spawning' /\ Stopping'
  BY <1>1 DEF InStep, HandlesBuilt, Built, Exited, Spawning, Stopping
<1> QED BY <1>2, <1>3

\* Every step keeps the invariant.
LEMMA NextIInv == IInv /\ [Next]_vars => IInv'
<1> SUFFICES ASSUME IInv, [Next]_vars PROVE IInv'
  OBVIOUS
<1>1. CASE \E i \in Worker : WorkerStep(i) \/ LeaveLoop(i)
  BY <1>1, WorkerIInv
<1>2. CASE MainStep
  BY <1>2, SpawnIInv, ReceiveIInv, MainIInv, StopIInv DEF MainStep
<1>3. CASE Signal \/ SignalStep
  BY <1>3, SignalIInv, StopIInv DEF SignalStep
<1>4. CASE UNCHANGED vars \/ Resting
  BY <1>4 DEF vars, Resting, IInv, TypeOK, InStep, HandlesBuilt, Built, Exited,
              Spawning, Stopping
<1> QED BY <1>1, <1>2, <1>3, <1>4 DEF Next

\* run_engine returns only when every worker thread has ended and nobody is
\* blocked in shutdown() of an engine, whatever the number of workers and
\* whichever of them fail.
THEOREM CleanExit == Spec => []ExitIsClean
<1>1. IInv => ExitIsClean
  BY DEF IInv, InStep, Exited, ExitIsClean, TypeOK
<1> QED BY <1>1, InitIInv, NextIInv, PTL DEF Spec
=============================================================================
