------------------------------ MODULE Workers -------------------------------
(* run_engine of the command line (crates/snolc-cli/src/main.rs): the main    *)
(* thread spawns worker threads, each of which builds and runs an engine, and *)
(* stops all of them when one fails to start, one ends, or a signal comes.    *)
(* EngineHandle::shutdown blocks its caller until the engine answers or is    *)
(* dropped; an engine answers only while run_loop runs.  The engine itself is *)
(* reduced to built, running and dropped.                                     *)
EXTENDS Integers, Sequences, FiniteSets

CONSTANTS
    N,          \* worker_threads, greater than 1
    Faults      \* the faults that may happen: "build", "spawn"

ASSUME WorkersAssumption == N \in Nat /\ N > 1

VARIABLES
    main,       \* the main thread: where it is, the startup error, the handles
                \* it still has to stop, what it received
    thread,     \* thread[i]: where worker thread i is
    engine,     \* engine[i]: "none", "built", "running", "dropped"
    callers,    \* callers[i]: threads blocked in shutdown() of engine i
    ready,      \* the ready channel: <<worker, built>>
    done,       \* the done channel
    cancelled,  \* the flag of failed starts
    signal      \* the signal handler: "unset", "set", or the handles to stop

vars == <<main, thread, engine, callers, ready, done, cancelled, signal>>

Worker == 1..N

Init ==
    /\ main = [at |-> "spawn", failed |-> FALSE, spawned |-> 0, received |-> 0,
               handles |-> <<>>, stop |-> <<>>]
    /\ thread = [i \in Worker |-> "none"]
    /\ engine = [i \in Worker |-> "none"]
    /\ callers = [i \in Worker |-> {}]
    /\ ready = <<>> /\ done = <<>>
    /\ cancelled = FALSE
    /\ signal = [at |-> "unset", stop |-> <<>>]
-----------------------------------------------------------------------------
(* A worker thread.                                                          *)

\* build_engine fails: raise the flag, report, end.
BuildFails(i) ==
    /\ "build" \in Faults /\ thread[i] = "build"
    /\ cancelled' = TRUE
    /\ ready' = Append(ready, <<i, FALSE>>)
    /\ thread' = [thread EXCEPT ![i] = "end"]
    /\ UNCHANGED <<main, engine, callers, done, signal>>

\* build_engine succeeds and the handle is sent.
BuildOk(i) ==
    /\ thread[i] = "build"
    /\ engine' = [engine EXCEPT ![i] = "built"]
    /\ ready' = Append(ready, <<i, TRUE>>)
    /\ thread' = [thread EXCEPT ![i] = "check"]
    /\ UNCHANGED <<main, callers, done, cancelled, signal>>

\* A worker that sees the flag calls shutdown() on its own engine, which it has
\* not started to run.
CallOwnShutdown(i) ==
    /\ thread[i] = "check" /\ cancelled
    /\ thread' = [thread EXCEPT ![i] = "shutdown"]
    /\ callers' = [callers EXCEPT ![i] = @ \cup {<<"worker", i>>}]
    /\ UNCHANGED <<main, engine, ready, done, cancelled, signal>>

\* The worker runs the engine: the flag was down, or its own shutdown() returned.
RunEngine(i) ==
    /\ \/ thread[i] = "check" /\ ~cancelled
       \/ thread[i] = "shutdown" /\ <<"worker", i>> \notin callers[i]
    /\ thread' = [thread EXCEPT ![i] = "run"]
    /\ engine' = [engine EXCEPT ![i] = "running"]
    /\ UNCHANGED <<main, callers, ready, done, cancelled, signal>>

\* run_loop takes a Shutdown command, answers its sender and leaves its loop.
TakeShutdown(i) ==
    /\ thread[i] = "run"
    /\ \E c \in callers[i] : callers' = [callers EXCEPT ![i] = @ \ {c}]
    /\ thread' = [thread EXCEPT ![i] = "stop"]
    /\ UNCHANGED <<main, engine, ready, done, cancelled, signal>>

\* run_loop leaves its loop for another reason: it failed to start, or the VPN
\* permission was revoked.
LeaveLoop(i) ==
    /\ thread[i] = "run"
    /\ thread' = [thread EXCEPT ![i] = "stop"]
    /\ UNCHANGED <<main, engine, callers, ready, done, cancelled, signal>>

\* Variant: the command queue outlives the engine, so its callers keep waiting.
EngineEnds_queue_kept(i) ==
    /\ thread[i] = "stop"
    /\ engine' = [engine EXCEPT ![i] = "dropped"]
    /\ done' = Append(done, i)
    /\ thread' = [thread EXCEPT ![i] = "end"]
    /\ UNCHANGED <<main, callers, ready, cancelled, signal>>

\* run returns: the dropped command queue releases the other callers, and the
\* result is sent.
EngineEnds(i) ==
    /\ thread[i] = "stop"
    /\ engine' = [engine EXCEPT ![i] = "dropped"]
    /\ callers' = [callers EXCEPT ![i] = {}]
    /\ done' = Append(done, i)
    /\ thread' = [thread EXCEPT ![i] = "end"]
    /\ UNCHANGED <<main, ready, cancelled, signal>>
-----------------------------------------------------------------------------
(* The main thread.                                                          *)

Spawn ==
    /\ main.at = "spawn"
    /\ thread' = [thread EXCEPT ![main.spawned + 1] = "build"]
    /\ main' = [main EXCEPT !.spawned = @ + 1,
                            !.at = IF main.spawned + 1 = N THEN "receive" ELSE "spawn"]
    /\ UNCHANGED <<engine, callers, ready, done, cancelled, signal>>

\* thread::Builder::spawn fails: only the threads spawned so far are awaited.
SpawnFails ==
    /\ "spawn" \in Faults /\ main.at = "spawn"
    /\ cancelled' = TRUE
    /\ main' = [main EXCEPT !.failed = TRUE, !.at = "receive"]
    /\ UNCHANGED <<thread, engine, callers, ready, done, signal>>

\* One ready_rx.recv(): a handle, or the error of a worker.
Receive ==
    /\ main.at = "receive" /\ main.received < main.spawned /\ ready # <<>>
    /\ LET ok == Head(ready)[2] IN
         /\ main' = [main EXCEPT !.received = @ + 1,
                        !.handles = IF ok THEN Append(@, Head(ready)[1]) ELSE @,
                        !.failed = @ \/ ~ok]
         /\ cancelled' = (cancelled \/ ~ok)
    /\ ready' = Tail(ready)
    /\ UNCHANGED <<thread, engine, callers, done, signal>>

\* All workers have reported: stop the others, or set the signal handler and
\* wait.
Received ==
    /\ main.at = "receive" /\ main.received = main.spawned
    /\ IF main.failed
       THEN /\ main' = [main EXCEPT !.at = "stop", !.stop = main.handles]
            /\ UNCHANGED signal
       ELSE /\ main' = [main EXCEPT !.at = "wait"]
            /\ signal' = [signal EXCEPT !.at = "set"]
    /\ UNCHANGED <<thread, engine, callers, ready, done, cancelled>>

\* done_rx.recv() returns the first result.
FirstDone ==
    /\ main.at = "wait" /\ done # <<>>
    /\ done' = Tail(done)
    /\ main' = [main EXCEPT !.at = "stop", !.stop = main.handles]
    /\ UNCHANGED <<thread, engine, callers, ready, cancelled, signal>>

\* shutdown() sends its command to an engine that exists and blocks; for a
\* dropped engine it returns at once.
CallShutdown(caller, i) ==
    callers' = IF engine[i] = "dropped" THEN callers
               ELSE [callers EXCEPT ![i] = @ \cup {caller}]

StopNext ==
    /\ main.at = "stop" /\ main.stop # <<>>
    /\ CallShutdown(<<"main">>, Head(main.stop))
    /\ main' = [main EXCEPT !.at = "stopping"]
    /\ UNCHANGED <<thread, engine, ready, done, cancelled, signal>>

StopReturns ==
    /\ main.at = "stopping" /\ <<"main">> \notin callers[Head(main.stop)]
    /\ main' = [main EXCEPT !.at = "stop", !.stop = Tail(@)]
    /\ UNCHANGED <<thread, engine, callers, ready, done, cancelled, signal>>

\* Variant: the threads are detached.
Join_none ==
    /\ main.at = "stop" /\ main.stop = <<>>
    /\ main' = [main EXCEPT !.at = "exit"]
    /\ UNCHANGED <<thread, engine, callers, ready, done, cancelled, signal>>

\* join() of every thread, then run_engine returns.
Join ==
    /\ main.at = "stop" /\ main.stop = <<>>
    /\ \A i \in 1..main.spawned : thread[i] = "end"
    /\ main' = [main EXCEPT !.at = "exit"]
    /\ UNCHANGED <<thread, engine, callers, ready, done, cancelled, signal>>
-----------------------------------------------------------------------------
(* The signal handler's thread stops the engines one after the other.        *)

Signal ==
    /\ signal.at = "set"
    /\ signal' = [at |-> "stop", stop |-> main.handles]
    /\ UNCHANGED <<main, thread, engine, callers, ready, done, cancelled>>

SignalStop ==
    /\ signal.at = "stop" /\ signal.stop # <<>>
    /\ CallShutdown(<<"signal">>, Head(signal.stop))
    /\ signal' = [signal EXCEPT !.at = "stopping"]
    /\ UNCHANGED <<main, thread, engine, ready, done, cancelled>>

SignalReturns ==
    /\ signal.at = "stopping" /\ <<"signal">> \notin callers[Head(signal.stop)]
    /\ signal' = [at |-> "stop", stop |-> Tail(signal.stop)]
    /\ UNCHANGED <<main, thread, engine, callers, ready, done, cancelled>>

-----------------------------------------------------------------------------
WorkerStep(i) ==
    \/ BuildFails(i) \/ BuildOk(i) \/ CallOwnShutdown(i) \/ RunEngine(i)
    \/ TakeShutdown(i) \/ EngineEnds(i)
MainStep ==
    \/ Spawn \/ SpawnFails \/ Receive \/ Received \/ FirstDone
    \/ StopNext \/ StopReturns \/ Join
SignalStep == SignalStop \/ SignalReturns

\* run_engine has returned, or every engine runs and nobody asked for an end.
Resting ==
    /\ main.at = "exit" \/ (main.at = "wait" /\ done = <<>>)
    /\ UNCHANGED vars

Next ==
    \/ \E i \in Worker : WorkerStep(i) \/ LeaveLoop(i)
    \/ MainStep
    \/ Signal \/ SignalStep
    \/ Resting

\* Threads that are not blocked run.  An engine need never end by itself and a
\* signal need never come.
Fairness ==
    /\ \A i \in Worker : WF_vars(WorkerStep(i))
    /\ WF_vars(MainStep)
    /\ WF_vars(SignalStep)

Spec == Init /\ [][Next]_vars /\ Fairness
-----------------------------------------------------------------------------
(* Properties.                                                               *)

\* When one engine ends, for whatever reason, or a signal comes, the process
\* ends: no thread stays blocked in shutdown() of an engine or in join(),
\* provided that no start failed.
OneEndsAll ==
    ((\E i \in Worker : thread[i] = "stop") \/ signal.at = "stop")
        ~> (main.at = "exit" \/ cancelled)

\* run_engine returns only when every thread has ended and nobody waits for an
\* engine, the signal handler excepted, whose engines are all gone.
ExitIsClean ==
    main.at = "exit" =>
        \A i \in Worker : thread[i] \in {"none", "end"} /\ callers[i] = {}

\* A failure to start ends the process with its error.
FailedStartExits == main.failed ~> main.at = "exit"
=============================================================================
