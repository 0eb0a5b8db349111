------------------------------- MODULE Engine -------------------------------
(* Engine::run_loop of crates/snolc/src/engine.rs, with the threads that hold  *)
(* its EngineHandle and the local clients of its control socket.               *)
(*                                                                             *)
(* The engine is one thread.  at says where its loop is, and each action is    *)
(* one of the functions that a turn of the loop calls in order; callers and    *)
(* clients act in between.  Events and log records are left out, except that   *)
(* emitting a lifecycle event sets the lifecycle of the snapshot.              *)
EXTENDS Integers, Sequences, FiniteSets, Functions, Tunnel, Control

CONSTANTS
    Callers, Clients,   \* threads with a handle, clients of the socket
    Configs,            \* configurations: roles (of the tunnels), callers and what they
                        \* call (ops), whether they may drop the handle (drops),
                        \* clients, modules (their number)
    MaxCommands         \* max_commands

\* Calls of EngineHandle; those that wait for an answer.
Waits == {"control", "unknown", "shutdown", "network_changed", "revoked"}
Ops == Waits \cup {"request_shutdown", "request_network_changed", "request_revoked"}

ASSUME EngineAssumption ==
    /\ MaxCommands \in Nat /\ MaxConnections \in Nat /\ MaxActive \in Nat
    /\ \A c \in Configs : /\ c.callers \subseteq Callers /\ c.clients \subseteq Clients
                          /\ c.ops \subseteq Ops /\ c.roles \in Seq({"client", "server"})
    /\ Callers \cap Clients = {} /\ IsFiniteSet(Clients)

VARIABLES
    config,
    at,                 \* the next step of the loop
    created, stopped,   \* modules with an instance, modules that have shut down
    lifecycle, sessions, flows,         \* AtomicSnapshot
    tunnels,
    commands,           \* the queue of commands
    handle,             \* an EngineHandle exists
    calls,              \* of each caller: what it called and the result
    pending_controls,
    conns,              \* control server
    clock               \* shutdown_deadline

vars == <<config, at, created, stopped, lifecycle, sessions, flows, tunnels, commands,
          handle, calls, pending_controls, conns, clock>>

snapshot == <<lifecycle, sessions, flows>>

Modules == 1..config.modules

Init ==
    /\ config \in Configs
    /\ at = "start" /\ created = {} /\ stopped = {}
    /\ lifecycle = "configured" /\ sessions = 0 /\ flows = 0
    /\ tunnels = <<>> /\ commands = <<>> /\ handle = TRUE
    /\ calls = [c \in Callers |-> [op |-> "none", result |-> "none"]]
    /\ pending_controls = <<>>
    /\ conns = [c \in Clients |-> NewConnection]
    /\ clock = "none"
-----------------------------------------------------------------------------
(* The end of run_loop drops the engine: the senders of all answers that were  *)
(* not given, the command queue and the control socket.                        *)

\* Variant: the answers that callers wait for are kept somewhere.
Drop_callers_kept ==
    /\ at' = "returned"
    /\ commands' = <<>> /\ pending_controls' = <<>>
    /\ conns' = [c \in Clients |-> IF c \in Held(conns) \/ conns[c].state = "backlog"
                                   THEN Close(conns[c]) ELSE conns[c]]
    /\ UNCHANGED calls

Drop ==
    /\ at' = "returned"
    /\ commands' = <<>> /\ pending_controls' = <<>>
    /\ calls' = [c \in Callers |-> IF calls[c].result = "waiting"
                                   THEN [calls[c] EXCEPT !.result = "stopped"] ELSE calls[c]]
    /\ conns' = [c \in Clients |-> IF c \in Held(conns) \/ conns[c].state = "backlog"
                                   THEN Close(conns[c]) ELSE conns[c]]

Starting ==
    /\ at = "start" /\ at' = "create" /\ lifecycle' = "starting"
    /\ UNCHANGED <<config, created, stopped, sessions, flows, tunnels, commands, handle,
                   calls, pending_controls, conns, clock>>

\* One module of the loop that creates them; its error ends the engine.
CreateModule ==
    /\ at = "create" /\ created # Modules
    /\ \E result \in {create(FALSE, a) : a \in Answers} :
        IF result = "ok"
        THEN /\ created' = created \cup {Cardinality(created) + 1}
             /\ UNCHANGED <<at, lifecycle, commands, calls, pending_controls, conns>>
        ELSE Drop /\ lifecycle' = "failed" /\ UNCHANGED created
    /\ UNCHANGED <<config, stopped, sessions, flows, tunnels, handle, clock>>

\* The stack and the packet ports: an error leaves through `?`.
Prepare ==
    /\ at = "create" /\ created = Modules
    /\ \E result \in {adapter_attach_packet_port(supported, a) :
                        supported \in BOOLEAN, a \in Answers} :
        IF result \in {"ok", "unsupported"}
        THEN /\ at' = "command" /\ lifecycle' = "running"
             /\ tunnels' = [i \in DOMAIN config.roles |-> new_tunnel(config.roles[i])]
             /\ UNCHANGED <<commands, calls, pending_controls, conns>>
        ELSE Drop /\ UNCHANGED <<lifecycle, tunnels>>
    /\ UNCHANGED <<config, created, stopped, sessions, flows, handle, clock>>
-----------------------------------------------------------------------------
(* Commands and controls.                                                      *)

\* The result goes to the caller, or into the channel a connection waits for.
Answered(from, result) ==
    /\ calls' = [c \in Callers |-> IF c \in from THEN [calls[c] EXCEPT !.result = result]
                                   ELSE calls[c]]
    /\ conns' = [c \in Clients |-> IF c \in from THEN [conns[c] EXCEPT !.answer = result]
                                   ELSE conns[c]]

\* Variant: a control that is answered goes back to the queue.
poll_controls_requeued(controls) ==
    {[left |-> controls, done |-> S] : S \in SUBSET Range(controls)}

\* poll_controls: every control once, in order; those whose module is not done, at
\* the positions kept, go back to the end.
poll_controls(controls) ==
    {[left |-> [k \in DOMAIN kept |-> controls[kept[k]]],
      done |-> {controls[k] : k \in DOMAIN controls \ Range(kept)}] :
        kept \in {p \in UNION {[1..n -> DOMAIN controls] : n \in 0..Len(controls)} :
                    \A j, k \in DOMAIN p : j < k => p[j] < p[k]}}

\* Command::Control, start_control: an unknown instance is answered at once, a
\* known one waits behind the others, and all are polled.
Control(command) ==
    IF command.op = "unknown"
    THEN Answered({command.from}, "error") /\ UNCHANGED pending_controls
    ELSE \E polled \in poll_controls(Append(pending_controls, command.from)) :
            Answered(polled.done, "ok") /\ pending_controls' = polled.left

\* Command::Shutdown, or VpnPermissionRevoked: answered before anything is stopped.
Stop(from) ==
    /\ lifecycle' = "stopping" /\ at' = "stop"
    /\ Answered(from, "ok")
    /\ UNCHANGED <<tunnels, sessions, flows, pending_controls>>

\* Variant: the counters are left to the next poll of the tunnels.
NetworkChanged_uncounted(from) ==
    /\ tunnels' = [i \in DOMAIN tunnels |-> reset(tunnels[i])]
    /\ Answered(from, "ok")
    /\ at' = "control"
    /\ UNCHANGED <<snapshot, pending_controls>>

\* NetworkChanged: every tunnel starts again.
NetworkChanged(from) ==
    /\ tunnels' = [i \in DOMAIN tunnels |-> reset(tunnels[i])]
    /\ sessions' = 0 /\ flows' = 0
    /\ Answered(from, "ok")
    /\ at' = "control"
    /\ UNCHANGED <<lifecycle, pending_controls>>

\* The turn begins with at most one command.  Requests have no channel to answer.
TakeCommand ==
    /\ at = "command" /\ commands # <<>>
    /\ commands' = Tail(commands)
    /\ LET command == Head(commands) IN
       \/ /\ command.op \in {"control", "unknown"}
          /\ Control(command)
          /\ at' = "control"
          /\ UNCHANGED <<tunnels, snapshot>>
       \/ /\ command.op \in {"shutdown", "revoked"}
          /\ Stop({command.from})
       \/ /\ command.op \in {"request_shutdown", "request_revoked"}
          /\ Stop({})
       \/ /\ command.op = "network_changed"
          /\ NetworkChanged({command.from})
       \/ /\ command.op = "request_network_changed"
          /\ NetworkChanged({})
    /\ UNCHANGED <<config, created, stopped, handle, clock>>

\* A sender lives as long as its handle, or the call that cloned it.
Senders == handle \/ \E c \in Callers : calls[c].result = "waiting"

NoCommand ==
    /\ at = "command" /\ commands = <<>>
    /\ IF Senders
       THEN /\ at' = "control"
            /\ UNCHANGED <<tunnels, snapshot, calls, conns, pending_controls>>
       ELSE Stop({})
    /\ UNCHANGED <<config, created, stopped, commands, handle, clock>>

\* stack.poll and poll_modules change nothing here: a module's error is an event.
\* poll_local_control: the server's connections, their requests in any order, and
\* every control once.
PollLocalControl ==
    /\ at = "control" /\ at' = "tunnels"
    /\ \E polled \in poll_server(conns) :
       LET known == {c \in Requests(polled) : polled[c].instance = "known"}
           served == [c \in Clients |->
                        IF c \in known THEN wait_for(polled[c])
                        ELSE IF c \in Requests(polled) THEN reject(polled[c]) ELSE polled[c]]
       IN \E order \in Bijection(1..Cardinality(known), known) :
          \E controls \in poll_controls(pending_controls \o order) :
            /\ pending_controls' = controls.left
            /\ conns' = [c \in Clients |-> IF c \in controls.done
                                           THEN [served[c] EXCEPT !.answer = "ok"] ELSE served[c]]
            /\ calls' = [c \in Callers |-> IF c \in controls.done
                                           THEN [calls[c] EXCEPT !.result = "ok"] ELSE calls[c]]
    /\ UNCHANGED <<config, created, stopped, snapshot, tunnels, commands, handle, clock>>

\* poll_tunnels: each tunnel once, then the counters.
PollTunnels ==
    /\ at = "tunnels" /\ at' = "command"
    /\ \E polled \in [DOMAIN tunnels -> UNION {poll_tunnel(tunnels[i]) : i \in DOMAIN tunnels}] :
        /\ \A i \in DOMAIN tunnels : polled[i] \in poll_tunnel(tunnels[i])
        /\ tunnels' = [i \in DOMAIN tunnels |-> polled[i].tunnel]
        /\ flows' = FoldFunction(+, 0, [i \in DOMAIN tunnels |-> flow_count(polled[i].tunnel)])
        /\ sessions' = sessions
                + Cardinality({i \in DOMAIN tunnels : polled[i].update = "established"})
                - Cardinality({i \in DOMAIN tunnels : polled[i].was_established})
    /\ UNCHANGED <<config, created, stopped, lifecycle, commands, handle, calls,
                   pending_controls, conns, clock>>
-----------------------------------------------------------------------------
(* After the loop.                                                             *)

DropTunnels ==
    /\ at = "stop" /\ at' = "shutdown"
    /\ tunnels' = <<>> /\ sessions' = 0
    /\ clock' = "running"
    /\ UNCHANGED <<config, created, stopped, lifecycle, flows, commands, handle, calls,
                   pending_controls, conns>>

\* A module has stopped when poll_shutdown is done, and when poll fails meanwhile.
Stops(a, b) == poll_shutdown(TRUE, a) # "pending" \/ poll_module(TRUE, b) # "ok"

\* One round over the modules, the last one first.  The engine ends when all have
\* stopped or the deadline has passed.
Shutdown ==
    /\ at = "shutdown"
    /\ \E now \in {S \in SUBSET (Modules \ stopped) :
                    \A m \in Modules \ stopped : (m \in S) \in {Stops(a, b) : a, b \in Answers}} :
        /\ stopped' = stopped \cup now
        /\ IF stopped' = Modules \/ clock = "passed"
           THEN Drop /\ lifecycle' = "stopped"
           ELSE UNCHANGED <<at, commands, calls, pending_controls, conns, lifecycle>>
    /\ UNCHANGED <<config, created, sessions, flows, tunnels, handle, clock>>
-----------------------------------------------------------------------------
(* Time, callers and clients.                                                  *)

Elapse(i) ==
    /\ i \in DOMAIN tunnels
    /\ \E t \in Elapsed(tunnels[i]) : tunnels' = [tunnels EXCEPT ![i] = t]
    /\ UNCHANGED <<config, at, created, stopped, snapshot, commands, handle, calls,
                   pending_controls, conns, clock>>

ShutdownTimeout ==
    /\ clock = "running" /\ clock' = "passed"
    /\ UNCHANGED <<config, at, created, stopped, snapshot, tunnels, commands, handle, calls,
                   pending_controls, conns>>

\* EngineHandle: each call clones its sender, and a bounded channel of the futures
\* crate has one place for every sender besides its buffer, so that try_send fails
\* only when the engine is gone.
try_send(command) ==
    IF at = "returned" THEN {} ELSE {Append(commands, command)}

Call(c) ==
    /\ handle /\ c \in config.callers /\ calls[c].op = "none"
    /\ \E op \in config.ops :
       LET sent == try_send([op |-> op, from |-> c]) IN
        /\ calls' = [calls EXCEPT ![c] =
                        [op |-> op, result |-> IF sent = {} THEN "command_queue"
                                               ELSE IF op \in Waits THEN "waiting" ELSE "ok"]]
        /\ commands' = IF sent = {} THEN commands ELSE CHOOSE q \in sent : TRUE
    /\ UNCHANGED <<config, at, created, stopped, snapshot, tunnels, handle,
                   pending_controls, conns, clock>>

DropHandle ==
    /\ config.drops /\ handle /\ handle' = FALSE
    /\ UNCHANGED <<config, at, created, stopped, snapshot, tunnels, commands, calls,
                   pending_controls, conns, clock>>

\* What a client of the socket does: connect, send some of a request, go away.
ClientStep(c) ==
    LET k == conns[c] IN
    {[k EXCEPT !.state = IF at = "returned" THEN "closed" ELSE "backlog",
               !.instance = i] : i \in IF k.state = "absent" THEN {"known", "unknown"} ELSE {}}
    \cup {[k EXCEPT !.sent = s] :
            s \in IF k.state \in {"backlog", "reading"} /\ ~k.gone
                  THEN CASE k.sent = "nothing" -> {"part", "whole"}
                         [] k.sent = "part" -> {"whole", "extra"}
                         [] OTHER -> {}
                  ELSE {}}
    \cup (IF k.state \notin {"absent", "closed"} /\ ~k.gone
          THEN {[k EXCEPT !.gone = TRUE]} ELSE {})

Client(c) ==
    /\ c \in config.clients
    /\ \E k \in ClientStep(c) : conns' = [conns EXCEPT ![c] = k]
    /\ UNCHANGED <<config, at, created, stopped, snapshot, tunnels, commands, handle, calls,
                   pending_controls, clock>>

Loop ==
    \/ Starting \/ CreateModule \/ Prepare
    \/ TakeCommand \/ NoCommand \/ PollLocalControl \/ PollTunnels
    \/ DropTunnels \/ Shutdown

Next ==
    \/ Loop
    \/ \E i \in DOMAIN tunnels : Elapse(i)
    \/ ShutdownTimeout
    \/ \E c \in Callers : Call(c)
    \/ DropHandle
    \/ \E c \in Clients : Client(c)

\* The engine's thread keeps running, and time passes.
Fairness ==
    /\ WF_vars(Loop)
    /\ \A i \in 1..2 : WF_vars(Elapse(i))
    /\ WF_vars(ShutdownTimeout)

Spec == Init /\ [][Next]_vars /\ Fairness
-----------------------------------------------------------------------------
Established == {i \in DOMAIN tunnels : tunnels[i].state = "established"}

\* The counters of the snapshot agree with the tunnels: sessions with those that are
\* established, whatever ended them (an error, a timeout, a network change, the
\* end of the loop), and flows with their active flows while the engine runs.
SnapshotTrue ==
    /\ sessions = Cardinality(Established)
    /\ lifecycle = "running" =>
        flows = FoldFunction(+, 0, [i \in DOMAIN tunnels |-> flow_count(tunnels[i])])

\* A tunnel between its carrier and its session is under a deadline, and so is a
\* client's carrier; a session is not, so that no timeout is counted for one.
StagesTimed ==
    \A i \in DOMAIN tunnels :
        (tunnels[i].deadline # "none")
            <=> (tunnels[i].state \in Stages
                    \/ (tunnels[i].state = "carrier" /\ tunnels[i].role = "client"))

\* Places where the request of an asker is.
Places(asker) ==
    Cardinality({i \in DOMAIN commands : commands[i].from = asker /\ commands[i].op \in Waits})
        + Cardinality({i \in DOMAIN pending_controls : pending_controls[i] = asker})

\* Who waits for an answer has exactly one request with the engine, who does not has
\* none: a connection whose client went away keeps its place, so that no answer
\* goes to another one.
AskedOnce ==
    /\ \A c \in Callers : Places(c) = IF calls[c].result = "waiting" THEN 1 ELSE 0
    /\ \A c \in Clients :
        Places(c) = IF conns[c].state = "waiting" /\ conns[c].answer = "none" THEN 1 ELSE 0
    /\ Cardinality(Held(conns)) <= MaxConnections

\* An establishment ends, in a session or back at the carrier: no stage of a tunnel
\* is waited for forever.
EstablishmentEnds ==
    \A i \in 1..2 : (i \in DOMAIN tunnels /\ tunnels[i].state \in Stages)
                        ~> (i \in DOMAIN tunnels => tunnels[i].state \notin Stages)

\* What callers see, whatever the lifecycle in the snapshot says.
Phase ==
    CASE at \in {"start", "create"} -> "starting"
      [] at \in {"command", "control", "tunnels"} -> "running"
      [] at \in {"stop", "shutdown"} -> "stopping"
      [] at = "returned" -> "ended"

CallState(c) ==
    CASE calls[c].result = "none" -> "none"
      [] calls[c].result = "waiting" -> "asked"
      [] calls[c].result \in {"ok", "error"} -> "answered"
      [] OTHER -> "released"

Promise == INSTANCE Service WITH phase <- Phase, calls <- [c \in Callers |-> CallState(c)]

\* The engine implements Service: calls are answered while it runs, whoever still
\* waits is released by its end, and a start or a stop does end, since
\* shutdown_deadline ends the wait for modules.
ImplementsService == Promise!Spec

\* "A startup or engine-wide invariant failure selects `Failed`."
\* (spec/architecture.md): not kept by errors after the modules were created.
FailedStartShown ==
    at = "returned" => lifecycle \in {"stopped", "failed"}

\* "Engine commands use a bounded queue" (spec/architecture.md): not kept, since each
\* call brings a sender of its own; one place is allowed for the handle's.
CommandsBounded == Len(commands) <= MaxCommands + 1
=============================================================================
