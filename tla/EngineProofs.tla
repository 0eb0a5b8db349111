---------------------------- MODULE EngineProofs ----------------------------
(* Proofs about the engine, for any tunnels, callers, clients and modules: its *)
(* stages are timed, its session counter is true, and its steps are those that *)
(* Service allows.                                                             *)
EXTENDS Engine, FiniteSetTheorems, TLAPS

\* StagesTimed for one tunnel.
Timed(t) ==
    (t.deadline # "none")
        <=> (t.state \in Stages \/ (t.state = "carrier" /\ t.role = "client"))

TunnelsInv ==
    /\ config \in Configs
    /\ IsFiniteSet(DOMAIN tunnels)
    /\ \A i \in DOMAIN tunnels : tunnels[i] \in Tunnels /\ Timed(tunnels[i])

\* sessions() of the snapshot.
SessionsCounted == sessions = Cardinality(Established)

\* Nothing is counted before the loop.
Begins == at \in {"start", "create"} => sessions = 0

TInv == TunnelsInv /\ SessionsCounted /\ Begins
-----------------------------------------------------------------------------
(* Tunnels.                                                                    *)

\* What a poll makes of a tunnel: the deadline goes with the stage, and what it
\* reports of sessions is what happened.
Polled(t, x) ==
    /\ x.tunnel \in Tunnels /\ Timed(x.tunnel)
    /\ x.was_established => t.state = "established"
    /\ x.update = "established" => t.state # "established"
    /\ x.tunnel.state = "established" <=>
           \/ x.update = "established"
           \/ t.state = "established" /\ ~x.was_established

\* A tunnel that starts again is timed.
LEMMA NewTunnel ==
    ASSUME NEW role \in {"client", "server"}
    PROVE  /\ new_tunnel(role) \in Tunnels /\ Timed(new_tunnel(role))
           /\ new_tunnel(role).state = "carrier"
<1>1. 0 \in 0..MaxActive
  BY EngineAssumption
<1> QED BY <1>1 DEF new_tunnel, ConnectDeadline, Tunnels, Timed, Stages, Instants

\* So is one that failed.
LEMMA FailPolled ==
    ASSUME NEW t \in Tunnels, NEW w \in BOOLEAN, w <=> t.state = "established"
    PROVE  Polled(t, fail(t, w))
<1>1. t.role \in {"client", "server"}
  BY DEF Tunnels
<1> DEFINE n == new_tunnel(t.role)
           u == [n EXCEPT !.retry_at = IF t.role = "client" THEN "running" ELSE "none"]
<1>2. n \in Tunnels /\ Timed(n) /\ n.state = "carrier"
  BY <1>1, NewTunnel
<1>3. fail(t, w) = [tunnel |-> u, update |-> "failed", was_established |-> w]
  BY DEF fail, reset
<1> HIDE DEF n
<1>4. u \in Tunnels /\ u.state = "carrier" /\ u.deadline = n.deadline /\ u.role = n.role
  BY <1>2 DEF Tunnels, Instants
<1>5. Timed(u)
  BY <1>2, <1>4 DEF Timed
<1> HIDE DEF u
<1> QED BY <1>3, <1>4, <1>5 DEF Polled

\* A stage goes on, waits or fails.
LEMMA StagePolled ==
    ASSUME NEW t \in Tunnels, Timed(t), t.state # "established",
           NEW result, NEW next \in Tunnels, Timed(next), NEW update,
           next.state = "established" <=> update = "established"
    PROVE  Polled(t, Stage(t, result, next, update))
<1>1. Polled(t, Becomes(next, update))
  BY DEF Becomes, Polled
<1>2. Polled(t, Stays(t))
  BY DEF Stays, Polled
<1>3. Polled(t, fail(t, FALSE))
  BY FailPolled
<1>4. \/ Stage(t, result, next, update) = Becomes(next, update)
      \/ Stage(t, result, next, update) = Stays(t)
      \/ Stage(t, result, next, update) = fail(t, FALSE)
  BY DEF Stage
<1> QED BY <1>1, <1>2, <1>3, <1>4

\* TunnelRuntime::poll
LEMMA PollPolled ==
    ASSUME NEW t \in Tunnels, Timed(t), NEW x \in poll_tunnel(t)
    PROVE  Polled(t, x)
<1>1. /\ t.state \in {"carrier", "established", "protection", "handshake", "policy_attach"}
      /\ t.role \in {"client", "server"}
  BY DEF Tunnels, Stages
<1>2. CASE t.deadline = "passed"
  <2>1. x = [tunnel |-> new_tunnel(t.role), update |-> "failed", was_established |-> FALSE]
    BY <1>2 DEF poll_tunnel, TimedOut, reset
  <2>2. t.state # "established"
    BY <1>2 DEF Timed, Stages
  <2>3. /\ new_tunnel(t.role) \in Tunnels /\ Timed(new_tunnel(t.role))
        /\ new_tunnel(t.role).state = "carrier"
    BY <1>1, NewTunnel
  <2> QED BY <2>1, <2>2, <2>3 DEF Polled
<1>3. CASE t.deadline # "passed" /\ t.state = "carrier"
  <2> DEFINE next == [t EXCEPT !.state = "protection", !.deadline = "running",
                               !.retry_at = "none"]
  <2>1. next \in Tunnels /\ next.state = "protection" /\ next.deadline = "running"
    BY DEF Tunnels, Stages, Instants
  <2>2. x = Stays(t) \/ \E result : x = Stage(t, result, next, "carrier_ready")
    BY <1>3 DEF poll_tunnel, connect
  <2> HIDE DEF next
  <2>3. Timed(next)
    BY <2>1 DEF Timed, Stages
  <2>4. Polled(t, Stays(t))
    BY <1>3 DEF Polled, Stays
  <2>5. \A result : Polled(t, Stage(t, result, next, "carrier_ready"))
    BY <1>3, <2>1, <2>3, StagePolled
  <2> QED BY <2>2, <2>4, <2>5
<1>4. CASE t.deadline # "passed" /\ t.state = "protection"
  <2> DEFINE next == [t EXCEPT !.state = "handshake"]
  <2>1. next \in Tunnels /\ next.state = "handshake" /\ next.deadline = t.deadline
    BY DEF Tunnels, Stages
  <2>2. x = Becomes(next, "protected") \/ \E result : x = Stage(t, result, next, "protected")
    BY <1>4 DEF poll_tunnel, protect
  <2> HIDE DEF next
  <2>3. Timed(next)
    BY <1>4, <2>1 DEF Timed, Stages
  <2>4. Polled(t, Becomes(next, "protected"))
    BY <1>4, <2>1, <2>3 DEF Polled, Becomes
  <2>5. \A result : Polled(t, Stage(t, result, next, "protected"))
    BY <1>4, <2>1, <2>3, StagePolled
  <2> QED BY <2>2, <2>4, <2>5
<1>5. CASE t.deadline # "passed" /\ t.state = "handshake"
  <2> DEFINE next == [t EXCEPT !.state = "policy_attach"]
  <2>1. next \in Tunnels /\ next.state = "policy_attach" /\ next.deadline = t.deadline
    BY DEF Tunnels, Stages
  <2>2. \E result : x = Stage(t, result, next, "policy_open")
    BY <1>5 DEF poll_tunnel, handshake
  <2> HIDE DEF next
  <2>3. Timed(next)
    BY <1>5, <2>1 DEF Timed, Stages
  <2> QED BY <1>5, <2>1, <2>2, <2>3, StagePolled
<1>6. CASE t.deadline # "passed" /\ t.state = "policy_attach"
  <2> DEFINE next == [t EXCEPT !.state = "established", !.deadline = "none"]
  <2>1. next \in Tunnels /\ next.state = "established" /\ next.deadline = "none"
    BY DEF Tunnels, Stages, Instants
  <2>2. \E result : x = Stage(t, result, next, "established")
    BY <1>6 DEF poll_tunnel, policy_attach
  <2> HIDE DEF next
  <2>3. Timed(next)
    BY <2>1 DEF Timed, Stages
  <2> QED BY <1>6, <2>1, <2>2, <2>3, StagePolled
<1>7. CASE t.deadline # "passed" /\ t.state = "established"
  <2>1. x = fail(t, TRUE) \/ \E n \in 0..MaxActive : x = Stays([t EXCEPT !.flows = n])
    BY <1>7 DEF poll_tunnel, established
  <2>2. CASE x = fail(t, TRUE)
    BY <1>7, <2>2, FailPolled
  <2>3. CASE \E n \in 0..MaxActive : x = Stays([t EXCEPT !.flows = n])
    <3>1. PICK n \in 0..MaxActive : x = Stays([t EXCEPT !.flows = n])
      BY <2>3
    <3> DEFINE u == [t EXCEPT !.flows = n]
    <3>2. u \in Tunnels /\ u.state = t.state /\ u.deadline = t.deadline /\ u.role = t.role
      BY DEF Tunnels
    <3>3. x = [tunnel |-> u, update |-> "none", was_established |-> FALSE]
      BY <3>1 DEF Stays
    <3> HIDE DEF u
    <3>4. Timed(u)
      BY <3>2 DEF Timed
    <3> QED BY <1>7, <3>2, <3>3, <3>4 DEF Polled
  <2> QED BY <2>1, <2>2, <2>3
<1> QED BY <1>1, <1>2, <1>3, <1>4, <1>5, <1>6, <1>7

\* Tunnels that all wait for a carrier: no session.
LEMMA NoSessions ==
    ASSUME config' \in Configs, IsFiniteSet(DOMAIN tunnels'), sessions' = 0,
           \A i \in DOMAIN tunnels' :
               \E role \in {"client", "server"} : tunnels'[i] = new_tunnel(role)
    PROVE  TInv'
<1>1. \A i \in DOMAIN tunnels' :
        tunnels'[i] \in Tunnels /\ Timed(tunnels'[i]) /\ tunnels'[i].state = "carrier"
  BY NewTunnel
<1>2. Established' = {} /\ Cardinality({}) = 0
  BY <1>1, FS_EmptySet DEF Established
<1>3. SessionsCounted'
  BY <1>2 DEF SessionsCounted
<1>4. TunnelsInv'
  BY <1>1 DEF TunnelsInv, Timed
<1> QED BY <1>3, <1>4 DEF TInv, Begins

\* Init
LEMMA InitTInv == Init => TInv
<1> SUFFICES ASSUME Init PROVE TInv
  OBVIOUS
<1>1. config \in Configs /\ sessions = 0 /\ tunnels = <<>> /\ DOMAIN tunnels = {}
  BY DEF Init
<1>2. Established = {} /\ IsFiniteSet({}) /\ Cardinality({}) = 0
  BY <1>1, FS_EmptySet DEF Established
<1> QED BY <1>1, <1>2 DEF TInv, TunnelsInv, SessionsCounted, Begins

\* poll_tunnels: the counter follows the sessions that began and ended.
LEMMA PollTunnelsTInv ==
    ASSUME TInv, PollTunnels
    PROVE  TInv'
<1> DEFINE D == DOMAIN tunnels
<1>1. PICK polled \in [D -> UNION {poll_tunnel(tunnels[i]) : i \in D}] :
        /\ \A i \in D : polled[i] \in poll_tunnel(tunnels[i])
        /\ tunnels' = [i \in D |-> polled[i].tunnel]
        /\ sessions' = sessions + Cardinality({i \in D : polled[i].update = "established"})
                                - Cardinality({i \in D : polled[i].was_established})
  BY DEF PollTunnels
<1> DEFINE E == Established
           B == {i \in D : polled[i].update = "established"}
           W == {i \in D : polled[i].was_established}
<1>2. \A i \in D : Polled(tunnels[i], polled[i])
  BY <1>1, PollPolled DEF TInv, TunnelsInv
<1>3. DOMAIN tunnels' = D /\ \A i \in D : tunnels'[i] = polled[i].tunnel
  BY <1>1
<1>4. TunnelsInv'
  <2>1. config' = config
    BY DEF PollTunnels
  <2> QED BY <1>2, <1>3, <2>1 DEF TInv, TunnelsInv, Polled, Timed
<1>5. E = {i \in D : tunnels[i].state = "established"}
      /\ Established' = {i \in D : polled[i].tunnel.state = "established"}
  BY <1>3 DEF Established
<1>6. W \subseteq E /\ B \cap E = {} /\ B \subseteq D /\ E \subseteq D
      /\ Established' = (E \ W) \cup B
  BY <1>2, <1>5 DEF Polled
<1>7. sessions' = sessions + Cardinality(B) - Cardinality(W) /\ sessions = Cardinality(E)
      /\ IsFiniteSet(D)
  BY <1>1 DEF TInv, SessionsCounted, TunnelsInv
<1> HIDE DEF D, E, B, W
<1>8. /\ IsFiniteSet(E) /\ IsFiniteSet(B) /\ IsFiniteSet(W) /\ IsFiniteSet(E \ W)
  <2>1. IsFiniteSet(E) /\ IsFiniteSet(B)
    BY <1>6, <1>7, FS_Subset
  <2>2. W \in SUBSET E /\ E \ W \in SUBSET E
    BY <1>6
  <2> QED BY <2>1, <2>2, FS_Subset
<1>9. /\ Cardinality(E) \in Nat /\ Cardinality(B) \in Nat /\ Cardinality(W) \in Nat
      /\ Cardinality(E \ W) \in Nat
  BY <1>8, FS_CardinalityType
<1>10. Cardinality({}) = 0
  BY FS_EmptySet
<1>11. Cardinality((E \ W) \cup W) = Cardinality(E \ W) + Cardinality(W) - Cardinality((E \ W) \cap W)
  BY <1>8, FS_Union
<1>12. Cardinality((E \ W) \cup B) = Cardinality(E \ W) + Cardinality(B) - Cardinality((E \ W) \cap B)
  BY <1>8, FS_Union
<1>13. (E \ W) \cup W = E /\ (E \ W) \cap W = {} /\ (E \ W) \cap B = {}
  BY <1>6
<1>14. /\ Cardinality(E) = Cardinality(E \ W) + Cardinality(W) - 0
       /\ Cardinality(Established') = Cardinality(E \ W) + Cardinality(B) - 0
  BY <1>6, <1>10, <1>11, <1>12, <1>13
<1>15. SessionsCounted'
  BY <1>7, <1>9, <1>14 DEF SessionsCounted
<1>16. Begins'
  BY DEF PollTunnels, Begins
<1> QED BY <1>4, <1>15, <1>16 DEF TInv

\* Time changes no stage.
LEMMA ElapseTInv ==
    ASSUME TInv, NEW i \in DOMAIN tunnels, Elapse(i)
    PROVE  TInv'
<1>1. PICK t \in Elapsed(tunnels[i]) : tunnels' = [tunnels EXCEPT ![i] = t]
  BY DEF Elapse
<1>2. tunnels[i] \in Tunnels /\ Timed(tunnels[i])
  BY DEF TInv, TunnelsInv
<1>3. /\ t \in Tunnels /\ t.state = tunnels[i].state /\ t.role = tunnels[i].role
      /\ t.deadline # "none" <=> tunnels[i].deadline # "none"
  BY <1>1, <1>2 DEF Elapsed, Tunnels, Instants
<1>4. Timed(t)
  BY <1>2, <1>3 DEF Timed
<1>5. /\ DOMAIN tunnels' = DOMAIN tunnels
      /\ \A j \in DOMAIN tunnels : tunnels'[j] = IF j = i THEN t ELSE tunnels[j]
  BY <1>1
<1>6. config' = config /\ sessions' = sessions
  BY DEF Elapse, snapshot
<1>7. Established' = Established
  BY <1>3, <1>5 DEF Established
<1>8. TunnelsInv'
  BY <1>3, <1>4, <1>5, <1>6 DEF TInv, TunnelsInv, Timed
<1>9. SessionsCounted'
  BY <1>6, <1>7 DEF TInv, SessionsCounted
<1>10. Begins'
  BY <1>6 DEF TInv, Begins, Elapse
<1> QED BY <1>8, <1>9, <1>10 DEF TInv

\* Every step keeps the tunnels timed and their sessions counted.
LEMMA NextTInv == TInv /\ [Next]_vars => TInv'
<1> SUFFICES ASSUME TInv, [Next]_vars PROVE TInv'
  OBVIOUS
<1>0. ASSUME UNCHANGED <<config, tunnels, sessions>>, at' = at \/ at' \notin {"start", "create"}
                                                             \/ at \in {"start", "create"}
      PROVE  TInv'
  BY <1>0 DEF TInv, TunnelsInv, SessionsCounted, Established, Timed, Begins
<1>2. config \in Configs
  BY DEF TInv, TunnelsInv
<1>3. CASE UNCHANGED vars
  BY <1>0, <1>3 DEF vars
<1>4. CASE Prepare
  <2>0. config' = config /\ sessions' = sessions /\ at = "create"
    BY <1>4 DEF Prepare
  <2>1. CASE UNCHANGED tunnels
    BY <1>0, <2>0, <2>1
  <2>2. CASE tunnels' = [i \in DOMAIN config.roles |-> new_tunnel(config.roles[i])]
    <3>1. config.roles \in Seq({"client", "server"})
      BY <1>2, EngineAssumption
    <3>2. /\ Len(config.roles) \in Nat /\ DOMAIN config.roles = 1..Len(config.roles)
          /\ \A i \in DOMAIN config.roles : config.roles[i] \in {"client", "server"}
      BY <3>1
    <3>3. IsFiniteSet(DOMAIN config.roles)
      BY <3>2, FS_Interval
    <3>4. sessions' = 0
      BY <2>0 DEF TInv, Begins
    <3> QED BY <2>0, <1>2, <2>2, <3>2, <3>3, <3>4, NoSessions
  <2> QED BY <1>4, <2>1, <2>2 DEF Prepare
<1>5. CASE TakeCommand \/ NoCommand
  <2>0. config' = config /\ at' \in {"control", "stop"}
    BY <1>5 DEF TakeCommand, NoCommand, Stop, NetworkChanged
  <2>1. CASE UNCHANGED <<tunnels, sessions>>
    BY <1>0, <2>0, <2>1
  <2>2. CASE tunnels' = [i \in DOMAIN tunnels |-> reset(tunnels[i])] /\ sessions' = 0
    <3>1. \A i \in DOMAIN tunnels : tunnels[i].role \in {"client", "server"}
      BY DEF TInv, TunnelsInv, Tunnels
    <3>2. DOMAIN tunnels' = DOMAIN tunnels /\ IsFiniteSet(DOMAIN tunnels)
      BY <2>2 DEF TInv, TunnelsInv
    <3>3. \A i \in DOMAIN tunnels : tunnels'[i] = new_tunnel(tunnels[i].role)
      BY <2>2 DEF reset
    <3> QED BY <2>0, <1>2, <2>2, <3>1, <3>2, <3>3, NoSessions
  <2> QED BY <1>5, <2>1, <2>2 DEF TakeCommand, NoCommand, Stop, NetworkChanged, snapshot
<1>6. CASE PollTunnels
  BY <1>6, PollTunnelsTInv
<1>7. CASE DropTunnels
  <2>1. tunnels' = <<>> /\ sessions' = 0 /\ DOMAIN tunnels' = {} /\ IsFiniteSet({})
        /\ config' = config
    BY <1>7, FS_EmptySet DEF DropTunnels
  <2> QED BY <1>2, <2>1, NoSessions
<1>8. CASE \E i \in DOMAIN tunnels : Elapse(i)
  BY <1>8, ElapseTInv
<1>9. CASE Starting
  BY <1>0, <1>9 DEF Starting
<1>10. CASE CreateModule
  BY <1>0, <1>10 DEF CreateModule
<1>11. CASE PollLocalControl
  <2>1. UNCHANGED <<config, tunnels, sessions>> /\ at' = "tunnels"
    BY <1>11 DEF PollLocalControl, snapshot
  <2> QED BY <1>0, <2>1
<1>12. CASE Shutdown
  <2>1. UNCHANGED <<config, tunnels, sessions>> /\ (at' = at \/ at' = "returned")
    BY <1>12 DEF Shutdown, Drop
  <2> QED BY <1>0, <2>1
<1>13. CASE ShutdownTimeout \/ DropHandle
  BY <1>0, <1>13 DEF ShutdownTimeout, DropHandle, snapshot
<1>14. CASE \E c \in Callers : Call(c)
  <2>1. UNCHANGED <<config, tunnels, sessions, at>>
    BY <1>14 DEF Call, snapshot
  <2> QED BY <1>0, <2>1
<1>15. CASE \E c \in Clients : Client(c)
  <2>1. UNCHANGED <<config, tunnels, sessions, at>>
    BY <1>15 DEF Client, snapshot
  <2> QED BY <1>0, <2>1
<1> QED BY <1>3, <1>4, <1>5, <1>6, <1>7, <1>8, <1>9, <1>10, <1>11, <1>12, <1>13, <1>14,
           <1>15 DEF Next, Loop

\* A tunnel is under a deadline exactly while it is being established, whatever
\* its modules answer and whenever the network changes.
THEOREM Deadlines == Spec => []StagesTimed
<1>1. TInv => StagesTimed
  BY DEF TInv, TunnelsInv, Timed, StagesTimed
<1> QED BY <1>1, InitTInv, NextTInv, PTL DEF Spec

\* The counter of sessions in the snapshot is the number of established tunnels.
THEOREM Sessions == Spec => []SessionsCounted
<1>1. TInv => SessionsCounted
  BY DEF TInv
<1> QED BY <1>1, InitTInv, NextTInv, PTL DEF Spec
-----------------------------------------------------------------------------
(* Calls.                                                                      *)

\* A call that the engine took and has not dropped.
Taken == {"waiting", "ok", "error"}

CallsType ==
    /\ config \in Configs
    /\ at \in {"start", "create", "command", "control", "tunnels", "stop", "shutdown",
               "returned"}
    /\ calls \in [Callers -> [op : Ops \cup {"none"},
                              result : Taken \cup {"none", "stopped", "command_queue"}]]
    /\ DOMAIN conns = Clients
    /\ commands \in Seq([op : Ops, from : Callers])
    /\ pending_controls \in Seq(Callers \cup Clients)

\* Whoever the engine has a request of has asked, and nobody is released before
\* the engine ends.
Askers ==
    /\ \A c \in Callers : calls[c].op = "none" => calls[c].result = "none"
    /\ at # "returned" => \A c \in Callers : calls[c].result \in Taken \cup {"none"}
    /\ \A k \in 1..Len(commands) : calls[commands[k].from].result \in Taken
    /\ \A c \in Callers \cap Range(pending_controls) : calls[c].result \in Taken
    /\ at = "returned" => commands = <<>> /\ pending_controls = <<>>

CInv == CallsType /\ Askers

\* The state of a call as Service sees it.
AbstractCalls == [c \in Callers |-> CallState(c)]

\* A command names its caller.
LEMMA CommandFrom ==
    ASSUME NEW s \in Seq([op : Ops, from : Callers]), NEW k \in 1..Len(s)
    PROVE  s[k] \in [op : Ops, from : Callers] /\ s[k].from \in Callers
<1> DEFINE T == [op : Ops, from : Callers]
<1>1. s \in Seq(T)
  OBVIOUS
<1> HIDE DEF T
<1>2. s[k] \in T
  BY <1>1
<1> QED BY <1>2 DEF T

\* The orders in which requests can be taken.
Orders(S) == Bijection(1..Cardinality(S), S)

\* poll_controls makes up no asker.
LEMMA ControlsFine ==
    ASSUME NEW A, NEW controls \in Seq(A), NEW x \in poll_controls(controls)
    PROVE  /\ x.left \in Seq(A) /\ Range(x.left) \subseteq Range(controls)
           /\ x.done \subseteq Range(controls)
<1> DEFINE n == Len(controls)
<1>1. n \in Nat /\ DOMAIN controls = 1..n /\ \A k \in 1..n : controls[k] \in A
  OBVIOUS
<1>2. PICK kept \in UNION {[1..m -> DOMAIN controls] : m \in 0..n} :
        x = [left |-> [k \in DOMAIN kept |-> controls[kept[k]]],
             done |-> {controls[k] : k \in DOMAIN controls \ Range(kept)}]
  BY DEF poll_controls
<1> HIDE DEF n
<1>3. PICK m \in 0..n : kept \in [1..m -> 1..n]
  BY <1>1, <1>2
<1>4. m \in Nat
  BY <1>1, <1>3
<1>5. /\ x.left = [k \in 1..m |-> controls[kept[k]]]
      /\ x.done = {controls[k] : k \in (1..n) \ Range(kept)}
  BY <1>1, <1>2, <1>3
<1>6. \A k \in 1..m : controls[kept[k]] \in A /\ controls[kept[k]] \in Range(controls)
  BY <1>1, <1>3 DEF Range
<1>7. x.left \in Seq(A) /\ DOMAIN x.left = 1..m
  BY <1>4, <1>5, <1>6
<1>8. Range(x.left) \subseteq Range(controls)
  BY <1>5, <1>6, <1>7 DEF Range
<1>9. x.done \subseteq Range(controls)
  BY <1>1, <1>5 DEF Range
<1> QED BY <1>7, <1>8, <1>9

\* What an answer does to the calls: those that were taken stay taken, and Service
\* sees those that waited answered.
LEMMA AnswersFine ==
    ASSUME CallsType, NEW from, NEW result \in {"ok", "error"},
           \A c \in Callers \cap from : calls[c].result \in Taken,
           calls' = [c \in Callers |-> IF c \in from THEN [calls[c] EXCEPT !.result = result]
                                       ELSE calls[c]]
    PROVE  /\ calls' \in [Callers -> [op : Ops \cup {"none"},
                              result : Taken \cup {"none", "stopped", "command_queue"}]]
           /\ \A c \in Callers :
                 /\ calls'[c].op = calls[c].op
                 /\ calls[c].result \in Taken => calls'[c].result \in Taken
                 /\ calls'[c].result = calls[c].result
                        \/ (calls[c].result \in Taken /\ calls'[c].result \in Taken)
           /\ Promise!AnswerSome
<1> DEFINE S == {c \in Callers \cap from : calls[c].result = "waiting"}
<1>1. \A c \in Callers : calls[c] \in [op : Ops \cup {"none"},
                              result : Taken \cup {"none", "stopped", "command_queue"}]
  BY DEF CallsType
<1>2. \A c \in Callers : IF c \in from
                         THEN calls'[c].result = result /\ calls'[c].op = calls[c].op
                         ELSE calls'[c] = calls[c]
  BY <1>1
<1>3. \A c \in Callers : calls'[c] \in [op : Ops \cup {"none"},
                              result : Taken \cup {"none", "stopped", "command_queue"}]
  BY <1>1 DEF Taken
<1>4. calls' \in [Callers -> [op : Ops \cup {"none"},
                              result : Taken \cup {"none", "stopped", "command_queue"}]]
  BY <1>3
<1>5. \A c \in Callers : CallState(c)' = IF c \in S THEN "answered" ELSE CallState(c)
  BY <1>2 DEF CallState, Taken
<1>6. S \in SUBSET {c \in Callers : AbstractCalls[c] = "asked"}
  BY DEF AbstractCalls, CallState
<1>7. AbstractCalls' = [c \in Callers |-> IF c \in S THEN "answered" ELSE AbstractCalls[c]]
  BY <1>5 DEF AbstractCalls
<1> HIDE DEF S
<1>8. Promise!AnswerSome
  BY <1>6, <1>7 DEF Promise!AnswerSome, AbstractCalls
<1> QED BY <1>2, <1>4, <1>8 DEF Taken

\* Init
LEMMA InitCalls == Init => CInv /\ Promise!Init
<1> SUFFICES ASSUME Init PROVE CInv /\ Promise!Init
  OBVIOUS
<1>1. /\ config \in Configs /\ at = "start" /\ commands = <<>> /\ pending_controls = <<>>
      /\ calls = [c \in Callers |-> [op |-> "none", result |-> "none"]]
      /\ DOMAIN conns = Clients
  BY DEF Init
<1>2. CallsType
  BY <1>1 DEF CallsType
<1>3. Askers
  BY <1>1 DEF Askers, Range
<1>4. Promise!Init
  BY <1>1 DEF Promise!Init, Phase, CallState
<1> QED BY <1>2, <1>3, <1>4 DEF CInv

\* A step that Service allows.
ServiceStep == [Promise!Next]_(Promise!vars)

\* A step that touches no call: the engine goes on within a phase, or begins to
\* run, or to stop.
LEMMA QuietStep ==
    ASSUME CInv, UNCHANGED <<config, calls, commands, pending_controls>>,
           DOMAIN conns' = Clients,
           \/ at' = at
           \/ at = "start" /\ at' = "create"
           \/ at = "create" /\ at' = "command"
           \/ at \in {"command", "control", "tunnels"}
              /\ at' \in {"command", "control", "tunnels", "stop"}
           \/ at = "stop" /\ at' = "shutdown"
    PROVE  CInv' /\ ServiceStep
<1>1. CallsType' /\ Askers'
  BY DEF CInv, CallsType, Askers
<1>2. AbstractCalls' = AbstractCalls
  BY DEF AbstractCalls, CallState
<1>3. \/ Phase' = Phase
      \/ Phase = "starting" /\ Phase' = "running"
      \/ Phase = "running" /\ Phase' = "stopping"
  BY DEF Phase
<1>4. CASE Phase' = Phase
  BY <1>1, <1>2, <1>4 DEF CInv, ServiceStep, Promise!vars, AbstractCalls
<1>5. CASE Phase = "starting" /\ Phase' = "running"
  BY <1>1, <1>2, <1>5 DEF CInv, ServiceStep, Promise!Next, Promise!Run, AbstractCalls
<1>6. CASE Phase = "running" /\ Phase' = "stopping"
  <2>1. {} \in SUBSET {c \in Callers : AbstractCalls[c] = "asked"}
    OBVIOUS
  <2>2. AbstractCalls' = [c \in Callers |-> IF c \in {} THEN "answered" ELSE AbstractCalls[c]]
    BY <1>2 DEF AbstractCalls
  <2>3. Promise!AnswerSome
    BY <2>1, <2>2 DEF Promise!AnswerSome, AbstractCalls
  <2> QED BY <1>1, <1>6, <2>3 DEF CInv, ServiceStep, Promise!Next, Promise!Stop
<1> QED BY <1>1, <1>3, <1>4, <1>5, <1>6 DEF CInv

\* The end of run_loop releases whoever waits.
LEMMA DropStep ==
    ASSUME CInv, config' = config, at \in {"create", "shutdown"}, Drop
    PROVE  CInv' /\ ServiceStep
<1>1. /\ at' = "returned" /\ commands' = <<>> /\ pending_controls' = <<>>
      /\ calls' = [c \in Callers |-> IF calls[c].result = "waiting"
                                     THEN [calls[c] EXCEPT !.result = "stopped"] ELSE calls[c]]
      /\ DOMAIN conns' = Clients
  BY DEF Drop
<1>2. \A c \in Callers : calls[c] \in [op : Ops \cup {"none"},
                              result : Taken \cup {"none", "stopped", "command_queue"}]
  BY DEF CInv, CallsType
<1>3. \A c \in Callers : /\ calls'[c].op = calls[c].op
                         /\ calls'[c].result = IF calls[c].result = "waiting" THEN "stopped"
                                               ELSE calls[c].result
  BY <1>1, <1>2
<1>4. calls' \in [Callers -> [op : Ops \cup {"none"},
                              result : Taken \cup {"none", "stopped", "command_queue"}]]
  BY <1>1, <1>2 DEF Taken
<1>5. CallsType'
  BY <1>1, <1>4 DEF CInv, CallsType
<1>6. Askers'
  BY <1>1, <1>3 DEF CInv, Askers, Range
<1>7. Phase \in {"starting", "stopping"} /\ Phase' = "ended"
  BY <1>1 DEF Phase
<1>8. \A c \in Callers : CallState(c)' = IF CallState(c) = "asked" THEN "released" ELSE CallState(c)
  BY <1>3 DEF CallState
<1>9. AbstractCalls' = [c \in Callers |-> IF AbstractCalls[c] = "asked" THEN "released"
                                          ELSE AbstractCalls[c]]
  BY <1>8 DEF AbstractCalls
<1>10. Promise!End
  BY <1>7, <1>9 DEF Promise!End, AbstractCalls
<1> QED BY <1>5, <1>6, <1>10 DEF CInv, ServiceStep, Promise!Next

\* Calls are answered while the loop runs; what is left of the queues is part of
\* what was there.
LEMMA AnswerStep ==
    ASSUME CInv, config' = config, at \in {"command", "control", "tunnels"},
           at' \in {"command", "control", "tunnels", "stop"}, DOMAIN conns' = Clients,
           NEW from, NEW result \in {"ok", "error"},
           \A c \in Callers \cap from : calls[c].result \in Taken,
           calls' = [c \in Callers |-> IF c \in from THEN [calls[c] EXCEPT !.result = result]
                                       ELSE calls[c]],
           commands' \in Seq([op : Ops, from : Callers]),
           \A k \in 1..Len(commands') : calls[commands'[k].from].result \in Taken,
           pending_controls' \in Seq(Callers \cup Clients),
           \A c \in Callers \cap Range(pending_controls') : calls[c].result \in Taken
    PROVE  CInv' /\ ServiceStep
<1>1. /\ calls' \in [Callers -> [op : Ops \cup {"none"},
                              result : Taken \cup {"none", "stopped", "command_queue"}]]
      /\ \A c \in Callers :
            /\ calls'[c].op = calls[c].op
            /\ calls[c].result \in Taken => calls'[c].result \in Taken
            /\ calls'[c].result = calls[c].result
                   \/ (calls[c].result \in Taken /\ calls'[c].result \in Taken)
      /\ Promise!AnswerSome
  BY AnswersFine DEF CInv
<1>2. CallsType'
  BY <1>1 DEF CInv, CallsType
<1>3. Askers'
  <2>1. \A k \in 1..Len(commands') : commands'[k].from \in Callers
    BY CommandFrom
  <2>2. \A k \in 1..Len(commands') : calls'[commands'[k].from].result \in Taken
    BY <1>1, <2>1
  <2>3. \A c \in Callers : calls[c].op = "none" => calls[c].result = "none"
    BY DEF CInv, Askers
  <2>4. \A c \in Callers : calls'[c].op = "none" => calls'[c].result = "none"
    BY <1>1, <2>3 DEF Taken
  <2>5. \A c \in Callers : calls'[c].result \in Taken \cup {"none"}
    BY <1>1 DEF CInv, Askers
  <2> QED BY <1>1, <2>2, <2>4, <2>5 DEF Askers
<1>4. Phase = "running" /\ Phase' \in {"running", "stopping"}
  BY DEF Phase
<1>5. CASE Phase' = "running"
  BY <1>1, <1>2, <1>3, <1>4, <1>5 DEF CInv, ServiceStep, Promise!Next, Promise!Answer
<1>6. CASE Phase' = "stopping"
  BY <1>1, <1>2, <1>3, <1>4, <1>6 DEF CInv, ServiceStep, Promise!Next, Promise!Stop
<1> QED BY <1>2, <1>3, <1>4, <1>5, <1>6 DEF CInv

\* The turn's command: what it was is gone from the queue and answered.
LEMMA CommandStep ==
    ASSUME CInv, TakeCommand \/ NoCommand
    PROVE  CInv' /\ ServiceStep
<1>0. CallsType /\ Askers
  BY DEF CInv
<1>1. CASE NoCommand
  <2>1. /\ at = "command" /\ at' \in {"control", "stop"}
        /\ UNCHANGED <<config, commands, pending_controls>>
    BY <1>1 DEF NoCommand, Stop
  <2>2. CASE UNCHANGED <<calls, conns>>
    BY <1>0, <2>1, <2>2, QuietStep DEF CallsType
  <2>3. CASE Answered({}, "ok")
    <3>1. calls' = [c \in Callers |-> calls[c]] /\ DOMAIN conns' = Clients
      BY <2>3 DEF Answered
    <3>2. calls' = calls
      BY <1>0, <3>1 DEF CallsType
    <3> QED BY <2>1, <3>1, <3>2, QuietStep
  <2> QED BY <1>1, <2>2, <2>3 DEF NoCommand, Stop
<1>2. CASE TakeCommand
  <2> DEFINE command == Head(commands)
  <2>1. commands # <<>> /\ commands' = Tail(commands) /\ at = "command" /\ config' = config
    BY <1>2 DEF TakeCommand
  <2>2. /\ command \in [op : Ops, from : Callers] /\ calls[command.from].result \in Taken
        /\ commands' \in Seq([op : Ops, from : Callers])
        /\ \A k \in 1..Len(commands') : calls[commands'[k].from].result \in Taken
    <3> DEFINE T == [op : Ops, from : Callers]
    <3>1. commands \in Seq(T)
      BY <1>0 DEF CallsType
    <3> HIDE DEF T
    <3>2. /\ 1 \in 1..Len(commands) /\ command = commands[1] /\ command \in T
          /\ Tail(commands) \in Seq(T)
          /\ \A k \in 1..Len(Tail(commands)) :
                k + 1 \in 1..Len(commands) /\ Tail(commands)[k] = commands[k + 1]
      BY <2>1, <3>1
    <3> QED BY <1>0, <2>1, <3>2 DEF Askers, T
  <2>3. command.from \in Callers
    BY <2>2
  <2>4. /\ pending_controls \in Seq(Callers \cup Clients)
        /\ \A c \in Callers \cap Range(pending_controls) : calls[c].result \in Taken
    BY <1>0 DEF CallsType, Askers
  <2>5. \/ Control(command) /\ at' = "control"
        \/ /\ at' \in {"control", "stop"} /\ pending_controls' = pending_controls
           /\ \E from \in {{}, {command.from}} : Answered(from, "ok")
    BY <1>2 DEF TakeCommand, Stop, NetworkChanged
  <2> HIDE DEF command
  <2>6. CASE at' \in {"control", "stop"} /\ pending_controls' = pending_controls
             /\ \E from \in {{}, {command.from}} : Answered(from, "ok")
    <3>1. PICK from \in {{}, {command.from}} : Answered(from, "ok")
      BY <2>6
    <3>2. /\ calls' = [c \in Callers |-> IF c \in from THEN [calls[c] EXCEPT !.result = "ok"]
                                         ELSE calls[c]]
          /\ DOMAIN conns' = Clients
      BY <3>1 DEF Answered
    <3>3. \A c \in Callers \cap from : calls[c].result \in Taken
      BY <2>2, <3>1
    <3> QED BY <2>1, <2>2, <2>4, <2>6, <3>2, <3>3, AnswerStep
  <2>7. CASE Control(command) /\ at' = "control"
    <3>1. CASE Answered({command.from}, "error") /\ pending_controls' = pending_controls
      <4>1. /\ calls' = [c \in Callers |-> IF c \in {command.from}
                                           THEN [calls[c] EXCEPT !.result = "error"]
                                           ELSE calls[c]]
            /\ DOMAIN conns' = Clients
        BY <3>1 DEF Answered
      <4>2. \A c \in Callers \cap {command.from} : calls[c].result \in Taken
        BY <2>2
      <4> QED BY <2>1, <2>2, <2>4, <2>7, <3>1, <4>1, <4>2, AnswerStep
    <3>2. CASE \E polled \in poll_controls(Append(pending_controls, command.from)) :
                 Answered(polled.done, "ok") /\ pending_controls' = polled.left
      <4> DEFINE controls == Append(pending_controls, command.from)
      <4>1. PICK polled \in poll_controls(controls) :
              Answered(polled.done, "ok") /\ pending_controls' = polled.left
        BY <3>2
      <4>2. controls \in Seq(Callers \cup Clients)
            /\ Range(controls) \subseteq Range(pending_controls) \cup {command.from}
        BY <2>3, <2>4 DEF Range
      <4> HIDE DEF controls
      <4>3. /\ polled.left \in Seq(Callers \cup Clients)
            /\ Range(polled.left) \subseteq Range(controls)
            /\ polled.done \subseteq Range(controls)
        BY <4>1, <4>2, ControlsFine
      <4>4. /\ calls' = [c \in Callers |-> IF c \in polled.done
                                           THEN [calls[c] EXCEPT !.result = "ok"]
                                           ELSE calls[c]]
            /\ DOMAIN conns' = Clients
        BY <4>1 DEF Answered
      <4>5. \A c \in Callers \cap Range(controls) : calls[c].result \in Taken
        BY <2>2, <2>4, <4>2
      <4>6. /\ \A c \in Callers \cap polled.done : calls[c].result \in Taken
            /\ \A c \in Callers \cap Range(pending_controls') : calls[c].result \in Taken
            /\ pending_controls' \in Seq(Callers \cup Clients)
        BY <4>1, <4>3, <4>5
      <4> QED BY <2>1, <2>2, <2>7, <4>4, <4>6, AnswerStep
    <3> QED BY <2>7, <3>1, <3>2 DEF Control
  <2> QED BY <2>5, <2>6, <2>7
<1> QED BY <1>1, <1>2

\* poll_local_control: a new request is a client's, so that the calls it answers
\* are those that were queued.
LEMMA LocalControlStep ==
    ASSUME CInv, PollLocalControl
    PROVE  CInv' /\ ServiceStep
<1>0. CallsType /\ Askers
  BY DEF CInv
<1>p. PICK polled \in poll_server(conns) :
        \E order \in Orders({c \in Requests(polled) : polled[c].instance = "known"}) :
        \E controls \in poll_controls(pending_controls \o order) :
            /\ pending_controls' = controls.left
            /\ DOMAIN conns' = Clients
            /\ calls' = [c \in Callers |-> IF c \in controls.done
                                           THEN [calls[c] EXCEPT !.result = "ok"] ELSE calls[c]]
  BY DEF PollLocalControl, Orders
<1>1. PICK order \in Orders({c \in Requests(polled) : polled[c].instance = "known"}) :
        \E controls \in poll_controls(pending_controls \o order) :
            /\ pending_controls' = controls.left
            /\ DOMAIN conns' = Clients
            /\ calls' = [c \in Callers |-> IF c \in controls.done
                                           THEN [calls[c] EXCEPT !.result = "ok"] ELSE calls[c]]
  BY <1>p
<1>2. PICK controls \in poll_controls(pending_controls \o order) :
            /\ pending_controls' = controls.left
            /\ DOMAIN conns' = Clients
            /\ calls' = [c \in Callers |-> IF c \in controls.done
                                           THEN [calls[c] EXCEPT !.result = "ok"] ELSE calls[c]]
  BY <1>1
<1> DEFINE known == {c \in Requests(polled) : polled[c].instance = "known"}
<1>3. DOMAIN polled = Clients
  <2>1. PICK held \in accept(conns) : DOMAIN polled = DOMAIN held
    BY <1>p DEF poll_server
  <2>2. DOMAIN held = DOMAIN conns
    BY <2>1 DEF accept
  <2> QED BY <1>0, <2>1, <2>2 DEF CallsType
<1>4. known \subseteq Clients /\ IsFiniteSet(known)
  <2>1. known \in SUBSET Clients
    BY <1>3 DEF Requests
  <2> QED BY <2>1, EngineAssumption, FS_Subset
<1>5. order \in [1..Cardinality(known) -> known] /\ Cardinality(known) \in Nat
  BY <1>1, <1>4, FS_CardinalityType DEF Orders, Bijection, Injection
<1> HIDE DEF known
<1>6. order \in Seq(Clients)
  BY <1>4, <1>5
<1> DEFINE all == pending_controls \o order
<1>7. /\ pending_controls \in Seq(Callers \cup Clients)
      /\ \A c \in Callers \cap Range(pending_controls) : calls[c].result \in Taken
  BY <1>0 DEF CallsType, Askers
<1>8. all \in Seq(Callers \cup Clients) /\ Range(all) \subseteq Range(pending_controls) \cup Clients
  <2>1. order \in Seq(Callers \cup Clients)
    BY <1>6
  <2>2. all \in Seq(Callers \cup Clients) /\ Len(all) = Len(pending_controls) + Len(order)
    BY <1>7, <2>1
  <2>3. \A k \in 1..Len(all) : \/ k \in 1..Len(pending_controls) /\ all[k] = pending_controls[k]
                               \/ all[k] \in Clients
    BY <1>6, <1>7
  <2> HIDE DEF all
  <2> QED BY <1>7, <2>2, <2>3 DEF Range
<1> HIDE DEF all
<1>9. /\ controls.left \in Seq(Callers \cup Clients) /\ Range(controls.left) \subseteq Range(all)
      /\ controls.done \subseteq Range(all)
  BY <1>2, <1>8, ControlsFine DEF all
<1>10. \A c \in Callers \cap Range(all) : calls[c].result \in Taken
  BY <1>7, <1>8, EngineAssumption
<1>11. /\ \A c \in Callers \cap controls.done : calls[c].result \in Taken
       /\ \A c \in Callers \cap Range(pending_controls') : calls[c].result \in Taken
       /\ pending_controls' \in Seq(Callers \cup Clients)
  BY <1>2, <1>9, <1>10
<1>12. /\ commands' \in Seq([op : Ops, from : Callers])
       /\ \A k \in 1..Len(commands') : calls[commands'[k].from].result \in Taken
  BY <1>0 DEF PollLocalControl, CallsType, Askers
<1>13. config' = config /\ at = "control" /\ at' = "tunnels"
  BY DEF PollLocalControl
<1> QED BY <1>2, <1>11, <1>12, <1>13, AnswerStep

\* A call is taken while the engine exists, and refused afterwards.
LEMMA CallStep ==
    ASSUME CInv, NEW c \in Callers, Call(c)
    PROVE  CInv' /\ ServiceStep
<1>0. CallsType /\ Askers
  BY DEF CInv
<1>1. PICK op \in config.ops :
        LET sent == try_send([op |-> op, from |-> c]) IN
        /\ calls' = [calls EXCEPT ![c] =
                        [op |-> op, result |-> IF sent = {} THEN "command_queue"
                                               ELSE IF op \in Waits THEN "waiting" ELSE "ok"]]
        /\ commands' = IF sent = {} THEN commands ELSE CHOOSE q \in sent : TRUE
  BY DEF Call
<1>2. /\ calls[c].op = "none" /\ calls[c].result = "none"
      /\ UNCHANGED <<config, at, pending_controls, conns>>
  BY <1>0 DEF Call, Askers
<1>3. op \in Ops /\ op # "none"
  <2>1. op \in Ops
    BY <1>0, EngineAssumption DEF CallsType
  <2> QED BY <2>1 DEF Ops, Waits
<1> DEFINE command == [op |-> op, from |-> c]
           r == IF at = "returned" THEN "command_queue"
                ELSE IF op \in Waits THEN "waiting" ELSE "ok"
<1>4. /\ calls' = [calls EXCEPT ![c] = [op |-> op, result |-> r]]
      /\ commands' = IF at = "returned" THEN commands ELSE Append(commands, command)
  <2>1. CASE at = "returned"
    BY <1>1, <2>1 DEF try_send
  <2>2. CASE at # "returned"
    <3>1. try_send(command) = {Append(commands, command)} /\ try_send(command) # {}
      BY <2>2 DEF try_send
    <3>2. (CHOOSE q \in try_send(command) : TRUE) = Append(commands, command)
      BY <3>1
    <3> QED BY <1>1, <2>2, <3>1, <3>2
  <2> QED BY <2>1, <2>2
<1>5. r \in {"command_queue", "waiting", "ok"} /\ (at # "returned" => r \in Taken)
  BY DEF Taken
<1>6. \A d \in Callers : calls'[d] = IF d = c THEN [op |-> op, result |-> r] ELSE calls[d]
  BY <1>0, <1>4 DEF CallsType
<1>7. calls' \in [Callers -> [op : Ops \cup {"none"},
                              result : Taken \cup {"none", "stopped", "command_queue"}]]
  <2>1. [op |-> op, result |-> r] \in [op : Ops \cup {"none"},
                              result : Taken \cup {"none", "stopped", "command_queue"}]
    BY <1>3, <1>5 DEF Taken
  <2> HIDE DEF r
  <2> QED BY <1>0, <1>4, <2>1 DEF CallsType
<1>8. CallsType' /\ Askers'
  <2>1. command \in [op : Ops, from : Callers] /\ command.from = c
    BY <1>3
  <2>2. commands \in Seq([op : Ops, from : Callers])
    BY <1>0 DEF CallsType
  <2>3. \A k \in 1..Len(commands) : commands[k].from \in Callers
    BY <2>2, CommandFrom
  <2> DEFINE T == [op : Ops, from : Callers]
  <2> HIDE DEF command, r, T
  <2>4. command \in T /\ commands \in Seq(T)
    BY <2>1, <2>2 DEF T
  <2>5. /\ Append(commands, command) \in Seq(T)
        /\ \A k \in 1..Len(Append(commands, command)) :
              (k \in 1..Len(commands) /\ Append(commands, command)[k] = commands[k])
              \/ Append(commands, command)[k] = command
    BY <2>4
  <2>6. commands' \in Seq([op : Ops, from : Callers])
    BY <1>4, <2>4, <2>5 DEF T
  <2>7. CallsType'
    BY <1>0, <1>2, <1>7, <2>6 DEF CallsType
  <2>8. \A d \in Callers : calls[d].result \in Taken => calls'[d].result \in Taken
    BY <1>2, <1>6 DEF Taken
  <2>9. \A k \in 1..Len(commands) : calls'[commands[k].from].result \in Taken
    BY <1>0, <2>3, <2>8 DEF Askers
  <2>10. calls'[c].result = r
    BY <1>6
  <2>11. \A k \in 1..Len(commands') : calls'[commands'[k].from].result \in Taken
    <3>1. CASE at = "returned"
      BY <1>4, <2>9, <3>1
    <3>2. CASE at # "returned"
      BY <1>4, <1>5, <2>1, <2>5, <2>9, <2>10, <3>2
    <3> QED BY <3>1, <3>2
  <2>12. \A d \in Callers : calls'[d].op = "none" => calls'[d].result = "none"
    BY <1>0, <1>3, <1>6 DEF Askers
  <2>13. at # "returned" => \A d \in Callers : calls'[d].result \in Taken \cup {"none"}
    BY <1>0, <1>5, <1>6 DEF Askers
  <2>14. \A d \in Callers \cap Range(pending_controls) : calls'[d].result \in Taken
    BY <1>0, <2>8 DEF Askers
  <2>15. at = "returned" => commands' = <<>> /\ pending_controls = <<>>
    BY <1>0, <1>4 DEF Askers
  <2> QED BY <1>2, <2>7, <2>11, <2>12, <2>13, <2>14, <2>15 DEF Askers
<1>9. Phase' = Phase /\ (Phase = "ended" <=> at = "returned")
  BY <1>0, <1>2 DEF Phase, CallsType
<1>10. \A d \in Callers : d # c => CallState(d)' = CallState(d)
  BY <1>6 DEF CallState
<1>11. CallState(c) = "none"
  BY <1>2 DEF CallState
<1>12. CallState(c)' = CASE r = "command_queue" -> "released"
                         [] r = "waiting" -> "asked"
                         [] r = "ok" -> "answered"
  <2>1. calls'[c].result = r
    BY <1>6
  <2> HIDE DEF r
  <2> QED BY <1>5, <2>1 DEF CallState
<1>13. AbstractCalls' = [AbstractCalls EXCEPT ![c] = CallState(c)']
  BY <1>10 DEF AbstractCalls
<1>14. AbstractCalls[c] = "none"
  BY <1>11 DEF AbstractCalls
<1>15. CASE at = "returned" \/ op \in Waits
  <2>1. CallState(c)' = IF Phase = "ended" THEN "released" ELSE "asked"
    BY <1>9, <1>12, <1>15
  <2>2. Promise!Ask(c)
    BY <1>9, <1>13, <1>14, <2>1 DEF Promise!Ask, AbstractCalls
  <2> QED BY <1>8, <2>2 DEF CInv, ServiceStep, Promise!Next
<1>16. CASE at # "returned" /\ op \notin Waits
  <2>1. CallState(c)' = "answered" /\ Phase # "ended"
    BY <1>9, <1>12, <1>16
  <2>2. Promise!Tell(c)
    BY <1>9, <1>13, <1>14, <2>1 DEF Promise!Tell, AbstractCalls
  <2> QED BY <1>8, <2>2 DEF CInv, ServiceStep, Promise!Next
<1> QED BY <1>15, <1>16

\* Every step of the engine is one that Service allows, or none to it.
LEMMA NextCalls == CInv /\ [Next]_vars => CInv' /\ ServiceStep
<1> SUFFICES ASSUME CInv, [Next]_vars PROVE CInv' /\ ServiceStep
  OBVIOUS
<1>0. DOMAIN conns = Clients
  BY DEF CInv, CallsType
<1>1. CASE UNCHANGED vars
  BY <1>0, <1>1, QuietStep DEF vars
<1>2. CASE Starting
  BY <1>0, <1>2, QuietStep DEF Starting
<1>3. CASE CreateModule
  <2>1. at = "create" /\ config' = config
    BY <1>3 DEF CreateModule
  <2>2. Drop \/ UNCHANGED <<at, calls, commands, pending_controls, conns>>
    BY <1>3 DEF CreateModule
  <2> QED BY <1>0, <2>1, <2>2, QuietStep, DropStep
<1>4. CASE Prepare
  <2>1. at = "create" /\ config' = config
    BY <1>4 DEF Prepare
  <2>2. Drop \/ (at' = "command" /\ UNCHANGED <<calls, commands, pending_controls, conns>>)
    BY <1>4 DEF Prepare
  <2> QED BY <1>0, <2>1, <2>2, QuietStep, DropStep
<1>5. CASE TakeCommand \/ NoCommand
  BY <1>5, CommandStep
<1>6. CASE PollLocalControl
  BY <1>6, LocalControlStep
<1>7. CASE PollTunnels
  <2>1. /\ at = "tunnels" /\ at' = "command"
        /\ UNCHANGED <<config, calls, commands, pending_controls, conns>>
    BY <1>7 DEF PollTunnels
  <2> QED BY <1>0, <2>1, QuietStep
<1>8. CASE DropTunnels
  BY <1>0, <1>8, QuietStep DEF DropTunnels
<1>9. CASE Shutdown
  <2>1. at = "shutdown" /\ config' = config
    BY <1>9 DEF Shutdown
  <2>2. Drop \/ UNCHANGED <<at, calls, commands, pending_controls, conns>>
    BY <1>9 DEF Shutdown
  <2> QED BY <1>0, <2>1, <2>2, QuietStep, DropStep
<1>10. CASE ShutdownTimeout \/ DropHandle
  BY <1>0, <1>10, QuietStep DEF ShutdownTimeout, DropHandle
<1>11. CASE \E i \in DOMAIN tunnels : Elapse(i)
  <2>1. UNCHANGED <<config, at, calls, commands, pending_controls, conns>>
    BY <1>11 DEF Elapse
  <2> QED BY <1>0, <2>1, QuietStep
<1>12. CASE \E c \in Callers : Call(c)
  BY <1>12, CallStep
<1>13. CASE \E c \in Clients : Client(c)
  <2>1. UNCHANGED <<config, at, calls, commands, pending_controls>>
    BY <1>13 DEF Client
  <2>2. DOMAIN conns' = DOMAIN conns
    BY <1>13 DEF Client
  <2> QED BY <1>0, <2>1, <2>2, QuietStep
<1> QED BY <1>1, <1>2, <1>3, <1>4, <1>5, <1>6, <1>7, <1>8, <1>9, <1>10, <1>11, <1>12,
           <1>13 DEF Next, Loop

\* The engine implements the safety part of Service: no caller is answered before
\* the loop runs or after it stops, and its end leaves nobody waiting.
THEOREM ImplementsServiceSteps == Spec => Promise!Init /\ [][Promise!Next]_(Promise!vars)
<1>1. Spec => []CInv
  BY InitCalls, NextCalls, PTL DEF Spec
<1>2. CInv /\ [Next]_vars => [Promise!Next]_(Promise!vars)
  BY NextCalls DEF ServiceStep
<1> QED BY <1>1, <1>2, InitCalls, PTL DEF Spec
=============================================================================
