------------------------------- MODULE Tunnel -------------------------------
(* TunnelRuntime of crates/snolc/src/engine.rs: the stages through which a     *)
(* tunnel becomes an established session, each poll at most one stage further, *)
(* with a deadline over the stages and a pause between attempts of a client.   *)
(*                                                                             *)
(* A tunnel is a record.  An instant that was set is "running" until the clock *)
(* reaches it and "passed" afterwards.  Of a session only the number of its    *)
(* active flows is kept; ClientFlows and ServerFlows model what it does.       *)
EXTENDS Integers, Loader

CONSTANT MaxActive      \* bound: active flows of a session

Instants == {"none", "running", "passed"}
Stages == {"protection", "handshake", "policy_attach"}

Tunnels ==
    [role : {"client", "server"}, state : {"carrier", "established"} \cup Stages,
     deadline : Instants, retry_at : Instants, flows : 0..MaxActive]

\* The connection timeout covers a client's carrier; a server waits for one.
ConnectDeadline(role) == IF role = "client" THEN "running" ELSE "none"

\* TunnelRuntime::new
new_tunnel(role) ==
    [role |-> role, state |-> "carrier", deadline |-> ConnectDeadline(role),
     retry_at |-> "none", flows |-> 0]

reset(t) == new_tunnel(t.role)

\* What a poll returns: the tunnel and TunnelUpdate or the error.
Stays(t) == [tunnel |-> t, update |-> "none", was_established |-> FALSE]
Becomes(t, update) == [tunnel |-> t, update |-> update, was_established |-> FALSE]

\* fail: start again, a client after a pause.
fail(t, was_established) ==
    [tunnel |-> [reset(t) EXCEPT !.retry_at = IF t.role = "client" THEN "running" ELSE "none"],
     update |-> "failed", was_established |-> was_established]

\* The deadline passed: start again at once.
TimedOut(t) == [tunnel |-> reset(t), update |-> "failed", was_established |-> FALSE]

\* Outcome of a stage that calls a module: go on, wait or fail.
Stage(t, result, next, update) ==
    CASE result = "ok" -> Becomes(next, update)
      [] result = "pending" -> Stays(t)
      [] OTHER -> fail(t, FALSE)

connect(t) ==
    IF t.retry_at = "running" THEN {Stays(t)}
    ELSE {Stage(t, IF t.role = "client" THEN carrier_connect(a) ELSE carrier_accept(a),
                [t EXCEPT !.state = "protection", !.deadline = "running", !.retry_at = "none"],
                "carrier_ready") : a \in Answers}

\* protection_passthrough takes the carrier's stream as it is.
protect(t) ==
    LET next == [t EXCEPT !.state = "handshake"] IN
    {Becomes(next, "protected")}
        \cup {Stage(t, protection_wrap(TRUE, a), next, "protected") : a \in Answers}

\* The handshake future opens or accepts the policy stream, whose registration may
\* exceed core_io_limit.
handshake(t) ==
    {Stage(t, result, [t EXCEPT !.state = "policy_attach"], "policy_open") :
        result \in {"ok", "pending", "error"}}

\* Variant: the deadline of the stages stays with the session.
policy_attach_deadline_kept(t) ==
    {Stage(t, policy_attach_session(a), [t EXCEPT !.state = "established"], "established") :
        a \in Answers}

policy_attach(t) ==
    {Stage(t, policy_attach_session(a),
           [t EXCEPT !.state = "established", !.deadline = "none"], "established") :
        a \in Answers}

\* EstablishedSession::poll: flows end, at most one begins, or the session fails.
established(t) ==
    {Stays([t EXCEPT !.flows = n]) : n \in {k \in 0..MaxActive : k <= t.flows + 1}}
        \cup {fail(t, TRUE)}

\* Variant: the deadline is not compared.
poll_tunnel_untimed(t) ==
    CASE t.state = "carrier" -> connect(t)
      [] t.state = "protection" -> protect(t)
      [] t.state = "handshake" -> handshake(t)
      [] t.state = "policy_attach" -> policy_attach(t)
      [] t.state = "established" -> established(t)

\* TunnelRuntime::poll
poll_tunnel(t) ==
    IF t.deadline = "passed" THEN {TimedOut(t)}
    ELSE CASE t.state = "carrier" -> connect(t)
           [] t.state = "protection" -> protect(t)
           [] t.state = "handshake" -> handshake(t)
           [] t.state = "policy_attach" -> policy_attach(t)
           [] t.state = "established" -> established(t)

flow_count(t) == IF t.state = "established" THEN t.flows ELSE 0

\* Time reaches an instant of the tunnel.
Elapsed(t) ==
    (IF t.deadline = "running" THEN {[t EXCEPT !.deadline = "passed"]} ELSE {})
        \cup (IF t.retry_at = "running" THEN {[t EXCEPT !.retry_at = "passed"]} ELSE {})
=============================================================================
