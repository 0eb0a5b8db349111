---------------------------- MODULE ServerFlows ----------------------------
(***************************************************************************)
(* The server half of EstablishedSession in crates/snolc/src/engine.rs:    *)
(* how one established session accepts the flows its client opens, asks    *)
(* the policy and the adapters, answers, attaches, and reaps flows whose   *)
(* streams the modules have closed.                                        *)
(*                                                                         *)
(* The MuxSession is a resource with one owner at a time: the session, the *)
(* accept_flow future or the respond_flow future.  It carries user_streams,*)
(* the count of reserved flow slots.  Every engine tick calls poll once;   *)
(* each action below is one such call (reap_closed included) or a step of  *)
(* the client or of a module.                                              *)
(***************************************************************************)
EXTENDS Naturals, FiniteSets

CONSTANTS
    MaxFlow,        \* bound: the flows the client opens, 1..MaxFlow in order
    MaxUserStreams, \* max_user_streams: max_streams_per_session - 1
    Adapters,       \* number of adapters bound to the tunnel
    MaxAddresses    \* bound: addresses a name resolves to

Flow == 1..MaxFlow

ASSUME ServerAssumption ==
    /\ MaxFlow \in Nat /\ MaxUserStreams \in Nat \ {0}
    /\ Adapters \in Nat \ {0} /\ MaxAddresses \in Nat

VARIABLES
    mux,            \* self.mux is Some
    accepting,      \* the accept_flow future: "none", "created" and not yet
                    \* polled, or "waiting" with its slot reserved
    responding,     \* the respond_flow future exists
    user_streams,   \* MuxSession::user_streams, the reserved slots
    pending,        \* Option<PendingServerFlow>
    active,         \* flows of self.active
    registered,     \* flows whose MuxStream a module still holds
    adapter_flows,  \* flows an adapter opened and was not told to close
    opened,         \* number of flows the client has opened
    accepted,       \* number of flows accept_flow has returned
    failed          \* why the session was dropped, if it was

vars == <<mux, accepting, responding, user_streams, pending, active,
          registered, adapter_flows, opened, accepted, failed>>

\* resolved: the number of addresses, once known; stream: the pending flow
\* holds its MuxStream (and not the respond_flow future).
PendingFlow ==
    [flow : Flow \cup {0}, admitted : BOOLEAN, adapter_cursor : Nat,
     resolved : BOOLEAN, addresses : Nat, resolved_cursor : Nat,
     resolution_complete : BOOLEAN, adapter_flow : BOOLEAN, stream : BOOLEAN,
     response_sent : BOOLEAN, accepted : BOOLEAN]

NewPending(f) ==
    [flow |-> f, admitted |-> FALSE, adapter_cursor |-> 0,
     resolved |-> FALSE, addresses |-> 0, resolved_cursor |-> 0,
     resolution_complete |-> FALSE, adapter_flow |-> FALSE, stream |-> f # 0,
     response_sent |-> FALSE, accepted |-> FALSE]
NoPending == NewPending(0)

Init ==
    /\ mux = TRUE /\ accepting = "none" /\ responding = FALSE
    /\ user_streams = 0 /\ pending = NoPending
    /\ active = {} /\ registered = {} /\ adapter_flows = {}
    /\ opened = 0 /\ accepted = 0 /\ failed = "no"
-----------------------------------------------------------------------------
(* poll_pending: what one poll makes of the pending flow.  A result says     *)
(* whether the poll goes on to the next question, waits for a module, or     *)
(* answers the client.                                                       *)

Go(p) == [p |-> p, then |-> "go"]
Wait(p) == [p |-> p, then |-> "wait"]
Reject(p) == [p |-> [p EXCEPT !.accepted = FALSE], then |-> "respond"]
Accept(p) == [p |-> [p EXCEPT !.accepted = TRUE], then |-> "respond"]

\* Go through the results of one question into the next.
Into(results, Question(_)) ==
    UNION {IF r.then = "go" THEN Question(r.p) ELSE {r} : r \in results}

Module == INSTANCE Loader

\* A module is asked about p and its call gives one of results: done is what follows
\* its ok; it may have to be asked again, and any error refuses the flow.
Ask(p, results, done) ==
    UNION {CASE result = "ok" -> done
             [] result = "pending" -> {Wait(p)}
             [] OTHER -> {Reject(p)} : result \in results}

policy_admit_flow(p) ==
    IF p.admitted THEN {Go(p)}
    ELSE Ask(p, {Module!policy_admit_flow(a) : a \in Module!Answers},
             {Go([p EXCEPT !.admitted = TRUE])})

\* An adapter that does not resolve leaves the name to its open.
adapter_resolve(p) ==
    IF p.resolution_complete \/ p.resolved THEN {Go(p)}
    ELSE {Go([p EXCEPT !.resolution_complete = TRUE])}
         \cup Ask(p, {Module!adapter_resolve(a) : a \in Module!Answers},
                  {Go([p EXCEPT !.resolved = TRUE, !.addresses = n]) : n \in 0..MaxAddresses})

\* Variant: one admitted address is enough.
addresses_admitted_first(p) == p.resolved_cursor >= 1 \/ p.addresses = 0

addresses_admitted(p) == p.resolved_cursor >= p.addresses

\* One address per poll; the last one completes the resolution.
admit_address(p) ==
    LET checked(q) == IF addresses_admitted(q)
                      THEN Go([q EXCEPT !.resolution_complete = TRUE])
                      ELSE Wait(q)
    IN  IF p.resolution_complete THEN {Go(p)}
        ELSE IF p.resolved_cursor >= p.addresses THEN {checked(p)}
        ELSE Ask(p, {Module!policy_admit_resolved(a) : a \in Module!Answers},
                 {checked([p EXCEPT !.resolved_cursor = @ + 1])})

\* The adapter opens the flow, and the stack has ports for it or has not; an
\* adapter that does not support the flow passes it to the next one; any other
\* error refuses it.
adapter_open(p) ==
    Ask(p, {Module!adapter_open(a) : a \in Module!Answers},
        {Accept([p EXCEPT !.adapter_flow = TRUE]), Reject([p EXCEPT !.adapter_flow = TRUE])})
    \cup (IF p.adapter_cursor + 1 < Adapters
          THEN {Wait([p EXCEPT !.adapter_cursor = @ + 1, !.resolved = FALSE,
                               !.addresses = 0, !.resolved_cursor = 0,
                               !.resolution_complete = FALSE])}
          ELSE {})

next_adapter(p) ==
    IF p.adapter_cursor >= Adapters THEN {Reject(p)} ELSE {Go(p)}

poll_pending(p) ==
    Into(Into(Into(Into(policy_admit_flow(p), next_adapter), adapter_resolve),
              admit_address),
         adapter_open)
-----------------------------------------------------------------------------
(* reap_closed: flows whose stream is no longer registered leave active;     *)
(* their adapters are told and their slots released only if the session      *)
(* holds the MuxSession at that moment.  It is the first call of every poll. *)

Closed == active \ registered

\* Variant: each closed flow releases its slot and the next one.
release_flows_twice(n) == IF 2 * n > user_streams THEN 0 ELSE user_streams - 2 * n

\* release_flow, n times; it saturates.
release_flows(n) == IF n > user_streams THEN 0 ELSE user_streams - n

reap_closed ==
    [active |-> active \cap registered,
     user_streams |-> IF mux THEN release_flows(Cardinality(Closed)) ELSE user_streams,
     adapter_flows |-> IF mux THEN adapter_flows \ Closed ELSE adapter_flows]

Reap ==
    /\ active' = reap_closed.active
    /\ user_streams' = reap_closed.user_streams
    /\ adapter_flows' = reap_closed.adapter_flows

\* poll returns an error and TunnelRuntime::fail drops the session.  Its
\* fields are kept as they were then, for the properties to look at.
Fail(why) ==
    /\ Reap /\ failed' = why
    /\ UNCHANGED <<mux, accepting, responding, pending, registered, opened, accepted>>

\* poll_pending leaves the flow pending; with an answer, start_response moves
\* the MuxSession and the stream into the respond_flow future.
LeavePending(result) ==
    /\ adapter_flows' = reap_closed.adapter_flows
                        \cup {f \in {result.p.flow} : result.p.adapter_flow}
    /\ responding' = (result.then = "respond")
    /\ mux' = ~responding'
    /\ pending' = [result.p EXCEPT !.stream = mux']

\* Variant: accepting starts while a flow has not been admitted yet.
nothing_pending_yet == pending = NoPending \/ ~pending.admitted

nothing_pending == pending = NoPending

\* A pending flow that is not being answered: poll_pending.  The MuxSession or
\* the stream is not where start_response takes it from only by an error.
PollPending ==
    /\ failed = "no"
    /\ ~responding /\ pending # NoPending
    /\ \E result \in poll_pending(pending) :
          IF result.then = "respond" /\ ~(mux /\ pending.stream)
          THEN Fail("state")
          ELSE /\ LeavePending(result)
               /\ active' = reap_closed.active
               /\ user_streams' = reap_closed.user_streams
               /\ UNCHANGED <<accepting, registered, opened, accepted, failed>>

\* respond_flow is still writing the answer.
AwaitResponse ==
    /\ failed = "no"
    /\ responding /\ Reap
    /\ UNCHANGED <<mux, accepting, responding, pending, registered, opened,
                   accepted, failed>>

\* Variant: the flow stays pending when its stream has been handed over.
answered_kept == IF pending.accepted THEN [pending EXCEPT !.stream = TRUE] ELSE NoPending

answered == NoPending

\* The refusal has been written: reject_pending tells the adapter that opened
\* the flow, if one did, and releases the slot.
Rejected ==
    /\ failed = "no"
    /\ responding /\ ~pending.accepted
    /\ responding' = FALSE /\ mux' = TRUE /\ pending' = answered
    /\ active' = reap_closed.active
    /\ adapter_flows' = reap_closed.adapter_flows \ {pending.flow}
    /\ user_streams' = release_flows(1)
    /\ UNCHANGED <<accepting, registered, opened, accepted, failed>>

\* The acceptance has been written: the same poll goes on to attach_pending,
\* which hands the stream to the modules.
Attached ==
    /\ failed = "no"
    /\ responding /\ pending.accepted
    /\ responding' = FALSE /\ mux' = TRUE /\ pending' = answered
    /\ active' = reap_closed.active \cup {pending.flow}
    /\ registered' = registered \cup {pending.flow}
    /\ user_streams' = reap_closed.user_streams
    /\ adapter_flows' = reap_closed.adapter_flows
    /\ UNCHANGED <<accepting, opened, accepted, failed>>

\* Writing the answer fails, or a module or the core I/O table refuses the
\* attachment.
AnswerFails == failed = "no" /\ responding /\ Fail("answer")

\* Nothing pending and nobody accepting: create the accept_flow future, which
\* is first polled by the next poll.
StartAccept ==
    /\ failed = "no"
    /\ ~responding /\ nothing_pending /\ accepting = "none"
    /\ IF ~mux THEN Fail("state")
       ELSE /\ mux' = FALSE /\ accepting' = "created" /\ Reap
            /\ UNCHANGED <<responding, pending, registered, opened, accepted, failed>>

\* Variant: the slot is reserved without looking at the limit.
may_reserve_always == TRUE

may_reserve == user_streams < MaxUserStreams

reserve_user_stream ==
    user_streams + (IF accepting = "created" THEN 1 ELSE 0)

\* accept_flow reserves a slot in its first poll and waits for a flow whose
\* OPEN request has been read.
PollAccepting ==
    /\ failed = "no"
    /\ ~responding /\ pending = NoPending /\ accepting # "none"
    /\ accepting = "created" => may_reserve
    /\ accepting' = "waiting"
    /\ active' = reap_closed.active
    /\ user_streams' = reserve_user_stream
    /\ UNCHANGED <<mux, responding, pending, registered, adapter_flows, opened,
                   accepted, failed>>

\* The flow is there: its questions start in the same poll.
FlowAccepted ==
    /\ failed = "no"
    /\ ~responding /\ pending = NoPending /\ accepting # "none"
    /\ accepting = "created" => may_reserve
    /\ accepted < opened /\ accepted' = accepted + 1
    /\ accepting' = "none"
    /\ active' = reap_closed.active
    /\ user_streams' = reserve_user_stream
    /\ \E result \in poll_pending(NewPending(accepted + 1)) : LeavePending(result)
    /\ UNCHANGED <<registered, opened, failed>>

\* accept_flow returns an error: no slot is left, or the peer or the carrier
\* went away under it.
AcceptFails ==
    /\ failed = "no"
    /\ ~responding /\ pending = NoPending /\ accepting # "none"
    /\ \/ accepting = "created" /\ ~may_reserve /\ Fail("stream limit")
       \/ (accepting = "created" => may_reserve) /\ Fail("closed")

\* The client opens another flow.
ClientOpens ==
    /\ failed = "no"
    /\ opened < MaxFlow /\ opened' = opened + 1
    /\ UNCHANGED <<mux, accepting, responding, user_streams, pending, active,
                   registered, adapter_flows, accepted, failed>>

\* A module closes the stream of a flow it was attached to.
ModuleCloses(f) ==
    /\ failed = "no"
    /\ f \in registered /\ registered' = registered \ {f}
    /\ UNCHANGED <<mux, accepting, responding, user_streams, pending, active,
                   adapter_flows, opened, accepted, failed>>

Next ==
    \/ PollPending \/ AwaitResponse \/ Rejected \/ Attached \/ AnswerFails
    \/ StartAccept \/ PollAccepting \/ FlowAccepted \/ AcceptFails
    \/ ClientOpens
    \/ \E f \in Flow : ModuleCloses(f)

Spec == Init /\ [][Next]_vars
-----------------------------------------------------------------------------
(* Properties.                                                               *)

\* The fields of EstablishedSession have their types, and the reserved slots
\* never exceed the user streams of the session.
TypeOK ==
    /\ mux \in BOOLEAN /\ responding \in BOOLEAN
    /\ accepting \in {"none", "created", "waiting"}
    /\ user_streams \in 0..MaxUserStreams
    /\ pending \in PendingFlow
    /\ active \subseteq Flow /\ registered \subseteq Flow
    /\ adapter_flows \subseteq Flow
    /\ opened \in 0..MaxFlow /\ accepted \in 0..opened
    /\ failed \in {"no", "stream limit", "state", "answer", "closed"}

\* The MuxSession and the stream are always where poll takes them from, across
\* the three places they move between: the SessionFlowError::State returns of
\* poll and start_response are unreachable.
NoStateError == failed # "state"

\* Every flow that is attached, being decided or being accepted holds a slot
\* of its own, so release_flow never frees the slot of another flow.
SlotsCoverFlows ==
    user_streams >= Cardinality(active)
                    + (IF pending # NoPending THEN 1 ELSE 0)
                    + (IF accepting = "waiting" THEN 1 ELSE 0)

\* An adapter opens a flow only after the policy admitted it and admitted
\* every address that this adapter, and not an earlier one, resolved for it.
OpenedAfterAdmission ==
    pending.adapter_flow =>
        /\ pending.admitted /\ pending.resolution_complete
        /\ pending.resolved => pending.resolved_cursor = pending.addresses

\* poll hands a stream to the modules once per flow the client opened: never
\* again after it was attached, whether or not the modules closed it since.
AttachedOnce ==
    [][\A f \in registered' \ registered : f \notin active /\ f = accepted]_vars

(* Statements of the documentation that the code does not keep.              *)

\* The value of max_streams_per_session permits MaxUserStreams user flows:
\* having that many open does not end the session.
FullLoadKeepsSession == failed # "stream limit"

\* Between polls that hold the MuxSession the reserved slots are those of the
\* flows that are attached or pending: a flow that ended gave its slot back,
\* and the session still permits MaxUserStreams flows at once.
SlotsReturn ==
    mux => user_streams = Cardinality(active)
                          + (IF pending # NoPending THEN 1 ELSE 0)
=============================================================================
