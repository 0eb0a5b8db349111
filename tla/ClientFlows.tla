---------------------------- MODULE ClientFlows -----------------------------
(* The client half of EstablishedSession in crates/snolc/src/engine.rs:        *)
(* poll_client takes flows from adapters and from the packet stack, asks the   *)
(* policy, opens ports, opens a stream and hands both ends to the modules when *)
(* the server has answered; reap_closed collects flows whose stream a module   *)
(* closed.  The handles that modules hold are those of core_io.rs.             *)
(*                                                                             *)
(* Every poll begins with reap_closed and is one action; between polls flows   *)
(* arrive, and modules close what they were given.                             *)
EXTENDS Integers, Sequences, FiniteSets, Functions, Loader

CONSTANTS
    MaxFlow,        \* bound: flows that arrive, 1..MaxFlow in order
    Kinds,          \* their kinds: "tcp", "udp", "packet_tcp", "packet_udp", and
                    \* "direct" for TCP with a policy that passes it through
    MaxUserStreams, \* max_user_streams of the MuxSession
    IoLimit,        \* core_io_limit
    Faults          \* what may fail: "stack", "attach", "complete", "accept", "mux"

ASSUME ClientAssumption ==
    /\ MaxFlow \in Nat /\ MaxUserStreams \in Nat /\ IoLimit \in Nat
    /\ Kinds \subseteq {"tcp", "udp", "direct", "packet_tcp", "packet_udp"}

Flow == 1..MaxFlow

VARIABLES
    kind,           \* kinds of the flows that arrived
    waiting,        \* flows that arrived and were not accepted
    pending,        \* client_pending: flow, admitted, port (policy_port is Some)
    openings,       \* flows of self.openings, in order
    active,         \* flows of self.active
    user_streams,   \* reserved slots of the MuxSession
    io,             \* STREAMS and DATAGRAMS: <<flow, end>> that a module holds
    told,           \* what the adapter of a flow was last told
    admitted,       \* flows the policy admitted
    failed          \* why the session was dropped, if it was

vars == <<kind, waiting, pending, openings, active, user_streams, io, told, admitted, failed>>

NoPending == [flow |-> 0, admitted |-> FALSE, port |-> FALSE]
IsPacket(f) == f \in DOMAIN kind /\ kind[f] \in {"packet_tcp", "packet_udp"}

Init ==
    /\ kind = <<>> /\ waiting = {} /\ pending = NoPending /\ openings = <<>>
    /\ active = {} /\ user_streams = 0 /\ io = {}
    /\ told = [f \in Flow |-> "nothing"] /\ admitted = {} /\ failed = "no"
-----------------------------------------------------------------------------
(* Calls that a poll makes.                                                  *)

\* The module's answer to a call that can fail only if Faults says so.
Answer(fault) == IF fault \in Faults THEN Answers
                 ELSE {a \in Answers : a.status = "ok" /\ a.handle = 1 /\ a.valid}

\* RegisteredIo::register for each end in turn: one limit for both tables.  What
\* was registered and not transferred is removed again on any error.
CanRegister(ends) == Cardinality(io) + Cardinality(ends) <= IoLimit

\* Variant: the policy's end decides.
Closed_policy_end == {f \in active : <<f, "policy">> \notin io}

\* reap_closed: flows whose mux handle is no longer registered leave; only those
\* of an adapter release their slot.
Closed == {f \in active : <<f, "mux">> \notin io}
Reaped == {f \in Closed : ~IsPacket(f)}

\* release_flow saturates.
release_flow(n, k) == IF k > n THEN 0 ELSE n - k

\* Variant: closed flows release their slot and stay in active.
reap_closed_keeps_active ==
    [active |-> active,
     user_streams |-> release_flow(user_streams, Cardinality(Reaped)),
     told |-> [f \in Flow |-> IF f \in Reaped THEN "closed" ELSE told[f]]]

reap_closed ==
    [active |-> active \ Closed,
     user_streams |-> release_flow(user_streams, Cardinality(Reaped)),
     told |-> [f \in Flow |-> IF f \in Reaped THEN "closed" ELSE told[f]]]

\* adapter_complete_flow, for a flow that came from an adapter.
complete_flow(f, what) ==
    IF IsPacket(f) THEN reap_closed.told ELSE [reap_closed.told EXCEPT ![f] = what]

\* What its adapter says to that; a packet flow has none.
Completions(f) ==
    IF IsPacket(f) THEN {"ok"} ELSE {adapter_complete_flow(a) : a \in Answer("complete")}

\* The poll returns an error: TunnelRuntime drops the session.  Its fields are kept
\* as they were, for the properties to look at.
Fail(why) ==
    /\ active' = reap_closed.active /\ user_streams' = reap_closed.user_streams
    /\ failed' = why
    /\ UNCHANGED <<kind, waiting, pending, openings, admitted>>
-----------------------------------------------------------------------------
(* An opening completes.                                                     *)

\* Variant: the last opening leaves instead of the one that is done.
RemoveOpening_last(i) == SubSeq(openings, 1, Len(openings) - 1)

\* swap_remove
RemoveOpening(i) ==
    SubSeq([openings EXCEPT ![i] = openings[Len(openings)]], 1, Len(openings) - 1)

\* The ends that are registered when the server has accepted the flow.
EndsOf(f) == IF kind[f] = "direct" THEN {<<f, "mux">>} ELSE {<<f, "mux">>, <<f, "policy">>}

attach_opened(f, a) ==
    CASE kind[f] = "direct" -> adapter_attach_flow(a)
      [] kind[f] \in {"tcp", "packet_tcp"} -> policy_attach_flow(a)
      [] OTHER -> policy_attach_datagram_flow(a)

\* The server accepted: both ends go to the policy (or the mux end to the adapter),
\* then the adapter is told.
OpenedOk(i) ==
    LET f == openings[i] IN
    /\ failed = "no"
    /\ IF ~CanRegister(EndsOf(f)) THEN Fail("limit") /\ told' = reap_closed.told /\ UNCHANGED io
       ELSE \E result \in {attach_opened(f, a) : a \in Answer("attach")} :
            IF result # "ok"
            THEN Fail("attach") /\ told' = reap_closed.told /\ UNCHANGED io
            ELSE /\ io' = io \cup EndsOf(f)
                 /\ told' = complete_flow(f, "ok")
                 /\ \E completed \in Completions(f) :
                    IF completed # "ok" THEN Fail("complete")
                    ELSE /\ openings' = RemoveOpening(i)
                         /\ active' = reap_closed.active \cup {f}
                         /\ user_streams' = reap_closed.user_streams
                         /\ UNCHANGED <<kind, waiting, pending, admitted, failed>>

\* The server refused: the adapter is told and the slot released.
OpenedRefused(i) ==
    LET f == openings[i] IN
    /\ failed = "no"
    /\ told' = complete_flow(f, "refused")
    /\ \E completed \in Completions(f) :
        IF completed # "ok" THEN Fail("complete")
        ELSE /\ openings' = RemoveOpening(i)
             /\ active' = reap_closed.active
             /\ user_streams' = release_flow(reap_closed.user_streams, 1)
             /\ UNCHANGED <<kind, waiting, pending, admitted, failed>>
    /\ UNCHANGED io

\* The stream failed under the opening.
OpenedError(i) ==
    /\ "mux" \in Faults /\ failed = "no"
    /\ told' = complete_flow(openings[i], "refused")
    /\ Fail("mux")
    /\ UNCHANGED io
-----------------------------------------------------------------------------
(* No opening is ready: take a flow, and see it through to its opening.      *)

Oldest(S) == CHOOSE f \in S : \A g \in S : f <= g
WaitingOf(k) == {f \in waiting : kind[f] = k}

\* accept_packet_tcp, then accept_packet_udp, then adapter_accept of each adapter,
\* which may have nothing yet.
Accepted ==
    IF pending # NoPending THEN {}
    ELSE IF WaitingOf("packet_tcp") # {} THEN {Oldest(WaitingOf("packet_tcp"))}
    ELSE IF WaitingOf("packet_udp") # {} THEN {Oldest(WaitingOf("packet_udp"))}
    ELSE waiting

NewPending(f) == [flow |-> f, admitted |-> FALSE, port |-> IsPacket(f)]

\* begin_open_flow_confirmed: a slot is reserved or the poll fails.
begin_open(p) ==
    /\ pending' = NoPending
    /\ IF reap_closed.user_streams >= MaxUserStreams
       THEN /\ failed' = "stream limit" /\ user_streams' = reap_closed.user_streams
            /\ UNCHANGED openings
       ELSE /\ user_streams' = reap_closed.user_streams + 1
            /\ openings' = Append(openings, p.flow)
            /\ UNCHANGED failed

attach_adapter(f, a) ==
    IF kind[f] = "tcp" THEN adapter_attach_flow(a) ELSE adapter_attach_datagram(a)

\* The policy admitted: a pair of ports, unless the flow has its port or needs
\* none; the adapter gets its end at once.
open_ports(p) ==
    LET end == {<<p.flow, "adapter">>} IN
    IF p.port \/ kind[p.flow] = "direct" THEN begin_open(p) /\ UNCHANGED io
    ELSE \/ /\ "stack" \in Faults
            /\ failed' = "stack" /\ pending' = p /\ user_streams' = reap_closed.user_streams
            /\ UNCHANGED <<openings, io>>
         \/ IF ~CanRegister(end)
            THEN /\ failed' = "limit" /\ pending' = p
                 /\ user_streams' = reap_closed.user_streams
                 /\ UNCHANGED <<openings, io>>
            ELSE \E result \in {attach_adapter(p.flow, a) : a \in Answer("attach")} :
                 IF result # "ok"
                 THEN /\ failed' = "attach" /\ pending' = p
                      /\ user_streams' = reap_closed.user_streams
                      /\ UNCHANGED <<openings, io>>
                 ELSE begin_open(p) /\ io' = io \cup end

\* Variant: the adapter of a refused flow is not told.
Refuse_silently(p) ==
    /\ told' = reap_closed.told
    /\ user_streams' = reap_closed.user_streams
    /\ pending' = NoPending
    /\ UNCHANGED <<openings, io, admitted, failed>>

\* Admission of the pending flow p: refused, the adapter is told.
Refuse(p) ==
    /\ told' = complete_flow(p.flow, "refused")
    /\ user_streams' = reap_closed.user_streams
    /\ UNCHANGED <<openings, io, admitted>>
    /\ \E completed \in Completions(p.flow) :
        IF completed # "ok"
        THEN failed' = "complete" /\ pending' = p
        ELSE pending' = NoPending /\ UNCHANGED failed

\* Pending: poll_client returns and the flow stays.
Await(p) ==
    /\ pending' = p
    /\ user_streams' = reap_closed.user_streams /\ told' = reap_closed.told
    /\ UNCHANGED <<openings, io, admitted, failed>>

Proceed(p) ==
    /\ admitted' = admitted \cup {p.flow}
    /\ told' = reap_closed.told
    /\ open_ports([p EXCEPT !.admitted = TRUE])

\* The rest of poll_client for the pending flow p.
See(p) ==
    /\ active' = reap_closed.active
    /\ \/ p.admitted /\ Proceed(p)
       \/ /\ ~p.admitted
          /\ \E result \in {policy_admit_flow(a) : a \in Answers} :
              CASE result = "ok" -> Proceed(p)
                [] result = "pending" -> Await(p)
                [] OTHER -> Refuse(p)

PollPending ==
    /\ failed = "no" /\ pending # NoPending
    /\ See(pending)
    /\ UNCHANGED <<kind, waiting>>

AcceptFlow ==
    /\ failed = "no"
    /\ \E f \in Accepted : waiting' = waiting \ {f} /\ See(NewPending(f))
    /\ UNCHANGED kind

\* adapter_accept returns an error other than Unsupported.
AcceptFails ==
    /\ failed = "no" /\ pending = NoPending
    /\ WaitingOf("packet_tcp") \cup WaitingOf("packet_udp") = {}
    /\ \E a \in Answer("accept") : adapter_accept(a) = "error"
    /\ Fail("accept") /\ told' = reap_closed.told /\ UNCHANGED io

\* Nothing to take: poll_drive moves the session's frames, or fails.
Idle ==
    /\ failed = "no" /\ pending = NoPending
    /\ WaitingOf("packet_tcp") \cup WaitingOf("packet_udp") = {}
    /\ told' = reap_closed.told
    /\ \/ /\ active' = reap_closed.active /\ user_streams' = reap_closed.user_streams
          /\ UNCHANGED <<kind, waiting, pending, openings, admitted, failed>>
       \/ "mux" \in Faults /\ Fail("mux")
    /\ UNCHANGED io

\* A flow arrives at an adapter or in the packet stack.
Arrive(k) ==
    /\ failed = "no" /\ Len(kind) < MaxFlow
    /\ kind' = Append(kind, k)
    /\ waiting' = waiting \cup {Len(kind) + 1}
    /\ UNCHANGED <<pending, openings, active, user_streams, io, told, admitted, failed>>

\* close and close_datagram of core_io.rs: a module closes a handle it holds.
ModuleCloses(h) ==
    /\ failed = "no"
    /\ h \in io /\ io' = io \ {h}
    /\ UNCHANGED <<kind, waiting, pending, openings, active, user_streams, told, admitted,
                   failed>>

OpeningDone == \E i \in DOMAIN openings : OpenedOk(i) \/ OpenedRefused(i) \/ OpenedError(i)

Next ==
    \/ \E i \in DOMAIN openings : OpenedOk(i)
    \/ \E i \in DOMAIN openings : OpenedRefused(i)
    \/ \E i \in DOMAIN openings : OpenedError(i)
    \/ PollPending \/ AcceptFlow \/ AcceptFails \/ Idle
    \/ \E k \in Kinds : Arrive(k)
    \/ \E h \in Flow \X {"adapter", "policy", "mux"} : ModuleCloses(h)

\* The engine polls the session on every tick.  The policy does not keep a flow
\* pending forever and the server answers: both are modules and peers outside this
\* code.
PollDecides == PollPending /\ pending' # pending
Fairness == WF_vars(OpeningDone) /\ WF_vars(PollDecides) /\ WF_vars(AcceptFlow)

Spec == Init /\ [][Next]_vars /\ Fairness
-----------------------------------------------------------------------------
(* Properties.                                                               *)

\* Every flow that is being opened or attached holds a slot of its own, so that
\* begin_open never lets more than max_user_streams streams exist and release_flow
\* never frees the slot of a flow that is still there; slots and registered handles
\* keep their limits.
SlotsCoverFlows ==
    /\ user_streams >= Len(openings) + Cardinality(active)
    /\ user_streams <= MaxUserStreams /\ Cardinality(io) <= IoLimit

\* A flow is in one place: waiting, pending, being opened or active, and the policy
\* admitted it before a stream was opened for it.
OnePlace ==
    LET opening == Range(openings) IN
    /\ Cardinality(opening) = Len(openings)
    /\ waiting \cap (opening \cup active \cup {pending.flow}) = {}
    /\ opening \cap active = {}
    /\ failed = "no" => pending.flow \notin opening \cup active
    /\ opening \cup active \subseteq admitted

\* The adapter of a flow hears one answer, and of the end of a flow only after it
\* heard ok; ok comes when the stream is in the hands of a module, and no adapter
\* hears of a flow that the policy refused as ok.
AnsweredOnce ==
    [][\A f \in Flow :
        told'[f] # told[f] =>
            \/ told[f] = "nothing" /\ told'[f] = "ok" /\ <<f, "mux">> \in io' /\ f \in admitted
            \/ told[f] = "nothing" /\ told'[f] = "refused" /\ <<f, "mux">> \notin io'
            \/ told[f] = "ok" /\ told'[f] = "closed" /\ <<f, "mux">> \notin io']_vars

\* Every flow that the session took from an adapter is answered, unless the session
\* ends.
FlowsAnswered ==
    \A f \in Flow :
        f = pending.flow \/ f \in Range(openings) ~>
            \/ failed # "no"
            \/ IF IsPacket(f) THEN f \notin Range(openings) \cup {pending.flow}
               ELSE told[f] # "nothing"

(* Statements of the documentation that the code does not keep.              *)

\* A flow that gets a resource error does not end the session with its other
\* flows: running out of ports, handles or stream slots ends that flow only.
ExhaustionEndsFlow == failed \notin {"stack", "limit", "stream limit"}

\* The slots are those of the flows that exist: a session that has no room for
\* another stream has max_user_streams of them.
SlotsReturn == failed = "stream limit" => Len(openings) + Cardinality(active) >= MaxUserStreams
=============================================================================
