------------------------------- MODULE Stack --------------------------------
(* The stack bridge (crates/snolc/src/stack.rs): flows between an adapter and *)
(* a policy over pairs of loopback sockets, flows that packets of a TUN        *)
(* adapter create, the budget of managed bytes, the pool of virtual ports and  *)
(* the bounded packet device.                                                  *)
(*                                                                             *)
(* smoltcp is external: what it does with a packet is reduced to the TCP       *)
(* states of the sockets that packets create and to the queues of the UDP      *)
(* groups; what it sends is chosen freely.  The bridge is one value that every *)
(* call transforms, as the code borrows the whole StackBridge.                 *)
EXTENDS Integers, Sequences, FiniteSets, SequencesExt, HandleTable, Reassembly

CONSTANTS
    Source, Endpoint,   \* addresses behind the TUN adapter, and destinations
    Configs,            \* limits, and the calls and packets that come with them
    Base,               \* what StackBridge::new charges for its own buffers
    TcpBytes, UdpBytes, \* buffers of one TCP or UDP socket
    Payload,            \* payload bytes of a datagram
    MetadataSlots,      \* datagrams a UDP socket queues
    QueueBytes,         \* packet_queue_bytes; a packet is one byte
    MaxIngress,         \* max_ingress_packets_per_tick
    ReassemblySlots,    \* reassembly_slots
    Fragments,          \* fragments that arrive
    OpenPolls           \* polls inside open_tcp: 8 in the code

\* StackBridge::new fails when the base charge alone exceeds the budget.
ASSUME StackAssumption ==
    /\ {Base, TcpBytes, UdpBytes, Payload, MetadataSlots, QueueBytes, MaxIngress,
        ReassemblySlots, OpenPolls} \subseteq Nat
    /\ \A c \in Configs :
        /\ {c.max_flows, c.max_managed_bytes, c.ports} \subseteq Nat
        /\ Base <= c.max_managed_bytes
        /\ c.calls \subseteq {"tcp", "udp", "syn", "ack", "fin", "rst", "datagram",
                              "fragment", "loopback", "tun"}

VARIABLES
    b,          \* the StackBridge
    leases,     \* ports in the hands of adapters and policies
    refused,    \* accept_packet_tcp or accept_packet_udp met a stale handle
    assembled,  \* the slot of the last datagram put together, or EmptySlot
    config      \* max_flows (limit of each table), max_managed_bytes, ports (size of
                \* the pool), and calls: flows opened ("tcp", "udp"), packets that
                \* arrive ("syn", "ack", "fin", "rst", "datagram", "fragment") and
                \* packets that smoltcp sends ("loopback", "tun")

vars == <<b, leases, refused, assembled, config>>

Kind == {"tcp", "udp", "packet_tcp", "packet_udp"}

Init ==
    /\ config \in Configs
    /\ b = [managed |-> Base,
            available |-> [i \in 1..config.ports |-> i], allocated |-> {},
            table |-> [k \in Kind |-> NewTable],
            by_tuple |-> [k \in {"packet_tcp", "packet_udp"} |-> <<>>],
            pending |-> [k \in {"packet_tcp", "packet_udp"} |-> <<>>],
            groups |-> <<>>,
            slots |-> [i \in 1..ReassemblySlots |-> EmptySlot],
            ingress |-> <<>>, egress |-> 0, bytes |-> 0]
    /\ leases = {}
    /\ refused = FALSE
    /\ assembled = EmptySlot

Without(f, x) == [y \in DOMAIN f \ {x} |-> f[y]]
With(f, x, v) == [y \in DOMAIN f \cup {x} |-> IF y = x THEN v ELSE f[y]]
-----------------------------------------------------------------------------
(* The budget and the port pool.                                             *)

CanReserve(s, n) == s.managed + n <= config.max_managed_bytes
reserve(s, n) == [s EXCEPT !.managed = @ + n]
release(s, n) == [s EXCEPT !.managed = @ - n]

\* PortPool::allocate of a pool that is not empty.
allocate(s) ==
    [s EXCEPT !.available = Tail(@), !.allocated = @ \cup {Head(s.available)}]

\* PortPool::release refuses a port that is not allocated.
release_port(s, port) ==
    IF port \notin s.allocated THEN s
    ELSE [s EXCEPT !.available = Append(@, port), !.allocated = @ \ {port}]

\* HandleTable::insert into the table of kind k.
Insert(s, k, v) ==
    LET r == insert(s.table[k], config.max_flows, v) IN
    [b |-> [s EXCEPT !.table[k] = r.table], handle |-> r.handle]

Live(s, k, h) == IsLive(s.table[k], h)
Flow(s, k, h) == get(s.table[k], h)
-----------------------------------------------------------------------------
(* The packet device.                                                        *)

\* BoundedTxToken::consume: loopback packets go round, others to the adapter, a
\* packet beyond the limit is dropped.
transmit(s, to) ==
    IF s.bytes + 1 > QueueBytes THEN s
    ELSE IF to = "loopback"
    THEN [s EXCEPT !.bytes = @ + 1,
                   !.ingress = Append(@, [external |-> FALSE, kind |-> "loopback"])]
    ELSE [s EXCEPT !.bytes = @ + 1, !.egress = @ + 1]

\* Variant: a packet leaves the queue without its bytes.
pop_ingress_uncounted(s) == [s EXCEPT !.ingress = Tail(@)]

\* Popping the front packet, by BoundedDevice::receive or to drop it.
pop_ingress(s) == [s EXCEPT !.ingress = Tail(@), !.bytes = @ - 1]

\* poll_egress and smoltcp's replies: some packets, of any destination.
poll_egress(s) ==
    {FoldLeft(transmit, s, sent) : sent \in {<<>>} \cup [{1} -> config.calls \cap {"loopback", "tun"}]}
-----------------------------------------------------------------------------
(* Flows over pairs of loopback sockets.                                     *)

\* Variant: the ports are given back, the memory is not.
GiveBack_ports_only(s, adapter_port, policy_port, cost) ==
    release_port(release_port(s, adapter_port), policy_port)

\* Variant: the policy's port is forgotten.
GiveBack_one_port(s, adapter_port, policy_port, cost) ==
    release(release_port(s, adapter_port), cost)

\* cleanup_tcp_sockets, cleanup_udp_sockets, close_tcp and close_udp.
GiveBack(s, adapter_port, policy_port, cost) ==
    release(release_port(release_port(s, adapter_port), policy_port), cost)

\* open_tcp and open_udp up to the insertion; fault: listen, connect or bind failed.
open_flow(s, k, one, fault) ==
    LET cost == 2 * one
        first == allocate(reserve(s, cost))
        second == allocate(first)
        flow == [adapter_port |-> Head(s.available),
                 policy_port |-> Head(first.available), managed_bytes |-> cost]
        r == Insert(second, k, flow)
        Error(t) == [b |-> t, handle |-> Full]
        Undone == Error(GiveBack(second, flow.adapter_port, flow.policy_port, cost))
    IN  IF ~CanReserve(s, cost) \/ s.available = <<>> THEN Error(s)
        ELSE IF first.available = <<>>
        THEN Error(release(release_port(first, Head(s.available)), cost))
        ELSE IF fault \/ r.handle = Full THEN Undone
        ELSE r

close_flow(s, k, h) ==
    LET flow == Flow(s, k, h) IN
    GiveBack([s EXCEPT !.table[k] = remove(@, h)],
             flow.adapter_port, flow.policy_port, flow.managed_bytes)
-----------------------------------------------------------------------------
(* TCP flows that packets create.                                            *)

\* A packet of the device: the tuple of an external one.
Tuple(p) == <<p.source, p.destination>>

\* prepare_packet_tcp: a listening socket for the SYN at the front.
prepare_packet_tcp(s) ==
    LET p == Head(s.ingress)
        r == Insert(reserve(s, TcpBytes), "packet_tcp",
                    [tuple |-> Tuple(p), managed_bytes |-> TcpBytes, queued |-> FALSE,
                     state |-> "listen", remote |-> "none"])
    IN  IF s.ingress = <<>> \/ ~p.external \/ p.kind # "syn" THEN [b |-> s, ok |-> TRUE]
        ELSE IF Tuple(p) \in DOMAIN s.by_tuple["packet_tcp"] THEN [b |-> s, ok |-> TRUE]
        ELSE IF ~CanReserve(s, TcpBytes) THEN [b |-> s, ok |-> FALSE]
        ELSE IF r.handle = Full THEN [b |-> release(r.b, TcpBytes), ok |-> FALSE]
        ELSE [b |-> [r.b EXCEPT !.by_tuple["packet_tcp"] = With(@, Tuple(p), r.handle)],
              ok |-> TRUE]

Unqueued(s, h) ==
    /\ ~Flow(s, "packet_tcp", h).queued
    /\ Flow(s, "packet_tcp", h).state = "established"

\* Variant: the flow is queued and not marked.
SetQueued_unmarked(s, h) == [s EXCEPT !.pending["packet_tcp"] = Append(@, h)]

SetQueued(s, h) ==
    [s EXCEPT !.table["packet_tcp"] =
                  set(@, h, [get(@, h) EXCEPT !.queued = TRUE]),
              !.pending["packet_tcp"] = Append(@, h)]

\* queue_established_packet_tcp, in any order of the map's values.
queue_established_packet_tcp(s) ==
    {FoldLeft(SetQueued, s, order) :
        order \in SetToSeqs({h \in Handles(s.table["packet_tcp"]) : Unqueued(s, h)})}

close_packet_tcp(s, h) ==
    LET flow == Flow(s, "packet_tcp", h) IN
    release([s EXCEPT !.table["packet_tcp"] = remove(@, h),
                      !.by_tuple["packet_tcp"] = Without(@, flow.tuple),
                      !.pending["packet_tcp"] = SelectSeq(@, LAMBDA x : x # h)],
            flow.managed_bytes)
-----------------------------------------------------------------------------
(* UDP flows that packets create: one socket for a destination, one flow for  *)
(* a tuple.                                                                  *)

\* prepare_packet_udp: a socket for the destination of the datagram at the front.
prepare_packet_udp(s) ==
    LET p == Head(s.ingress) IN
    IF s.ingress = <<>> \/ ~p.external \/ p.kind # "datagram" THEN [b |-> s, ok |-> TRUE]
    ELSE IF p.destination \in DOMAIN s.groups THEN [b |-> s, ok |-> TRUE]
    ELSE IF ~CanReserve(s, UdpBytes) THEN [b |-> s, ok |-> FALSE]
    ELSE [b |-> [reserve(s, UdpBytes) EXCEPT
                    !.groups = With(@, p.destination,
                                    [managed_bytes |-> UdpBytes, flows |-> 0, queue |-> <<>>])],
          ok |-> TRUE]

\* drain_packet_udp, one datagram of one destination: d.more says to go on.
DrainOne(d, destination) ==
    LET s == d.b
        queue == s.groups[destination].queue
        tuple == <<Head(queue), destination>>
        known == tuple \in DOMAIN s.by_tuple["packet_udp"]
        handle == s.by_tuple["packet_udp"][tuple]
        taken == [reserve(s, Payload) EXCEPT !.groups[destination].queue = Tail(@)]
        r == Insert(taken, "packet_udp", [tuple |-> tuple, incoming |-> TRUE])
        Break(t) == [b |-> t, more |-> FALSE]
    IN  IF ~d.more \/ queue = <<>> THEN Break(s)
        ELSE IF known /\ Flow(s, "packet_udp", handle).incoming THEN Break(s)
        ELSE IF ~CanReserve(s, Payload) THEN Break(s)
        ELSE IF known
        THEN [b |-> [taken EXCEPT !.table["packet_udp"] =
                        set(@, handle, [get(@, handle) EXCEPT !.incoming = TRUE])],
              more |-> TRUE]
        ELSE IF r.handle = Full THEN Break(release(taken, Payload))
        ELSE [b |-> [r.b EXCEPT !.by_tuple["packet_udp"] = With(@, tuple, r.handle),
                                !.groups[destination].flows = @ + 1,
                                !.pending["packet_udp"] = Append(@, r.handle)],
              more |-> TRUE]

\* A socket queues at most MetadataSlots datagrams.
DrainGroup(s, destination) ==
    FoldLeft(LAMBDA d, i : DrainOne(d, destination), [b |-> s, more |-> TRUE],
             [i \in 1..MetadataSlots |-> i]).b

drain_packet_udp(s) ==
    {FoldLeft(DrainGroup, s, order) : order \in SetToSeqs(DOMAIN s.groups)}

\* close_packet_udp: the last flow of a destination takes the socket with it.
close_packet_udp(s, h) ==
    LET flow == Flow(s, "packet_udp", h)
        destination == flow.tuple[2]
        group == s.groups[destination]
        closed == release([s EXCEPT !.table["packet_udp"] = remove(@, h),
                                    !.by_tuple["packet_udp"] = Without(@, flow.tuple),
                                    !.pending["packet_udp"] = SelectSeq(@, LAMBDA x : x # h)],
                          IF flow.incoming THEN Payload ELSE 0)
    IN  IF destination \notin DOMAIN s.groups THEN closed
        ELSE IF group.flows <= 1
        THEN release([closed EXCEPT !.groups = Without(@, destination)], group.managed_bytes)
        ELSE [closed EXCEPT !.groups[destination].flows = @ - 1]
-----------------------------------------------------------------------------
(* One poll of the stack.                                                    *)

SetState(s, h, state, remote) ==
    [s EXCEPT !.table["packet_tcp"] =
                  set(@, h, [get(@, h) EXCEPT !.state = state, !.remote = remote])]

\* smoltcp's TCP: a SYN goes to any socket that listens on its destination, every
\* other segment to the socket of its connection; RST returns a socket whose
\* handshake is not complete to listening.
Segment(s, p) ==
    LET flows == Handles(s.table["packet_tcp"])
        F(h) == Flow(s, "packet_tcp", h)
        Listening == {h \in flows : F(h).state = "listen" /\ F(h).tuple[2] = p.destination}
        Connected == {h \in flows : F(h).remote = p.source /\ F(h).tuple[2] = p.destination}
        Next(h) ==
            CASE p.kind = "ack" /\ F(h).state = "syn_received" -> SetState(s, h, "established", p.source)
              [] p.kind = "fin" /\ F(h).state \in {"syn_received", "established"} ->
                    SetState(s, h, "close_wait", p.source)
              [] p.kind = "rst" /\ F(h).state = "syn_received" -> SetState(s, h, "listen", "none")
              [] p.kind = "rst" -> SetState(s, h, "closed", "none")
              [] OTHER -> s
    IN  IF Connected # {} THEN {Next(h) : h \in Connected}
        ELSE IF p.kind = "syn" /\ Listening # {}
        THEN {SetState(s, h, "syn_received", p.source) : h \in Listening}
        ELSE {s}

\* smoltcp's UDP: the socket of the destination queues the datagram or drops it.
Datagram(s, p) ==
    IF /\ p.destination \in DOMAIN s.groups
       /\ Len(s.groups[p.destination].queue) < MetadataSlots
    THEN [s EXCEPT !.groups[p.destination].queue = Append(@, p.source)]
    ELSE s

\* poll_ingress_single takes the front packet of the device.
poll_ingress_single(s) ==
    LET p == Head(s.ingress)
        t == pop_ingress(s)
    IN  IF ~p.external THEN {t}
        ELSE IF p.kind = "datagram" THEN {Datagram(t, p)}
        ELSE Segment(t, p)

\* One turn of the loop of poll.  A packet whose socket cannot be created is
\* dropped: after a SYN the turn goes on with the next packet, after a datagram it
\* ends.
IngressTurn(i) ==
    LET tcp == prepare_packet_tcp(i.b)
        afterTcp == IF tcp.ok \/ i.b.ingress = <<>> THEN tcp.b ELSE pop_ingress(tcp.b)
        udp == prepare_packet_udp(afterTcp)
    IN  IF ~i.more THEN {i}
        ELSE IF ~udp.ok THEN {[b |-> pop_ingress(udp.b), more |-> TRUE]}
        ELSE IF udp.b.ingress = <<>> THEN {[b |-> udp.b, more |-> FALSE]}
        ELSE {[b |-> t, more |-> TRUE] : t \in poll_ingress_single(udp.b)}

Ingress(s) ==
    {i.b : i \in FoldLeft(LAMBDA S, n : UNION {IngressTurn(i) : i \in S},
                          {[b |-> s, more |-> TRUE]}, [n \in 1..MaxIngress |-> n])}

poll(s) ==
    UNION {UNION {UNION {poll_egress(u) : u \in drain_packet_udp(t)} :
                    t \in queue_established_packet_tcp(r)} : r \in Ingress(s)}
-----------------------------------------------------------------------------
(* The calls.                                                                *)

\* PacketPort::poll_send_datagram: Pending while the packet does not fit.
SendPacket(p) ==
    /\ p.kind \in config.calls
    /\ b.bytes + 1 <= QueueBytes
    /\ b' = [b EXCEPT !.bytes = @ + 1, !.ingress = Append(@, p)]
    /\ UNCHANGED <<leases, refused, assembled, config>>

\* PacketPort::poll_send_datagram of a fragment.  The adapter repeats the call
\* with the same fragment when the datagram is complete but does not fit.
SendFragment(f, expired) ==
    LET r == ingest(b.slots, f, expired, b.bytes + 1 <= QueueBytes)
        p == [external |-> TRUE, kind |-> "datagram",
              source |-> f.key[1], destination |-> f.key[2]]
    IN
    /\ "fragment" \in config.calls
    /\ b' = IF r.outcome = "packet"
            THEN [b EXCEPT !.slots = r.slots, !.bytes = @ + 1, !.ingress = Append(@, p)]
            ELSE [b EXCEPT !.slots = r.slots]
    /\ assembled' = r.packet
    /\ UNCHANGED <<leases, refused, config>>

\* PacketPort::poll_recv_datagram.
RecvPacket ==
    /\ b.egress > 0
    /\ b' = [b EXCEPT !.egress = @ - 1, !.bytes = @ - 1]
    /\ UNCHANGED <<leases, refused, assembled, config>>

\* SharedStackBridge::poll, once per tick of the engine.
Tick ==
    /\ b' \in poll(b)
    /\ UNCHANGED <<leases, refused, assembled, config>>

\* SharedStackBridge::open_tcp: the adapter's and the policy's port share a lease.
OpenTcp(fault) ==
    LET r == open_flow(b, "tcp", TcpBytes, fault) IN
    /\ "tcp" \in config.calls
    /\ IF r.handle = Full THEN b' = r.b /\ UNCHANGED leases
       ELSE /\ b' \in FoldLeft(LAMBDA S, n : UNION {poll(s) : s \in S}, {r.b},
                               [n \in 1..OpenPolls |-> n])
            /\ leases' = leases \cup ({<<"tcp", r.handle>>} \X {"adapter", "policy"})
    /\ UNCHANGED <<refused, assembled, config>>

\* SharedStackBridge::open_udp.
OpenUdp(fault) ==
    LET r == open_flow(b, "udp", UdpBytes, fault) IN
    /\ "udp" \in config.calls
    /\ b' = r.b
    /\ leases' = leases \cup (IF r.handle = Full THEN {}
                              ELSE {<<"udp", r.handle>>} \X {"adapter", "policy"})
    /\ UNCHANGED <<refused, assembled, config>>

\* SharedStackBridge::accept_packet_tcp and accept_packet_udp.
AcceptPacket(k) ==
    /\ b.pending[k] # <<>>
    /\ LET h == Head(b.pending[k]) IN
       /\ b' = [b EXCEPT !.pending[k] = Tail(@)]
       /\ IF Live(b, k, h)
          THEN leases' = leases \cup {<<<<k, h>>, "port">>} /\ UNCHANGED refused
          ELSE refused' = TRUE /\ UNCHANGED leases
    /\ UNCHANGED <<assembled, config>>

\* The lease of a flow, dropped with its last port, closes the flow if it lives.
close(s, k, h) ==
    IF ~Live(s, k, h) THEN s
    ELSE CASE k \in {"tcp", "udp"} -> close_flow(s, k, h)
           [] k = "packet_tcp" -> close_packet_tcp(s, h)
           [] k = "packet_udp" -> close_packet_udp(s, h)

\* An owner drops a port.
DropPort(port) ==
    /\ port \in leases
    /\ leases' = leases \ {port}
    /\ b' = IF \E other \in leases' : other[1] = port[1] THEN b
            ELSE close(b, port[1][1], port[1][2])
    /\ UNCHANGED <<refused, assembled, config>>

\* PacketTcpPort::poll_close shuts the write side of the socket.
ShutdownPacketTcp(h) ==
    /\ <<<<"packet_tcp", h>>, "port">> \in leases
    /\ Live(b, "packet_tcp", h)
    /\ LET flow == Flow(b, "packet_tcp", h) IN
       /\ flow.state \in {"established", "close_wait"}
       /\ b' = SetState(b, h, "closing", flow.remote)
    /\ UNCHANGED <<leases, refused, assembled, config>>

\* PacketUdpPort::poll_recv_datagram.
RecvDatagram(h) ==
    /\ <<<<"packet_udp", h>>, "port">> \in leases
    /\ Live(b, "packet_udp", h)
    /\ Flow(b, "packet_udp", h).incoming
    /\ b' = release([b EXCEPT !.table["packet_udp"] =
                                 set(@, h, [get(@, h) EXCEPT !.incoming = FALSE])], Payload)
    /\ UNCHANGED <<leases, refused, assembled, config>>

External == [external : {TRUE}, kind : {"syn", "ack", "fin", "rst", "datagram"},
             source : Source, destination : Endpoint]
AllHandles == (1..config.max_flows) \X (1..(Generations - 1))

Next ==
    \/ \E p \in External : SendPacket(p)
    \/ \E f \in Fragments : \E expired \in SUBSET DOMAIN b.slots : SendFragment(f, expired)
    \/ RecvPacket
    \/ Tick
    \/ \E fault \in BOOLEAN : OpenTcp(fault)
    \/ \E fault \in BOOLEAN : OpenUdp(fault)
    \/ \E k \in {"packet_tcp", "packet_udp"} : AcceptPacket(k)
    \/ \E port \in leases : DropPort(port)
    \/ \E h \in AllHandles : ShutdownPacketTcp(h)
    \/ \E h \in AllHandles : RecvDatagram(h)

Spec == Init /\ [][Next]_vars
-----------------------------------------------------------------------------
(* Properties.                                                               *)

\* The counters that the code subtracts from unchecked stay within their bounds:
\* managed_bytes within max_managed_bytes, the device's bytes within its limit, and
\* these are what the queues of both directions hold.
TypeOK ==
    /\ b.managed \in 0..config.max_managed_bytes
    /\ b.bytes \in 0..QueueBytes
    /\ b.egress \in Nat
    /\ b.bytes = Len(b.ingress) + b.egress

Sum(S, Cost(_)) == MapThenSumSet(Cost, S)

\* The budget is exactly what exists: managed_bytes is the base charge plus what
\* every live flow, every UDP socket of a destination and every datagram that
\* waits for its reader were charged.  Every error path of open_tcp, open_udp,
\* prepare_packet_* and drain_packet_udp and every close must undo what it did.
ManagedConserved ==
    b.managed = Base
        + Sum(Handles(b.table["tcp"]), LAMBDA h : Flow(b, "tcp", h).managed_bytes)
        + Sum(Handles(b.table["udp"]), LAMBDA h : Flow(b, "udp", h).managed_bytes)
        + Sum(Handles(b.table["packet_tcp"]),
              LAMBDA h : Flow(b, "packet_tcp", h).managed_bytes)
        + Sum(DOMAIN b.groups, LAMBDA d : b.groups[d].managed_bytes)
        + Payload * Cardinality({h \in Handles(b.table["packet_udp"]) :
                                    Flow(b, "packet_udp", h).incoming})

PortsOf(k) ==
    UNION {{Flow(b, k, h).adapter_port, Flow(b, k, h).policy_port} :
              h \in Handles(b.table[k])}

\* Each virtual port is free once or belongs to one end of one live flow, after
\* any sequence of opens that fail half way and closes.
PortsConserved ==
    /\ IsInjective(b.available)
    /\ b.allocated = PortsOf("tcp") \cup PortsOf("udp")
    /\ PortsOf("tcp") \cap PortsOf("udp") = {}
    /\ Cardinality(b.allocated) = 2 * (Cardinality(Handles(b.table["tcp"]))
                                       + Cardinality(Handles(b.table["udp"])))
    /\ ToSet(b.available) \cup b.allocated = 1..config.ports
    /\ ToSet(b.available) \cap b.allocated = {}

\* A packet flow has exactly one owner.  The map from tuples and the table agree;
\* a queued flow waits in the pending queue or has a port, not both and not twice;
\* an accepted handle is never stale; the socket of a UDP destination exists as
\* long as a flow needs it and counts its flows.
OwnedOnce ==
    /\ \A k \in {"packet_tcp", "packet_udp"} :
        LET flows == Handles(b.table[k])
            leased == {h \in flows : <<<<k, h>>, "port">> \in leases}
        IN  /\ \A h \in flows : /\ Flow(b, k, h).tuple \in DOMAIN b.by_tuple[k]
                                /\ b.by_tuple[k][Flow(b, k, h).tuple] = h
            /\ Cardinality(DOMAIN b.by_tuple[k]) = Cardinality(flows)
            /\ IsInjective(b.pending[k])
            /\ ToSet(b.pending[k]) \subseteq flows \ leased
            /\ k = "packet_udp" => ToSet(b.pending[k]) = flows \ leased
            /\ k = "packet_tcp" => \A h \in flows \ leased :
                    (h \in ToSet(b.pending[k])) = Flow(b, k, h).queued
    /\ \A h \in Handles(b.table["packet_udp"]) :
        LET destination == Flow(b, "packet_udp", h).tuple[2] IN
        destination \in DOMAIN b.groups /\ b.groups[destination].flows > 0
    /\ ~refused

\* Existing flows keep what they have: only dropping the last port of a flow ends
\* it, whatever limit another flow runs into, and a flow never changes its ports,
\* tuple or charge.
ExistingFlowsKept ==
    [][\A k \in Kind : \A h \in Handles(b.table[k]) :
        \/ /\ Live(b', k, h)
           /\ \A f \in {"adapter_port", "policy_port", "tuple", "managed_bytes"} :
                f \in DOMAIN Flow(b, k, h) => Flow(b', k, h)[f] = Flow(b, k, h)[f]
        \/ \E port \in leases : port \notin leases' /\ port[1] = <<k, h>>]_vars

\* A datagram that comes out of reassembly is made of fragments of one key with
\* the same header, has a last fragment, and every byte below its length comes
\* from exactly one fragment, whatever was duplicated, overlapped, expired or had
\* to wait for room in between.
AssembledWhole ==
    assembled # EmptySlot =>
        /\ \A f \in assembled.parts : f.key = assembled.key /\ f.header = assembled.header
        /\ \E f \in assembled.parts : ~f.more /\ f.offset + f.len = assembled.total
        /\ \A n \in 0..(assembled.total - 1) :
            Cardinality({f \in assembled.parts : n \in f.offset..(f.offset + f.len - 1)}) = 1

\* A datagram that comes out of reassembly holds all that its fragments hold: no
\* fragment reaches beyond its end.  stack-bridge.md says that invalid fragments
\* are dropped; a last fragment that ends before one already received is taken.
NothingBeyondEnd ==
    \A f \in assembled.parts : f.offset + f.len <= assembled.total

\* A socket serves the connection of its flow's tuple.  stack-bridge.md says that
\* sockets are bound by full tuple; the code listens on the destination only.
SocketBoundByTuple ==
    \A h \in Handles(b.table["packet_tcp"]) :
        Flow(b, "packet_tcp", h).remote \in {"none", Flow(b, "packet_tcp", h).tuple[1]}
=============================================================================
