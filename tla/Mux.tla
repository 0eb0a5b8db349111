-------------------------------- MODULE Mux --------------------------------
(***************************************************************************)
(* The stream multiplexer of crates/snolc/src/mux.rs: a client and a       *)
(* server, each owning a Connection, joined by an ordered duplex carrier.  *)
(*                                                                         *)
(* Every Rust function that mutates a Connection is an operator from a     *)
(* World (one end's Connection, what is in flight to and from it, and the  *)
(* result of the poll so far) to the set of Worlds the call can leave:     *)
(* the carrier decides how many bytes a poll moves and when it is Pending, *)
(* everything else is determined.  An action is one call made by the       *)
(* engine or by the owner of a MuxStream; calls on one end never overlap   *)
(* (the Connection sits in an Rc<RefCell<_>> on the engine thread).        *)
(*                                                                         *)
(* Data: a byte is a "unit".  A header unit carries the frame header it is *)
(* part of, a payload unit its stream and its number in that stream, so    *)
(* that loss, duplication and reordering are visible.                      *)
(***************************************************************************)
EXTENDS Integers, Sequences, FiniteSets

CONSTANTS
    MaxId,          \* bound: the largest stream id the client allocates
    HeaderBytes,    \* MUX_HEADER_BYTES (9 in the code)
    SplitSendSize,  \* split_send_size of each end
    ReceiveLimit,   \* receive_window_bytes of each end
    WriteSizes,     \* lengths of the buffers owners hand to poll_write
    ReadSizes,      \* lengths of the buffers owners hand to poll_read
    MaxUnits,       \* bound: units an owner writes to a stream, by end and id
    Capacity,       \* units the carrier holds in flight in one direction
    Calls,          \* the calls stream owners make, by end and id
    Resets          \* the ends whose engine may give the session up

End == {"client", "server"}
Peer(e) == IF e = "client" THEN "server" ELSE "client"
Id == {i \in 1..MaxId : i % 2 = 1}

ASSUME BoundsAssumption ==
    /\ MaxId \in Nat \ {0}
    /\ HeaderBytes \in Nat \ {0}
    /\ SplitSendSize \in [End -> Nat \ {0}]
    /\ ReceiveLimit \in [End -> Nat]
    /\ WriteSizes \subseteq Nat \ {0}
    /\ ReadSizes \subseteq Nat \ {0}
    /\ MaxUnits \in [End -> [Id -> Nat]]
    /\ Capacity \in Nat
    /\ Calls \in [End -> [Id -> SUBSET {"write", "flush", "close", "read", "drop"}]]
    /\ Resets \subseteq End

VARIABLES
    conn,       \* the Connection of each end
    wire,       \* wire[e]: units e's carrier took and its peer has not read
    handle,     \* handle[e][s]: what the owner of MuxStream s does with it
    framed,     \* framed[e][s]: units of s put into DATA frames (history)
    accepted,   \* accepted[e][s]: units poll_write reported to the owner
    delivered,  \* delivered[e][s]: the units poll_read returned
    eof_seen    \* eof_seen[e][s]: poll_read returned Ok(0)

vars == <<conn, wire, handle, framed, accepted, delivered, eof_seen>>

-----------------------------------------------------------------------------
(* Records of the code.                                                      *)

Kind == {"open", "data", "fin"}
Unit == [kind : Kind \cup {"payload"}, stream : Id, n : Nat, i : Nat]

\* Vec<Option<StreamState>>: absent streams keep present = FALSE.  The read
\* offset is folded into the front buffer, which holds what is left of it.
StreamState ==
    [present : BOOLEAN, input : Seq(Seq(Unit)), eof : BOOLEAN,
     completed_write : Nat]
NoStream ==
    [present |-> FALSE, input |-> <<>>, eof |-> FALSE, completed_write |-> 0]

\* Option<PendingWrite>; bytes is what the carrier has not taken yet.
PendingWrite ==
    [kind : Kind \cup {"none"}, stream : Id, bytes : Seq(Unit), accepted : Nat]
NoWrite == [kind |-> "none", stream |-> 1, bytes |-> <<>>, accepted |-> 0]

\* Option<PendingRead>; bytes is what poll_drive has buffered so far and
\* buffering says that it resized the buffer, which ends direct reads.
PendingRead ==
    [kind : Kind \cup {"none"}, stream : Id, length : Nat,
     wire_consumed : Nat, buffering : BOOLEAN, bytes : Seq(Unit)]
NoFrame == [kind |-> "none", stream |-> 1, length |-> 0,
            wire_consumed |-> 0, buffering |-> FALSE, bytes |-> <<>>]

\* The first check of the receive path that refused a frame, kept as history.
Fault == {"none", "receive limit", "unknown stream", "duplicate stream"}

\* io is FALSE once the session is dropped.  garbled: payload was read where
\* a header belongs; what the code then parses is arbitrary, so the model
\* stops the reader there.
Connection ==
    [io : BOOLEAN, streams : [Id -> StreamState], inbound : Seq(Id),
     next_stream : Nat, received_bytes : Nat, header : Seq(Unit),
     read_frame : PendingRead, write : PendingWrite,
     controls : Seq([kind : {"open", "fin"}, stream : Id]),
     closed : BOOLEAN, fault : Fault, garbled : BOOLEAN]

\* end: whose connection this is; in, out: units in flight to and from it;
\* shut: the peer's end of the carrier is gone; poll: the result so far;
\* count: units poll_write accepts; sent: units newly framed; got: units read.
World ==
    [end : End, c : Connection, in : Seq(Unit), out : Seq(Unit),
     shut : BOOLEAN, poll : {"ready", "pending", "error"},
     count : Nat, sent : Nat, got : Seq(Unit)]

WorldOf(e) ==
    [end |-> e, c |-> conn[e], in |-> wire[Peer(e)], out |-> wire[e],
     shut |-> ~conn[Peer(e)].io, poll |-> "ready",
     count |-> 0, sent |-> 0, got |-> <<>>]

Ready(w) == [w EXCEPT !.poll = "ready"]
Pending(w) == [w EXCEPT !.poll = "pending"]
Failed(w) == [w EXCEPT !.poll = "error"]
Refused(w, fault) ==
    [w EXCEPT !.poll = "error",
              !.c.fault = IF @ = "none" THEN fault ELSE @]

Front(s, k) == SubSeq(s, 1, k)
Rest(s, k) == SubSeq(s, k + 1, Len(s))
Least(a, b) == IF a < b THEN a ELSE b
When(condition, w) == IF condition THEN {w} ELSE {}
-----------------------------------------------------------------------------
(* Sending: frame, start_queued_control, poll_flush_write, poll_control,     *)
(* poll_data.                                                                *)

Payload(s, first, length) ==
    [k \in 1..length |->
        [kind |-> "payload", stream |-> s, n |-> first + k - 1, i |-> 0]]

frame(kind, s, payload) ==
    [kind |-> kind, stream |-> s, accepted |-> Len(payload),
     bytes |-> [i \in 1..HeaderBytes |->
                  [kind |-> kind, stream |-> s, n |-> Len(payload), i |-> i]]
               \o payload]

start_queued_control(c) ==
    IF c.write = NoWrite /\ c.controls # <<>>
    THEN [c EXCEPT !.write = frame(Head(c.controls).kind,
                                   Head(c.controls).stream, <<>>),
                   !.controls = Tail(@)]
    ELSE c

\* The last byte of c.write has been taken: a DATA frame leaves its length
\* for the next poll_write of its stream.
complete_write(c) ==
    IF c.write.kind = "data" /\ c.streams[c.write.stream].present
    THEN [c EXCEPT !.streams[c.write.stream].completed_write =
                       c.write.accepted,
                   !.write = NoWrite]
    ELSE [c EXCEPT !.write = NoWrite]

\* The carrier takes some of the frame and is Pending, or takes all of it and
\* then answers poll_flush; a carrier whose far end is gone may also fail.
poll_flush_write(w) ==
    LET bytes == w.c.write.bytes
        room == Capacity - Len(w.out)
    IN
    IF ~w.c.io THEN {Failed(w)}
    ELSE IF w.c.write = NoWrite THEN {Ready(w), Pending(w)}
    ELSE {[w EXCEPT !.c.write.bytes = Rest(bytes, k),
                    !.out = @ \o Front(bytes, k),
                    !.poll = "pending"] :
              k \in {k \in 0..(Len(bytes) - 1) : k <= room}}
         \cup {[w EXCEPT !.c = complete_write(@),
                         !.out = @ \o bytes,
                         !.poll = p] :
               p \in {p \in {"ready", "pending"} : Len(bytes) <= room}}
         \cup When(w.shut, Failed(w))

\* Variant: a control frame replaces the frame under way.
poll_control_replaces(w, kind, s) ==
    poll_flush_write([w EXCEPT !.c.write = frame(kind, s, <<>>)])

poll_control(w, kind, s) ==
    IF w.c.write.kind = kind /\ w.c.write.stream = s
    THEN poll_flush_write(w)
    ELSE UNION {IF v.poll = "ready"
                THEN poll_flush_write(
                         [v EXCEPT !.c.write = frame(kind, s, <<>>)])
                ELSE {v} :
                v \in IF w.c.write = NoWrite THEN {Ready(w)}
                      ELSE poll_flush_write(w)}

\* Variant: the length reported here is left behind to be reported again.
flush_data_keeps_count(w, s) ==
    {IF v.poll = "ready" THEN [v EXCEPT !.count = w.c.write.accepted] ELSE v :
     v \in poll_flush_write(w)}

\* poll_data once the frame of stream s is in c.write: its owner is told the
\* length when the flush is Ready, and completed_write is not left behind.
flush_data(w, s) ==
    {IF v.poll = "ready"
     THEN [v EXCEPT !.c.streams[s].completed_write = 0,
                    !.count = w.c.write.accepted]
     ELSE v : v \in poll_flush_write(w)}

poll_data(w, s, payload) ==
    LET done == w.c.streams[s].completed_write
        q == [w EXCEPT !.c = start_queued_control(@)]
        length == Least(Len(payload), SplitSendSize[w.end])
    IN  IF w.c.closed THEN {Failed(w)}
        ELSE IF done # 0
        THEN {[w EXCEPT !.c.streams[s].completed_write = 0,
                        !.count = done, !.poll = "ready"]}
        ELSE IF q.c.write.kind = "data" /\ q.c.write.stream = s
        THEN flush_data(q, s)
        ELSE UNION {IF v.poll = "ready"
                    THEN flush_data(
                             [v EXCEPT !.c.write =
                                  frame("data", s, Front(payload, length)),
                                       !.sent = length], s)
                    ELSE {v} :
                    v \in IF q.c.write = NoWrite THEN {Ready(q)}
                          ELSE poll_flush_write(q)}
-----------------------------------------------------------------------------
(* Receiving: insert_stream, finish_frame, poll_prepare_frame, poll_drive,   *)
(* poll_read_stream, and MuxStream::poll_read.                               *)

insert_stream(c, s) ==
    [c EXCEPT !.streams[s] = [NoStream EXCEPT !.present = TRUE]]

\* Variant: an opened stream is not announced to accept_stream.
finish_open_unannounced(c, s) == insert_stream(c, s)

finish_open(c, s) ==
    [insert_stream(c, s) EXCEPT !.inbound = Append(@, s)]

\* Variant: the whole frame is charged, the part read directly included.
finish_data_charges_length(c, f) ==
    [c EXCEPT !.received_bytes = @ + f.length,
              !.streams[f.stream].input = Append(@, f.bytes)]

finish_data(c, f) ==
    [c EXCEPT !.received_bytes = @ + Len(f.bytes),
              !.streams[f.stream].input = Append(@, f.bytes)]

\* The frame f is complete and has left read_frame.
finish_frame(w, f) ==
    LET present == w.c.streams[f.stream].present IN
    IF f.kind = "open"
    THEN IF present THEN Refused(w, "duplicate stream")
         ELSE [Ready(w) EXCEPT !.c = finish_open(@, f.stream)]
    ELSE IF ~present THEN Refused(w, "unknown stream")
    ELSE IF f.kind = "data" THEN [Ready(w) EXCEPT !.c = finish_data(@, f)]
    ELSE [Ready(w) EXCEPT !.c.streams[f.stream].eof = TRUE]

\* Variant: only the frame size is checked.
within_credit_size_only(w, length) == length <= SplitSendSize[w.end]

\* The one credit check of a frame, made when its header is parsed.
within_credit(w, length) ==
    /\ length <= SplitSendSize[w.end]
    /\ w.c.received_bytes + length <= ReceiveLimit[w.end]

\* The header h has been read (a kind no peer sends is not modelled).
parse_header(w, h) ==
    LET f == h[HeaderBytes]
        v == [w EXCEPT !.c.header = <<>>]
    IN  IF \E j \in 1..HeaderBytes : h[j].kind = "payload" \/ h[j].i # j
        THEN [Pending(w) EXCEPT !.c.garbled = TRUE]
        ELSE IF ~within_credit(w, f.n) THEN Refused(v, "receive limit")
        ELSE [Ready(v) EXCEPT !.c.read_frame =
                 [NoFrame EXCEPT !.kind = f.kind, !.stream = f.stream,
                                 !.length = f.n]]

\* Variant: end of file is taken for "nothing yet".
at_eof_never(w) == FALSE

\* The far end is gone and everything it sent has been read.
at_eof(w) == w.shut /\ w.in = <<>>

\* The carrier yields some of the header and is Pending, all of it, or end of
\* file, which closes the connection silently.
poll_prepare_frame(w) ==
    IF w.c.read_frame # NoFrame THEN {Ready(w)}
    ELSE IF ~w.c.io THEN {[Pending(w) EXCEPT !.c.closed = TRUE]}
    ELSE IF w.c.garbled THEN {Pending(w)}
    ELSE {LET h == w.c.header \o Front(w.in, k)
              v == [w EXCEPT !.c.header = h, !.in = Rest(@, k)]
          IN  IF Len(h) = HeaderBytes THEN parse_header(v, h) ELSE Pending(v) :
          k \in {k \in 0..(HeaderBytes - Len(w.c.header)) : k <= Len(w.in)}}
         \cup When(at_eof(w), [Pending(w) EXCEPT !.c.closed = TRUE])

\* Variant: the part already read directly is forgotten.
remaining_whole_frame(f) == f.length

remaining(f) == f.length - f.wire_consumed

\* poll_drive once a frame is prepared: buffer the rest of it, then apply it.
read_body(w) ==
    LET f == w.c.read_frame
        need == remaining(f) - Len(f.bytes)
    IN  {LET b == [f EXCEPT !.bytes = @ \o Front(w.in, k),
                            !.buffering = remaining(f) # 0]
             v == [w EXCEPT !.in = Rest(@, k)]
         IN  IF k = need
             THEN finish_frame([v EXCEPT !.c.read_frame = NoFrame], b)
             ELSE [Pending(v) EXCEPT !.c.read_frame = b] :
         k \in {k \in 0..need : k <= Len(w.in)}}
        \cup When(at_eof(w) /\ need > 0,
                  [Failed(w) EXCEPT !.c.read_frame.buffering = TRUE])

poll_drive(w) ==
    LET q == [w EXCEPT !.c = start_queued_control(@)] IN
    IF w.c.closed THEN {Pending(w)}
    ELSE UNION {IF f.poll = "error" THEN {f}
                ELSE UNION {IF p.poll = "ready" THEN read_body(p) ELSE {p} :
                            p \in poll_prepare_frame(f)} :
                f \in IF q.c.write = NoWrite THEN {q} ELSE poll_flush_write(q)}

\* Variant: a frame that is partly buffered may still be read directly.
direct_read_anytime(f, s) == f.kind = "data" /\ f.stream = s /\ remaining(f) # 0

direct_read(f, s) ==
    f.kind = "data" /\ f.stream = s /\ ~f.buffering /\ remaining(f) # 0

\* Straight from the carrier into the owner's buffer when the frame under way
\* is DATA of this stream and nothing of it is buffered; no credit is taken.
poll_read_stream(w, s, max) ==
    UNION {LET f == p.c.read_frame IN
           IF p.poll # "ready" THEN {p}
           ELSE IF ~direct_read(f, s)
           THEN {IF d.poll = "ready" THEN Pending(d) ELSE d : d \in poll_drive(p)}
           ELSE {Pending(p)}
                \cup {[p EXCEPT !.in = Rest(@, k), !.got = Front(p.in, k),
                                !.c.read_frame =
                                    IF k = remaining(f) THEN NoFrame
                                    ELSE [f EXCEPT !.wire_consumed = @ + k]] :
                      k \in {k \in 1..Least(max, remaining(f)) : k <= Len(p.in)}}
                \cup When(at_eof(p), Failed(p)) :
           p \in poll_prepare_frame(w)}

\* Variant: the credit of the whole buffer is given back.
take_front_credits_buffer(w, s, count) ==
    LET front == Head(w.c.streams[s].input) IN
    [w EXCEPT !.c.streams[s].input = IF count = Len(front) THEN Tail(@)
                                     ELSE <<Rest(front, count)>> \o Tail(@),
              !.c.received_bytes = @ - Len(front),
              !.got = Front(front, count)]

\* Copy count units of the front buffer out and give their credit back.
take_front(w, s, count) ==
    LET front == Head(w.c.streams[s].input) IN
    [w EXCEPT !.c.streams[s].input = IF count = Len(front) THEN Tail(@)
                                     ELSE <<Rest(front, count)>> \o Tail(@),
              !.c.received_bytes = @ - count,
              !.got = Front(front, count)]

\* Variant: end of file is reported ahead of buffered input.
stream_ended_at_fin(st) == st.eof

stream_ended(st) == st.input = <<>> /\ st.eof

poll_read(w, s, max) ==
    LET st == w.c.streams[s]
        count == Least(max, Len(Head(st.input)))
    IN  IF ~st.present THEN {Failed(w)}
        ELSE IF stream_ended(st) THEN {Ready(w)}
        ELSE IF st.input = <<>> THEN poll_read_stream(w, s, max)
        ELSE IF count = 0 THEN poll_read_stream(take_front(w, s, 0), s, max)
        ELSE {Ready(take_front(w, s, count))}
-----------------------------------------------------------------------------
(* Initial states.                                                           *)

NewConnection(e) ==
    [io |-> TRUE, streams |-> [s \in Id |-> NoStream], inbound |-> <<>>,
     next_stream |-> IF e = "client" THEN 1 ELSE 2, received_bytes |-> 0,
     header |-> <<>>, read_frame |-> NoFrame, write |-> NoWrite,
     controls |-> <<>>, closed |-> FALSE, fault |-> "none", garbled |-> FALSE]

NoHandle == [state |-> "none", write |-> "open"]

\* MuxSession::new at both ends of a fresh carrier.
InitFresh ==
    /\ conn = [e \in End |-> NewConnection(e)]
    /\ wire = [e \in End |-> <<>>]
    /\ handle = [e \in End |-> [s \in Id |-> NoHandle]]
    /\ framed = [e \in End |-> [s \in Id |-> 0]]
    /\ accepted = [e \in End |-> [s \in Id |-> 0]]
    /\ delivered = [e \in End |-> [s \in Id |-> <<>>]]
    /\ eof_seen = [e \in End |-> [s \in Id |-> FALSE]]

\* open_policy and accept_policy have completed: the policy stream is open at
\* both ends and one policy message (one unit) has crossed each way.
Init ==
    /\ conn = [e \in End |->
                 [insert_stream(NewConnection(e), 1) EXCEPT
                     !.next_stream = IF e = "client" THEN 3 ELSE 2]]
    /\ wire = [e \in End |-> <<>>]
    /\ handle = [e \in End |-> [s \in Id |->
                   IF s = 1 THEN [NoHandle EXCEPT !.state = "live"] ELSE NoHandle]]
    /\ framed = [e \in End |-> [s \in Id |-> IF s = 1 THEN 1 ELSE 0]]
    /\ accepted = framed
    /\ delivered = [e \in End |-> [s \in Id |->
                      IF s = 1 THEN Payload(1, 1, 1) ELSE <<>>]]
    /\ eof_seen = [e \in End |-> [s \in Id |-> FALSE]]
-----------------------------------------------------------------------------
(* Actions: the calls made on a session and on its streams.                  *)

\* What a call on end e leaves of the connection and of the carrier.
Apply(e, v) ==
    /\ conn' = [conn EXCEPT ![e] = v.c]
    /\ wire' = [wire EXCEPT ![e] = v.out, ![Peer(e)] = v.in]

\* Drop for MuxSession: every later call on the connection or on one of its
\* streams fails, so the rest of its state is forgotten; so is what is in
\* flight to it.
dropped(w) ==
    [w EXCEPT !.in = <<>>,
              !.c = [NewConnection(w.end) EXCEPT
                        !.io = FALSE, !.closed = TRUE,
                        !.fault = w.c.fault, !.garbled = w.c.garbled]]

Live(e, s) == conn[e].io /\ handle[e][s].state = "live"

\* open_stream on behalf of open_policy: allocate the id on the first poll,
\* then poll_control until it is Ready.
OpenPolicy ==
    LET fresh == conn["client"].next_stream = 1
        w == WorldOf("client")
        q == IF fresh THEN [w EXCEPT !.c = [insert_stream(@, 1) EXCEPT
                                               !.next_stream = 3]]
             ELSE w
    IN  /\ conn["client"].io
        /\ fresh \/ handle["client"][1].state = "opening"
        /\ \E v \in poll_control(q, "open", 1) :
             /\ v.poll # "error"
             /\ Apply("client", v)
             /\ handle' = [handle EXCEPT !["client"][1].state =
                              IF v.poll = "ready" THEN "live" ELSE "opening"]
        /\ UNCHANGED <<framed, accepted, delivered, eof_seen>>

\* begin_open_flow_confirmed, once the policy answer has been read: allocate
\* an id and queue its OPEN.  poll_client polls every opening it has before it
\* begins another, so at most one has not had its first poll_write ("begun").
\* MaxId bounds the ids.
BeginOpenFlow ==
    LET c == conn["client"]
        s == c.next_stream
    IN  /\ c.io /\ s \in Id
        /\ delivered["client"][1] # <<>>
        /\ \A t \in Id : handle["client"][t].state # "begun"
        /\ conn' = [conn EXCEPT !["client"] =
                      [insert_stream(c, s) EXCEPT
                          !.next_stream = s + 2,
                          !.controls = Append(@, [kind |-> "open", stream |-> s])]]
        /\ handle' = [handle EXCEPT !["client"][s].state = "begun"]
        /\ UNCHANGED <<wire, framed, accepted, delivered, eof_seen>>

\* accept_stream finds an opened stream.
AcceptStream ==
    LET c == conn["server"] IN
    /\ c.io /\ c.inbound # <<>>
    /\ conn' = [conn EXCEPT !["server"].inbound = Tail(@)]
    /\ handle' = [handle EXCEPT !["server"][Head(c.inbound)].state = "live"]
    /\ UNCHANGED <<wire, framed, accepted, delivered, eof_seen>>

\* MuxStream::poll_write.  A write that was Pending is retried with at least
\* the same buffer, which starts at the first unit not yet accepted.
WriteStream(e, s, n) ==
    /\ conn[e].io /\ handle[e][s].state \in {"begun", "live"}
    /\ handle[e][s].write = "open"
    /\ n >= framed[e][s] - accepted[e][s]
    /\ accepted[e][s] + n <= MaxUnits[e][s]
    /\ \E v \in poll_data(WorldOf(e), s, Payload(s, accepted[e][s] + 1, n)) :
         /\ Apply(e, v)
         /\ framed' = [framed EXCEPT ![e][s] = @ + v.sent]
         /\ accepted' = [accepted EXCEPT ![e][s] = @ + v.count]
    /\ handle' = [handle EXCEPT ![e][s].state = "live"]
    /\ UNCHANGED <<delivered, eof_seen>>

\* MuxStream::poll_flush.
FlushStream(e, s) ==
    /\ Live(e, s)
    /\ \E v \in poll_flush_write(WorldOf(e)) : Apply(e, v)
    /\ UNCHANGED <<handle, framed, accepted, delivered, eof_seen>>

\* MuxStream::poll_close.  Its owner writes nothing after the first call.
CloseStream(e, s) ==
    /\ Live(e, s) /\ handle[e][s].write # "closed"
    /\ \E v \in poll_control(WorldOf(e), "fin", s) :
         /\ Apply(e, v)
         /\ handle' = [handle EXCEPT ![e][s].write =
                          IF v.poll = "ready" THEN "closed" ELSE "closing"]
    /\ UNCHANGED <<framed, accepted, delivered, eof_seen>>

\* MuxStream::poll_read with a buffer of max units.
ReadStream(e, s, max) ==
    /\ Live(e, s)
    /\ \E v \in poll_read(WorldOf(e), s, max) :
         /\ Apply(e, v)
         /\ delivered' = [delivered EXCEPT ![e][s] = @ \o v.got]
         /\ eof_seen' = [eof_seen EXCEPT ![e][s] =
                            @ \/ (v.poll = "ready" /\ v.got = <<>>)]
    /\ UNCHANGED <<handle, framed, accepted>>

\* Drop for MuxStream: an unclosed stream queues its FIN.
DropStream(e, s) ==
    /\ Live(e, s)
    /\ handle' = [handle EXCEPT ![e][s].state = "dropped"]
    /\ conn' = [conn EXCEPT ![e].controls =
                  IF handle[e][s].write = "closed" \/ conn[e].closed THEN @
                  ELSE Append(@, [kind |-> "fin", stream |-> s])]
    /\ UNCHANGED <<wire, framed, accepted, delivered, eof_seen>>

\* MuxSession::poll_drive, or accept_stream with nothing to accept.  An error,
\* or a connection found closed, makes TunnelRuntime::fail drop the session.
DriveSession(e) ==
    /\ conn[e].io
    /\ \E v \in poll_drive(WorldOf(e)) :
         Apply(e, IF v.poll = "error" \/ (v.poll = "pending" /\ v.c.closed)
                  THEN dropped(v) ELSE v)
    /\ UNCHANGED <<handle, framed, accepted, delivered, eof_seen>>

\* The engine gives the session up: timeout, network change or shutdown.
DropSession(e) ==
    /\ conn[e].io
    /\ Apply(e, dropped(WorldOf(e)))
    /\ UNCHANGED <<handle, framed, accepted, delivered, eof_seen>>

StreamNext(e, s) ==
    \/ "write" \in Calls[e][s] /\ \E n \in WriteSizes : WriteStream(e, s, n)
    \/ "flush" \in Calls[e][s] /\ FlushStream(e, s)
    \/ "close" \in Calls[e][s] /\ CloseStream(e, s)
    \/ "read" \in Calls[e][s] /\ \E max \in ReadSizes : ReadStream(e, s, max)
    \/ "drop" \in Calls[e][s] /\ DropStream(e, s)

Next ==
    \/ OpenPolicy
    \/ BeginOpenFlow
    \/ AcceptStream
    \/ \E e \in End : DriveSession(e)
    \/ \E e \in Resets : DropSession(e)
    \/ \E e \in End, s \in Id : StreamNext(e, s)

\* Fairness.  The engine loop polls every session and every module on every
\* tick (engine.rs, run_loop), so an owner that reads keeps reading and every
\* session keeps being driven; the carrier, once polled often enough, moves
\* what it is given.
Fairness ==
    /\ WF_vars(AcceptStream)
    /\ \A e \in End :
        /\ WF_vars(DriveSession(e) /\ Len(wire'[Peer(e)]) < Len(wire[Peer(e)]))
        /\ WF_vars(DriveSession(e) /\ Len(wire'[e]) > Len(wire[e]))
        /\ WF_vars(DriveSession(e) /\ ~conn'[e].io)
        /\ \A s \in Id : WF_vars(/\ StreamNext(e, s)
                                  /\ Len(delivered'[e][s]) > Len(delivered[e][s]))

Spec == Init /\ [][Next]_vars
SpecFresh == InitFresh /\ [][Next]_vars
FairSpec == Spec /\ Fairness
-----------------------------------------------------------------------------
(* Properties.                                                               *)

\* Every variable has its type; in particular received_bytes never underflows
\* when poll_read subtracts what it returned.
TypeOK ==
    /\ conn \in [End -> Connection]
    /\ wire \in [End -> Seq(Unit)]
    /\ handle \in [End -> [Id -> [state : {"none", "opening", "begun", "live", "dropped"},
                                  write : {"open", "closing", "closed"}]]]
    /\ framed \in [End -> [Id -> Nat]]
    /\ accepted \in [End -> [Id -> Nat]]
    /\ delivered \in [End -> [Id -> Seq(Unit)]]
    /\ eof_seen \in [End -> [Id -> BOOLEAN]]

\* Buffered input never exceeds the receive limit, although the limit is only
\* checked when a header is parsed and the frame is buffered polls later.
ReceiveBounded ==
    \A e \in End : conn[e].received_bytes <= ReceiveLimit[e]

\* What poll_read has returned on a stream is exactly the first units its peer
\* framed, in order, whatever mix of direct and buffered reads returned them,
\* as long as the receive path refused no frame.
DeliveredInOrder ==
    \A e \in End, s \in Id :
        conn[e].fault = "none" =>
            /\ delivered[e][s] = Payload(s, 1, Len(delivered[e][s]))
            /\ Len(delivered[e][s]) <= framed[Peer(e)][s]

\* A unit is reported to the writer exactly once: what has been framed is what
\* poll_write reported, plus the frame under way, plus the completed frame the
\* next poll_write will report.
AcceptedOnce ==
    \A e \in End, s \in Id :
        conn[e].io =>
            LET write == conn[e].write IN
            framed[e][s] = accepted[e][s] + conn[e].streams[s].completed_write
                + (IF write.kind = "data" /\ write.stream = s
                   THEN write.accepted ELSE 0)

\* End of file is reported only after the peer stopped writing and everything
\* it framed was delivered: FIN never overtakes DATA.
EofComplete ==
    \A e \in End, s \in Id :
        eof_seen[e][s] /\ conn[e].fault = "none" =>
            /\ \/ handle[Peer(e)][s].write # "open"
               \/ handle[Peer(e)][s].state = "dropped"
            /\ Len(delivered[e][s]) = framed[Peer(e)][s]

\* Partial writes and reads never make the reader take payload for a header,
\* unless a frame was refused before.
HeadersInStep ==
    \A e \in End : conn[e].garbled => conn[e].fault # "none"

\* When nothing was refused and both sessions live, what a stream has framed
\* reaches a peer that keeps reading.
EventuallyDelivered ==
    \A e \in End, s \in Id : \A k \in 1..MaxUnits[e][s] :
        framed[e][s] >= k ~>
            \/ Len(delivered[Peer(e)][s]) >= k
            \/ \E x \in End : ~conn[x].io \/ conn[x].fault # "none"

\* When one end drops its session the other end's is dropped as well: the end
\* of file behind the last frame is noticed.
SessionsEndTogether ==
    \A e \in End :
        ~conn[e].io ~> (~conn[Peer(e)].io \/ conn[Peer(e)].garbled)

\* The directions of the streams as pipes that promise what MuxPipe says.
Directions == End \X Id
Pipes == INSTANCE MuxPipe WITH
    Pipe <- Directions,
    sent <- [p \in Directions |-> framed[p[1]][p[2]]],
    got <- [p \in Directions |->
              LET d == delivered[Peer(p[1])][p[2]] IN [i \in DOMAIN d |-> d[i].n]],
    stopped <- [p \in Directions |-> \/ handle[p[1]][p[2]].write # "open"
                                     \/ handle[p[1]][p[2]].state = "dropped"],
    eof <- [p \in Directions |-> eof_seen[Peer(p[1])][p[2]]],
    broken <- [p \in Directions |-> conn[Peer(p[1])].fault # "none"]

\* Every behaviour of the multiplexer is one of independent pipes.
StreamsArePipes == Pipes!Spec

(* Statements of the documentation that the code does not keep.              *)

\* Two flows opened by begin_open_flow_confirmed both reach the server, as the
\* test concurrent_streams_preserve_large_payloads expects: no frame of a
\* stream arrives before its OPEN.
OpenReachesPeerFirst == \A e \in End : conn[e].fault # "unknown stream"

\* A flow whose owner reads slowly is held back, and the session and its other
\* flows go on: no frame of a correct peer is refused for the receive limit.
SlowReaderKeepsSession == \A e \in End : conn[e].fault # "receive limit"

\* A session error closes the session: after a frame was refused nothing more
\* is parsed, so payload is never read as a header.
PayloadNeverParsed == \A e \in End : ~conn[e].garbled

\* The client opens one policy stream: the server never gets a second OPEN
\* for it.
PolicyOpenedOnce == \A e \in End : conn[e].fault # "duplicate stream"
=============================================================================
