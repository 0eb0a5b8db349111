-------------------------------- MODULE Relay --------------------------------
(* One direction of a flow between the applications at its two ends.  At each  *)
(* end a policy module runs a Pump (TCP) or a DatagramPump (UDP) of            *)
(* crates/snolc-sdk/src/pump.rs; between them is a stream of the multiplexer,  *)
(* which for UDP carries the records of MuxDatagramIo in                       *)
(* crates/snolc/src/core_io.rs.  Every call passes through the core I/O tables *)
(* and the SDK's foreign I/O wrappers, which check what the other side says.   *)
(*                                                                             *)
(* The stream is the ordered pipe that Mux implements, with what matters to a  *)
(* writer: a write that is Pending may have taken its input, and the retry is  *)
(* told how much.  A step is one turn of a pump's loop.                        *)
EXTENDS Integers, Sequences, FiniteSets, SequencesExt

CONSTANTS
    MaxUnits,       \* bound: units a TCP application sends
    Sizes,          \* bound: sizes of the datagrams a UDP application sends
    Capacity,       \* buffer of a Pump; of a DatagramPump: largest datagram
    Split,          \* split_send_size: most units of one frame
    Flows           \* <<kind, work limits of its polls>>, one per behaviour

ASSUME RelayAssumption ==
    /\ MaxUnits \in Nat /\ Capacity \in Nat \ {0} /\ Split \in Nat \ {0}
    /\ \A i \in DOMAIN Sizes : Sizes[i] \in 0..Capacity

Ends == {"client", "server"}

VARIABLES
    kind, budgets,
    taken, closed,  \* the sending application: items taken from it, it has closed
    pump,           \* of each end: buffer, source_eof, destination_shutdown
    budget,         \* of each end: what is left in this poll; Idle between polls
    units,          \* in the stream
    framed,         \* units of a Pending write that the stream took
    fin,            \* the stream's write side is closed
    frame, offset,  \* MuxDatagramIo: send_frame, send_offset
    record,         \* MuxDatagramIo: what was read of the record under way
    delivered,      \* to the receiving application
    error,          \* of each end: its pump returned an error
    aborted         \* the client's module closed the stream

vars == <<kind, budgets, taken, closed, pump, budget, units, framed, fin, frame, offset,
          record, delivered, error, aborted>>
sender == <<taken, closed>>
stream == <<units, framed, fin>>
datagram_io == <<frame, offset, record>>
rest == <<kind, budgets, aborted>>

Idle == -1
Least(a, b) == IF a < b THEN a ELSE b

\* What the sending application sends: units, or datagrams of units.
Items ==
    IF kind = "tcp" THEN [i \in 1..MaxUnits |-> i]
    ELSE [d \in DOMAIN Sizes |-> [i \in 1..Sizes[d] |-> <<d, i>>]]

Init ==
    /\ \E flow \in Flows : kind = flow[1] /\ budgets = flow[2]
    /\ taken = 0 /\ closed = FALSE
    /\ pump = [e \in Ends |-> [buffer |-> <<>>, source_eof |-> FALSE,
                               destination_shutdown |-> FALSE]]
    /\ budget = [e \in Ends |-> Idle]
    /\ units = <<>> /\ framed = 0 /\ fin = FALSE
    /\ frame = <<>> /\ offset = 0 /\ record = <<>>
    /\ delivered = <<>> /\ error = [e \in Ends |-> FALSE] /\ aborted = FALSE
-----------------------------------------------------------------------------
(* Results.  A poll is Ready with a count, Pending, or an error; across the     *)
(* ABI it is a SnolIoResult with a tag and a count.                             *)

Ready(n) == [tag |-> "ready", count |-> n]
Pending == [tag |-> "pending", count |-> 0]
Error == [tag |-> "error", count |-> 0]

Result(tag, n) == [tag |-> tag, count |-> n]

\* core_io: read, of at most n units
read(r, n) ==
    CASE r.tag = "ready" /\ r.count = 0 -> Result("eof", 0)
      [] r.tag = "ready" /\ r.count \in 1..n -> Result("progress", r.count)
      [] r.tag = "pending" -> Result("pending", 0)
      [] OTHER -> Result("error", 0)

\* core_io: write, of n > 0 units
write(r, n) ==
    CASE r.tag = "ready" /\ r.count \in 1..n -> Result("progress", r.count)
      [] r.tag = "pending" -> Result("pending", 0)
      [] OTHER -> Result("error", 0)

\* core_io: action
action(r) ==
    CASE r.tag = "ready" -> Result("progress", 0)
      [] r.tag = "pending" -> Result("pending", 0)
      [] OTHER -> Result("error", 0)

\* module_io: map_io, map_action
map_io(s, limit, reading) ==
    CASE s.tag = "progress" /\ s.count <= limit -> Ready(s.count)
      [] s.tag = "pending" -> Pending
      [] s.tag = "eof" /\ reading -> Ready(0)
      [] OTHER -> Error

map_action(s) ==
    CASE s.tag = "progress" /\ s.count = 0 -> Ready(0)
      [] s.tag = "pending" -> Pending
      [] OTHER -> Error

\* core_io: recv_datagram into n units, send_datagram of n units
recv_datagram(r, n) ==
    CASE r.tag = "datagram" /\ r.count <= n -> Result("progress", r.count)
      [] r.tag = "too_small" -> Result("buffer_too_small", r.count)
      [] r.tag = "closed" -> Result("eof", 0)
      [] r.tag = "pending" -> Result("pending", 0)
      [] OTHER -> Result("error", 0)

send_datagram(r, n) ==
    CASE r.tag = "ready" -> Result("progress", n)
      [] r.tag = "pending" -> Result("pending", 0)
      [] OTHER -> Result("error", 0)

\* module_io: ForeignDatagramIo
map_recv(s, n) ==
    CASE s.tag = "progress" /\ s.count <= n -> Result("datagram", s.count)
      [] s.tag = "buffer_too_small" -> Result("too_small", s.count)
      [] s.tag = "eof" -> Result("closed", 0)
      [] s.tag = "pending" -> Pending
      [] OTHER -> Error

map_send(s, n) ==
    CASE s.tag = "progress" /\ s.count = n -> Ready(n)
      [] s.tag = "pending" -> Pending
      [] OTHER -> Error
-----------------------------------------------------------------------------
(* The stream: MuxStream as Mux models it.                                      *)

\* poll_write of n units, at most as many as a frame holds: what the writer is
\* told, how many units entered and how many of them it was not told of.
stream_write(n) ==
    IF framed > 0
    THEN {[result |-> Ready(framed), entered |-> 0, framed |-> 0],
          [result |-> Pending, entered |-> 0, framed |-> framed]}
    ELSE LET k == Least(n, Split) IN
         {[result |-> Ready(k), entered |-> k, framed |-> 0],
          [result |-> Pending, entered |-> k, framed |-> k],
          [result |-> Pending, entered |-> 0, framed |-> 0]}

\* poll_read of at most n units; end of file once the writer has closed.
stream_read(n) ==
    {Pending} \cup {Ready(k) : k \in 1..Least(n, Len(units))}
        \cup (IF fin /\ units = <<>> THEN {Ready(0)} ELSE {})
-----------------------------------------------------------------------------
(* Polls of the pumps.                                                          *)

StartPoll(e) ==
    /\ budget[e] = Idle /\ ~error[e] /\ ~(e = "client" /\ aborted)
    /\ ~pump[e].destination_shutdown
    /\ \E b \in budgets : budget' = [budget EXCEPT ![e] = b]
    /\ UNCHANGED <<sender, pump, stream, datagram_io, delivered, error, rest>>

EndPoll(e) ==
    /\ budget[e] = 0
    /\ budget' = [budget EXCEPT ![e] = Idle]
    /\ UNCHANGED <<sender, pump, stream, datagram_io, delivered, error, rest>>

\* The poll returns: Pending, or with what it has done so far.
Return(e) ==
    budget' = [budget EXCEPT ![e] = Idle] /\ UNCHANGED error

Fails(e) ==
    budget' = [budget EXCEPT ![e] = Idle] /\ error' = [error EXCEPT ![e] = TRUE]

Polling(e) == budget[e] > 0

\* Variant: a partial write empties the buffer.
Written_rest_lost(e, result) ==
    CASE result.tag = "ready" /\ result.count > 0 ->
            /\ pump' = [pump EXCEPT ![e].buffer = <<>>]
            /\ budget' = [budget EXCEPT ![e] = @ - result.count]
            /\ UNCHANGED error
      [] result.tag = "pending" -> Return(e) /\ UNCHANGED pump
      [] OTHER -> Fails(e) /\ UNCHANGED pump

\* Pump::poll, first part of its loop: write what is buffered.
Written(e, result) ==
    CASE result.tag = "ready" /\ result.count > 0 ->
            /\ pump' = [pump EXCEPT ![e].buffer = SubSeq(@, result.count + 1, Len(@))]
            /\ budget' = [budget EXCEPT ![e] = @ - result.count]
            /\ UNCHANGED error
      [] result.tag = "pending" -> Return(e) /\ UNCHANGED pump
      [] OTHER -> Fails(e) /\ UNCHANGED pump

Input(e) == SubSeq(pump[e].buffer, 1, Least(Len(pump[e].buffer), budget[e]))

WriteStream ==
    /\ kind = "tcp" /\ Polling("client") /\ pump["client"].buffer # <<>>
    /\ \E w \in stream_write(Len(Input("client"))) :
        /\ Written("client", map_io(write(w.result, Len(Input("client"))),
                                    Len(Input("client")), FALSE))
        /\ units' = units \o SubSeq(Input("client"), 1, w.entered)
        /\ framed' = w.framed
    /\ UNCHANGED <<sender, fin, datagram_io, delivered, rest>>

WriteApp ==
    /\ kind = "tcp" /\ Polling("server") /\ pump["server"].buffer # <<>>
    /\ \E k \in 0..Len(Input("server")) :
        /\ Written("server", IF k = 0 THEN Pending ELSE Ready(k))
        /\ delivered' = delivered \o SubSeq(Input("server"), 1, k)
    /\ UNCHANGED <<sender, stream, datagram_io, rest>>

\* Variant: the end of the stream shuts the destination down, units in the
\* buffer or not.
ShutdownWrite_unwritten(e) ==
    /\ kind = "tcp" /\ Polling(e)
    /\ pump[e].source_eof \/ (e = "server" /\ fin /\ units = <<>>)
    /\ pump' = [pump EXCEPT ![e].destination_shutdown = TRUE]
    /\ fin' = (fin \/ e = "client")
    /\ Return(e)
    /\ UNCHANGED <<sender, units, framed, datagram_io, delivered, rest>>

\* Second part: the source has ended and all is written.
ShutdownWrite(e) ==
    /\ kind = "tcp" /\ Polling(e) /\ pump[e].buffer = <<>> /\ pump[e].source_eof
    /\ \E r \in {Ready(0), Pending} :
        IF map_action(action(r)).tag = "ready"
        THEN /\ pump' = [pump EXCEPT ![e].destination_shutdown = TRUE]
             /\ fin' = (fin \/ e = "client")
        ELSE UNCHANGED <<pump, fin>>
    /\ Return(e)
    /\ UNCHANGED <<sender, units, framed, datagram_io, delivered, rest>>

\* Variant: the end of the source is taken for nothing yet.
Filled_end_missed(e, result, input) ==
    CASE result.tag = "ready" /\ result.count > 0 ->
            /\ pump' = [pump EXCEPT ![e].buffer = input]
            /\ UNCHANGED <<budget, error>>
      [] result.tag = "error" -> Fails(e) /\ UNCHANGED pump
      [] OTHER -> Return(e) /\ UNCHANGED pump

\* Third part: fill the buffer.
Filled(e, result, input) ==
    CASE result.tag = "ready" /\ result.count = 0 ->
            /\ pump' = [pump EXCEPT ![e].source_eof = TRUE]
            /\ UNCHANGED <<budget, error>>
      [] result.tag = "ready" /\ result.count > 0 ->
            /\ pump' = [pump EXCEPT ![e].buffer = input]
            /\ UNCHANGED <<budget, error>>
      [] result.tag = "pending" -> Return(e) /\ UNCHANGED pump
      [] OTHER -> Fails(e) /\ UNCHANGED pump

Fills(e) == kind = "tcp" /\ Polling(e) /\ pump[e].buffer = <<>> /\ ~pump[e].source_eof
ReadLimit(e) == Least(Capacity, budget[e])

ReadApp ==
    /\ Fills("client")
    /\ \E k \in 0..Least(ReadLimit("client"), Len(Items) - taken) :
        /\ closed => k = 0
        /\ Filled("client", IF k > 0 \/ closed THEN Ready(k) ELSE Pending,
                  SubSeq(Items, taken + 1, taken + k))
        /\ taken' = taken + k
    /\ UNCHANGED <<closed, stream, datagram_io, delivered, rest>>

ReadStream ==
    /\ Fills("server")
    /\ \E r \in stream_read(ReadLimit("server")) :
        /\ Filled("server", map_io(read(r, ReadLimit("server")), ReadLimit("server"), TRUE),
                  SubSeq(units, 1, r.count))
        /\ units' = SubSeq(units, r.count + 1, Len(units))
    /\ UNCHANGED <<sender, framed, fin, datagram_io, delivered, rest>>
-----------------------------------------------------------------------------
(* MuxDatagramIo: a record is two units of length and the payload.              *)

Prefix(n) == << <<0, n>>, <<0, n>> >>
encode(datagram) == Prefix(Len(datagram)) \o datagram

\* The length that the first units of a record say.
RecordLength(r) == IF r[1][1] = 0 THEN r[1][2] ELSE 0
Complete(r) == Len(r) >= 2 /\ Len(r) = 2 + RecordLength(r)

\* poll_send_datagram: the frame is made once; a retry must bring the same datagram.
\* It is written in any number of writes, the last of which may be Pending.
poll_send_datagram(datagram) ==
    LET whole == IF frame = <<>> THEN encode(datagram) ELSE frame
        more == Len(whole) - offset
        Wrote(n, k) == [result |-> IF n = more THEN Ready(n) ELSE Pending,
                           frame |-> IF n = more THEN <<>> ELSE whole,
                           offset |-> IF n = more THEN 0 ELSE offset + n,
                           entered |-> SubSeq(whole, offset + framed + 1, offset + n + k),
                           framed |-> k]
    IN IF frame # <<>> /\ SubSeq(frame, 3, Len(frame)) # datagram
       THEN {[result |-> Error, frame |-> frame, offset |-> offset, entered |-> <<>>,
              framed |-> framed]}
       ELSE {Wrote(0, framed)}
            \cup {Wrote(n, k) : n \in framed..more, k \in {0}}
            \cup {Wrote(n, Least(Split, more - n)) : n \in framed..(more - 1)}

\* poll_recv_datagram: reads until the record is complete, the stream has no more
\* for now, or it has ended.
Readable ==
    {k \in 0..Len(units) : \A j \in 0..(k - 1) : ~Complete(record \o SubSeq(units, 1, j))}

poll_recv_datagram(n) ==
    UNION {LET r == record \o SubSeq(units, 1, k)
               left == SubSeq(units, k + 1, Len(units))
               Outcome(result, kept) == [result |-> result, record |-> kept, units |-> left,
                                         datagram |-> SubSeq(r, 3, Len(r))]
           IN IF Complete(r)
              THEN {IF RecordLength(r) > n THEN Outcome(Result("too_small", RecordLength(r)), r)
                    ELSE Outcome(Result("datagram", RecordLength(r)), <<>>)}
              ELSE {Outcome(Pending, r)}
                    \cup (IF left = <<>> /\ fin
                          THEN {Outcome(IF r = <<>> THEN Result("closed", 0) ELSE Error, r)}
                          ELSE {}) : k \in Readable}
-----------------------------------------------------------------------------
(* DatagramPump::poll: receive one datagram if none is pending, and send it.    *)

Receives(e) == kind = "udp" /\ Polling(e) /\ pump[e].buffer = <<>> /\ ~pump[e].source_eof
Sends(e) == kind = "udp" /\ Polling(e) /\ pump[e].buffer # <<>>

Received(e, result, datagram) ==
    CASE result.tag = "datagram" ->
            /\ pump' = [pump EXCEPT ![e].buffer = <<datagram>>]
            /\ UNCHANGED <<budget, error>>
      [] result.tag = "closed" ->
            pump' = [pump EXCEPT ![e].source_eof = TRUE] /\ Return(e)
      [] result.tag = "pending" -> Return(e) /\ UNCHANGED pump
      [] OTHER -> Fails(e) /\ UNCHANGED pump

RecvApp ==
    /\ Receives("client")
    /\ \/ /\ ~closed /\ taken < Len(Items)
          /\ Received("client", Result("datagram", Len(Items[taken + 1])), Items[taken + 1])
          /\ taken' = taken + 1
       \/ /\ Received("client", IF closed THEN Result("closed", 0) ELSE Pending, <<>>)
          /\ UNCHANGED taken
    /\ UNCHANGED <<closed, stream, datagram_io, delivered, rest>>

RecvStream ==
    /\ Receives("server")
    /\ \E r \in poll_recv_datagram(Capacity) :
        /\ Received("server", map_recv(recv_datagram(r.result, Capacity), Capacity), r.datagram)
        /\ record' = r.record /\ units' = r.units
    /\ UNCHANGED <<sender, framed, fin, frame, offset, delivered, rest>>

\* Variant: a datagram whose send is Pending is forgotten.
Sent_forgotten(e, result) ==
    CASE result.tag \in {"ready", "pending"} ->
            pump' = [pump EXCEPT ![e].buffer = <<>>] /\ Return(e)
      [] OTHER -> Fails(e) /\ UNCHANGED pump

\* The rest of the poll: nothing is sent that exceeds max_payload_bytes.
Sent(e, result) ==
    CASE result.tag = "ready" -> pump' = [pump EXCEPT ![e].buffer = <<>>] /\ Return(e)
      [] result.tag = "pending" -> Return(e) /\ UNCHANGED pump
      [] OTHER -> Fails(e) /\ UNCHANGED pump

TooLong(e) ==
    /\ Sends(e) /\ Len(Head(pump[e].buffer)) > budget[e]
    /\ Return(e)
    /\ UNCHANGED <<sender, pump, stream, datagram_io, delivered, rest>>

SendStream ==
    /\ Sends("client")
    /\ LET datagram == Head(pump["client"].buffer)
           n == Len(datagram)
       IN /\ n <= budget["client"]
          /\ \E w \in poll_send_datagram(datagram) :
            /\ Sent("client", map_send(send_datagram(w.result, n), n))
            /\ frame' = w.frame /\ offset' = w.offset
            /\ units' = units \o w.entered /\ framed' = w.framed
    /\ UNCHANGED <<sender, fin, record, delivered, rest>>

SendApp ==
    /\ Sends("server")
    /\ Len(Head(pump["server"].buffer)) <= budget["server"]
    /\ \E r \in {Ready(0), Pending} :
        /\ Sent("server", r)
        /\ delivered' = IF r.tag = "ready" THEN Append(delivered, Head(pump["server"].buffer))
                        ELSE delivered
    /\ UNCHANGED <<sender, stream, datagram_io, rest>>

\* is_finished
Finished(e) ==
    IF kind = "tcp" THEN pump[e].destination_shutdown
    ELSE pump[e].source_eof /\ pump[e].buffer = <<>>

\* The module closes the stream of a UDP flow whose pump has finished.
CloseFinished ==
    /\ kind = "udp" /\ Finished("client") /\ ~fin
    /\ fin' = TRUE
    /\ UNCHANGED <<sender, pump, budget, units, framed, datagram_io, delivered, error, rest>>

\* The module gives the flow up: core_io::close drops the stream.
Abort ==
    /\ ~fin /\ ~aborted /\ budget["client"] = Idle
    /\ fin' = TRUE /\ aborted' = TRUE
    /\ UNCHANGED <<kind, budgets, sender, pump, budget, units, framed, datagram_io, delivered,
                   error>>

AppCloses ==
    /\ ~closed /\ closed' = TRUE
    /\ UNCHANGED <<taken, pump, budget, stream, datagram_io, delivered, error, rest>>

PumpStep(e) == StartPoll(e) \/ EndPoll(e) \/ ShutdownWrite(e) \/ TooLong(e)
Client == PumpStep("client") \/ WriteStream \/ ReadApp \/ RecvApp \/ SendStream \/ CloseFinished
Server == PumpStep("server") \/ WriteApp \/ ReadStream \/ RecvStream \/ SendApp

Next == Client \/ Server \/ Abort \/ AppCloses

\* A module polls its pumps for as long as they are not finished, and nothing is
\* Pending for ever: the stream moves (see Mux) and the applications read and send.
Fairness ==
    /\ WF_vars(Client) /\ SF_vars(Client /\ pump' # pump)
    /\ WF_vars(Server) /\ SF_vars(Server /\ pump' # pump)

Spec == Init /\ [][Next]_vars /\ Fairness
-----------------------------------------------------------------------------
\* The receiving application gets what the other one sent, in order, once, and
\* datagrams whole ("never exposes a partial datagram", spec/wire.md), wherever
\* reads, writes and records are cut, and even if the flow is given up.
RelayedInOrder == IsPrefix(delivered, SubSeq(Items, 1, taken))

\* No pump meets an error: no count is refused by a wrapper, no retry is taken for
\* another datagram, no record is cut, unless the flow was given up.
NoPumpError == \A e \in Ends : error[e] => aborted /\ kind = "udp"

\* The receiving pump finishes only when all that was sent has been delivered.
EndComplete ==
    Finished("server") /\ ~aborted => closed /\ delivered = SubSeq(Items, 1, taken)

\* A flow whose sender has closed is relayed to its end, given that no datagram is
\* longer than the work limit: one that is stays pending, and all behind it.
RelayEnds ==
    closed /\ (kind = "udp" => \A b \in budgets : \A d \in DOMAIN Sizes : Sizes[d] <= b)
        ~> Finished("server") \/ aborted

\* "reset represents an abnormal flow failure" (spec/wire.md): not kept, since a
\* stream that is dropped ends like one that is shut down.
AbortShown == kind = "tcp" /\ Finished("server") => ~aborted \/ Finished("client")
=============================================================================
