----------------------------- MODULE MuxProofs -----------------------------
(***************************************************************************)
(* Proofs about Mux for every number of streams, header length, window,    *)
(* split size, carrier capacity and set of calls: the type invariant (so   *)
(* received_bytes never underflows) and the receive limit.                 *)
(***************************************************************************)
EXTENDS Mux, RunningSums, SequenceTheorems

\* t is the number of units in the queue of buffers q.
Buffers(q, t) == IsSum([i \in 1..Len(q) |-> Len(q[i])], Len(q), t)

\* The input queues hold at most received_bytes units.  tot[s] is what the
\* queue of s holds.
Summands(tot) == [s \in 1..MaxId |-> IF s \in Id THEN tot[s] ELSE 0]
CoveredBy(c, tot, t) ==
    /\ tot \in [Id -> Nat]
    /\ \A s \in Id : Buffers(c.streams[s].input, tot[s])
    /\ IsSum(Summands(tot), MaxId, t) /\ t <= c.received_bytes
Covered(c) == \E tot, t : CoveredBy(c, tot, t)

\* The frame under way still fits the receive limit of e, and nothing of it is
\* buffered while it may be read directly.
Credit(e, c) ==
    LET f == c.read_frame IN
    /\ f.buffering \/ Len(f.bytes) = 0
    /\ f.wire_consumed + Len(f.bytes) <= f.length
    /\ c.received_bytes + (f.length - f.wire_consumed) <= ReceiveLimit[e]

Good(w) == w \in World /\ Credit(w.end, w.c) /\ Covered(w.c)
-----------------------------------------------------------------------------
(* Constants and values.                                                     *)

\* The policy stream is a stream.
LEMMA OneIsId == 1 \in Id
  BY BoundsAssumption DEF Id

\* Id holds natural numbers within 1..MaxId.
LEMMA IdRange == Id \subseteq 1..MaxId /\ Id \subseteq Nat
  BY BoundsAssumption DEF Id

\* The empty slots of a connection have their types.
LEMMA EmptyTypes ==
  NoStream \in StreamState /\ NoWrite \in PendingWrite /\ NoFrame \in PendingRead
<1>1. <<>> \in Seq(Unit) /\ <<>> \in Seq(Seq(Unit))
  OBVIOUS
<1> QED  BY <1>1, OneIsId
  DEF NoStream, NoWrite, NoFrame, StreamState, PendingWrite, PendingRead, Kind

\* Splitting a sequence at k.
LEMMA SplitTypes ==
  ASSUME NEW S, NEW q \in Seq(S), NEW k \in 0..Len(q)
  PROVE  /\ Front(q, k) \in Seq(S) /\ Len(Front(q, k)) = k
         /\ Rest(q, k) \in Seq(S) /\ Len(Rest(q, k)) = Len(q) - k
<1>1. Len(q) \in Nat
  OBVIOUS
<1>2. Front(q, k) \in Seq(S) /\ Len(Front(q, k)) = k
  BY <1>1, SubSeqProperties DEF Front
<1>3. Rest(q, k) \in Seq(S) /\ Len(Rest(q, k)) = Len(q) - k
  BY <1>1, SubSeqProperties DEF Rest
<1> QED  BY <1>2, <1>3

\* The payload handed to poll_write is a sequence of units.
LEMMA PayloadType ==
  ASSUME NEW s \in Id, NEW first \in Nat \ {0}, NEW length \in Nat
  PROVE  Payload(s, first, length) \in Seq(Unit) /\ Len(Payload(s, first, length)) = length
<1>1. \A k \in 1..length :
        [kind |-> "payload", stream |-> s, n |-> first + k - 1, i |-> 0] \in Unit
  BY DEF Unit
<1>2. Payload(s, first, length) \in [1..length -> Unit]
  BY <1>1 DEF Payload
<1> QED  BY <1>2, LenProperties

\* frame builds a PendingWrite that accepts its payload.
LEMMA FrameType ==
  ASSUME NEW kind \in Kind, NEW s \in Id, NEW payload \in Seq(Unit)
  PROVE  frame(kind, s, payload) \in PendingWrite
<1> DEFINE header == [i \in 1..HeaderBytes |->
                        [kind |-> kind, stream |-> s, n |-> Len(payload), i |-> i]]
<1>1. \A i \in 1..HeaderBytes :
        [kind |-> kind, stream |-> s, n |-> Len(payload), i |-> i] \in Unit
  BY BoundsAssumption DEF Unit
<1>2. header \in [1..HeaderBytes -> Unit]
  BY <1>1
<1>3. header \in Seq(Unit)
  BY <1>2, BoundsAssumption
<1>4. header \o payload \in Seq(Unit)
  <2> HIDE DEF header
  <2> QED  BY <1>3, ConcatProperties
<1> QED  BY <1>4 DEF frame, PendingWrite
-----------------------------------------------------------------------------
(* What the input queues hold.                                               *)

\* An empty queue holds nothing.
LEMMA BuffersEmpty == Buffers(<<>>, 0)
  BY SumEmpty DEF Buffers

\* A buffer is appended.
LEMMA BuffersAppend ==
  ASSUME NEW q \in Seq(Seq(Unit)), NEW t, Buffers(q, t), NEW b \in Seq(Unit)
  PROVE  Buffers(Append(q, b), t + Len(b))
<1> DEFINE n == Len(q)
           d == [i \in 1..n |-> Len(q[i])]
           r == Append(q, b)
           c == [i \in 1..Len(r) |-> Len(r[i])]
<1>1. n \in Nat /\ Len(r) = n + 1 /\ r[n + 1] = b /\ \A i \in 1..n : r[i] = q[i]
  BY AppendProperties
<1>2. \A i \in 1..n : c[i] = d[i]
  BY <1>1
<1>3. c[n + 1] = Len(b) /\ Len(b) \in Nat
  BY <1>1
<1>4. IsSum(d, n, t)
  BY DEF Buffers
<1>5. IsSum(c, n + 1, t + c[n + 1])
  <2> HIDE DEF n, d, r, c
  <2> QED  BY <1>1, <1>2, <1>3, <1>4, SumExtend
<1> QED  BY <1>1, <1>3, <1>5 DEF Buffers

\* The front buffer is taken.
LEMMA BuffersTail ==
  ASSUME NEW q \in Seq(Seq(Unit)), NEW t, Buffers(q, t), q # <<>>
  PROVE  Buffers(Tail(q), t - Len(Head(q))) /\ Len(Head(q)) <= t /\ t \in Nat
<1> DEFINE n == Len(q)
           d == [i \in 1..n |-> Len(q[i])]
           r == Tail(q)
           c == [i \in 1..Len(r) |-> Len(r[i])]
<1>1. n \in Nat \ {0} /\ Len(r) = n - 1 /\ \A i \in 1..(n - 1) : r[i] = q[i + 1]
  BY HeadTailProperties, EmptySeq
<1>2. \A i \in 1..(n - 1) : c[i] = d[i + 1]
  BY <1>1
<1>3. d[1] = Len(Head(q)) /\ 1 \in 1..n
  BY <1>1
<1>4. IsSum(d, n, t)
  BY DEF Buffers
<1>5. IsSum(c, n - 1, t - d[1]) /\ d[1] <= t /\ t \in Nat
  <2> HIDE DEF n, d, r, c
  <2> QED  BY <1>1, <1>2, <1>3, <1>4, SumTail, SumBounds
<1> QED  BY <1>1, <1>3, <1>5 DEF Buffers

\* The front buffer loses its first k units.
LEMMA BuffersFront ==
  ASSUME NEW q \in Seq(Seq(Unit)), NEW t, Buffers(q, t), q # <<>>,
         NEW k \in 0..Len(Head(q))
  PROVE  Buffers(<<Rest(Head(q), k)>> \o Tail(q), t - k)
<1> DEFINE n == Len(q)
           d == [i \in 1..n |-> Len(q[i])]
           x == <<Rest(Head(q), k)>>
           r == x \o Tail(q)
           c == [i \in 1..Len(r) |-> Len(r[i])]
<1>1. n \in Nat \ {0} /\ Head(q) = q[1] /\ Head(q) \in Seq(Unit)
  BY HeadTailProperties, EmptySeq
<1>2. Tail(q) \in Seq(Seq(Unit)) /\ Len(Tail(q)) = n - 1
         /\ \A i \in 1..(n - 1) : Tail(q)[i] = q[i + 1]
  BY HeadTailProperties, EmptySeq
<1>3. Rest(Head(q), k) \in Seq(Unit) /\ Len(Rest(Head(q), k)) = Len(Head(q)) - k
  BY <1>1, SplitTypes
<1>4. x \in Seq(Seq(Unit)) /\ Len(x) = 1 /\ x[1] = Rest(Head(q), k)
  BY <1>3
<1>5. Len(r) = n /\ r[1] = x[1] /\ \A i \in 2..n : r[i] = q[i]
  <2>1. Len(r) = n
    BY <1>1, <1>2, <1>4, ConcatProperties
  <2>2. \A i \in 1..n : r[i] = IF i <= 1 THEN x[i] ELSE Tail(q)[i - 1]
    <3>1. \A i \in 1..(Len(x) + Len(Tail(q))) :
             r[i] = IF i <= Len(x) THEN x[i] ELSE Tail(q)[i - Len(x)]
      <4> DEFINE y == Tail(q)
      <4>1. x \in Seq(Seq(Unit)) /\ y \in Seq(Seq(Unit))
        BY <1>2, <1>4
      <4>2. \A i \in 1..(Len(x) + Len(y)) :
               (x \o y)[i] = IF i <= Len(x) THEN x[i] ELSE y[i - Len(x)]
        <5> HIDE DEF x, y
        <5> QED  BY <4>1, ConcatProperties, Zenon
      <4> QED  BY <4>2
    <3>2. Len(x) = 1 /\ Len(x) + Len(Tail(q)) = n
      BY <1>1, <1>2, <1>4
    <3> HIDE DEF x, r
    <3> QED  BY <3>1, <3>2
  <2>3. \A i \in 2..n : r[i] = q[i]
    <3> SUFFICES ASSUME NEW i \in 2..n PROVE r[i] = q[i]
      OBVIOUS
    <3>1. r[i] = Tail(q)[i - 1] /\ i - 1 \in 1..(n - 1)
      BY <1>1, <2>2
    <3> QED  BY <1>1, <1>2, <3>1
  <2> QED  BY <1>1, <2>1, <2>2, <2>3
<1>6. d[1] = Len(Head(q)) /\ c[1] = Len(Head(q)) - k /\ 1 \in 1..n
  <2>1. 1 \in 1..n /\ d[1] = Len(Head(q))
    BY <1>1
  <2>2. c[1] = Len(r[1]) /\ r[1] = Rest(Head(q), k)
    <3> HIDE DEF x, r
    <3> QED  BY <1>4, <1>5, <2>1
  <2> QED  BY <1>3, <2>1, <2>2
<1>7. \A i \in 1..n : i # 1 => c[i] = d[i]
  BY <1>1, <1>5
<1>8. IsSum(d, n, t)
  BY DEF Buffers
<1>9. c[1] \in Nat /\ t \in Nat /\ Len(Head(q)) \in Nat
  BY <1>1, <1>6, <1>8, SumBounds
<1>10. IsSum(c, n, t - d[1] + c[1])
  <2> HIDE DEF n, d, r, c
  <2> QED  BY <1>1, <1>6, <1>7, <1>8, <1>9, SumUpdate
<1>11. t - d[1] + c[1] = t - k
  <2> HIDE DEF c, d
  <2> QED  BY <1>6, <1>9
<1> QED  BY <1>5, <1>10, <1>11 DEF Buffers

\* The queue of one stream changes, and received_bytes with it.
LEMMA CoveredUpdate ==
  ASSUME NEW c, NEW d, NEW tot, NEW t, CoveredBy(c, tot, t), NEW s \in Id,
         \A u \in Id : u # s => d.streams[u].input = c.streams[u].input,
         NEW x \in Nat, Buffers(d.streams[s].input, x),
         t - tot[s] + x <= d.received_bytes
  PROVE  Covered(d)
<1> DEFINE new == [tot EXCEPT ![s] = x]
           a == Summands(tot)
           b == Summands(new)
<1>1. tot \in [Id -> Nat] /\ new \in [Id -> Nat] /\ new[s] = x
         /\ \A u \in Id : u # s => new[u] = tot[u]
  BY DEF CoveredBy
<1>2. s \in 1..MaxId /\ MaxId \in Nat
  BY IdRange, BoundsAssumption
<1>3. a[s] = tot[s] /\ b[s] = x /\ \A i \in 1..MaxId : i # s => b[i] = a[i]
  <2> HIDE DEF new
  <2> QED  BY <1>1, <1>2 DEF Summands
<1>4. IsSum(a, MaxId, t)
  BY DEF CoveredBy
<1>5. IsSum(b, MaxId, t - a[s] + b[s])
  <2> HIDE DEF a, b
  <2> QED  BY <1>2, <1>3, <1>4, SumUpdate
<1>6. \A u \in Id : Buffers(d.streams[u].input, new[u])
  BY <1>1 DEF CoveredBy
<1>7. CoveredBy(d, new, t - tot[s] + x)
  <2> HIDE DEF new
  <2> QED  BY <1>1, <1>3, <1>5, <1>6 DEF CoveredBy
<1> QED  BY <1>7 DEF Covered

\* Nothing of it changes.
LEMMA CoveredSame ==
  ASSUME NEW c, NEW d, Covered(c), d.received_bytes = c.received_bytes,
         \A u \in Id : d.streams[u].input = c.streams[u].input
  PROVE  Covered(d)
  BY DEF Covered, CoveredBy

\* tot[s] is at most the sum.
LEMMA CoveredAtLeast ==
  ASSUME NEW c, NEW tot, NEW t, CoveredBy(c, tot, t), NEW s \in Id
  PROVE  t \in Nat /\ tot[s] \in Nat /\ tot[s] <= t
<1>1. s \in 1..MaxId /\ MaxId \in Nat
  BY IdRange, BoundsAssumption
<1>2. IsSum(Summands(tot), MaxId, t) /\ tot[s] \in Nat
  BY DEF CoveredBy
<1>3. t \in Nat /\ Summands(tot)[s] <= t
  BY <1>1, <1>2, SumBounds
<1> QED  BY <1>1, <1>2, <1>3 DEF Summands

\* A stream is inserted: whatever its queue held is forgotten.
LEMMA CoveredEmptied ==
  ASSUME NEW c \in Connection, NEW d, Covered(c), d.received_bytes = c.received_bytes,
         NEW s \in Id, d.streams[s].input = <<>>,
         \A u \in Id : u # s => d.streams[u].input = c.streams[u].input
  PROVE  Covered(d)
<1>1. PICK tot, t : CoveredBy(c, tot, t)
  BY DEF Covered
<1>2. t \in Nat /\ tot[s] \in Nat /\ tot[s] <= t
  BY <1>1, CoveredAtLeast
<1>3. Buffers(d.streams[s].input, 0)
  BY BuffersEmpty
<1>4. t <= c.received_bytes /\ c.received_bytes \in Nat
  BY <1>1 DEF CoveredBy, Connection
<1>5. t - tot[s] + 0 <= d.received_bytes
  BY <1>2, <1>4
<1> QED  BY <1>1, <1>3, <1>5, CoveredUpdate

\* A summand and the charge grow by the same length.
LEMMA ChargedMore ==
  ASSUME NEW t \in Nat, NEW x \in Nat, NEW l \in Nat, NEW r \in Nat, x <= t, t <= r
  PROVE  x + l \in Nat /\ t - x + (x + l) <= r + l
  OBVIOUS

\* A summand and the charge shrink by the same length.
LEMMA ChargedLess ==
  ASSUME NEW t \in Nat, NEW x \in Nat, NEW k \in Nat, NEW r \in Nat, x <= t, t <= r, k <= x
  PROVE  x - k \in Nat /\ t - x + (x - k) <= r - k
  OBVIOUS

\* finish_data appends a buffer and charges its length.
LEMMA CoveredAppended ==
  ASSUME NEW c \in Connection, NEW d, Covered(c), NEW s \in Id, NEW b \in Seq(Unit),
         d.received_bytes = c.received_bytes + Len(b),
         d.streams[s].input = Append(c.streams[s].input, b),
         \A u \in Id : u # s => d.streams[u].input = c.streams[u].input
  PROVE  Covered(d)
<1>1. PICK tot, t : CoveredBy(c, tot, t)
  BY DEF Covered
<1>2. t \in Nat /\ tot[s] \in Nat /\ tot[s] <= t /\ Len(b) \in Nat
  BY <1>1, CoveredAtLeast
<1>3. c.streams[s].input \in Seq(Seq(Unit)) /\ Buffers(c.streams[s].input, tot[s])
  BY <1>1 DEF CoveredBy, Connection, StreamState
<1>4. Buffers(d.streams[s].input, tot[s] + Len(b))
  BY <1>3, BuffersAppend
<1>5. t <= c.received_bytes /\ c.received_bytes \in Nat
  BY <1>1 DEF CoveredBy, Connection
<1>6. /\ tot[s] + Len(b) \in Nat
      /\ t - tot[s] + (tot[s] + Len(b)) <= d.received_bytes
  <2> DEFINE x == tot[s]
             l == Len(b)
             r == c.received_bytes
  <2>1. t \in Nat /\ x \in Nat /\ l \in Nat /\ r \in Nat /\ x <= t /\ t <= r
    BY <1>2, <1>5
  <2>2. d.received_bytes = r + l
    OBVIOUS
  <2>3. x + l \in Nat /\ t - x + (x + l) <= r + l
    <3> HIDE DEF x, l, r
    <3> QED  BY <2>1, ChargedMore
  <2> QED  BY <2>2, <2>3
<1> QED  BY <1>1, <1>4, <1>6, CoveredUpdate

\* poll_read takes k units of the front buffer and credits them.
LEMMA CoveredTaken ==
  ASSUME NEW c \in Connection, Covered(c), NEW s \in Id, c.streams[s].input # <<>>,
         NEW k \in 0..Len(Head(c.streams[s].input))
  PROVE  /\ c.received_bytes - k \in Nat
         /\ \A d : /\ d.received_bytes = c.received_bytes - k
                   /\ \/ d.streams[s].input = <<Rest(Head(c.streams[s].input), k)>>
                                                 \o Tail(c.streams[s].input)
                      \/ /\ k = Len(Head(c.streams[s].input))
                         /\ d.streams[s].input = Tail(c.streams[s].input)
                   /\ \A u \in Id : u # s => d.streams[u].input = c.streams[u].input
                   => Covered(d)
<1> DEFINE q == c.streams[s].input
<1>1. PICK tot, t : CoveredBy(c, tot, t)
  BY DEF Covered
<1>2. t \in Nat /\ tot[s] \in Nat /\ tot[s] <= t
  BY <1>1, CoveredAtLeast
<1>3. q \in Seq(Seq(Unit)) /\ Buffers(q, tot[s]) /\ q # <<>>
  BY <1>1 DEF CoveredBy, Connection, StreamState
<1>4. Buffers(Tail(q), tot[s] - Len(Head(q))) /\ Len(Head(q)) <= tot[s]
  <2> HIDE DEF q
  <2> QED  BY <1>3, BuffersTail
<1>5. Buffers(<<Rest(Head(q), k)>> \o Tail(q), tot[s] - k)
  <2> HIDE DEF q
  <2>1. k \in 0..Len(Head(q))
    BY DEF q
  <2> QED  BY <1>3, <2>1, BuffersFront
<1>6. t <= c.received_bytes /\ c.received_bytes \in Nat
  BY <1>1 DEF CoveredBy, Connection
<1>7. Head(q) \in Seq(Unit)
  <2> HIDE DEF q
  <2> QED  BY <1>3, HeadTailProperties, EmptySeq
<1>8. k \in Nat /\ k <= tot[s]
  <2>1. k \in 0..Len(Head(q))
    OBVIOUS
  <2> HIDE DEF q
  <2>2. Len(Head(q)) \in Nat
    BY <1>7, LenProperties
  <2> QED  BY <1>2, <1>4, <2>1, <2>2
<1>9. c.received_bytes - k \in Nat
  BY <1>2, <1>6, <1>8
<1>10. ASSUME NEW d, d.received_bytes = c.received_bytes - k,
              \/ d.streams[s].input = <<Rest(Head(q), k)>> \o Tail(q)
              \/ k = Len(Head(q)) /\ d.streams[s].input = Tail(q),
              \A u \in Id : u # s => d.streams[u].input = c.streams[u].input
       PROVE  Covered(d)
  <2>1. Buffers(d.streams[s].input, tot[s] - k)
    <3> HIDE DEF q
    <3> QED  BY <1>4, <1>5, <1>10
  <2>2. tot[s] - k \in Nat /\ t - tot[s] + (tot[s] - k) <= d.received_bytes
    <3> DEFINE x == tot[s]
               r == c.received_bytes
    <3>1. /\ t \in Nat /\ x \in Nat /\ k \in Nat /\ r \in Nat
          /\ x <= t /\ t <= r /\ k <= x
      BY <1>2, <1>6, <1>8
    <3>2. d.received_bytes = r - k
      BY <1>10
    <3>3. x - k \in Nat /\ t - x + (x - k) <= r - k
      <4> HIDE DEF x, r
      <4> QED  BY <3>1, ChargedLess
    <3> QED  BY <3>2, <3>3
  <2> QED  BY <1>1, <1>10, <2>1, <2>2, CoveredUpdate
<1> QED  BY <1>9, <1>10
-----------------------------------------------------------------------------
(* Sending leaves the receive path alone.                                    *)

Quiet(c, d) ==
    /\ d \in Connection
    /\ d.read_frame = c.read_frame /\ d.received_bytes = c.received_bytes
    /\ \A u \in Id : d.streams[u].input = c.streams[u].input

\* Only the sending half of the connection changed.
LEMMA GoodQuiet ==
  ASSUME NEW w, Good(w), NEW v \in World, v.end = w.end, Quiet(w.c, v.c)
  PROVE  Good(v)
<1>1. Covered(v.c)
  BY CoveredSame DEF Good, Quiet
<1> QED  BY <1>1 DEF Good, Quiet, Credit

\* The fields of a connection.
LEMMA ConnectionFields ==
  ASSUME NEW c \in Connection
  PROVE  /\ c.io \in BOOLEAN /\ c.closed \in BOOLEAN
         /\ c.streams \in [Id -> StreamState] /\ c.inbound \in Seq(Id)
         /\ c.received_bytes \in Nat /\ c.header \in Seq(Unit)
         /\ c.read_frame \in PendingRead /\ c.write \in PendingWrite
         /\ c.controls \in Seq([kind : {"open", "fin"}, stream : Id])
         /\ c.next_stream \in Nat
  BY DEF Connection

\* A new frame is put into write.
LEMMA WriteQuiet ==
  ASSUME NEW c \in Connection, NEW x \in PendingWrite
  PROVE  Quiet(c, [c EXCEPT !.write = x]) /\ [c EXCEPT !.write = x].write = x
  BY DEF Quiet, Connection

\* start_queued_control moves a control frame into write.
LEMMA StartQuiet ==
  ASSUME NEW c \in Connection
  PROVE  Quiet(c, start_queued_control(c))
<1> DEFINE x == frame(Head(c.controls).kind, Head(c.controls).stream, <<>>)
           d == [c EXCEPT !.write = x, !.controls = Tail(@)]
<1>1. CASE ~(c.write = NoWrite /\ c.controls # <<>>)
  BY <1>1 DEF start_queued_control, Quiet
<1>2. CASE c.write = NoWrite /\ c.controls # <<>>
  <2>1. /\ Head(c.controls) \in [kind : {"open", "fin"}, stream : Id]
        /\ Tail(c.controls) \in Seq([kind : {"open", "fin"}, stream : Id])
    BY <1>2, ConnectionFields, HeadTailProperties, EmptySeq
  <2>2. x \in PendingWrite
    <3>1. Head(c.controls).kind \in Kind /\ Head(c.controls).stream \in Id
      BY <2>1 DEF Kind
    <3>2. <<>> \in Seq(Unit)
      OBVIOUS
    <3> QED  BY <3>1, <3>2, FrameType
  <2>3. Quiet(c, d)
    <3> HIDE DEF x
    <3> QED  BY <2>1, <2>2 DEF Quiet, Connection
  <2> QED  BY <1>2, <2>3 DEF start_queued_control
<1> QED  BY <1>1, <1>2

\* The completed_write of a stream is set.
LEMMA CompletedQuiet ==
  ASSUME NEW c \in Connection, NEW s \in Id, NEW n \in Nat
  PROVE  Quiet(c, [c EXCEPT !.streams[s].completed_write = n])
<1> DEFINE x == [c.streams[s] EXCEPT !.completed_write = n]
           st == [c.streams EXCEPT ![s] = x]
<1>1. st \in [Id -> StreamState] /\ \A u \in Id : st[u].input = c.streams[u].input
  <2>1. c.streams \in [Id -> StreamState] /\ c.streams[s] \in StreamState
    BY ConnectionFields
  <2>2. x \in StreamState /\ x.input = c.streams[s].input
    BY <2>1 DEF StreamState
  <2> HIDE DEF x
  <2> QED  BY <2>1, <2>2
<1>2. [c EXCEPT !.streams = st] \in Connection
  <2> HIDE DEF st
  <2> QED  BY <1>1 DEF Connection
<1>3. Quiet(c, [c EXCEPT !.streams = st])
  <2> HIDE DEF st
  <2> QED  BY <1>1, <1>2 DEF Quiet, Connection
<1> QED  BY <1>3

\* Being quiet composes.
LEMMA QuietTwice ==
  ASSUME NEW c, NEW d, NEW x, Quiet(c, d), Quiet(d, x)
  PROVE  Quiet(c, x)
  BY DEF Quiet

\* complete_write.
LEMMA CompleteQuiet ==
  ASSUME NEW c \in Connection
  PROVE  Quiet(c, complete_write(c))
<1> DEFINE s == c.write.stream
           n == c.write.accepted
           d == [c EXCEPT !.streams[s].completed_write = n]
<1>1. c.write \in PendingWrite /\ s \in Id /\ n \in Nat
  BY ConnectionFields DEF PendingWrite
<1>2. Quiet(c, d) /\ d \in Connection
  <2> HIDE DEF s, n
  <2> QED  BY <1>1, CompletedQuiet DEF Quiet
<1>3. Quiet(d, [d EXCEPT !.write = NoWrite])
  <2> HIDE DEF d
  <2> QED  BY <1>2, WriteQuiet, EmptyTypes
<1>4. Quiet(c, [d EXCEPT !.write = NoWrite])
  <2> HIDE DEF d
  <2> QED  BY <1>2, <1>3, QuietTwice
<1>5. Quiet(c, [c EXCEPT !.write = NoWrite])
  BY WriteQuiet, EmptyTypes
<1> QED  BY <1>4, <1>5 DEF complete_write

\* Only the result of the poll changes.
LEMMA GoodPoll ==
  ASSUME NEW w, Good(w)
  PROVE  /\ Good(Ready(w)) /\ Good(Pending(w)) /\ Good(Failed(w))
         /\ Ready(w).end = w.end /\ Pending(w).end = w.end /\ Failed(w).end = w.end
<1>1. /\ Ready(w) \in World /\ Ready(w).c = w.c /\ Ready(w).end = w.end
      /\ Pending(w) \in World /\ Pending(w).c = w.c /\ Pending(w).end = w.end
      /\ Failed(w) \in World /\ Failed(w).c = w.c /\ Failed(w).end = w.end
  BY DEF Good, World, Ready, Pending, Failed
<1> QED  BY <1>1 DEF Good

\* The connection of a world is replaced by one with the same receive path.
LEMMA GoodWith ==
  ASSUME NEW w, Good(w), NEW d, Quiet(w.c, d)
  PROVE  Good([w EXCEPT !.c = d]) /\ [w EXCEPT !.c = d].end = w.end
<1> DEFINE v == [w EXCEPT !.c = d]
<1>1. v \in World /\ v.end = w.end /\ v.c = d
  BY DEF Good, World, Quiet
<1> QED  BY <1>1, GoodQuiet

\* poll_flush_write.
LEMMA GoodFlush ==
  ASSUME NEW w, Good(w), NEW v \in poll_flush_write(w)
  PROVE  Good(v) /\ v.end = w.end
<1> DEFINE bytes == w.c.write.bytes
           room == Capacity - Len(w.out)
<1>1. w \in World /\ w.c \in Connection /\ w.out \in Seq(Unit)
  BY DEF Good, World
<1>2. w.c.write \in PendingWrite /\ bytes \in Seq(Unit)
  BY <1>1, ConnectionFields DEF PendingWrite
<1>3. CASE v \in {Ready(w), Pending(w), Failed(w)}
  BY <1>3, GoodPoll
<1>4. ASSUME NEW k \in 0..(Len(bytes) - 1),
             v = [w EXCEPT !.c.write.bytes = Rest(bytes, k),
                           !.out = @ \o Front(bytes, k),
                           !.poll = "pending"]
      PROVE  Good(v) /\ v.end = w.end
  <2> DEFINE x == [w.c.write EXCEPT !.bytes = Rest(bytes, k)]
             d == [w.c EXCEPT !.write = x]
             out == w.out \o Front(bytes, k)
  <2>1. k \in 0..Len(bytes)
    BY <1>2
  <2>2. Rest(bytes, k) \in Seq(Unit) /\ Front(bytes, k) \in Seq(Unit)
    <3> HIDE DEF bytes
    <3> QED  BY <1>2, <2>1, SplitTypes
  <2>3. x \in PendingWrite
    <3> HIDE DEF bytes
    <3> QED  BY <1>2, <2>2 DEF PendingWrite
  <2>4. Quiet(w.c, d)
    <3> HIDE DEF x
    <3> QED  BY <1>1, <2>3, WriteQuiet
  <2>5. out \in Seq(Unit)
    <3> HIDE DEF bytes
    <3> QED  BY <1>1, <2>2, ConcatProperties
  <2>6. v = [w EXCEPT !.c = d, !.out = out, !.poll = "pending"]
    BY <1>4
  <2>7. v \in World /\ v.end = w.end /\ v.c = d
    <3> HIDE DEF d, out
    <3> QED  BY <1>1, <2>4, <2>5, <2>6 DEF World, Quiet
  <2> HIDE DEF d
  <2> QED  BY <2>4, <2>7, GoodQuiet
<1>5. ASSUME NEW p \in {"ready", "pending"},
             v = [w EXCEPT !.c = complete_write(@), !.out = @ \o bytes, !.poll = p]
      PROVE  Good(v) /\ v.end = w.end
  <2>1. w.out \o bytes \in Seq(Unit)
    <3> HIDE DEF bytes
    <3> QED  BY <1>1, <1>2, ConcatProperties
  <2>2. Quiet(w.c, complete_write(w.c))
    BY <1>1, CompleteQuiet
  <2>3. v \in World /\ v.end = w.end /\ v.c = complete_write(w.c)
    <3> HIDE DEF bytes
    <3> QED  BY <1>1, <1>5, <2>1, <2>2 DEF World, Quiet
  <2> QED  BY <2>2, <2>3, GoodQuiet
<1>6. \/ v \in {Ready(w), Pending(w), Failed(w)}
      \/ \E k \in 0..(Len(bytes) - 1) :
            v = [w EXCEPT !.c.write.bytes = Rest(bytes, k),
                          !.out = @ \o Front(bytes, k), !.poll = "pending"]
      \/ \E p \in {"ready", "pending"} :
            v = [w EXCEPT !.c = complete_write(@), !.out = @ \o bytes, !.poll = p]
  BY Zenon DEF poll_flush_write, When
<1> QED  BY <1>3, <1>4, <1>5, <1>6

\* poll_control.
LEMMA GoodControl ==
  ASSUME NEW w, Good(w), NEW kind \in Kind, NEW s \in Id, NEW v \in poll_control(w, kind, s)
  PROVE  Good(v) /\ v.end = w.end
<1> DEFINE x == frame(kind, s, <<>>)
           T == IF w.c.write = NoWrite THEN {Ready(w)} ELSE poll_flush_write(w)
<1>1. x \in PendingWrite
  <2>1. <<>> \in Seq(Unit)
    OBVIOUS
  <2> QED  BY <2>1, FrameType
<1>2. ASSUME NEW u \in T PROVE Good(u) /\ u.end = w.end
  BY GoodPoll, GoodFlush
<1>3. ASSUME NEW u \in T, v \in poll_flush_write([u EXCEPT !.c.write = x])
      PROVE  Good(v) /\ v.end = w.end
  <2> HIDE DEF T, x
  <2> DEFINE d == [u.c EXCEPT !.write = x]
             y == [u EXCEPT !.c = d]
  <2>1. Good(u) /\ u.end = w.end /\ u.c \in Connection
    BY <1>2 DEF Good, World
  <2>2. Quiet(u.c, d)
    BY <1>1, <2>1, WriteQuiet
  <2>3. Good(y) /\ y.end = w.end
    <3> HIDE DEF d
    <3> QED  BY <2>1, <2>2, GoodWith
  <2>4. v \in poll_flush_write(y)
    BY <1>3
  <2> HIDE DEF y
  <2> QED  BY <2>3, <2>4, GoodFlush
<1>4. \/ v \in poll_flush_write(w)
      \/ v \in T
      \/ \E u \in T : v \in poll_flush_write([u EXCEPT !.c.write = x])
  BY DEF poll_control
<1> QED  BY <1>2, <1>3, <1>4, GoodFlush

\* Only what has been framed changes.
LEMMA GoodSent ==
  ASSUME NEW w, Good(w), NEW d, Quiet(w.c, d), NEW n \in Nat
  PROVE  Good([w EXCEPT !.c = d, !.sent = n]) /\ [w EXCEPT !.c = d, !.sent = n].end = w.end
<1> DEFINE x == [w EXCEPT !.c = d, !.sent = n]
<1>1. x \in World /\ x.end = w.end /\ x.c = d
  BY DEF Good, World, Quiet
<1> QED  BY <1>1, GoodQuiet

\* flush_data.
LEMMA GoodFlushData ==
  ASSUME NEW w, Good(w), NEW s \in Id, NEW v \in flush_data(w, s)
  PROVE  Good(v) /\ v.end = w.end
<1>1. PICK u \in poll_flush_write(w) :
        v = IF u.poll = "ready"
            THEN [u EXCEPT !.c.streams[s].completed_write = 0,
                           !.count = w.c.write.accepted]
            ELSE u
  BY DEF flush_data
<1>2. Good(u) /\ u.end = w.end /\ u.c \in Connection
  BY GoodFlush DEF Good, World
<1>3. w.c.write.accepted \in Nat
  BY ConnectionFields DEF Good, World, PendingWrite
<1> DEFINE d == [u.c EXCEPT !.streams[s].completed_write = 0]
<1>4. Quiet(u.c, d)
  BY <1>2, CompletedQuiet
<1>5. CASE u.poll = "ready"
  <2> DEFINE n == w.c.write.accepted
  <2>1. v = [u EXCEPT !.c = d, !.count = n] /\ n \in Nat
    BY <1>1, <1>3, <1>5
  <2> HIDE DEF d, n
  <2>2. v \in World /\ v.end = u.end /\ v.c = d
    BY <1>2, <1>4, <2>1 DEF Good, World, Quiet
  <2> QED  BY <1>2, <1>4, <2>2, GoodQuiet
<1>6. CASE u.poll # "ready"
  BY <1>1, <1>2, <1>6
<1> QED  BY <1>5, <1>6

\* poll_data.
LEMMA GoodData ==
  ASSUME NEW w, Good(w), NEW s \in Id, NEW payload \in Seq(Unit),
         NEW v \in poll_data(w, s, payload)
  PROVE  Good(v) /\ v.end = w.end
<1> DEFINE done == w.c.streams[s].completed_write
           q == [w EXCEPT !.c = start_queued_control(@)]
           length == Least(Len(payload), SplitSendSize[w.end])
           x == frame("data", s, Front(payload, length))
           T == IF q.c.write = NoWrite THEN {Ready(q)} ELSE poll_flush_write(q)
<1>1. w.end \in End /\ w.c \in Connection /\ done \in Nat
  BY ConnectionFields DEF Good, World, StreamState
<1>2. Good(q) /\ q.end = w.end
  BY <1>1, StartQuiet, GoodWith
<1>3. length \in Nat /\ x \in PendingWrite
  <2>1. length \in 0..Len(payload)
    BY <1>1, BoundsAssumption DEF Least
  <2>2. Front(payload, length) \in Seq(Unit)
    <3> HIDE DEF length
    <3> QED  BY <2>1, SplitTypes
  <2> HIDE DEF length
  <2> QED  BY <2>1, <2>2, FrameType DEF Kind
<1>4. CASE v = Failed(w)
  BY <1>4, GoodPoll
<1>5. CASE v = [w EXCEPT !.c.streams[s].completed_write = 0, !.count = done,
                         !.poll = "ready"]
  <2> DEFINE d == [w.c EXCEPT !.streams[s].completed_write = 0]
  <2>1. Quiet(w.c, d)
    BY <1>1, CompletedQuiet
  <2>2. v = [w EXCEPT !.c = d, !.count = done, !.poll = "ready"]
    BY <1>5
  <2>3. done \in Nat
    BY <1>1
  <2> HIDE DEF d, done
  <2>4. v \in World /\ v.end = w.end /\ v.c = d
    BY <2>1, <2>2, <2>3 DEF Good, World, Quiet
  <2> QED  BY <2>1, <2>4, GoodQuiet
<1>6. CASE v \in flush_data(q, s)
  <2> HIDE DEF q
  <2> QED  BY <1>2, <1>6, GoodFlushData
<1>7. ASSUME NEW u \in T PROVE Good(u) /\ u.end = w.end
  <2> HIDE DEF q
  <2> QED  BY <1>2, GoodPoll, GoodFlush
<1>8. ASSUME NEW u \in T,
             v \in flush_data([u EXCEPT !.c.write = x, !.sent = length], s)
      PROVE  Good(v) /\ v.end = w.end
  <2> HIDE DEF T, x, length
  <2> DEFINE d == [u.c EXCEPT !.write = x]
             y == [u EXCEPT !.c = d, !.sent = length]
  <2>1. Good(u) /\ u.end = w.end /\ u.c \in Connection
    BY <1>7 DEF Good, World
  <2>2. Quiet(u.c, d)
    BY <1>3, <2>1, WriteQuiet
  <2>3. Good(y) /\ y.end = w.end
    <3> HIDE DEF d
    <3> QED  BY <1>3, <2>1, <2>2, GoodSent
  <2>4. v \in flush_data(y, s)
    BY <1>8
  <2> HIDE DEF y
  <2> QED  BY <2>3, <2>4, GoodFlushData
<1>9. \/ v = Failed(w)
      \/ v = [w EXCEPT !.c.streams[s].completed_write = 0, !.count = done,
                       !.poll = "ready"]
      \/ v \in flush_data(q, s)
      \/ v \in T
      \/ \E u \in T : v \in flush_data([u EXCEPT !.c.write = x, !.sent = length], s)
  BY Zenon DEF poll_data
<1> QED  BY <1>4, <1>5, <1>6, <1>7, <1>8, <1>9
-----------------------------------------------------------------------------
(* Receiving.                                                                *)

\* A stream state replaces another.
LEMMA StreamReplaced ==
  ASSUME NEW c \in Connection, NEW s \in Id, NEW st \in StreamState
  PROVE  LET d == [c EXCEPT !.streams[s] = st] IN
         /\ d \in Connection /\ d.streams[s] = st
         /\ \A u \in Id : u # s => d.streams[u] = c.streams[u]
         /\ d.received_bytes = c.received_bytes /\ d.read_frame = c.read_frame
         /\ d.inbound = c.inbound
<1>1. c.streams \in [Id -> StreamState]
  BY ConnectionFields
<1> DEFINE f == [c.streams EXCEPT ![s] = st]
<1>2. f \in [Id -> StreamState] /\ f[s] = st /\ \A u \in Id : u # s => f[u] = c.streams[u]
  BY <1>1
<1>3. LET d == [c EXCEPT !.streams = f] IN
         /\ d \in Connection /\ d.streams = f
         /\ d.received_bytes = c.received_bytes /\ d.read_frame = c.read_frame
         /\ d.inbound = c.inbound
  <2> HIDE DEF f
  <2> QED  BY <1>2 DEF Connection
<1> QED  BY <1>2, <1>3

\* insert_stream.
LEMMA GoodInsert ==
  ASSUME NEW c \in Connection, Covered(c), NEW s \in Id
  PROVE  LET d == insert_stream(c, s) IN
         /\ d \in Connection /\ Covered(d)
         /\ d.received_bytes = c.received_bytes /\ d.read_frame = c.read_frame
<1> DEFINE st == [NoStream EXCEPT !.present = TRUE]
           d == [c EXCEPT !.streams[s] = st]
<1>1. st \in StreamState /\ st.input = <<>>
  BY EmptyTypes DEF NoStream, StreamState
<1>2. /\ d \in Connection /\ d.streams[s] = st
      /\ \A u \in Id : u # s => d.streams[u] = c.streams[u]
      /\ d.received_bytes = c.received_bytes /\ d.read_frame = c.read_frame
  <2> HIDE DEF st
  <2> QED  BY <1>1, StreamReplaced
<1>3. Covered(d)
  <2> HIDE DEF d, st
  <2> QED  BY <1>1, <1>2, CoveredEmptied
<1> QED  BY <1>2, <1>3 DEF insert_stream

\* A world whose connection is replaced.
LEMMA WorldWith ==
  ASSUME NEW w \in World, NEW d \in Connection
  PROVE  LET v == [w EXCEPT !.c = d] IN v \in World /\ v.end = w.end /\ v.c = d
  BY DEF World

\* Refusing a frame records the fault.
LEMMA GoodRefused ==
  ASSUME NEW w, Good(w), NEW fault \in Fault
  PROVE  Good(Refused(w, fault)) /\ Refused(w, fault).end = w.end
<1> DEFINE x == IF w.c.fault = "none" THEN fault ELSE w.c.fault
           d == [w.c EXCEPT !.fault = x]
           v == Refused(w, fault)
<1>1. w.c \in Connection /\ x \in Fault
  BY DEF Good, World, Connection
<1>2. Quiet(w.c, d)
  <2> HIDE DEF x
  <2> QED  BY <1>1 DEF Quiet, Connection
<1>3. v = [w EXCEPT !.poll = "error", !.c = d]
  BY DEF Refused
<1>4. v \in World /\ v.end = w.end /\ v.c = d
  <2> HIDE DEF d, v
  <2> QED  BY <1>2, <1>3 DEF Good, World, Quiet
<1> HIDE DEF d, v
<1> QED  BY <1>2, <1>4, GoodQuiet DEF v

\* finish_frame, when the bytes of the frame fit the limit.
LEMMA GoodFinish ==
  ASSUME NEW w, Good(w), NEW f \in PendingRead, w.c.read_frame = NoFrame,
         w.c.received_bytes + Len(f.bytes) <= ReceiveLimit[w.end]
  PROVE  Good(finish_frame(w, f)) /\ finish_frame(w, f).end = w.end
<1> DEFINE r == Ready(w)
           s == f.stream
<1>1. /\ w.c \in Connection /\ r.c = w.c /\ r.end = w.end /\ r \in World
      /\ Covered(w.c) /\ Credit(w.end, w.c) /\ w.end \in End
  BY DEF Good, World, Ready
<1>2. s \in Id /\ f.bytes \in Seq(Unit) /\ Len(f.bytes) \in Nat
  BY DEF PendingRead
<1>3. ASSUME NEW d \in Connection, Covered(d), Credit(w.end, d)
      PROVE  Good([r EXCEPT !.c = d]) /\ [r EXCEPT !.c = d].end = w.end
  BY <1>1, <1>3, WorldWith DEF Good
<1>4. /\ finish_open(w.c, s) \in Connection /\ Covered(finish_open(w.c, s))
      /\ Credit(w.end, finish_open(w.c, s))
  <2> DEFINE i == insert_stream(w.c, s)
             d == [i EXCEPT !.inbound = Append(@, s)]
  <2>1. /\ i \in Connection /\ Covered(i)
        /\ i.received_bytes = w.c.received_bytes /\ i.read_frame = w.c.read_frame
    BY <1>1, <1>2, GoodInsert
  <2>2. Append(i.inbound, s) \in Seq(Id)
    <3> HIDE DEF i
    <3> QED  BY <1>2, <2>1, ConnectionFields, AppendProperties
  <2>3. /\ d \in Connection /\ d.received_bytes = i.received_bytes
        /\ d.read_frame = i.read_frame /\ d.streams = i.streams
    <3> HIDE DEF i
    <3> QED  BY <2>1, <2>2 DEF Connection
  <2>4. Covered(d)
    <3> HIDE DEF i, d
    <3> QED  BY <2>1, <2>3, CoveredSame
  <2>5. Credit(w.end, d)
    <3> HIDE DEF i, d
    <3> QED  BY <1>1, <2>1, <2>3 DEF Credit
  <2> QED  BY <2>3, <2>4, <2>5 DEF finish_open
<1>5. /\ finish_data(w.c, f) \in Connection /\ Covered(finish_data(w.c, f))
      /\ Credit(w.end, finish_data(w.c, f))
  <2> DEFINE st == [w.c.streams[s] EXCEPT !.input = Append(@, f.bytes)]
             i == [w.c EXCEPT !.streams[s] = st]
             n == w.c.received_bytes + Len(f.bytes)
             d == [i EXCEPT !.received_bytes = n]
  <2>1. w.c.streams[s] \in StreamState /\ w.c.received_bytes \in Nat
    BY <1>1, <1>2, ConnectionFields
  <2>2. st \in StreamState /\ st.input = Append(w.c.streams[s].input, f.bytes)
    BY <1>2, <2>1, AppendProperties DEF StreamState
  <2>3. /\ i \in Connection /\ i.streams[s] = st
        /\ \A u \in Id : u # s => i.streams[u] = w.c.streams[u]
        /\ i.received_bytes = w.c.received_bytes /\ i.read_frame = w.c.read_frame
    <3>1. w.c \in Connection /\ s \in Id /\ st \in StreamState
      BY <1>1, <1>2, <2>2
    <3>2. i = [w.c EXCEPT !.streams[s] = st]
      OBVIOUS
    <3> HIDE DEF st, s, i
    <3> QED  BY <3>1, <3>2, StreamReplaced
  <2>4. n \in Nat
    BY <1>2, <2>1
  <2>5. /\ d \in Connection /\ d.received_bytes = n
        /\ d.read_frame = i.read_frame /\ d.streams = i.streams
    <3> HIDE DEF i, n
    <3> QED  BY <2>3, <2>4 DEF Connection
  <2>6. finish_data(w.c, f) = d
    BY DEF finish_data
  <2>7. Covered(d)
    <3>1. /\ d.received_bytes = w.c.received_bytes + Len(f.bytes)
          /\ d.streams[s].input = Append(w.c.streams[s].input, f.bytes)
          /\ \A u \in Id : u # s => d.streams[u].input = w.c.streams[u].input
      <4> HIDE DEF i, d, st
      <4> QED  BY <2>2, <2>3, <2>5
    <3> HIDE DEF d, s
    <3> QED  BY <1>1, <1>2, <3>1, CoveredAppended
  <2>8. Credit(w.end, d)
    <3>1. d.read_frame = NoFrame /\ d.received_bytes = n /\ n <= ReceiveLimit[w.end]
      <4> HIDE DEF d, i
      <4> QED  BY <2>3, <2>5
    <3> HIDE DEF d, n
    <3> QED  BY <2>4, <3>1 DEF Credit, NoFrame
  <2> HIDE DEF d
  <2> QED  BY <2>5, <2>6, <2>7, <2>8
<1>6. LET d == [w.c EXCEPT !.streams[s].eof = TRUE] IN
      d \in Connection /\ Covered(d) /\ Credit(w.end, d)
  <2> DEFINE st == [w.c.streams[s] EXCEPT !.eof = TRUE]
             d == [w.c EXCEPT !.streams[s] = st]
  <2>1. w.c.streams[s] \in StreamState
    BY <1>1, <1>2, ConnectionFields
  <2>2. st \in StreamState /\ st.input = w.c.streams[s].input
    BY <2>1 DEF StreamState
  <2>3. /\ d \in Connection /\ d.streams[s] = st
        /\ \A u \in Id : u # s => d.streams[u] = w.c.streams[u]
        /\ d.received_bytes = w.c.received_bytes /\ d.read_frame = w.c.read_frame
    <3> HIDE DEF st, s
    <3> QED  BY <1>1, <1>2, <2>2, StreamReplaced
  <2>4. Covered(d)
    <3> HIDE DEF st, d
    <3> QED  BY <1>1, <2>2, <2>3, CoveredSame
  <2>5. Credit(w.end, d)
    <3> HIDE DEF d
    <3> QED  BY <1>1, <2>3 DEF Credit
  <2> QED  BY <2>3, <2>4, <2>5
<1>7. \/ \E fault \in Fault : finish_frame(w, f) = Refused(w, fault)
      \/ finish_frame(w, f) = [r EXCEPT !.c = finish_open(w.c, s)]
      \/ finish_frame(w, f) = [r EXCEPT !.c = finish_data(w.c, f)]
      \/ finish_frame(w, f) = [r EXCEPT !.c = [w.c EXCEPT !.streams[s].eof = TRUE]]
  <2>1. "duplicate stream" \in Fault /\ "unknown stream" \in Fault
    BY DEF Fault
  <2>2. /\ [r EXCEPT !.c = finish_open(@, s)] = [r EXCEPT !.c = finish_open(w.c, s)]
        /\ [r EXCEPT !.c = finish_data(@, f)] = [r EXCEPT !.c = finish_data(w.c, f)]
        /\ [r EXCEPT !.c.streams[s].eof = TRUE]
              = [r EXCEPT !.c = [w.c EXCEPT !.streams[s].eof = TRUE]]
    <3> HIDE DEF r
    <3> QED  BY <1>1
  <2> HIDE DEF r
  <2> QED  BY <2>1, <2>2 DEF finish_frame, r
<1> HIDE DEF r, s
<1>8. \A d : d \in Connection /\ Covered(d) /\ Credit(w.end, d)
                => Good([r EXCEPT !.c = d]) /\ [r EXCEPT !.c = d].end = w.end
  BY <1>3
<1>9. \A fault \in Fault : Good(Refused(w, fault)) /\ Refused(w, fault).end = w.end
  BY GoodRefused
<1>10. CASE \E fault \in Fault : finish_frame(w, f) = Refused(w, fault)
  BY <1>9, <1>10
<1>11. CASE finish_frame(w, f) = [r EXCEPT !.c = finish_open(w.c, s)]
  BY <1>4, <1>8, <1>11
<1>12. CASE finish_frame(w, f) = [r EXCEPT !.c = finish_data(w.c, f)]
  BY <1>5, <1>8, <1>12
<1>13. CASE finish_frame(w, f) = [r EXCEPT !.c = [w.c EXCEPT !.streams[s].eof = TRUE]]
  <2> DEFINE d == [w.c EXCEPT !.streams[s].eof = TRUE]
  <2>1. d \in Connection /\ Covered(d) /\ Credit(w.end, d)
    BY <1>6
  <2>2. finish_frame(w, f) = [r EXCEPT !.c = d]
    BY <1>13
  <2> HIDE DEF d
  <2> QED  BY <1>8, <2>1, <2>2
<1> QED  BY <1>7, <1>10, <1>11, <1>12, <1>13

\* parse_header, when a whole header has been read and no frame is under way.
LEMMA GoodParse ==
  ASSUME NEW w, Good(w), w.c.read_frame = NoFrame,
         NEW h \in Seq(Unit), Len(h) = HeaderBytes
  PROVE  Good(parse_header(w, h)) /\ parse_header(w, h).end = w.end
<1> DEFINE f == h[HeaderBytes]
           x == [NoFrame EXCEPT !.kind = f.kind, !.stream = f.stream, !.length = f.n]
           c == [w.c EXCEPT !.header = <<>>]
           v == [w EXCEPT !.c = c]
<1>1. w.c \in Connection /\ w.end \in End /\ w \in World
  BY DEF Good, World
<1>2. f \in Unit
  BY BoundsAssumption, ElementOfSeq
<1>3. Quiet(w.c, c)
  BY <1>1, EmptySeq DEF Quiet, Connection
<1>4. Good(v) /\ v.end = w.end /\ v.c = c
  <2> HIDE DEF c
  <2> QED  BY <1>1, <1>3, GoodWith, WorldWith DEF Quiet
<1>5. CASE parse_header(w, h) = [Pending(w) EXCEPT !.c.garbled = TRUE]
  <2> DEFINE d == [w.c EXCEPT !.garbled = TRUE]
             y == [Pending(w) EXCEPT !.c = d]
  <2>1. Quiet(w.c, d)
    BY <1>1 DEF Quiet, Connection
  <2>2. Pending(w) \in World /\ Pending(w).c = w.c /\ Pending(w).end = w.end
    BY <1>1 DEF World, Pending
  <2>3. y \in World /\ y.end = w.end /\ y.c = d
    <3> HIDE DEF d
    <3> QED  BY <2>1, <2>2, WorldWith DEF Quiet
  <2>4. parse_header(w, h) = y
    BY <1>5, <2>2
  <2> HIDE DEF d, y
  <2> QED  BY <2>1, <2>3, <2>4, GoodQuiet
<1>6. CASE parse_header(w, h) = Refused(v, "receive limit")
  <2> HIDE DEF v
  <2> QED  BY <1>4, <1>6, GoodRefused DEF Fault
<1>7. CASE /\ f.kind # "payload" /\ within_credit(w, f.n)
           /\ parse_header(w, h) = [Ready(v) EXCEPT !.c.read_frame = x]
  <2> DEFINE d == [c EXCEPT !.read_frame = x]
             r == Ready(v)
             y == [r EXCEPT !.c = d]
  <2>1. x \in PendingRead /\ x.length = f.n /\ x.wire_consumed = 0 /\ x.bytes = <<>>
    <3>1. f.kind \in Kind /\ f.stream \in Id /\ f.n \in Nat
      BY <1>2, <1>7 DEF Unit
    <3>2. <<>> \in Seq(Unit)
      OBVIOUS
    <3> HIDE DEF f
    <3> QED  BY <3>1, <3>2 DEF PendingRead, NoFrame
  <2>2. c \in Connection /\ c.received_bytes = w.c.received_bytes /\ Covered(c)
    <3>1. Covered(c)
      BY <1>4 DEF Good
    <3> HIDE DEF c
    <3> QED  BY <1>3, <3>1 DEF Quiet
  <2>3. /\ d \in Connection /\ d.read_frame = x /\ d.streams = c.streams
        /\ d.received_bytes = c.received_bytes
    <3> HIDE DEF c, x
    <3> QED  BY <2>1, <2>2 DEF Connection
  <2>4. Covered(d)
    <3> HIDE DEF c, d
    <3> QED  BY <2>2, <2>3, CoveredSame
  <2>5. Credit(w.end, d)
    <3>1. /\ w.c.received_bytes + f.n <= ReceiveLimit[w.end]
          /\ w.c.received_bytes \in Nat /\ f.n \in Nat
      BY <1>1, <1>2, <1>7, ConnectionFields DEF within_credit, Unit
    <3>2. /\ d.read_frame = x /\ d.received_bytes = w.c.received_bytes
          /\ x.length = f.n /\ x.wire_consumed = 0 /\ Len(x.bytes) = 0
      <4> HIDE DEF d, x, c
      <4> QED  BY <2>1, <2>2, <2>3
    <3> HIDE DEF d, x, c, f
    <3> QED  BY <3>1, <3>2 DEF Credit
  <2>6. r \in World /\ r.end = w.end /\ r.c = c
    <3> HIDE DEF v, c
    <3> QED  BY <1>4 DEF Good, World, Ready
  <2>7. y \in World /\ y.end = w.end /\ y.c = d
    <3> HIDE DEF d, r
    <3> QED  BY <2>3, <2>6, WorldWith
  <2>8. parse_header(w, h) = y
    <3>1. parse_header(w, h) = [r EXCEPT !.c.read_frame = x]
      BY <1>7
    <3> HIDE DEF r, c, x
    <3> QED  BY <2>6, <3>1
  <2> HIDE DEF d, y
  <2> QED  BY <2>4, <2>5, <2>7, <2>8 DEF Good
<1>8. \/ parse_header(w, h) = [Pending(w) EXCEPT !.c.garbled = TRUE]
      \/ parse_header(w, h) = Refused(v, "receive limit")
      \/ /\ f.kind # "payload" /\ within_credit(w, f.n)
         /\ parse_header(w, h) = [Ready(v) EXCEPT !.c.read_frame = x]
  <2>1. HeaderBytes \in 1..HeaderBytes
    BY BoundsAssumption
  <2> QED  BY <2>1, Zenon DEF parse_header
<1> QED  BY <1>5, <1>6, <1>7, <1>8

\* Units are taken from what is in flight, and the connection replaced.
LEMMA WorldTaken ==
  ASSUME NEW w \in World, NEW d \in Connection, NEW k \in 0..Len(w.in)
  PROVE  LET v == [w EXCEPT !.in = Rest(@, k), !.c = d] IN
         v \in World /\ v.end = w.end /\ v.c = d
<1>1. w.in \in Seq(Unit)
  BY DEF World
<1>2. Rest(w.in, k) \in Seq(Unit)
  BY <1>1, SplitTypes
<1> QED  BY <1>2 DEF World

\* poll_prepare_frame.
LEMMA GoodPrepare ==
  ASSUME NEW w, Good(w), NEW v \in poll_prepare_frame(w)
  PROVE  Good(v) /\ v.end = w.end
<1>1. /\ w \in World /\ w.c \in Connection /\ w.in \in Seq(Unit)
      /\ w.c.header \in Seq(Unit)
  BY ConnectionFields DEF Good, World
<1>2. CASE v \in {Ready(w), Pending(w)}
  BY <1>2, GoodPoll
<1>3. CASE v = [Pending(w) EXCEPT !.c.closed = TRUE]
  <2> DEFINE d == [w.c EXCEPT !.closed = TRUE]
  <2>1. Quiet(w.c, d)
    BY <1>1 DEF Quiet, Connection
  <2>2. Pending(w) \in World /\ Pending(w).c = w.c /\ Pending(w).end = w.end
    BY <1>1 DEF World, Pending
  <2>3. v = [Pending(w) EXCEPT !.c = d]
    BY <1>3, <2>2
  <2>4. v \in World /\ v.end = w.end /\ v.c = d
    <3> HIDE DEF d
    <3> QED  BY <2>1, <2>2, <2>3, WorldWith DEF Quiet
  <2> HIDE DEF d
  <2> QED  BY <2>1, <2>4, GoodQuiet
<1>4. ASSUME NEW k \in 0..(HeaderBytes - Len(w.c.header)), k <= Len(w.in),
             w.c.read_frame = NoFrame,
             v = LET h == w.c.header \o Front(w.in, k)
                     u == [w EXCEPT !.c.header = h, !.in = Rest(@, k)]
                 IN  IF Len(h) = HeaderBytes THEN parse_header(u, h) ELSE Pending(u)
      PROVE  Good(v) /\ v.end = w.end
  <2> DEFINE h == w.c.header \o Front(w.in, k)
             d == [w.c EXCEPT !.header = h]
             u == [w EXCEPT !.in = Rest(@, k), !.c = d]
  <2>1. k \in 0..Len(w.in)
    BY <1>1, <1>4, BoundsAssumption
  <2>2. h \in Seq(Unit)
    <3>1. Front(w.in, k) \in Seq(Unit)
      BY <1>1, <2>1, SplitTypes
    <3> QED  BY <1>1, <3>1, ConcatProperties
  <2>3. Quiet(w.c, d)
    <3> HIDE DEF h
    <3> QED  BY <1>1, <2>2 DEF Quiet, Connection
  <2>4. u \in World /\ u.end = w.end /\ u.c = d
    <3> HIDE DEF d
    <3> QED  BY <1>1, <2>1, <2>3, WorldTaken DEF Quiet
  <2>5. Good(u) /\ u.c.read_frame = NoFrame
    <3> HIDE DEF d, u
    <3> QED  BY <1>4, <2>3, <2>4, GoodQuiet DEF Quiet
  <2>6. v = IF Len(h) = HeaderBytes THEN parse_header(u, h) ELSE Pending(u)
    BY <1>4
  <2> HIDE DEF h, d, u
  <2>7. CASE Len(h) = HeaderBytes
    BY <2>2, <2>4, <2>5, <2>6, <2>7, GoodParse
  <2>8. CASE Len(h) # HeaderBytes
    BY <2>4, <2>5, <2>6, <2>8, GoodPoll
  <2> QED  BY <2>7, <2>8
<1>5. \/ v \in {Ready(w), Pending(w)}
      \/ v = [Pending(w) EXCEPT !.c.closed = TRUE]
      \/ /\ w.c.read_frame = NoFrame
         /\ \E k \in 0..(HeaderBytes - Len(w.c.header)) :
               /\ k <= Len(w.in)
               /\ v = LET h == w.c.header \o Front(w.in, k)
                          u == [w EXCEPT !.c.header = h, !.in = Rest(@, k)]
                      IN  IF Len(h) = HeaderBytes THEN parse_header(u, h) ELSE Pending(u)
  BY Zenon DEF poll_prepare_frame, When
<1> QED  BY <1>2, <1>3, <1>4, <1>5

\* read_body.
LEMMA GoodBody ==
  ASSUME NEW w, Good(w), NEW v \in read_body(w)
  PROVE  Good(v) /\ v.end = w.end
<1> DEFINE f == w.c.read_frame
           need == remaining(f) - Len(f.bytes)
<1>1. /\ w \in World /\ w.c \in Connection /\ w.in \in Seq(Unit) /\ w.end \in End
      /\ Covered(w.c) /\ Credit(w.end, w.c) /\ w.c.received_bytes \in Nat
      /\ ReceiveLimit[w.end] \in Nat
  BY ConnectionFields, BoundsAssumption DEF Good, World
<1>2. /\ f \in PendingRead /\ f.bytes \in Seq(Unit) /\ Len(f.bytes) \in Nat
      /\ f.length \in Nat /\ f.wire_consumed \in Nat
  BY <1>1, ConnectionFields DEF PendingRead
<1>3. /\ need = f.length - f.wire_consumed - Len(f.bytes) /\ need \in Nat
      /\ w.c.received_bytes + (f.length - f.wire_consumed) <= ReceiveLimit[w.end]
  <2>1. f.wire_consumed + Len(f.bytes) <= f.length
    BY <1>1 DEF Credit
  <2>2. w.c.received_bytes + (f.length - f.wire_consumed) <= ReceiveLimit[w.end]
    BY <1>1 DEF Credit
  <2> HIDE DEF f
  <2> QED  BY <1>2, <2>1, <2>2 DEF remaining
<1>4. ASSUME NEW k \in 0..need, k <= Len(w.in),
             v = LET b == [f EXCEPT !.bytes = @ \o Front(w.in, k),
                                    !.buffering = remaining(f) # 0]
                     u == [w EXCEPT !.in = Rest(@, k)]
                 IN  IF k = need
                     THEN finish_frame([u EXCEPT !.c.read_frame = NoFrame], b)
                     ELSE [Pending(u) EXCEPT !.c.read_frame = b]
      PROVE  Good(v) /\ v.end = w.end
  <2> DEFINE b == [f EXCEPT !.bytes = @ \o Front(w.in, k), !.buffering = remaining(f) # 0]
             u == [w EXCEPT !.in = Rest(@, k)]
             d == [w.c EXCEPT !.read_frame = NoFrame]
             x == [w EXCEPT !.in = Rest(@, k), !.c = d]
             g == [w.c EXCEPT !.read_frame = b]
             y == [w EXCEPT !.in = Rest(@, k), !.c = g]
  <2>1. k \in 0..Len(w.in) /\ k \in Nat
    BY <1>1, <1>3, <1>4
  <2>2. Front(w.in, k) \in Seq(Unit) /\ Len(Front(w.in, k)) = k
    BY <1>1, <2>1, SplitTypes
  <2>3. /\ f.bytes \o Front(w.in, k) \in Seq(Unit)
        /\ Len(f.bytes \o Front(w.in, k)) = Len(f.bytes) + k
    <3> DEFINE old == f.bytes
               new == Front(w.in, k)
    <3>1. old \in Seq(Unit) /\ new \in Seq(Unit) /\ Len(new) = k
      BY <1>2, <2>2
    <3>2. old \o new \in Seq(Unit) /\ Len(old \o new) = Len(old) + Len(new)
      <4> HIDE DEF old, new
      <4> QED  BY <3>1, ConcatProperties
    <3> QED  BY <3>1, <3>2
  <2>4. /\ b \in PendingRead /\ Len(b.bytes) = Len(f.bytes) + k
        /\ b.length = f.length /\ b.wire_consumed = f.wire_consumed
    <3> HIDE DEF f
    <3> QED  BY <1>2, <2>3 DEF PendingRead
  <2>5. CASE k = need
    <3>1. d \in Connection /\ d.read_frame = NoFrame
             /\ d.received_bytes = w.c.received_bytes /\ d.streams = w.c.streams
      BY <1>1, EmptyTypes DEF Connection
    <3>2. x \in World /\ x.end = w.end /\ x.c = d
      <4> HIDE DEF d
      <4> QED  BY <1>1, <2>1, <3>1, WorldTaken
    <3>3. Covered(d)
      <4> HIDE DEF d
      <4> QED  BY <1>1, <3>1, CoveredSame
    <3>4. Credit(w.end, d)
      <4>1. w.c.received_bytes <= ReceiveLimit[w.end]
        <5> HIDE DEF f, need
        <5> QED  BY <1>1, <1>2, <1>3
      <4> HIDE DEF d
      <4> QED  BY <1>1, <3>1, <4>1 DEF Credit, NoFrame
    <3>5. Good(x)
      <4> HIDE DEF d, x
      <4> QED  BY <3>2, <3>3, <3>4 DEF Good
    <3>6. x.c.read_frame = NoFrame /\ x.c.received_bytes + Len(b.bytes) <= ReceiveLimit[x.end]
      <4>1. x.c.read_frame = NoFrame /\ x.c.received_bytes = w.c.received_bytes /\ x.end = w.end
        <5> HIDE DEF d, x
        <5> QED  BY <3>1, <3>2
      <4>2. w.c.received_bytes + Len(b.bytes) <= ReceiveLimit[w.end]
        <5> HIDE DEF f, b, need
        <5> QED  BY <1>1, <1>2, <1>3, <2>4, <2>5
      <4> QED  BY <4>1, <4>2
    <3>7. v = finish_frame(x, b)
      <4>1. x = [u EXCEPT !.c.read_frame = NoFrame]
        BY <1>1 DEF World
      <4> QED  BY <1>4, <2>5, <4>1
    <3> HIDE DEF x, b
    <3> QED  BY <2>4, <3>2, <3>5, <3>6, <3>7, GoodFinish
  <2>6. CASE k # need
    <3>1. g \in Connection /\ g.read_frame = b
             /\ g.received_bytes = w.c.received_bytes /\ g.streams = w.c.streams
      <4> HIDE DEF b
      <4> QED  BY <1>1, <2>4 DEF Connection
    <3>2. y \in World /\ y.end = w.end /\ y.c = g
      <4> HIDE DEF g
      <4> QED  BY <1>1, <2>1, <3>1, WorldTaken
    <3>3. Covered(g)
      <4> HIDE DEF g
      <4> QED  BY <1>1, <3>1, CoveredSame
    <3>4. Credit(w.end, g)
      <4>1. /\ b.wire_consumed + Len(b.bytes) <= b.length
            /\ w.c.received_bytes + (b.length - b.wire_consumed) <= ReceiveLimit[w.end]
        <5>1. k <= need
          BY <1>3
        <5> HIDE DEF f, b, need
        <5> QED  BY <1>2, <1>3, <2>1, <2>4, <5>1
      <4>2. b.buffering
        <5>1. remaining(f) = f.length - f.wire_consumed
          BY DEF remaining
        <5>2. remaining(f) # 0
          <6> HIDE DEF f, need
          <6> QED  BY <1>2, <1>3, <2>1, <2>6, <5>1
        <5>3. b.buffering = (remaining(f) # 0)
          <6> HIDE DEF f
          <6> QED  BY <1>2 DEF PendingRead
        <5> QED  BY <5>2, <5>3
      <4> HIDE DEF g, b
      <4> QED  BY <3>1, <4>1, <4>2 DEF Credit
    <3>5. Good(y)
      <4> HIDE DEF g, y
      <4> QED  BY <3>2, <3>3, <3>4 DEF Good
    <3>6. v = Pending(y)
      <4>1. v = [Pending(u) EXCEPT !.c.read_frame = b]
        BY <1>4, <2>6
      <4> HIDE DEF b
      <4> QED  BY <1>1, <4>1 DEF World, Pending
    <3> HIDE DEF y
    <3> QED  BY <3>2, <3>5, <3>6, GoodPoll
  <2> QED  BY <2>5, <2>6
<1>5. CASE v = [Failed(w) EXCEPT !.c.read_frame.buffering = TRUE]
  <2> DEFINE b == [f EXCEPT !.buffering = TRUE]
             g == [w.c EXCEPT !.read_frame = b]
  <2>1. /\ b \in PendingRead /\ b.bytes = f.bytes /\ b.buffering
        /\ b.length = f.length /\ b.wire_consumed = f.wire_consumed
    <3> HIDE DEF f
    <3> QED  BY <1>2 DEF PendingRead
  <2>2. g \in Connection /\ g.read_frame = b
           /\ g.received_bytes = w.c.received_bytes /\ g.streams = w.c.streams
    <3> HIDE DEF b
    <3> QED  BY <1>1, <2>1 DEF Connection
  <2>3. Covered(g)
    <3> HIDE DEF g
    <3> QED  BY <1>1, <2>2, CoveredSame
  <2>4. Credit(w.end, g)
    <3> HIDE DEF g, b
    <3> QED  BY <1>1, <2>1, <2>2 DEF Credit
  <2>5. Failed(w) \in World /\ Failed(w).c = w.c /\ Failed(w).end = w.end
    BY <1>1 DEF World, Failed
  <2>6. v = [Failed(w) EXCEPT !.c = g]
    BY <1>5, <2>5
  <2>7. v \in World /\ v.end = w.end /\ v.c = g
    <3> HIDE DEF g
    <3> QED  BY <2>2, <2>5, <2>6, WorldWith
  <2> HIDE DEF g
  <2> QED  BY <2>3, <2>4, <2>7 DEF Good
<1>6. \/ v = [Failed(w) EXCEPT !.c.read_frame.buffering = TRUE]
      \/ \E k \in 0..need :
            /\ k <= Len(w.in)
            /\ v = LET b == [f EXCEPT !.bytes = @ \o Front(w.in, k),
                                      !.buffering = remaining(f) # 0]
                       u == [w EXCEPT !.in = Rest(@, k)]
                   IN  IF k = need
                       THEN finish_frame([u EXCEPT !.c.read_frame = NoFrame], b)
                       ELSE [Pending(u) EXCEPT !.c.read_frame = b]
  BY Zenon DEF read_body, When
<1> QED  BY <1>4, <1>5, <1>6

\* poll_drive.
LEMMA GoodDrive ==
  ASSUME NEW w, Good(w), NEW v \in poll_drive(w)
  PROVE  Good(v) /\ v.end = w.end
<1> DEFINE q == [w EXCEPT !.c = start_queued_control(@)]
           T == IF q.c.write = NoWrite THEN {q} ELSE poll_flush_write(q)
<1>1. w.c \in Connection
  BY DEF Good, World
<1>2. Good(q) /\ q.end = w.end
  BY <1>1, StartQuiet, GoodWith
<1>3. ASSUME NEW f \in T PROVE Good(f) /\ f.end = w.end
  <2> HIDE DEF q
  <2> QED  BY <1>2, GoodFlush
<1>4. ASSUME NEW f \in T, NEW p \in poll_prepare_frame(f)
      PROVE  Good(p) /\ p.end = w.end /\ \A x \in read_body(p) : Good(x) /\ x.end = w.end
  <2> HIDE DEF T
  <2>1. Good(f) /\ f.end = w.end
    BY <1>3
  <2>2. Good(p) /\ p.end = w.end
    BY <2>1, GoodPrepare
  <2> QED  BY <2>2, GoodBody
<1>5. \/ v = Pending(w)
      \/ v \in T
      \/ \E f \in T : \E p \in poll_prepare_frame(f) : v = p \/ v \in read_body(p)
  <2>1. CASE w.c.closed
    BY <2>1 DEF poll_drive
  <2>2. CASE ~w.c.closed
    <3>1. PICK f \in T : v \in IF f.poll = "error" THEN {f}
                 ELSE UNION {IF p.poll = "ready" THEN read_body(p) ELSE {p} :
                             p \in poll_prepare_frame(f)}
      BY <2>2 DEF poll_drive
    <3>2. \/ v = f
          \/ \E p \in poll_prepare_frame(f) : v = p \/ v \in read_body(p)
      BY <3>1
    <3> HIDE DEF T
    <3> QED  BY <3>2
  <2> QED  BY <2>1, <2>2
<1> HIDE DEF T
<1> QED  BY <1>3, <1>4, <1>5, GoodPoll

\* Giving back k of what is charged keeps charge and reservation within the limit.
LEMMA LessCharged ==
  ASSUME NEW a \in Nat, NEW k \in Nat, NEW l \in Nat, NEW x \in Nat, NEW r \in Nat,
         a + (l - x) <= r
  PROVE  (a - k) + (l - x) <= r
  OBVIOUS

\* Reading k more units of a frame leaves less of it reserved.
LEMMA LessReserved ==
  ASSUME NEW a \in Nat, NEW k \in Nat, NEW l \in Nat, NEW x \in Nat, NEW r \in Nat,
         x <= l, k <= l - x, a + (l - x) <= r
  PROVE  /\ x + k \in Nat /\ x + k <= l
         /\ a + (l - (x + k)) <= r
  OBVIOUS

\* take_front of a non-empty queue; received_bytes does not underflow.
LEMMA GoodTake ==
  ASSUME NEW w, Good(w), NEW s \in Id, w.c.streams[s].input # <<>>,
         NEW k \in 0..Len(Head(w.c.streams[s].input))
  PROVE  Good(take_front(w, s, k)) /\ take_front(w, s, k).end = w.end
<1> DEFINE input == w.c.streams[s].input
           front == Head(input)
           q == IF k = Len(front) THEN Tail(input) ELSE <<Rest(front, k)>> \o Tail(input)
           st == [w.c.streams[s] EXCEPT !.input = q]
           i == [w.c EXCEPT !.streams[s] = st]
           n == w.c.received_bytes - k
           d == [i EXCEPT !.received_bytes = n]
           v == take_front(w, s, k)
<1>1. /\ w \in World /\ w.c \in Connection /\ Covered(w.c) /\ Credit(w.end, w.c)
      /\ w.end \in End /\ ReceiveLimit[w.end] \in Nat
  BY BoundsAssumption DEF Good, World
<1>2. /\ w.c.streams[s] \in StreamState /\ input \in Seq(Seq(Unit)) /\ input # <<>>
      /\ w.c.received_bytes \in Nat
  BY <1>1, ConnectionFields DEF StreamState
<1>3. front \in Seq(Unit) /\ Tail(input) \in Seq(Seq(Unit)) /\ k \in 0..Len(front)
  <2>1. k \in 0..Len(front)
    OBVIOUS
  <2> HIDE DEF input
  <2> QED  BY <1>2, <2>1, HeadTailProperties, EmptySeq
<1>4. Rest(front, k) \in Seq(Unit) /\ Front(front, k) \in Seq(Unit) /\ k \in Nat
  <2> HIDE DEF front
  <2> QED  BY <1>3, SplitTypes
<1>5. q \in Seq(Seq(Unit))
  <2> DEFINE x == <<Rest(front, k)>>
             y == Tail(input)
  <2>1. x \in Seq(Seq(Unit)) /\ y \in Seq(Seq(Unit))
    BY <1>3, <1>4
  <2>2. x \o y \in Seq(Seq(Unit))
    <3> HIDE DEF x, y
    <3> QED  BY <2>1, ConcatProperties
  <2> QED  BY <2>1, <2>2
<1>6. st \in StreamState /\ st.input = q
  <2> HIDE DEF q
  <2> QED  BY <1>2, <1>5 DEF StreamState
<1>7. /\ i \in Connection /\ i.streams[s] = st
      /\ \A u \in Id : u # s => i.streams[u] = w.c.streams[u]
      /\ i.received_bytes = w.c.received_bytes /\ i.read_frame = w.c.read_frame
  <2> HIDE DEF st
  <2> QED  BY <1>1, <1>6, StreamReplaced
<1>8. n \in Nat
  BY <1>1, CoveredTaken
<1>9. /\ d \in Connection /\ d.received_bytes = n
      /\ d.read_frame = i.read_frame /\ d.streams = i.streams
  <2> HIDE DEF i, n
  <2> QED  BY <1>7, <1>8 DEF Connection
<1>10. Covered(d)
  <2>1. d.received_bytes = w.c.received_bytes - k
    <3> HIDE DEF d
    <3> QED  BY <1>9
  <2>2. \/ d.streams[s].input = <<Rest(Head(w.c.streams[s].input), k)>>
                                  \o Tail(w.c.streams[s].input)
        \/ /\ k = Len(Head(w.c.streams[s].input))
           /\ d.streams[s].input = Tail(w.c.streams[s].input)
    <3>1. d.streams[s].input = q
      <4> HIDE DEF d, i, st, q
      <4> QED  BY <1>6, <1>7, <1>9
    <3> HIDE DEF d
    <3> QED  BY <3>1
  <2>3. \A u \in Id : u # s => d.streams[u].input = w.c.streams[u].input
    <3> HIDE DEF d, i
    <3> QED  BY <1>7, <1>9
  <2> HIDE DEF d
  <2> QED  BY <1>1, <2>1, <2>2, <2>3, CoveredTaken
<1>11. Credit(w.end, d)
  <2>1. d.read_frame = w.c.read_frame /\ d.received_bytes = n
    <3> HIDE DEF d, i
    <3> QED  BY <1>7, <1>9
  <2> DEFINE f == w.c.read_frame
  <2>2. f.length \in Nat /\ f.wire_consumed \in Nat
    BY <1>1, ConnectionFields DEF PendingRead
  <2>3. /\ f.buffering \/ Len(f.bytes) = 0
        /\ f.wire_consumed + Len(f.bytes) <= f.length
        /\ w.c.received_bytes + (f.length - f.wire_consumed) <= ReceiveLimit[w.end]
    BY <1>1 DEF Credit
  <2>4. n + (f.length - f.wire_consumed) <= ReceiveLimit[w.end]
    <3>1. /\ w.c.received_bytes \in Nat /\ ReceiveLimit[w.end] \in Nat /\ k \in Nat
          /\ n = w.c.received_bytes - k
      BY <1>1, <1>2, <1>4
    <3>2. (w.c.received_bytes - k) + (f.length - f.wire_consumed) <= ReceiveLimit[w.end]
      <4> HIDE DEF f
      <4> QED  BY <2>2, <2>3, <3>1, LessCharged
    <3> HIDE DEF f, n
    <3> QED  BY <3>1, <3>2
  <2> HIDE DEF d, n
  <2> QED  BY <2>1, <2>3, <2>4 DEF Credit
<1>12. v = [w EXCEPT !.c = d, !.got = Front(front, k)]
  BY DEF take_front
<1>13. v \in World /\ v.end = w.end /\ v.c = d
  <2> HIDE DEF d, front, v
  <2> QED  BY <1>1, <1>4, <1>9, <1>12 DEF World
<1>14. Good(v) /\ v.end = w.end
  <2> HIDE DEF d, v
  <2> QED  BY <1>10, <1>11, <1>13 DEF Good
<1> QED  BY <1>14

\* poll_read_stream.
LEMMA GoodReadStream ==
  ASSUME NEW w, Good(w), NEW s \in Id, NEW max \in Nat, NEW v \in poll_read_stream(w, s, max)
  PROVE  Good(v) /\ v.end = w.end
<1>1. ASSUME NEW p, Good(p), p.end = w.end, direct_read(p.c.read_frame, s),
             NEW k \in 1..Least(max, remaining(p.c.read_frame)), k <= Len(p.in),
             v = [p EXCEPT !.in = Rest(@, k), !.got = Front(p.in, k),
                           !.c.read_frame =
                               IF k = remaining(p.c.read_frame) THEN NoFrame
                               ELSE [p.c.read_frame EXCEPT !.wire_consumed = @ + k]]
      PROVE  Good(v) /\ v.end = w.end
  <2> DEFINE f == p.c.read_frame
             g == IF k = remaining(f) THEN NoFrame ELSE [f EXCEPT !.wire_consumed = @ + k]
             d == [p.c EXCEPT !.read_frame = g]
  <2>1. /\ p \in World /\ p.c \in Connection /\ p.in \in Seq(Unit)
        /\ Covered(p.c) /\ Credit(p.end, p.c) /\ p.c.received_bytes \in Nat
        /\ p.end \in End /\ ReceiveLimit[p.end] \in Nat
    BY <1>1, ConnectionFields, BoundsAssumption DEF Good, World
  <2>2. /\ f \in PendingRead /\ f.length \in Nat /\ f.wire_consumed \in Nat
        /\ Len(f.bytes) \in Nat
    BY <2>1, ConnectionFields DEF PendingRead
  <2>3. /\ f.wire_consumed <= f.length /\ Len(f.bytes) = 0
        /\ p.c.received_bytes + (f.length - f.wire_consumed) <= ReceiveLimit[p.end]
    <3>1. /\ ~f.buffering /\ (f.buffering \/ Len(f.bytes) = 0)
          /\ f.wire_consumed + Len(f.bytes) <= f.length
          /\ p.c.received_bytes + (f.length - f.wire_consumed) <= ReceiveLimit[p.end]
      BY <1>1, <2>1 DEF Credit, direct_read
    <3> HIDE DEF f
    <3> QED  BY <2>2, <3>1
  <2>4. k \in Nat /\ k <= remaining(f) /\ remaining(f) = f.length - f.wire_consumed
    <3>1. remaining(f) = f.length - f.wire_consumed
      BY DEF remaining
    <3>2. k \in 1..Least(max, remaining(f))
      BY <1>1
    <3> HIDE DEF f
    <3> QED  BY <2>2, <2>3, <3>1, <3>2 DEF Least
  <2>5. /\ g \in PendingRead /\ Len(g.bytes) = 0 /\ g.wire_consumed <= g.length
        /\ g.wire_consumed \in Nat /\ g.length \in Nat
        /\ p.c.received_bytes + (g.length - g.wire_consumed) <= ReceiveLimit[p.end]
    <3>1. CASE k = remaining(f)
      <4>1. g = NoFrame
        BY <3>1
      <4> HIDE DEF g, f
      <4> QED  BY <2>1, <2>2, <2>3, <4>1, EmptyTypes DEF NoFrame
    <3>2. CASE k # remaining(f)
      <4>1. g = [f EXCEPT !.wire_consumed = @ + k]
        BY <3>2
      <4>2. /\ g \in PendingRead /\ g.bytes = f.bytes /\ g.length = f.length
            /\ g.wire_consumed = f.wire_consumed + k
        <5> HIDE DEF g, f
        <5> QED  BY <2>2, <2>4, <4>1 DEF PendingRead
      <4> DEFINE l == f.length
                 x == f.wire_consumed
                 a == p.c.received_bytes
                 r == ReceiveLimit[p.end]
      <4>3. /\ l \in Nat /\ x \in Nat /\ a \in Nat /\ r \in Nat /\ k \in Nat
            /\ x <= l /\ k <= l - x /\ a + (l - x) <= r
        <5>1. k <= f.length - f.wire_consumed
          <6> DEFINE m == remaining(f)
          <6>1. k <= m /\ m = f.length - f.wire_consumed
            BY <2>4
          <6> HIDE DEF m
          <6> QED  BY <6>1
        <5> QED  BY <2>1, <2>2, <2>3, <2>4, <5>1
      <4>4. /\ g.length = l /\ g.wire_consumed = x + k /\ Len(g.bytes) = 0
            /\ g \in PendingRead
        <5> HIDE DEF g, f
        <5> QED  BY <2>3, <4>2
      <4>5. x + k \in Nat /\ x + k <= l /\ a + (l - (x + k)) <= r
        <5> HIDE DEF l, x, a, r
        <5> QED  BY <4>3, LessReserved
      <4>6. p.c.received_bytes = a /\ ReceiveLimit[p.end] = r
        OBVIOUS
      <4> HIDE DEF g, l, x, a, r
      <4> QED  BY <4>3, <4>4, <4>5, <4>6
    <3> QED  BY <3>1, <3>2
  <2>6. /\ d \in Connection /\ d.read_frame = g
        /\ d.received_bytes = p.c.received_bytes /\ d.streams = p.c.streams
    <3> HIDE DEF g
    <3> QED  BY <2>1, <2>5 DEF Connection
  <2>7. Covered(d)
    <3> HIDE DEF d
    <3> QED  BY <2>1, <2>6, CoveredSame
  <2>8. Credit(p.end, d)
    <3> HIDE DEF d, g
    <3> QED  BY <2>5, <2>6 DEF Credit
  <2>9. k \in 0..Len(p.in)
    BY <1>1, <2>1, <2>4
  <2>10. Rest(p.in, k) \in Seq(Unit) /\ Front(p.in, k) \in Seq(Unit)
    BY <2>1, <2>9, SplitTypes
  <2>11. v = [p EXCEPT !.in = Rest(@, k), !.got = Front(p.in, k), !.c = d]
    BY <1>1
  <2>12. v \in World /\ v.end = p.end /\ v.c = d
    <3> HIDE DEF d
    <3> QED  BY <2>1, <2>6, <2>10, <2>11 DEF World
  <2> HIDE DEF d
  <2> QED  BY <1>1, <2>7, <2>8, <2>12 DEF Good
<1>2. ASSUME NEW p \in poll_prepare_frame(w)
      PROVE  /\ Good(p) /\ p.end = w.end
             /\ \A d \in poll_drive(p) : Good(d) /\ d.end = w.end
  <2>1. Good(p) /\ p.end = w.end
    BY GoodPrepare
  <2> QED  BY <2>1, GoodDrive
<1>3. ASSUME NEW x, Good(x), x.end = w.end, v \in {x, Pending(x), Failed(x)}
      PROVE  Good(v) /\ v.end = w.end
  BY <1>3, GoodPoll
<1>4. PICK p \in poll_prepare_frame(w) :
        v \in LET f == p.c.read_frame IN
              IF p.poll # "ready" THEN {p}
              ELSE IF ~direct_read(f, s)
              THEN {IF d.poll = "ready" THEN Pending(d) ELSE d : d \in poll_drive(p)}
              ELSE {Pending(p)}
                   \cup {[p EXCEPT !.in = Rest(@, k), !.got = Front(p.in, k),
                                   !.c.read_frame =
                                       IF k = remaining(f) THEN NoFrame
                                       ELSE [f EXCEPT !.wire_consumed = @ + k]] :
                         k \in {k \in 1..Least(max, remaining(f)) : k <= Len(p.in)}}
                   \cup When(at_eof(p), Failed(p))
  BY Zenon DEF poll_read_stream
<1>5. \/ v \in {p, Pending(p), Failed(p)}
      \/ \E d \in poll_drive(p) : v \in {d, Pending(d)}
      \/ /\ direct_read(p.c.read_frame, s)
         /\ \E k \in 1..Least(max, remaining(p.c.read_frame)) :
               /\ k <= Len(p.in)
               /\ v = [p EXCEPT !.in = Rest(@, k), !.got = Front(p.in, k),
                                !.c.read_frame =
                                    IF k = remaining(p.c.read_frame) THEN NoFrame
                                    ELSE [p.c.read_frame EXCEPT !.wire_consumed = @ + k]]
  BY <1>4, Zenon DEF When
<1> QED  BY <1>1, <1>2, <1>3, <1>5

\* MuxStream::poll_read.
LEMMA GoodRead ==
  ASSUME NEW w, Good(w), NEW s \in Id, NEW max \in Nat, NEW v \in poll_read(w, s, max)
  PROVE  Good(v) /\ v.end = w.end
<1> DEFINE st == w.c.streams[s]
           count == Least(max, Len(Head(st.input)))
<1>1. st.input \in Seq(Seq(Unit))
  BY ConnectionFields DEF Good, World, StreamState
<1>2. CASE v \in {Failed(w), Ready(w)}
  BY <1>2, GoodPoll
<1>3. CASE v \in poll_read_stream(w, s, max)
  BY <1>3, GoodReadStream
<1>4. ASSUME st.input # <<>> PROVE 0 \in 0..Len(Head(st.input)) /\ count \in 0..Len(Head(st.input))
  <2>1. Head(st.input) \in Seq(Unit)
    <3> HIDE DEF st
    <3> QED  BY <1>1, <1>4, HeadTailProperties, EmptySeq
  <2>2. Len(Head(st.input)) \in Nat
    <3> HIDE DEF st
    <3> QED  BY <2>1, LenProperties
  <2> HIDE DEF st
  <2> QED  BY <2>2 DEF Least
<1>5. CASE st.input # <<>> /\ v \in poll_read_stream(take_front(w, s, 0), s, max)
  <2>1. Good(take_front(w, s, 0)) /\ take_front(w, s, 0).end = w.end
    BY <1>4, <1>5, GoodTake
  <2> QED  BY <1>5, <2>1, GoodReadStream
<1>6. CASE st.input # <<>> /\ v = Ready(take_front(w, s, count))
  <2>1. count \in 0..Len(Head(w.c.streams[s].input)) /\ w.c.streams[s].input # <<>>
    BY <1>4, <1>6
  <2>2. Good(take_front(w, s, count)) /\ take_front(w, s, count).end = w.end
    <3> HIDE DEF count
    <3> QED  BY <2>1, GoodTake
  <2> QED  BY <1>6, <2>2, GoodPoll
<1>7. \/ v \in {Failed(w), Ready(w)}
      \/ v \in poll_read_stream(w, s, max)
      \/ st.input # <<>> /\ v \in poll_read_stream(take_front(w, s, 0), s, max)
      \/ st.input # <<>> /\ v = Ready(take_front(w, s, count))
  BY Zenon DEF poll_read
<1> QED  BY <1>2, <1>3, <1>5, <1>6, <1>7
-----------------------------------------------------------------------------
(* The inductive invariant.                                                  *)

IInv ==
    /\ TypeOK
    /\ \A e \in End : Credit(e, conn[e]) /\ Covered(conn[e])

\* MuxSession::new.
LEMMA NewGood ==
  ASSUME NEW e \in End
  PROVE  /\ NewConnection(e) \in Connection
         /\ Covered(NewConnection(e)) /\ Credit(e, NewConnection(e))
<1> DEFINE c == NewConnection(e)
<1>1. /\ <<>> \in Seq(Id) /\ <<>> \in Seq(Unit)
      /\ <<>> \in Seq([kind : {"open", "fin"}, stream : Id])
      /\ [s \in Id |-> NoStream] \in [Id -> StreamState]
  BY EmptyTypes
<1>2. c \in Connection
  BY <1>1, EmptyTypes DEF NewConnection, Connection, Fault
<1>3. c.received_bytes = 0 /\ c.read_frame = NoFrame /\ \A s \in Id : c.streams[s].input = <<>>
  BY DEF NewConnection, NoStream
<1>4. Covered(c)
  <2> DEFINE tot == [s \in Id |-> 0]
  <2>1. IsSum(Summands(tot), MaxId, 0)
    <3>1. \A i \in 1..MaxId : Summands(tot)[i] = 0
      BY DEF Summands
    <3> HIDE DEF tot
    <3> QED  BY <3>1, SumZeros, BoundsAssumption
  <2>2. \A s \in Id : Buffers(c.streams[s].input, tot[s])
    <3> HIDE DEF c
    <3> QED  BY <1>3, BuffersEmpty
  <2>3. CoveredBy(c, tot, 0)
    <3>1. tot \in [Id -> Nat] /\ 0 <= c.received_bytes
      BY <1>3
    <3> HIDE DEF tot, c
    <3> QED  BY <2>1, <2>2, <3>1 DEF CoveredBy
  <2> HIDE DEF tot, c
  <2> QED  BY <2>3 DEF Covered
<1>5. Credit(e, c)
  <2>1. ReceiveLimit[e] \in Nat
    BY BoundsAssumption
  <2> HIDE DEF c
  <2> QED  BY <1>3, <2>1 DEF Credit, NoFrame
<1> QED  BY <1>2, <1>4, <1>5

\* Drop for MuxSession.
LEMMA GoodDropped ==
  ASSUME NEW w, Good(w)
  PROVE  Good(dropped(w)) /\ dropped(w).end = w.end
<1> DEFINE n == NewConnection(w.end)
           d == [n EXCEPT !.io = FALSE, !.closed = TRUE,
                          !.fault = w.c.fault, !.garbled = w.c.garbled]
           v == dropped(w)
<1>1. /\ w \in World /\ w.end \in End /\ w.c.fault \in Fault
      /\ w.c.garbled \in BOOLEAN /\ <<>> \in Seq(Unit)
  <2> HIDE DEF n, d, v
  <2>1. w \in World
    BY DEF Good
  <2>2. w.end \in End /\ w.c \in Connection
    BY <2>1 DEF World
  <2>3. w.c.fault \in Fault /\ w.c.garbled \in BOOLEAN
    BY <2>2 DEF Connection
  <2>4. <<>> \in Seq(Unit)
    OBVIOUS
  <2> QED  BY <2>1, <2>2, <2>3, <2>4
<1>2. n \in Connection /\ Covered(n) /\ Credit(w.end, n)
  BY <1>1, NewGood
<1>3. Quiet(n, d)
  <2> HIDE DEF n
  <2> QED  BY <1>1, <1>2 DEF Quiet, Connection
<1>4. Covered(d) /\ Credit(w.end, d) /\ d \in Connection
  <2> HIDE DEF n, d
  <2> QED  BY <1>2, <1>3, CoveredSame DEF Quiet, Credit
<1>5. v = [w EXCEPT !.in = <<>>, !.c = d]
  BY DEF dropped
<1>6. v \in World /\ v.end = w.end /\ v.c = d
  <2> HIDE DEF d, v
  <2> QED  BY <1>1, <1>4, <1>5 DEF World
<1>7. Good(v)
  <2> HIDE DEF d, v
  <2> QED  BY <1>4, <1>6 DEF Good
<1> QED  BY <1>6, <1>7

\* The world a call starts from.
LEMMA GoodWorldOf ==
  ASSUME IInv, NEW e \in End
  PROVE  Good(WorldOf(e)) /\ WorldOf(e).end = e
<1> DEFINE w == WorldOf(e)
<1>1. Peer(e) \in End /\ <<>> \in Seq(Unit)
  BY DEF Peer, End
<1>2. /\ conn[e] \in Connection /\ conn[Peer(e)] \in Connection
      /\ wire[e] \in Seq(Unit) /\ wire[Peer(e)] \in Seq(Unit)
      /\ Credit(e, conn[e]) /\ Covered(conn[e])
  BY <1>1 DEF IInv, TypeOK
<1>3. (~conn[Peer(e)].io) \in BOOLEAN
  OBVIOUS
<1>4. w \in World /\ w.end = e /\ w.c = conn[e]
  BY <1>1, <1>2, <1>3 DEF WorldOf, World
<1> HIDE DEF w
<1> QED  BY <1>2, <1>4 DEF Good, w

\* What a call leaves is again good.
LEMMA ApplyGood ==
  ASSUME IInv, NEW e \in End, NEW v, Good(v), v.end = e, Apply(e, v)
  PROVE  /\ conn' \in [End -> Connection] /\ wire' \in [End -> Seq(Unit)]
         /\ \A x \in End : Credit(x, conn'[x]) /\ Covered(conn'[x])
<1>1. Peer(e) \in End /\ Peer(e) # e
  BY DEF Peer, End
<1>2. /\ v.c \in Connection /\ v.in \in Seq(Unit) /\ v.out \in Seq(Unit)
      /\ Credit(e, v.c) /\ Covered(v.c)
  BY DEF Good, World
<1>3. conn \in [End -> Connection] /\ wire \in [End -> Seq(Unit)]
  BY DEF IInv, TypeOK
<1>4. /\ conn' \in [End -> Connection] /\ conn'[e] = v.c
      /\ \A x \in End : x # e => conn'[x] = conn[x]
  BY <1>2, <1>3 DEF Apply
<1>5. wire' \in [End -> Seq(Unit)]
  BY <1>1, <1>2, <1>3 DEF Apply
<1>6. \A x \in End : Credit(x, conn'[x]) /\ Covered(conn'[x])
  BY <1>2, <1>4 DEF IInv
<1> QED  BY <1>4, <1>5, <1>6

\* The initial states: MuxSession::new at both ends, or after the policy
\* handshake.
LEMMA InitIInv == Init \/ InitFresh => IInv
<1> DEFINE Handle == [state : {"none", "opening", "begun", "live", "dropped"},
                      write : {"open", "closing", "closed"}]
<1>a. NoHandle \in Handle /\ [NoHandle EXCEPT !.state = "live"] \in Handle
  BY DEF NoHandle
<1>b. <<>> \in Seq(Unit)
  BY EmptySeq
<1>c. Payload(1, 1, 1) \in Seq(Unit)
  <2>1. 1 \in Nat \ {0} /\ 1 \in Nat
    OBVIOUS
  <2> QED  BY <2>1, OneIsId, PayloadType
<1>1. /\ NoHandle \in Handle /\ [NoHandle EXCEPT !.state = "live"] \in Handle
      /\ <<>> \in Seq(Unit) /\ Payload(1, 1, 1) \in Seq(Unit)
  BY <1>a, <1>b, <1>c
<1>2. CASE InitFresh
  <2>1. \A e \in End : conn[e] \in Connection /\ Covered(conn[e]) /\ Credit(e, conn[e])
    BY <1>2, NewGood DEF InitFresh
  <2>2. TypeOK
    BY <1>1, <1>2, <2>1 DEF InitFresh, TypeOK
  <2> QED  BY <2>1, <2>2 DEF IInv
<1>3. CASE Init
  <2>1. ASSUME NEW e \in End
        PROVE  conn[e] \in Connection /\ Covered(conn[e]) /\ Credit(e, conn[e])
    <3> DEFINE n == NewConnection(e)
               i == insert_stream(n, 1)
               d == [i EXCEPT !.next_stream = IF e = "client" THEN 3 ELSE 2]
    <3>1. n \in Connection /\ Covered(n) /\ Credit(e, n)
      BY NewGood
    <3>2. /\ i \in Connection /\ Covered(i)
          /\ i.received_bytes = n.received_bytes /\ i.read_frame = n.read_frame
      <4> HIDE DEF n
      <4> QED  BY <3>1, OneIsId, GoodInsert
    <3>3. Quiet(i, d)
      <4> HIDE DEF i
      <4> QED  BY <3>2 DEF Quiet, Connection
    <3>4. conn[e] = d
      BY <1>3 DEF Init
    <3> HIDE DEF n, i, d
    <3> QED  BY <3>1, <3>2, <3>3, <3>4, CoveredSame DEF Quiet, Credit
  <2>2. conn \in [End -> Connection]
    <3>1. conn = [e \in End |-> conn[e]]
      BY <1>3 DEF Init
    <3> QED  BY <2>1, <3>1
  <2>3. /\ wire \in [End -> Seq(Unit)]
        /\ framed \in [End -> [Id -> Nat]] /\ accepted \in [End -> [Id -> Nat]]
        /\ eof_seen \in [End -> [Id -> BOOLEAN]]
    BY <1>1, <1>3 DEF Init
  <2>4. handle \in [End -> [Id -> Handle]]
    <3> HIDE DEF Handle
    <3> QED  BY <1>1, <1>3 DEF Init
  <2>5. delivered \in [End -> [Id -> Seq(Unit)]]
    BY <1>1, <1>3 DEF Init
  <2>6. TypeOK
    BY <2>2, <2>3, <2>4, <2>5 DEF TypeOK
  <2> QED  BY <2>1, <2>6 DEF IInv
<1> QED  BY <1>2, <1>3

\* The parts of TypeOK that are not the connections and the carrier.
OwnersOK ==
    /\ handle \in [End -> [Id -> [state : {"none", "opening", "begun", "live", "dropped"},
                                  write : {"open", "closing", "closed"}]]]
    /\ framed \in [End -> [Id -> Nat]]
    /\ accepted \in [End -> [Id -> Nat]]
    /\ delivered \in [End -> [Id -> Seq(Unit)]]
    /\ eof_seen \in [End -> [Id -> BOOLEAN]]

\* A step that applies a good world and keeps the owners' types.
LEMMA StepIInv ==
  ASSUME IInv, NEW e \in End, NEW v, Good(v), v.end = e, Apply(e, v), OwnersOK'
  PROVE  IInv'
<1>1. /\ conn' \in [End -> Connection] /\ wire' \in [End -> Seq(Unit)]
      /\ \A x \in End : Credit(x, conn'[x]) /\ Covered(conn'[x])
  BY ApplyGood
<1> QED  BY <1>1 DEF IInv, TypeOK, OwnersOK

\* A step on the connection of e alone, with the receive path as it was.
LEMMA ConnIInv ==
  ASSUME IInv, NEW e \in End, NEW d, d \in Connection, Covered(d), Credit(e, d),
         conn' = [conn EXCEPT ![e] = d], wire' = wire, OwnersOK'
  PROVE  IInv'
<1>1. conn \in [End -> Connection] /\ wire \in [End -> Seq(Unit)]
  BY DEF IInv, TypeOK
<1>2. /\ conn' \in [End -> Connection] /\ wire' \in [End -> Seq(Unit)]
      /\ \A x \in End : Credit(x, conn'[x]) /\ Covered(conn'[x])
  BY <1>1 DEF IInv
<1> QED  BY <1>2 DEF IInv, TypeOK, OwnersOK

\* A handle changes its state or its write side.
LEMMA HandleOK ==
  ASSUME OwnersOK, NEW e \in End, NEW s \in Id,
         UNCHANGED <<framed, accepted, delivered, eof_seen>>,
         \/ handle' = handle
         \/ \E x \in {"opening", "begun", "live", "dropped"} :
               handle' = [handle EXCEPT ![e][s].state = x]
         \/ \E x \in {"closing", "closed"} :
               handle' = [handle EXCEPT ![e][s].write = x]
  PROVE  OwnersOK'
<1> DEFINE Handle == [state : {"none", "opening", "begun", "live", "dropped"},
                      write : {"open", "closing", "closed"}]
<1>1. handle \in [End -> [Id -> Handle]]
  BY DEF OwnersOK
<1>2. ASSUME NEW h \in Handle, handle' = [handle EXCEPT ![e][s] = h]
      PROVE  handle' \in [End -> [Id -> Handle]]
  <2> HIDE DEF Handle
  <2> QED  BY <1>1, <1>2
<1>3. handle[e][s] \in Handle
  <2> HIDE DEF Handle
  <2> QED  BY <1>1
<1>4. ASSUME handle' = handle PROVE handle' \in [End -> [Id -> Handle]]
  BY <1>1, <1>4
<1>5. ASSUME NEW x \in {"opening", "begun", "live", "dropped"},
             handle' = [handle EXCEPT ![e][s].state = x]
      PROVE  handle' \in [End -> [Id -> Handle]]
  <2>1. [handle[e][s] EXCEPT !.state = x] \in Handle
    BY <1>3
  <2>2. handle' = [handle EXCEPT ![e][s] = [handle[e][s] EXCEPT !.state = x]]
    BY <1>5
  <2> HIDE DEF Handle
  <2> QED  BY <2>1, <2>2, <1>2
<1>6. ASSUME NEW x \in {"closing", "closed"},
             handle' = [handle EXCEPT ![e][s].write = x]
      PROVE  handle' \in [End -> [Id -> Handle]]
  <2>1. [handle[e][s] EXCEPT !.write = x] \in Handle
    BY <1>3
  <2>2. handle' = [handle EXCEPT ![e][s] = [handle[e][s] EXCEPT !.write = x]]
    BY <1>6
  <2> HIDE DEF Handle
  <2> QED  BY <2>1, <2>2, <1>2
<1>7. handle' \in [End -> [Id -> Handle]]
  <2> HIDE DEF Handle
  <2> QED  BY <1>4, <1>5, <1>6, <1>1
<1> QED  BY <1>7 DEF OwnersOK

\* Every action of Next preserves the inductive invariant.
LEMMA OpenPolicyIInv == IInv /\ OpenPolicy => IInv'
<1> SUFFICES ASSUME IInv, OpenPolicy PROVE IInv'
  OBVIOUS
<1> DEFINE w == WorldOf("client")
           i == insert_stream(w.c, 1)
           d == [i EXCEPT !.next_stream = 3]
           q == IF conn["client"].next_stream = 1 THEN [w EXCEPT !.c = d] ELSE w
<1>1. "client" \in End /\ Good(w) /\ w.end = "client" /\ OwnersOK
  BY GoodWorldOf DEF End, IInv, TypeOK, OwnersOK
<1>2. Good([w EXCEPT !.c = d]) /\ [w EXCEPT !.c = d].end = w.end
  <2>1. w \in World /\ w.c \in Connection /\ Covered(w.c) /\ Credit(w.end, w.c)
    BY <1>1 DEF Good, World
  <2>2. /\ i \in Connection /\ Covered(i)
        /\ i.received_bytes = w.c.received_bytes /\ i.read_frame = w.c.read_frame
    <3> HIDE DEF w
    <3> QED  BY <2>1, OneIsId, GoodInsert
  <2>3. Quiet(i, d)
    <3> HIDE DEF i
    <3> QED  BY <2>2 DEF Quiet, Connection
  <2> HIDE DEF w, i, d
  <2>4. d \in Connection /\ Covered(d) /\ Credit(w.end, d)
    BY <2>1, <2>2, <2>3, CoveredSame DEF Quiet, Credit
  <2>5. [w EXCEPT !.c = d] \in World /\ [w EXCEPT !.c = d].end = w.end /\ [w EXCEPT !.c = d].c = d
    BY <2>1, <2>4, WorldWith
  <2> QED  BY <2>4, <2>5 DEF Good
<1>3. Good(q) /\ q.end = "client"
  <2> HIDE DEF w, d
  <2> QED  BY <1>1, <1>2
<1>4. PICK v \in poll_control(q, "open", 1) :
        /\ Apply("client", v)
        /\ handle' = [handle EXCEPT !["client"][1].state =
                         IF v.poll = "ready" THEN "live" ELSE "opening"]
  BY DEF OpenPolicy
<1>5. Good(v) /\ v.end = "client"
  <2> HIDE DEF q
  <2>1. "open" \in Kind
    BY DEF Kind
  <2> QED  BY <1>3, <1>4, <2>1, OneIsId, GoodControl
<1>6. OwnersOK'
  <2>1. \E x \in {"opening", "begun", "live", "dropped"} :
          handle' = [handle EXCEPT !["client"][1].state = x]
    BY <1>4
  <2>2. UNCHANGED <<framed, accepted, delivered, eof_seen>>
    BY DEF OpenPolicy
  <2> HIDE DEF q
  <2> QED  BY <1>1, <2>1, <2>2, OneIsId, HandleOK
<1> HIDE DEF q
<1> QED  BY <1>1, <1>4, <1>5, <1>6, StepIInv

\* The invariant is kept by begin_open_flow_confirmed.
LEMMA BeginOpenFlowIInv == IInv /\ BeginOpenFlow => IInv'
<1> SUFFICES ASSUME IInv, BeginOpenFlow PROVE IInv'
  OBVIOUS
<1> DEFINE c == conn["client"]
           s == c.next_stream
           i == insert_stream(c, s)
           x == [kind |-> "open", stream |-> s]
           d == [i EXCEPT !.next_stream = s + 2, !.controls = Append(@, x)]
<1>1. /\ "client" \in End /\ OwnersOK /\ s \in Id
      /\ c \in Connection /\ Covered(c) /\ Credit("client", c)
  BY DEF End, IInv, TypeOK, OwnersOK, BeginOpenFlow
<1>2. /\ i \in Connection /\ Covered(i)
      /\ i.received_bytes = c.received_bytes /\ i.read_frame = c.read_frame
  <2> HIDE DEF c, s
  <2> QED  BY <1>1, GoodInsert
<1>3. Quiet(i, d)
  <2>1. /\ Append(i.controls, x) \in Seq([kind : {"open", "fin"}, stream : Id])
        /\ s + 2 \in Nat
    <3> HIDE DEF c, i
    <3>1. x \in [kind : {"open", "fin"}, stream : Id]
      BY <1>1
    <3>2. i.controls \in Seq([kind : {"open", "fin"}, stream : Id])
      BY <1>2, ConnectionFields
    <3>3. s + 2 \in Nat
      BY <1>1, IdRange DEF Id
    <3> HIDE DEF x
    <3> QED  BY <3>1, <3>2, <3>3, AppendProperties
  <2> HIDE DEF i, x, s
  <2> QED  BY <1>2, <2>1 DEF Quiet, Connection
<1>4. d \in Connection /\ Covered(d) /\ Credit("client", d)
  <2> HIDE DEF c, i, d
  <2> QED  BY <1>1, <1>2, <1>3, CoveredSame DEF Quiet, Credit
<1>5. conn' = [conn EXCEPT !["client"] = d] /\ wire' = wire
  BY DEF BeginOpenFlow
<1>6. OwnersOK'
  <2>1. /\ handle' = [handle EXCEPT !["client"][s].state = "begun"]
        /\ UNCHANGED <<framed, accepted, delivered, eof_seen>>
    BY DEF BeginOpenFlow
  <2> HIDE DEF s
  <2> QED  BY <1>1, <2>1, HandleOK
<1> HIDE DEF d
<1> QED  BY <1>1, <1>4, <1>5, <1>6, ConnIInv

\* The invariant is kept by accept_stream.
LEMMA AcceptStreamIInv == IInv /\ AcceptStream => IInv'
<1> SUFFICES ASSUME IInv, AcceptStream PROVE IInv'
  OBVIOUS
<1> DEFINE c == conn["server"]
           s == Head(c.inbound)
           d == [c EXCEPT !.inbound = Tail(@)]
<1>1. /\ "server" \in End /\ OwnersOK /\ c.inbound # <<>>
      /\ c \in Connection /\ Covered(c) /\ Credit("server", c)
  BY DEF End, IInv, TypeOK, OwnersOK, AcceptStream
<1>2. s \in Id /\ Tail(c.inbound) \in Seq(Id)
  <2> HIDE DEF c
  <2>1. c.inbound \in Seq(Id)
    BY <1>1, ConnectionFields
  <2> QED  BY <1>1, <2>1, HeadTailProperties
<1>3. Quiet(c, d)
  <2> HIDE DEF c
  <2> QED  BY <1>1, <1>2 DEF Quiet, Connection
<1>4. d \in Connection /\ Covered(d) /\ Credit("server", d)
  <2> HIDE DEF c, d
  <2> QED  BY <1>1, <1>3, CoveredSame DEF Quiet, Credit
<1>5. conn' = [conn EXCEPT !["server"] = d] /\ wire' = wire
  BY DEF AcceptStream
<1>6. OwnersOK'
  <2>1. /\ handle' = [handle EXCEPT !["server"][s].state = "live"]
        /\ UNCHANGED <<framed, accepted, delivered, eof_seen>>
    BY DEF AcceptStream
  <2> HIDE DEF s
  <2> QED  BY <1>1, <1>2, <2>1, HandleOK
<1> HIDE DEF d
<1> QED  BY <1>1, <1>4, <1>5, <1>6, ConnIInv

\* The invariant is kept by poll_write on a stream.
LEMMA WriteStreamIInv ==
  ASSUME IInv, NEW e \in End, NEW s \in Id, NEW n \in WriteSizes, WriteStream(e, s, n)
  PROVE  IInv'
<1> DEFINE p == Payload(s, accepted[e][s] + 1, n)
<1>1. Good(WorldOf(e)) /\ WorldOf(e).end = e /\ OwnersOK
  BY GoodWorldOf DEF IInv, TypeOK, OwnersOK
<1>2. p \in Seq(Unit)
  <2>1. accepted[e][s] + 1 \in Nat \ {0} /\ n \in Nat
    BY <1>1, BoundsAssumption DEF OwnersOK
  <2> QED  BY <2>1, PayloadType
<1>3. PICK v \in poll_data(WorldOf(e), s, p) :
        /\ Apply(e, v)
        /\ framed' = [framed EXCEPT ![e][s] = @ + v.sent]
        /\ accepted' = [accepted EXCEPT ![e][s] = @ + v.count]
  BY DEF WriteStream
<1> HIDE DEF p
<1>4. Good(v) /\ v.end = e
  BY <1>1, <1>2, <1>3, GoodData
<1>5. OwnersOK'
  <2>1. v.sent \in Nat /\ v.count \in Nat
    BY <1>4 DEF Good, World
  <2>2. framed' \in [End -> [Id -> Nat]] /\ accepted' \in [End -> [Id -> Nat]]
    BY <1>1, <1>3, <2>1 DEF OwnersOK
  <2>3. handle' \in [End -> [Id -> [state : {"none", "opening", "begun", "live", "dropped"},
                                    write : {"open", "closing", "closed"}]]]
    <3> DEFINE Handle == [state : {"none", "opening", "begun", "live", "dropped"},
                          write : {"open", "closing", "closed"}]
    <3>1. handle \in [End -> [Id -> Handle]]
      BY <1>1 DEF OwnersOK
    <3>2. handle[e][s] \in Handle
      <4> HIDE DEF Handle
      <4> QED  BY <3>1
    <3>3. [handle[e][s] EXCEPT !.state = "live"] \in Handle
      BY <3>2
    <3>4. handle' = [handle EXCEPT ![e][s] = [handle[e][s] EXCEPT !.state = "live"]]
      BY DEF WriteStream
    <3> HIDE DEF Handle
    <3>5. handle' \in [End -> [Id -> Handle]]
      BY <3>1, <3>3, <3>4
    <3> QED  BY <3>5 DEF Handle
  <2>4. UNCHANGED <<delivered, eof_seen>>
    BY DEF WriteStream
  <2> QED  BY <1>1, <2>2, <2>3, <2>4 DEF OwnersOK
<1> QED  BY <1>3, <1>4, <1>5, StepIInv

\* The invariant is kept by poll_flush on a stream.
LEMMA FlushStreamIInv ==
  ASSUME IInv, NEW e \in End, NEW s \in Id, FlushStream(e, s)
  PROVE  IInv'
<1>1. Good(WorldOf(e)) /\ WorldOf(e).end = e /\ OwnersOK
  BY GoodWorldOf DEF IInv, TypeOK, OwnersOK
<1>2. PICK v \in poll_flush_write(WorldOf(e)) : Apply(e, v)
  BY DEF FlushStream
<1>3. Good(v) /\ v.end = e
  BY <1>1, GoodFlush
<1>4. OwnersOK'
  BY <1>1 DEF OwnersOK, FlushStream
<1> QED  BY <1>2, <1>3, <1>4, StepIInv

\* The invariant is kept by poll_close on a stream.
LEMMA CloseStreamIInv ==
  ASSUME IInv, NEW e \in End, NEW s \in Id, CloseStream(e, s)
  PROVE  IInv'
<1>1. Good(WorldOf(e)) /\ WorldOf(e).end = e /\ OwnersOK /\ "fin" \in Kind
  BY GoodWorldOf DEF IInv, TypeOK, OwnersOK, Kind
<1>2. PICK v \in poll_control(WorldOf(e), "fin", s) :
        /\ Apply(e, v)
        /\ handle' = [handle EXCEPT ![e][s].write =
                         IF v.poll = "ready" THEN "closed" ELSE "closing"]
  BY DEF CloseStream
<1>3. Good(v) /\ v.end = e
  BY <1>1, GoodControl
<1>4. OwnersOK'
  <2>1. \E x \in {"closing", "closed"} : handle' = [handle EXCEPT ![e][s].write = x]
    BY <1>2
  <2>2. UNCHANGED <<framed, accepted, delivered, eof_seen>>
    BY DEF CloseStream
  <2> QED  BY <1>1, <2>1, <2>2, HandleOK
<1> QED  BY <1>2, <1>3, <1>4, StepIInv

\* The invariant is kept by poll_read on a stream.
LEMMA ReadStreamIInv ==
  ASSUME IInv, NEW e \in End, NEW s \in Id, NEW max \in ReadSizes, ReadStream(e, s, max)
  PROVE  IInv'
<1>1. Good(WorldOf(e)) /\ WorldOf(e).end = e /\ OwnersOK /\ max \in Nat
  BY GoodWorldOf, BoundsAssumption DEF IInv, TypeOK, OwnersOK
<1>2. PICK v \in poll_read(WorldOf(e), s, max) :
        /\ Apply(e, v)
        /\ delivered' = [delivered EXCEPT ![e][s] = @ \o v.got]
        /\ eof_seen' = [eof_seen EXCEPT ![e][s] =
                           @ \/ (v.poll = "ready" /\ v.got = <<>>)]
  BY DEF ReadStream
<1>3. Good(v) /\ v.end = e
  BY <1>1, GoodRead
<1>4. delivered' \in [End -> [Id -> Seq(Unit)]]
  <2>1. v.got \in Seq(Unit) /\ delivered[e][s] \in Seq(Unit)
    BY <1>1, <1>3 DEF Good, World, OwnersOK
  <2>2. delivered[e][s] \o v.got \in Seq(Unit)
    BY <2>1, ConcatProperties
  <2> QED  BY <1>1, <1>2, <2>2 DEF OwnersOK
<1>5. eof_seen' \in [End -> [Id -> BOOLEAN]]
  <2> DEFINE b == eof_seen[e][s] \/ (v.poll = "ready" /\ v.got = <<>>)
  <2>1. eof_seen' = [eof_seen EXCEPT ![e] = [eof_seen[e] EXCEPT ![s] = b]]
    BY <1>2, Zenon
  <2>2. b \in BOOLEAN
    OBVIOUS
  <2>3. eof_seen \in [End -> [Id -> BOOLEAN]]
    BY <1>1 DEF OwnersOK
  <2> HIDE DEF b
  <2> QED  BY <2>1, <2>2, <2>3
<1>6. OwnersOK'
  BY <1>1, <1>4, <1>5 DEF OwnersOK, ReadStream
<1> QED  BY <1>2, <1>3, <1>6, StepIInv

\* The invariant is kept by dropping a MuxStream.
LEMMA DropStreamIInv ==
  ASSUME IInv, NEW e \in End, NEW s \in Id, DropStream(e, s)
  PROVE  IInv'
<1> DEFINE c == conn[e]
           x == [kind |-> "fin", stream |-> s]
           y == IF handle[e][s].write = "closed" \/ c.closed THEN c.controls
                ELSE Append(c.controls, x)
           d == [c EXCEPT !.controls = y]
<1>1. OwnersOK /\ c \in Connection /\ Covered(c) /\ Credit(e, c)
  BY DEF IInv, TypeOK, OwnersOK
<1>2. y \in Seq([kind : {"open", "fin"}, stream : Id])
  <2>1. x \in [kind : {"open", "fin"}, stream : Id]
    OBVIOUS
  <2> HIDE DEF c, x
  <2>2. c.controls \in Seq([kind : {"open", "fin"}, stream : Id])
    BY <1>1, ConnectionFields
  <2>3. Append(c.controls, x) \in Seq([kind : {"open", "fin"}, stream : Id])
    BY <2>1, <2>2, AppendProperties
  <2> QED  BY <2>2, <2>3
<1>3. conn' = [conn EXCEPT ![e] = d] /\ wire' = wire
  BY DEF DropStream
<1>4. Quiet(c, d)
  <2> HIDE DEF c, y
  <2> QED  BY <1>1, <1>2 DEF Quiet, Connection
<1>5. d \in Connection /\ Covered(d) /\ Credit(e, d)
  <2> HIDE DEF c, d
  <2> QED  BY <1>1, <1>4, CoveredSame DEF Quiet, Credit
<1>6. OwnersOK'
  <2>1. /\ handle' = [handle EXCEPT ![e][s].state = "dropped"]
        /\ UNCHANGED <<framed, accepted, delivered, eof_seen>>
    BY DEF DropStream
  <2> QED  BY <1>1, <2>1, HandleOK
<1> HIDE DEF d
<1> QED  BY <1>3, <1>5, <1>6, ConnIInv

\* The invariant is kept by poll_drive and dropping the session.
LEMMA SessionIInv ==
  ASSUME IInv, NEW e \in End, DriveSession(e) \/ DropSession(e)
  PROVE  IInv'
<1>1. Good(WorldOf(e)) /\ WorldOf(e).end = e /\ OwnersOK
  BY GoodWorldOf DEF IInv, TypeOK, OwnersOK
<1>2. OwnersOK'
  BY <1>1 DEF OwnersOK, DriveSession, DropSession
<1>3. CASE DriveSession(e)
  <2>1. PICK v \in poll_drive(WorldOf(e)) :
          Apply(e, IF v.poll = "error" \/ (v.poll = "pending" /\ v.c.closed)
                   THEN dropped(v) ELSE v)
    BY <1>3 DEF DriveSession
  <2>2. Good(v) /\ v.end = e
    BY <1>1, GoodDrive
  <2>3. Good(dropped(v)) /\ dropped(v).end = e
    BY <2>2, GoodDropped
  <2>4. Apply(e, v) \/ Apply(e, dropped(v))
    BY <2>1, Zenon
  <2> QED  BY <1>2, <2>2, <2>3, <2>4, StepIInv
<1>4. CASE DropSession(e)
  <2>1. Good(dropped(WorldOf(e))) /\ dropped(WorldOf(e)).end = e
    BY <1>1, GoodDropped
  <2>2. Apply(e, dropped(WorldOf(e)))
    BY <1>4 DEF DropSession
  <2> QED  BY <1>2, <2>1, <2>2, StepIInv
<1> QED  BY <1>3, <1>4

\* Every step of the multiplexer preserves the inductive invariant.
LEMMA NextIInv == IInv /\ [Next]_vars => IInv'
<1> SUFFICES ASSUME IInv, [Next]_vars PROVE IInv'
  OBVIOUS
<1>1. CASE OpenPolicy  BY <1>1, OpenPolicyIInv
<1>2. CASE BeginOpenFlow  BY <1>2, BeginOpenFlowIInv
<1>3. CASE AcceptStream  BY <1>3, AcceptStreamIInv
<1>4. CASE \E e \in End : DriveSession(e)  BY <1>4, SessionIInv
<1>5. CASE \E e \in Resets : DropSession(e)
  <2>1. Resets \subseteq End
    BY BoundsAssumption
  <2> QED  BY <1>5, <2>1, SessionIInv
<1>6. ASSUME NEW e \in End, NEW s \in Id, StreamNext(e, s) PROVE IInv'
  BY <1>6, WriteStreamIInv, FlushStreamIInv, CloseStreamIInv, ReadStreamIInv,
     DropStreamIInv DEF StreamNext
<1>7. CASE UNCHANGED vars
  BY <1>7 DEF vars, IInv, TypeOK
<1> QED  BY <1>1, <1>2, <1>3, <1>4, <1>5, <1>6, <1>7 DEF Next

-----------------------------------------------------------------------------
(* The theorems.                                                             *)

\* In every execution of two connected multiplexers, whatever the carrier does
\* and whatever calls the owners make, the inductive invariant holds.
THEOREM Invariance == (Spec => []IInv) /\ (SpecFresh => []IInv)
  BY InitIInv, NextIInv, PTL DEF Spec, SpecFresh

\* Every variable keeps its type; in particular poll_read's subtraction from
\* received_bytes (mux.rs, poll_read) never underflows, because the counter
\* covers everything still buffered.
THEOREM TypeCorrect == (Spec => []TypeOK) /\ (SpecFresh => []TypeOK)
<1>1. IInv => TypeOK
  BY DEF IInv
<1> QED  BY <1>1, Invariance, PTL

\* Buffered input never exceeds the receive limit, for every limit, frame size
\* and interleaving: the check made when a header is parsed reserves room that
\* finish_data uses polls later.
THEOREM ReceiveLimitKept == (Spec => []ReceiveBounded) /\ (SpecFresh => []ReceiveBounded)
<1>1. IInv => ReceiveBounded
  <2> SUFFICES ASSUME IInv, NEW e \in End
               PROVE  conn[e].received_bytes <= ReceiveLimit[e]
    BY DEF ReceiveBounded
  <2>1. conn[e] \in Connection /\ Credit(e, conn[e]) /\ ReceiveLimit[e] \in Nat
    BY BoundsAssumption DEF IInv, TypeOK
  <2>2. /\ conn[e].received_bytes \in Nat /\ conn[e].read_frame \in PendingRead
    BY <2>1, ConnectionFields
  <2> DEFINE f == conn[e].read_frame
             a == conn[e].received_bytes
  <2>3. f.length \in Nat /\ f.wire_consumed \in Nat /\ Len(f.bytes) \in Nat
    BY <2>2 DEF PendingRead
  <2>4. /\ f.wire_consumed + Len(f.bytes) <= f.length
        /\ a + (f.length - f.wire_consumed) <= ReceiveLimit[e]
    BY <2>1 DEF Credit
  <2>5. a \in Nat /\ ReceiveLimit[e] \in Nat
    BY <2>1, <2>2
  <2>6. a <= ReceiveLimit[e]
    <3> HIDE DEF f, a
    <3> QED  BY <2>3, <2>4, <2>5
  <2> QED  BY <2>6
<1> QED  BY <1>1, Invariance, PTL
=============================================================================
