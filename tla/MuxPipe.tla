------------------------------ MODULE MuxPipe ------------------------------
(***************************************************************************)
(* What the multiplexer promises the owners of a stream: each direction of *)
(* each stream is a pipe that hands out what was put in, in order and      *)
(* without gaps, and reports end of file only when the writer has stopped  *)
(* and the pipe is empty.  A pipe may break, and then promises nothing.    *)
(***************************************************************************)
EXTENDS Naturals, Sequences

CONSTANT Pipe   \* the directions of the streams

VARIABLES
    sent,       \* sent[p]: units put in so far
    got,        \* got[p]: the numbers of the units handed out, in order
    stopped,    \* stopped[p]: the writer puts nothing more in
    eof,        \* eof[p]: the reader was told so
    broken      \* broken[p]: the carrier or the connection failed

pipes == <<sent, got, stopped, eof, broken>>

Init ==
    /\ sent \in [Pipe -> Nat]
    /\ got = [p \in Pipe |-> [i \in 1..sent[p] |-> i]]
    /\ stopped = [p \in Pipe |-> FALSE]
    /\ eof = [p \in Pipe |-> FALSE]
    /\ broken = [p \in Pipe |-> FALSE]

Keep(p, v, w) == w[p] = v[p]

Idle(p) ==
    /\ Keep(p, sent, sent') /\ Keep(p, got, got')
    /\ Keep(p, stopped, stopped') /\ Keep(p, eof, eof')

Put(p) ==
    /\ ~stopped[p] /\ sent'[p] > sent[p]
    /\ Keep(p, got, got') /\ Keep(p, stopped, stopped') /\ Keep(p, eof, eof')

Take(p) ==
    /\ Len(got'[p]) > Len(got[p]) /\ Len(got'[p]) <= sent[p]
    /\ got'[p] = [i \in 1..Len(got'[p]) |-> i]
    /\ Keep(p, sent, sent') /\ Keep(p, stopped, stopped') /\ Keep(p, eof, eof')

Stop(p) ==
    /\ ~stopped[p] /\ stopped'[p]
    /\ Keep(p, sent, sent') /\ Keep(p, got, got') /\ Keep(p, eof, eof')

EndOfFile(p) ==
    /\ stopped[p] /\ Len(got[p]) = sent[p] /\ eof'[p]
    /\ Keep(p, sent, sent') /\ Keep(p, got, got') /\ Keep(p, stopped, stopped')

\* The pipes move independently: a step is a step of each, or none.
Next ==
    \A p \in Pipe :
        \/ broken[p] /\ broken'[p]
        \/ /\ ~broken[p]
           /\ \/ broken'[p]
              \/ /\ ~broken'[p]
                 /\ Idle(p) \/ Put(p) \/ Take(p) \/ Stop(p) \/ EndOfFile(p)

Spec == Init /\ [][Next]_pipes
=============================================================================
