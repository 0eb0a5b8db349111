------------------------------ MODULE Service -------------------------------
(* What an engine promises to those who hold its handle: it starts or fails,   *)
(* runs, stops and has then stopped; whoever asks something is answered while  *)
(* it runs or is told when it has ended; and once it stops it ends.            *)
EXTENDS Integers

CONSTANT Callers

VARIABLES
    phase,      \* "starting", "running", "stopping" or "ended"
    calls       \* "none", "asked", "answered" or "released", for each caller

vars == <<phase, calls>>

Init == phase = "starting" /\ calls = [c \in Callers |-> "none"]

Run == phase = "starting" /\ phase' = "running" /\ UNCHANGED calls

\* A call made after the end is not taken.
Ask(c) ==
    /\ calls[c] = "none"
    /\ calls' = [calls EXCEPT ![c] = IF phase = "ended" THEN "released" ELSE "asked"]
    /\ UNCHANGED phase

\* A call that waits for nothing.
Tell(c) ==
    /\ calls[c] = "none" /\ phase # "ended"
    /\ calls' = [calls EXCEPT ![c] = "answered"]
    /\ UNCHANGED phase

\* Some of the calls are answered.
AnswerSome ==
    \E S \in SUBSET {c \in Callers : calls[c] = "asked"} :
        calls' = [c \in Callers |-> IF c \in S THEN "answered" ELSE calls[c]]

Answer == phase = "running" /\ AnswerSome /\ UNCHANGED phase

\* The call that stops the engine is answered in the same step.
Stop == phase = "running" /\ phase' = "stopping" /\ AnswerSome

\* Nobody is left waiting.
End ==
    /\ phase \in {"starting", "stopping"} /\ phase' = "ended"
    /\ calls' = [c \in Callers |-> IF calls[c] = "asked" THEN "released" ELSE calls[c]]

Next == Run \/ Answer \/ Stop \/ End \/ \E c \in Callers : Ask(c) \/ Tell(c)

Spec ==
    /\ Init /\ [][Next]_vars
    /\ WF_vars(phase = "starting" /\ (Run \/ End))
    /\ WF_vars(phase = "stopping" /\ End)
=============================================================================
