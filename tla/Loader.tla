------------------------------- MODULE Loader -------------------------------
(* The calls that crates/snolc/src/loader.rs makes into a loaded module: what  *)
(* the engine is told for each status and output the module may return.        *)
(*                                                                             *)
(* A module answers with a status and a handle, which is zero for none, and    *)
(* valid says whether the rest of its output can be used.  A call ends "ok",   *)
(* "pending", "unsupported" or "error".  The modules are free to answer        *)
(* anything: Answers.                                                          *)
EXTENDS Integers

Answers == [status : {"ok", "pending", "unsupported", "error"}, handle : {0, 1},
            valid : BOOLEAN]

\* A call that must return a handle.
WithHandle(a) == IF a.status = "ok" /\ a.handle = 0 THEN "error" ELSE a.status

\* A call that cannot be retried: Pending is an error status like any other.
Immediate(a) == IF a.status = "ok" THEN "ok" ELSE "error"

\* create; created says that the module has an instance already.
create(created, a) ==
    IF created \/ a.handle = 0 THEN "error" ELSE Immediate(a)

\* poll: Pending is fine.
poll_module(created, a) ==
    IF created /\ a.status \in {"ok", "pending"} THEN "ok" ELSE "error"

\* poll_control: the response must fit.
poll_control(a) ==
    IF a.status = "ok" /\ ~a.valid THEN "error" ELSE a.status

\* poll_shutdown: nothing to do for a module that was not created.
poll_shutdown(created, a) ==
    IF ~created THEN "ok"
    ELSE IF a.status = "unsupported" THEN "error" ELSE a.status

\* carrier_connect, carrier_accept and protection_wrap end in finish_byte_io: the
\* module needs a handle and a byte I/O table.
finish_byte_io(a) == IF a.status = "ok" /\ ~a.valid THEN "error" ELSE WithHandle(a)

carrier_connect(a) == finish_byte_io(a)
carrier_accept(a) == finish_byte_io(a)

\* protection_wrap takes the lower stream only when it succeeds.
protection_wrap(lower, a) == IF ~lower THEN "error" ELSE finish_byte_io(a)

policy_attach_session(a) == WithHandle(a)
policy_admit_flow(a) == a.status
policy_attach_flow(a) == Immediate(a)
policy_attach_datagram_flow(a) == Immediate(a)

\* adapter_accept: the metadata must decode.
adapter_accept(a) == IF a.status = "ok" /\ ~a.valid THEN "error" ELSE WithHandle(a)

\* adapter_resolve of a module that resolves: the addresses must decode.  A module
\* may also say that it does not resolve this name: None.
adapter_resolve(a) == IF a.status = "ok" /\ ~a.valid THEN "error" ELSE a.status
adapter_open(a) == WithHandle(a)
policy_admit_resolved(a) == a.status

adapter_attach_flow(a) == Immediate(a)
adapter_attach_datagram(a) == Immediate(a)
adapter_attach_packet_port(supported, a) == IF supported THEN Immediate(a) ELSE "unsupported"
adapter_complete_flow(a) == Immediate(a)
=============================================================================
