------------------------------ MODULE Control -------------------------------
(* UnixControlServer of crates/snolc/src/control.rs: connections of local      *)
(* clients, each of which carries one request and one response.                *)
(*                                                                             *)
(* A connection is a record: the state the server keeps for it, the answer in  *)
(* the oneshot channel it waits for, and what its client did: how much of a    *)
(* request it sent and for which instance, whether it closed its end, and what *)
(* it was answered.                                                            *)
EXTENDS Integers, FiniteSets

CONSTANT MaxConnections     \* max_connections

\* "extra" is a whole request and more, or one that is longer than allowed.
Sent == {"nothing", "part", "whole", "extra"}
Replies == {"none", "ok", "error"}

Connections ==
    [state : {"absent", "backlog", "reading", "dispatched", "waiting", "writing", "closed"},
     answer : Replies, sent : Sent, instance : {"known", "unknown"}, gone : BOOLEAN,
     got : Replies]

NewConnection ==
    [state |-> "absent", answer |-> "none", sent |-> "nothing", instance |-> "known",
     gone |-> FALSE, got |-> "none"]

\* Connections that the server holds.
Held(conns) ==
    {c \in DOMAIN conns : conns[c].state \in {"reading", "dispatched", "waiting", "writing"}}

\* accept: connections of the backlog, as long as there is room.
accept(conns) ==
    LET backlog == {c \in DOMAIN conns : conns[c].state = "backlog"}
        room == MaxConnections - Cardinality(Held(conns))
        taken == IF Cardinality(backlog) <= room THEN {backlog}
                 ELSE {S \in SUBSET backlog : Cardinality(S) = IF room < 0 THEN 0 ELSE room}
    IN {[c \in DOMAIN conns |-> IF c \in S THEN [conns[c] EXCEPT !.state = "reading"]
                                ELSE conns[c]] : S \in taken}

Close(c) == [c EXCEPT !.state = "closed", !.answer = "none"]

\* response: the frame that is going to be written.
response(c, reply) == [c EXCEPT !.state = "writing", !.answer = reply]

\* read_request: all there is to read; the end of the stream closes the connection
\* even behind a whole request.
read_request(c) ==
    IF c.gone \/ c.sent = "extra" THEN Close(c)
    ELSE IF c.sent = "whole" THEN [c EXCEPT !.state = "dispatched"]
    ELSE c

\* Writing part of the response, all of it, or nothing.
write_response(c) ==
    IF c.gone THEN {Close(c)}
    ELSE {c, Close([c EXCEPT !.got = c.answer])}

\* Connection::poll, and finished.
poll_connection(c) ==
    CASE c.state = "reading" -> {read_request(c)}
      [] c.state = "waiting" /\ c.answer # "none" -> {response(c, c.answer)}
      [] c.state = "writing" -> write_response(c)
      [] OTHER -> {c}

\* UnixControlServer::poll; the connections that are now dispatched are its requests.
poll_server(conns) ==
    UNION {LET polled == [c \in DOMAIN held |-> poll_connection(held[c])] IN
           {f \in [DOMAIN held -> UNION {polled[c] : c \in DOMAIN held}] :
                \A c \in DOMAIN held : f[c] \in polled[c]} : held \in accept(conns)}

Requests(conns) == {c \in DOMAIN conns : conns[c].state = "dispatched"}

\* wait_for and reject
wait_for(c) == [c EXCEPT !.state = "waiting", !.answer = "none"]
reject(c) == response(c, "error")
=============================================================================
