------------------------------- MODULE MCRelay -------------------------------
(* Instances of Relay for TLC: a zero-length datagram between two others; a work *)
(* limit that stays the same, and one that changes between polls.                *)
EXTENDS Relay

MCSizes == <<1, 0, 2>>
MCFlows == {<<"tcp", {1}>>, <<"tcp", {3}>>, <<"udp", {2}>>, <<"udp", {1, 2}>>}
ChangingLimit == {<<"tcp", {1, 2}>>}
=============================================================================
