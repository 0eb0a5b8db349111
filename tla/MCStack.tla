------------------------------ MODULE MCStack -------------------------------
(* Instances of Stack: the sources of packets are interchangeable; fragments   *)
(* of two datagrams, one with gaps, overlaps, a shorter last fragment and a    *)
(* different header.                                                           *)
EXTENDS Stack

SourceSymmetry == Permutations(Source)

Fragment(id, header, offset, len, more) ==
    [key |-> <<"host", "service", id>>, header |-> header, offset |-> offset,
     len |-> len, more |-> more]

MCFragments ==
    {Fragment(1, "h", 0, 2, TRUE), Fragment(1, "h", 2, 2, TRUE), Fragment(1, "h", 0, 3, TRUE),
     Fragment(1, "h", 0, 2, FALSE), Fragment(1, "h", 2, 1, FALSE), Fragment(1, "h", 4, 1, FALSE),
     Fragment(1, "h", 4, 2, FALSE), Fragment(1, "g", 2, 2, TRUE), Fragment(2, "h", 0, 2, TRUE)}

Config(max_flows, max_managed_bytes, ports, calls) ==
    [max_flows |-> max_flows, max_managed_bytes |-> max_managed_bytes, ports |-> ports,
     calls |-> calls]

MCConfigs ==
    {Config(1, 7, 5, {"tcp", "udp"}), Config(2, 7, 4, {"tcp", "udp"}),
     Config(2, 4, 4, {"tcp", "udp"}),
     Config(2, 4, 2, {"syn", "ack", "rst", "tun"}), Config(2, 4, 2, {"syn", "ack", "fin", "tun"}),
     Config(1, 4, 2, {"syn", "ack", "rst", "fin", "tun"}), Config(2, 5, 3, {"syn", "tcp"}),
     Config(2, 4, 0, {"syn", "datagram", "loopback"}), Config(1, 9, 0, {"datagram"}),
     Config(1, 9, 0, {"fragment"})}

TupleConfigs == {Config(2, 7, 0, {"syn", "rst"})}
=============================================================================
