------------------------------ MODULE MCEngine ------------------------------
(* Instances of Engine for TLC.  The configurations share one run: tunnels with *)
(* a caller, callers with clients, and modules that start and stop.             *)
EXTENDS Engine

Configuration(roles, callers, ops, drops, clients, modules) ==
    [roles |-> roles, callers |-> callers, ops |-> ops, drops |-> drops,
     clients |-> clients, modules |-> modules]

MCConfigs ==
    {Configuration(<<"client", "server">>, {"a"}, {"network_changed"}, TRUE, {}, 1),
     Configuration(<<"client">>, {"a", "b"}, Ops \ {"control", "unknown"}, FALSE, {}, 1),
     Configuration(<<>>, {"a"}, {"shutdown"}, FALSE, {"x", "y"}, 1),
     Configuration(<<>>, {"a", "b"}, {"control", "unknown"}, TRUE, {"x"}, 1),
     Configuration(<<>>, {"a", "b", "c"}, {"control", "request_shutdown"}, FALSE, {}, 3)}
=============================================================================
