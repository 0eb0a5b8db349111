--------------------------- MODULE MCServerFlows ---------------------------
(* Instances of ServerFlows for TLC.                                         *)
EXTENDS ServerFlows
=============================================================================
