------------------------------ MODULE MCProxy ------------------------------
(* Instances of ProxyChannel for TLC: the cfg files give all constants. *)
EXTENDS ProxyChannel
=============================================================================
