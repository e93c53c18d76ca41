------------------------------- MODULE MCUser -------------------------------
(* Instances of UserController for TLC. *)
EXTENDS UserController

Lag1 == [k \in Kinds |-> 1]
Lag2 == [k \in Kinds |-> 2]
=============================================================================
