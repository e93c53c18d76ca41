------------------------------- MODULE MCLdap -------------------------------
(* LdapSource on small instances. *)
EXTENDS LdapSource, TLC

Symmetry == Permutations(Users) \cup Permutations(Callers)
=============================================================================
