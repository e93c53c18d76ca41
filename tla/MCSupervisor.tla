---------------------------- MODULE MCSupervisor ----------------------------
(* Supervisor on small instances. *)
EXTENDS Supervisor

\* A status of each kind.
TwoStatuses == {[signaled |-> FALSE, n |-> 7], [signaled |-> TRUE, n |-> 15]}

\* sshd ends on these signals and re-executes itself on SIGHUP; the user's
\* command ends on the ones in S.
FatalToUser(S) == [p \in Tracked |->
    IF p = "sshd" THEN {"TERM", "INT", "QUIT"} ELSE S]

\* A user command that ends on all but SIGHUP, and one that ignores every
\* signal.
UserCommands == {FatalToUser({"TERM", "INT", "QUIT"}), FatalToUser({})}

\* A user command that ignores SIGHUP.
Nohup == {FatalToUser({"TERM", "INT", "QUIT"})}
=============================================================================
