----------------------------- MODULE Supervisor -----------------------------
(***************************************************************************)
(* devpod-supervisor (cmd/supervisor/main.go), PID 1 of a DevPod: it       *)
(* starts sshd and the user's command, reaps every process of the          *)
(* container, forwards signals from a goroutine of its own and decides     *)
(* when, and with which code, to exit.                                     *)
(***************************************************************************)
EXTENDS Naturals, Sequences, FiniteSets

CONSTANTS
    Orphans,        \* processes of the container that are reparented to PID 1
    Signals,        \* signals the supervisor may be sent
    Fatal,          \* what may be fatal: functions from tracked children to
                    \* the signals that end them
    Statuses,       \* wait statuses a process can end with
    SigCap,         \* capacity of sigCh
    MaxSignals      \* bound: signals that are sent

Tracked == {"sshd", "user"}
Procs == Tracked \cup Orphans

ASSUME SignalsAssumption ==
    /\ Signals \subseteq {"TERM", "INT", "HUP", "QUIT"}
    /\ Fatal \subseteq [Tracked -> SUBSET {"TERM", "INT", "HUP", "QUIT"}]
    /\ SigCap \in Nat \ {0} /\ MaxSignals \in Nat
ASSUME ProcsAssumption == Orphans \cap Tracked = {}
ASSUME StatusesAssumption == Statuses \subseteq [signaled : BOOLEAN, n : 0 .. 127]

VARIABLES
    conf,           \* is there a user command, does its exit end the Pod, and
                    \* which signals end which child
    pc,             \* where main is: starting, waiting, deciding, draining
    proc,           \* proc[p]: "none", "running", "zombie" or "reaped"
    ws,             \* ws[p]: the wait status p ended with
    hit,            \* the child waitForChildren has just reaped
    first,          \* firstTrackedExit: the first of them
    sigCh,          \* signals Notify has put into the channel
    forward,        \* what the forwarding goroutine has still to send
    shuttingDown,
    sent,           \* sent[p]: signals that reached child p
    status,         \* exit code of the supervisor
    env             \* signals sent, and was everyone alive at the first one

vars == <<conf, pc, proc, ws, hit, first, sigCh, forward, shuttingDown, sent,
          status, env>>

NoChild == "none"
Children == IF conf.user THEN <<"sshd", "user">> ELSE <<"sshd">>
Has(p) == p = "sshd" \/ conf.user

WaitStatusToExit(s) == IF s.signaled THEN 128 + s.n ELSE s.n
Code(p) == WaitStatusToExit(ws[p])

Reaped(p) == proc[p] = "reaped"
UserReaped == conf.user /\ Reaped("user")
AllTrackedReaped == \A p \in Tracked : Has(p) => Reaped(p)
UserExitOr(fallback) == IF UserReaped THEN Code("user") ELSE fallback

-----------------------------------------------------------------------------

Init ==
    /\ conf \in [user : BOOLEAN, follow : BOOLEAN, fatal : Fatal]
    /\ pc = "startSshd"
    /\ proc = [p \in Procs |-> "none"]
    /\ ws = [p \in Procs |-> [signaled |-> FALSE, n |-> 0]]
    /\ hit = NoChild /\ first = NoChild
    /\ sigCh = <<>> /\ forward = <<>>
    /\ shuttingDown = FALSE
    /\ sent = [p \in Tracked |-> {}]
    /\ status = 0
    /\ env = [signals |-> 0, allAlive |-> FALSE]

Exit(code) ==
    /\ pc' = "exited"
    /\ status' = code

\* exec.Cmd.Start of a tracked child may fail; what was started is killed.
Start(p, here, there) ==
    /\ pc = here
    /\ \/ /\ proc' = [proc EXCEPT ![p] = "running"]
          /\ pc' = there
          /\ UNCHANGED status
       \/ Exit(1) /\ UNCHANGED proc
    /\ UNCHANGED <<conf, ws, hit, first, sigCh, forward, shuttingDown, sent,
                   env>>

StartSshd == Start("sshd", "startSshd", IF conf.user THEN "startUser" ELSE "wait")
StartUser == Start("user", "startUser", "wait")

\* syscall.Kill of the process groups of the children in S.
Kill(S, s) ==
    sent' = [p \in Tracked |->
        IF p \in S /\ proc[p] = "running" THEN sent[p] \cup {s} ELSE sent[p]]

\* Mutant: only the tracked children are waited for.
WaitTracked(p) ==
    /\ pc = "wait" /\ p \in Tracked /\ proc[p] = "zombie"
    /\ proc' = [proc EXCEPT ![p] = "reaped"]
    /\ hit' = p
    /\ first' = IF first = NoChild THEN p ELSE first
    /\ pc' = "decide"
    /\ UNCHANGED <<conf, ws, sigCh, forward, shuttingDown, sent, status, env>>

\* Wait4(-1) returns a process that has ended; orphans are only reaped.
Wait(p) ==
    /\ pc = "wait"
    /\ proc[p] = "zombie"
    /\ proc' = [proc EXCEPT ![p] = "reaped"]
    /\ IF p \in Tracked
       THEN /\ hit' = p
            /\ first' = IF first = NoChild THEN p ELSE first
            /\ pc' = "decide"
       ELSE UNCHANGED <<hit, first, pc>>
    /\ UNCHANGED <<conf, ws, sigCh, forward, shuttingDown, sent, status, env>>

\* Mutants: the code of the first child to exit is returned; a Pod without a
\* user command is forgotten.
DecideFirstCode ==
    /\ pc = "decide" /\ shuttingDown
    /\ IF UserReaped \/ AllTrackedReaped
       THEN Exit(Code(first))
       ELSE pc' = "wait" /\ UNCHANGED status
    /\ UNCHANGED <<conf, proc, ws, hit, first, sigCh, forward, shuttingDown,
                   sent, env>>

DecideUserOnly ==
    /\ pc = "decide" /\ shuttingDown
    /\ IF UserReaped THEN Exit(Code("user"))
       ELSE pc' = "wait" /\ UNCHANGED status
    /\ UNCHANGED <<conf, proc, ws, hit, first, sigCh, forward, shuttingDown,
                   sent, env>>

\* A tracked child was reaped during shutdown.
DecideInShutdown ==
    /\ pc = "decide" /\ shuttingDown
    /\ IF UserReaped \/ AllTrackedReaped
       THEN Exit(UserExitOr(Code(first)))
       ELSE pc' = "wait" /\ UNCHANGED status
    /\ UNCHANGED <<conf, proc, ws, hit, first, sigCh, forward, shuttingDown,
                   sent, env>>

\* Mutant: the other child is not told to stop.
DecideNoKill ==
    /\ pc = "decide" /\ ~shuttingDown
    /\ pc' = IF hit = "sshd" \/ (hit = "user" /\ conf.follow)
             THEN "drain" ELSE "wait"
    /\ UNCHANGED <<conf, proc, ws, hit, first, sigCh, forward, shuttingDown,
                   sent, status, env>>

\* The exit of this child ends the Pod: sshd always, the user's command when
\* spec.exitOnUserCommandExit asks for it.
EndsPod(p) == p = "sshd" \/ (p = "user" /\ conf.follow)

\* A tracked child was reaped and no signal has been forwarded.
Decide ==
    /\ pc = "decide" /\ ~shuttingDown
    /\ IF EndsPod(hit)
       THEN /\ Kill({p \in Tracked : Has(p) /\ ~Reaped(p)}, "TERM")
            /\ pc' = "drain"
       ELSE pc' = "wait" /\ UNCHANGED sent
    /\ UNCHANGED <<conf, proc, ws, hit, first, sigCh, forward, shuttingDown,
                   status, env>>

\* drainReapsBlocking: reap until every tracked child is, then return the
\* code of the child that started it.
Drain(p) ==
    /\ pc = "drain" /\ ~AllTrackedReaped
    /\ proc[p] = "zombie"
    /\ proc' = [proc EXCEPT ![p] = "reaped"]
    /\ UNCHANGED <<conf, pc, ws, hit, first, sigCh, forward, shuttingDown,
                   sent, status, env>>

Drained ==
    /\ pc = "drain" /\ AllTrackedReaped
    /\ Exit(Code(hit))
    /\ UNCHANGED <<conf, proc, ws, hit, first, sigCh, forward, shuttingDown,
                   sent, env>>

Main ==
    \/ StartSshd \/ StartUser
    \/ \E p \in Procs : Wait(p) \/ Drain(p)
    \/ DecideInShutdown \/ Decide \/ Drained

-----------------------------------------------------------------------------
(* The goroutine that forwards signals; it starts after the children.      *)

Started == pc \notin {"startSshd", "startUser", "exited"}

Receive ==
    /\ Started /\ forward = <<>> /\ sigCh # <<>>
    /\ shuttingDown' = TRUE
    /\ forward' = [i \in DOMAIN Children |->
                      [to |-> Children[i], sig |-> Head(sigCh)]]
    /\ sigCh' = Tail(sigCh)
    /\ env' = [env EXCEPT !.allAlive = IF shuttingDown THEN @ ELSE
                 \A p \in Tracked : Has(p) => proc[p] = "running"]
    /\ UNCHANGED <<conf, pc, proc, ws, hit, first, sent, status>>

ForwardOne ==
    /\ pc # "exited" /\ forward # <<>>
    /\ Kill({Head(forward).to}, Head(forward).sig)
    /\ forward' = Tail(forward)
    /\ UNCHANGED <<conf, pc, proc, ws, hit, first, sigCh, shuttingDown,
                   status, env>>

Forwarder == Receive \/ ForwardOne

-----------------------------------------------------------------------------
(* The kernel, the kubelet and the processes of the container.             *)

\* signal.Notify does not block: a signal that finds the channel full is lost.
Signal(s) ==
    /\ pc # "exited" /\ env.signals < MaxSignals
    /\ sigCh' = IF Len(sigCh) < SigCap THEN Append(sigCh, s) ELSE sigCh
    /\ env' = [env EXCEPT !.signals = @ + 1]
    /\ UNCHANGED <<conf, pc, proc, ws, hit, first, forward, shuttingDown,
                   sent, status>>

Ends(p) ==
    /\ pc # "exited" /\ proc[p] = "running"
    /\ proc' = [proc EXCEPT ![p] = "zombie"]
    /\ \E s \in Statuses : ws' = [ws EXCEPT ![p] = s]
    /\ UNCHANGED <<conf, pc, hit, first, sigCh, forward, shuttingDown, sent,
                   status, env>>

\* A tracked child that was sent a signal it does not survive.
Heeds(p) == sent[p] \cap conf.fatal[p] # {} /\ Ends(p)

Reparent(o) ==
    /\ Started /\ proc[o] = "none"
    /\ proc' = [proc EXCEPT ![o] = "running"]
    /\ UNCHANGED <<conf, pc, ws, hit, first, sigCh, forward, shuttingDown,
                   sent, status, env>>

Next ==
    \/ Main \/ Forwarder
    \/ \E s \in Signals : Signal(s)
    \/ \E p \in Procs : Ends(p)
    \/ \E o \in Orphans : Reparent(o)

Spec == Init /\ [][Next]_vars

\* The scheduler runs the supervisor's two goroutines, and a tracked child
\* that was sent a signal fatal to it ends.  No child ends on its own.
FairSpec ==
    /\ Spec
    /\ WF_vars(Main) /\ WF_vars(Forwarder)
    /\ \A p \in Tracked : WF_vars(Heeds(p))

-----------------------------------------------------------------------------

\* Types; and while main waits, Wait4 has a child to wait for: the ECHILD
\* branch, which would report success, is never taken.
TypeOK ==
    /\ conf \in [user : BOOLEAN, follow : BOOLEAN, fatal : Fatal]
    /\ pc \in {"startSshd", "startUser", "wait", "decide", "drain", "exited"}
    /\ proc \in [Procs -> {"none", "running", "zombie", "reaped"}]
    /\ ws \in [Procs -> [signaled : BOOLEAN, n : 0 .. 127]]
    /\ hit \in Tracked \cup {NoChild} /\ first \in Tracked \cup {NoChild}
    /\ sigCh \in Seq(Signals) /\ Len(sigCh) <= SigCap
    /\ forward \in Seq([to : Tracked, sig : Signals]) /\ Len(forward) <= 2
    /\ shuttingDown \in BOOLEAN
    /\ sent \in [Tracked -> SUBSET (Signals \cup {"TERM"})]
    /\ status \in 0 .. 255
    /\ env \in [signals : 0 .. MaxSignals, allAlive : BOOLEAN]
    /\ pc = "wait" => \E p \in Tracked : proc[p] \in {"running", "zombie"}

\* A shutdown that began while both children were alive reports the exit code
\* of the user's command, whichever child ends first.
UserCodeWins ==
    pc = "exited" /\ env.allAlive /\ conf.user
        => UserReaped /\ status = Code("user")

\* The user's command was sent a signal and runs on: it survives every signal
\* it has been sent.
UserSurvives ==
    /\ proc["user"] = "running"
    /\ sent["user"] # {} /\ sent["user"] \cap conf.fatal["user"] = {}

\* Once sshd has ended the supervisor exits for good, so that the kubelet
\* restarts the container, unless the user's command was told to stop and does
\* not: neither a signal that races the reaping loop nor the drain may leave
\* PID 1 waiting for a command nobody has signalled, or for nothing.
SshdDeathExits ==
    <>[](proc["sshd"] \in {"zombie", "reaped"} => pc = "exited" \/ UserSurvives)

\* "sshd's death always exits the supervisor" (waitForChildren's decision
\* rules): also in a shutdown by a signal the user's command survives.
SshdDeathAlwaysExits == proc["sshd"] = "zombie" ~> pc = "exited"

\* No zombie stays: whatever is reparented to PID 1 is reaped.
OrphansReaped ==
    \A o \in Orphans : proc[o] = "zombie" ~> proc[o] = "reaped" \/ pc = "exited"
=============================================================================
