-------------------------- MODULE SupervisorProofs --------------------------
(***************************************************************************)
(* devpod-supervisor for any orphans, signals, wait statuses and size of   *)
(* the signal channel: types, that Wait4 always has a child to wait for,   *)
(* and that the code of the user's command is the one reported.            *)
(***************************************************************************)
EXTENDS Supervisor, SequenceTheorems, TLAPS

\* A child is started before main waits, and not before its turn.
Spawned ==
    /\ pc = "startSshd" => \A p \in Tracked : proc[p] = "none"
    /\ pc = "startUser" => /\ conf.user /\ proc["user"] = "none"
                           /\ proc["sshd"] \in {"running", "zombie"}
    /\ pc \in {"wait", "decide", "drain"} =>
          \A p \in Tracked : Has(p) <=> proc[p] # "none"

\* No signal is received before the children are started, and the flag is set
\* with the first one.
Flagged ==
    /\ pc \in {"startSshd", "startUser"} => ~shuttingDown
    /\ env.allAlive => shuttingDown

\* Main decides on, and drains after, a child it has reaped.
Hit ==
    pc \in {"decide", "drain"} =>
        hit \in Tracked /\ Reaped(hit) /\ first \in Tracked

\* sshd is reaped and main goes on: only in a shutdown that waits for the
\* user's command.
SshdGone ==
    /\ pc = "wait" /\ Reaped("sshd") => shuttingDown /\ conf.user /\ ~Reaped("user")
    /\ pc = "decide" /\ Reaped("sshd") => hit = "sshd" \/ shuttingDown

\* A drain that starts with a reaped child is not the shutdown of two living.
DrainAlone == pc = "drain" => ~env.allAlive

IInv == TypeOK /\ Spawned /\ Flagged /\ Hit /\ SshdGone /\ DrainAlone /\ UserCodeWins

\* TypeOK without its last line, in parts.
CtlOK ==
    /\ conf \in [user : BOOLEAN, follow : BOOLEAN, fatal : Fatal]
    /\ pc \in {"startSshd", "startUser", "wait", "decide", "drain", "exited"}
    /\ hit \in Tracked \cup {NoChild} /\ first \in Tracked \cup {NoChild}
    /\ shuttingDown \in BOOLEAN
    /\ status \in 0 .. 255
    /\ env \in [signals : 0 .. MaxSignals, allAlive : BOOLEAN]
ProcOK ==
    /\ proc \in [Procs -> {"none", "running", "zombie", "reaped"}]
    /\ ws \in [Procs -> [signaled : BOOLEAN, n : 0 .. 127]]
SigOK ==
    /\ sigCh \in Seq(Signals) /\ Len(sigCh) <= SigCap
    /\ forward \in Seq([to : Tracked, sig : Signals]) /\ Len(forward) <= 2
    /\ sent \in [Tracked -> SUBSET (Signals \cup {"TERM"})]
HasChild == pc = "wait" => \E p \in Tracked : proc[p] \in {"running", "zombie"}

USE SignalsAssumption, ProcsAssumption, StatusesAssumption DEF Tracked, Procs, NoChild

\* The parts are all of it.
LEMMA TypeParts == TypeOK <=> CtlOK /\ ProcOK /\ SigOK /\ HasChild
  BY DEF TypeOK, CtlOK, ProcOK, SigOK, HasChild

\* The same in the next state.
LEMMA TypePartsNext == TypeOK' <=> CtlOK' /\ ProcOK' /\ SigOK' /\ HasChild'
  BY DEF TypeOK, CtlOK, ProcOK, SigOK, HasChild

\* What is known between the steps of main implies that Wait4 has a child.
LEMMA ChildToWaitFor == CtlOK /\ ProcOK /\ Spawned /\ SshdGone => HasChild
  BY DEF CtlOK, ProcOK, Spawned, SshdGone, HasChild, Reaped, Has

\* The same in the next state.
LEMMA ChildToWaitForNext == CtlOK' /\ ProcOK' /\ Spawned' /\ SshdGone' => HasChild'
  BY DEF CtlOK, ProcOK, Spawned, SshdGone, HasChild, Reaped, Has

\* waitStatusToExit yields an exit code.
LEMMA CodeOK == ASSUME ProcOK, NEW p \in Procs PROVE Code(p) \in 0 .. 255
<1>1. ws[p].signaled \in BOOLEAN /\ ws[p].n \in 0 .. 127
  BY DEF ProcOK
<1> QED BY <1>1 DEF Code, WaitStatusToExit

Ctl == Spawned /\ Flagged /\ Hit /\ SshdGone /\ DrainAlone /\ UserCodeWins

\* The invariant, put together from what an action's proof shows.
LEMMA Together == ASSUME CtlOK', ProcOK', SigOK', Ctl' PROVE IInv'
  BY TypePartsNext, ChildToWaitForNext DEF IInv, Ctl

\* The invariant taken apart.
LEMMA Apart == ASSUME IInv PROVE CtlOK /\ ProcOK /\ SigOK /\ Ctl
  BY TypeParts DEF IInv, Ctl

\* The invariant holds at the start.
LEMMA InitIInv == Init => IInv
<1> SUFFICES ASSUME Init PROVE IInv
  OBVIOUS
<1>1. CtlOK /\ ProcOK
  <2>1. ws \in [Procs -> [signaled : BOOLEAN, n : 0 .. 127]]
    BY DEF Init
  <2>2. env \in [signals : 0 .. MaxSignals, allAlive : BOOLEAN]
    BY DEF Init
  <2>3. conf \in [user : BOOLEAN, follow : BOOLEAN, fatal : Fatal]
    BY DEF Init
  <2>4. CtlOK
    <3>1. shuttingDown \in BOOLEAN
      BY Zenon DEF Init
    <3>2. /\ pc = "startSshd" /\ hit = "none" /\ first = "none" /\ status = 0
      BY DEF Init
    <3> QED BY <2>2, <2>3, <3>1, <3>2 DEF CtlOK
  <2>5. ProcOK
    BY <2>1 DEF Init, ProcOK
  <2> QED BY <2>4, <2>5
<1>2. SigOK
  BY DEF Init, SigOK
<1>3. Ctl
  BY DEF Init, Ctl, Spawned, Flagged, Hit, SshdGone, DrainAlone, UserCodeWins
<1> QED BY <1>1, <1>2, <1>3, TypeParts, ChildToWaitFor DEF IInv, Ctl

\* The start of a child, which may fail.
LEMMA StartKeeps == ASSUME IInv, StartSshd \/ StartUser PROVE IInv'
<1>0. CtlOK /\ ProcOK /\ SigOK /\ Ctl
  BY Apart
<1>1. CtlOK'
  BY <1>0 DEF StartSshd, StartUser, Start, Exit, CtlOK
<1>2. ProcOK'
  BY <1>0 DEF StartSshd, StartUser, Start, Exit, ProcOK
<1>3. SigOK'
  BY <1>0 DEF StartSshd, StartUser, Start, Exit, SigOK
<1>4. Ctl'
  BY <1>0 DEF StartSshd, StartUser, Start, Exit, CtlOK, ProcOK, Ctl, Spawned, Flagged, Hit,
              SshdGone, DrainAlone, UserCodeWins, Has, Reaped, UserReaped
<1> QED BY <1>1, <1>2, <1>3, <1>4, Together

\* Wait4 returns a child.
LEMMA WaitKeeps == ASSUME IInv, NEW p \in Procs, Wait(p) PROVE IInv'
<1>0. CtlOK /\ ProcOK /\ SigOK /\ Ctl
  BY Apart
<1>1. CtlOK' /\ ProcOK'
  BY <1>0 DEF Wait, CtlOK, ProcOK
<1>2. SigOK'
  BY <1>0 DEF Wait, SigOK
<1>3. Ctl'
  <2>1. CASE p \in Tracked
    <3>1. Flagged' /\ DrainAlone' /\ UserCodeWins'
      BY <1>0, <2>1 DEF Wait, Ctl, Flagged, DrainAlone, UserCodeWins
    <3>4. Spawned'
      <4>1. \A q \in Tracked : proc'[q] = "none" <=> proc[q] = "none"
        BY <1>0, <2>1 DEF Wait, ProcOK
      <4> QED BY <1>0, <2>1, <4>1 DEF Wait, Ctl, Spawned, Has
    <3>2. Hit'
      BY <1>0, <2>1 DEF Wait, CtlOK, ProcOK, Ctl, Hit, Reaped
    <3>3. SshdGone'
      BY <1>0, <2>1 DEF Wait, CtlOK, ProcOK, Ctl, SshdGone, Reaped
    <3> QED BY <3>1, <3>2, <3>3, <3>4 DEF Ctl
  <2>2. CASE p \notin Tracked
    BY <1>0, <2>2 DEF Wait, CtlOK, ProcOK, Ctl, Spawned, Flagged, Hit, SshdGone, DrainAlone,
                      UserCodeWins, Has, Reaped
  <2> QED BY <2>1, <2>2
<1> QED BY <1>1, <1>2, <1>3, Together

\* A reaped child, outside of a shutdown and in one.
LEMMA DecideKeeps == ASSUME IInv, Decide PROVE IInv'
<1>0. CtlOK /\ ProcOK /\ SigOK /\ Ctl
  BY Apart
<1>1. CtlOK' /\ ProcOK'
  BY <1>0 DEF Decide, CtlOK, ProcOK
<1>2. SigOK'
  <2>1. sigCh' = sigCh /\ forward' = forward
    BY DEF Decide
  <2>2. sent' \in [Tracked -> SUBSET (Signals \cup {"TERM"})]
    BY <1>0 DEF Decide, Kill, SigOK
  <2> QED BY <1>0, <2>1, <2>2 DEF SigOK
<1>3. Ctl'
  BY <1>0 DEF Decide, EndsPod, CtlOK, Ctl, Spawned, Flagged, Hit, SshdGone, DrainAlone,
              UserCodeWins, Has, Reaped
<1> QED BY <1>1, <1>2, <1>3, Together

\* The first tracked exit is noticed after a signal: the drain follows.
LEMMA DecideInShutdownKeeps == ASSUME IInv, DecideInShutdown PROVE IInv'
<1>0. CtlOK /\ ProcOK /\ SigOK /\ Ctl /\ pc = "decide"
  BY Apart DEF DecideInShutdown
<1>1. first \in Tracked /\ hit \in Tracked
  BY <1>0 DEF Ctl, Hit
<1>2. Code(first) \in 0 .. 255 /\ Code("user") \in 0 .. 255
  BY <1>0, <1>1, CodeOK
<1>3. ProcOK' /\ SigOK'
  BY <1>0 DEF DecideInShutdown, ProcOK, SigOK
<1>4. CASE UserReaped \/ AllTrackedReaped
  <2>1. /\ pc' = "exited" /\ status' = UserExitOr(Code(first)) /\ conf' = conf
        /\ hit' = hit /\ first' = first /\ shuttingDown' = shuttingDown /\ env' = env
        /\ proc' = proc /\ ws' = ws
    BY <1>4 DEF DecideInShutdown, Exit
  <2>2. CtlOK'
    BY <1>0, <1>2, <2>1 DEF CtlOK, UserExitOr
  <2>3. UserCodeWins'
    BY <1>4, <2>1 DEF UserCodeWins, UserExitOr, UserReaped, AllTrackedReaped, Has, Reaped, Code
  <2>4. Ctl'
    BY <1>0, <2>1, <2>3 DEF Ctl, Spawned, Flagged, Hit, SshdGone, DrainAlone
  <2> QED BY <1>3, <2>2, <2>4, Together
<1>5. CASE ~(UserReaped \/ AllTrackedReaped)
  <2>1. /\ pc' = "wait" /\ status' = status /\ conf' = conf /\ shuttingDown
        /\ hit' = hit /\ first' = first /\ shuttingDown' = shuttingDown /\ env' = env
        /\ proc' = proc /\ ws' = ws
    BY <1>5 DEF DecideInShutdown, Exit
  <2>2. CtlOK'
    BY <1>0, <2>1 DEF CtlOK
  <2>3. SshdGone'
    BY <1>5, <2>1 DEF SshdGone, UserReaped, AllTrackedReaped, Reaped, Has
  <2>4. Ctl'
    BY <1>0, <2>1, <2>3 DEF Ctl, Spawned, Flagged, Hit, DrainAlone, UserCodeWins, Has
  <2> QED BY <1>3, <2>2, <2>4, Together
<1> QED BY <1>4, <1>5

\* drainReapsBlocking.
LEMMA DrainKeeps == ASSUME IInv, NEW p \in Procs, Drain(p) PROVE IInv'
<1>0. CtlOK /\ ProcOK /\ SigOK /\ Ctl
  BY Apart
<1>1. CtlOK' /\ ProcOK'
  BY <1>0 DEF Drain, CtlOK, ProcOK
<1>2. SigOK'
  BY <1>0 DEF Drain, SigOK
<1>3. Ctl'
  <2>1. \A q \in Procs : /\ proc'[q] = "none" <=> proc[q] = "none"
                         /\ proc[q] = "reaped" => proc'[q] = "reaped"
    BY <1>0 DEF Drain, ProcOK
  <2> QED BY <1>0, <2>1 DEF Drain, Ctl, Spawned, Flagged, Hit, SshdGone, DrainAlone,
                            UserCodeWins, Has, Reaped
<1> QED BY <1>1, <1>2, <1>3, Together

\* The drain has reaped every child.
LEMMA DrainedKeeps == ASSUME IInv, Drained PROVE IInv'
<1>0. CtlOK /\ ProcOK /\ SigOK /\ Ctl /\ pc = "drain"
  BY Apart DEF Drained
<1>1. hit \in Tracked
  BY <1>0 DEF Ctl, Hit
<1>2. Code(hit) \in 0 .. 255
  BY <1>0, <1>1, CodeOK
<1>3. /\ pc' = "exited" /\ status' = Code(hit) /\ conf' = conf
      /\ hit' = hit /\ first' = first /\ shuttingDown' = shuttingDown /\ env' = env
  BY DEF Drained, Exit
<1>4. CtlOK'
  BY <1>0, <1>2, <1>3 DEF CtlOK
<1>5. ProcOK' /\ SigOK'
  BY <1>0 DEF Drained, ProcOK, SigOK
<1>6. Ctl'
  BY <1>0, <1>3 DEF Ctl, Spawned, Flagged, Hit, SshdGone, DrainAlone, UserCodeWins
<1> QED BY <1>4, <1>5, <1>6, Together

\* The forwarding goroutine receives a signal: all children are alive then, or
\* main is not waiting for the first of them any more.
LEMMA ReceiveKeeps == ASSUME IInv, Receive PROVE IInv'
<1>0. CtlOK /\ ProcOK /\ SigOK /\ Ctl
  BY Apart
<1>1. /\ conf' = conf /\ pc' = pc /\ proc' = proc /\ ws' = ws /\ hit' = hit
      /\ first' = first /\ sent' = sent /\ status' = status /\ shuttingDown' = TRUE
      /\ pc \in {"wait", "decide", "drain"}
  BY <1>0 DEF Receive, Started, CtlOK
<1>2. /\ env' \in [signals : 0 .. MaxSignals, allAlive : BOOLEAN]
      /\ env'.allAlive => \/ env.allAlive
                          \/ \A p \in Tracked : Has(p) => proc[p] = "running"
  BY <1>0 DEF Receive, CtlOK
<1>3. CtlOK' /\ ProcOK'
  BY <1>0, <1>1, <1>2 DEF CtlOK, ProcOK
<1>4. SigOK'
  <2>1. sigCh \in Seq(Signals) /\ sigCh # <<>>
    BY <1>0 DEF SigOK, Receive
  <2>2. /\ Head(sigCh) \in Signals /\ Tail(sigCh) \in Seq(Signals)
        /\ Len(Tail(sigCh)) = Len(sigCh) - 1
    BY <2>1, HeadTailProperties
  <2>3. Len(sigCh) \in Nat
    BY <2>1
  <2>4. sigCh' \in Seq(Signals) /\ Len(sigCh') <= SigCap
    BY <1>0, <2>2, <2>3 DEF Receive, SigOK
  <2>5. DOMAIN Children \in {1 .. 1, 1 .. 2} /\ \A i \in DOMAIN Children : Children[i] \in Tracked
    <3>1. CASE conf.user
      BY <3>1 DEF Children
    <3>2. CASE ~conf.user
      BY <3>2 DEF Children
    <3> QED BY <3>1, <3>2
  <2>6. PICK n \in {1, 2} : DOMAIN Children = 1 .. n
    BY <2>5
  <2>7. forward' \in [1 .. n -> [to : Tracked, sig : Signals]]
    BY <2>2, <2>5, <2>6 DEF Receive
  <2>8. forward' \in Seq([to : Tracked, sig : Signals]) /\ Len(forward') = n
    <3> DEFINE F == [to : Tracked, sig : Signals]
    <3>1. forward' \in [1 .. n -> F] /\ n \in Nat
      BY <2>7
    <3> HIDE DEF F
    <3>2. forward' \in Seq(F) /\ Len(forward') = n
      BY <3>1
    <3> QED BY <3>2 DEF F
  <2> QED BY <1>0, <1>1, <2>4, <2>8 DEF SigOK
<1>5. env'.allAlive => pc = "wait" \/ env.allAlive
  BY <1>0, <1>1, <1>2 DEF Ctl, Hit, Spawned, Reaped
<1>6. Ctl'
  BY <1>0, <1>1, <1>5 DEF Ctl, Spawned, Flagged, Hit, SshdGone, DrainAlone, UserCodeWins,
                          Has, Reaped
<1> QED BY <1>3, <1>4, <1>6, Together

\* The goroutine forwards a signal to one child.
LEMMA ForwardOneKeeps == ASSUME IInv, ForwardOne PROVE IInv'
<1>0. CtlOK /\ ProcOK /\ SigOK /\ Ctl
  BY Apart
<1>1. CtlOK' /\ ProcOK'
  BY <1>0 DEF ForwardOne, CtlOK, ProcOK
<1>2. SigOK'
  <2> DEFINE F == [to : Tracked, sig : Signals]
  <2>1. forward \in Seq(F) /\ forward # <<>>
    BY <1>0 DEF SigOK, ForwardOne
  <2> HIDE DEF F
  <2>2. /\ Head(forward) \in F /\ Tail(forward) \in Seq(F)
        /\ Len(Tail(forward)) = Len(forward) - 1 /\ Len(forward) \in Nat
    BY <2>1, HeadTailProperties
  <2>3. Head(forward).sig \in Signals
    BY <2>2 DEF F
  <2>4. sent' \in [Tracked -> SUBSET (Signals \cup {"TERM"})]
    BY <1>0, <2>3 DEF ForwardOne, Kill, SigOK
  <2>5. sigCh' = sigCh /\ forward' = Tail(forward)
    BY DEF ForwardOne
  <2> QED BY <1>0, <2>2, <2>4, <2>5 DEF SigOK, F
<1>3. Ctl'
  BY <1>0 DEF ForwardOne, Ctl, Spawned, Flagged, Hit, SshdGone, DrainAlone, UserCodeWins,
              Has, Reaped, UserReaped, Code
<1> QED BY <1>1, <1>2, <1>3, Together

\* A signal arrives; the channel takes it or it is lost.
LEMMA SignalKeeps == ASSUME IInv, NEW s \in Signals, Signal(s) PROVE IInv'
<1>0. CtlOK /\ ProcOK /\ SigOK /\ Ctl
  BY Apart
<1>1. env' \in [signals : 0 .. MaxSignals, allAlive : BOOLEAN] /\ env'.allAlive = env.allAlive
  BY <1>0 DEF Signal, CtlOK
<1>2. CtlOK' /\ ProcOK'
  BY <1>0, <1>1 DEF Signal, CtlOK, ProcOK
<1>3. SigOK'
  <2>1. /\ Append(sigCh, s) \in Seq(Signals) /\ Len(Append(sigCh, s)) = Len(sigCh) + 1
        /\ Len(sigCh) \in Nat
    BY <1>0 DEF SigOK
  <2>2. sigCh' \in Seq(Signals) /\ Len(sigCh') <= SigCap
    BY <1>0, <2>1 DEF Signal, SigOK
  <2> QED BY <1>0, <2>2 DEF Signal, SigOK
<1>4. Ctl'
  BY <1>0, <1>1 DEF Signal, Ctl, Spawned, Flagged, Hit, SshdGone, DrainAlone, UserCodeWins,
                    Has, Reaped
<1> QED BY <1>2, <1>3, <1>4, Together

\* A process ends, or is reparented to PID 1.
LEMMA EndsKeeps == ASSUME IInv, NEW p \in Procs, Ends(p) PROVE IInv'
<1>0. CtlOK /\ ProcOK /\ SigOK /\ Ctl
  BY Apart
<1>1. CtlOK' /\ ProcOK'
  BY <1>0 DEF Ends, CtlOK, ProcOK
<1>2. SigOK'
  BY <1>0 DEF Ends, SigOK
<1>3. \A q \in Procs : /\ proc'[q] = "none" <=> proc[q] = "none"
                       /\ proc'[q] = "reaped" <=> proc[q] = "reaped"
                       /\ proc[q] \in {"running", "zombie"} => proc'[q] \in {"running", "zombie"}
  BY <1>0 DEF Ends, ProcOK
<1>4. Ctl'
  BY <1>0, <1>3 DEF Ends, CtlOK, Ctl, Spawned, Flagged, Hit, SshdGone, DrainAlone, UserCodeWins,
                    Has, Reaped
<1> QED BY <1>1, <1>2, <1>4, Together

\* An orphan becomes a child of the supervisor.
LEMMA ReparentKeeps == ASSUME IInv, NEW o \in Orphans, Reparent(o) PROVE IInv'
<1>0. CtlOK /\ ProcOK /\ SigOK /\ Ctl
  BY Apart
<1>1. CtlOK' /\ ProcOK'
  BY <1>0 DEF Reparent, CtlOK, ProcOK
<1>2. SigOK'
  BY <1>0 DEF Reparent, SigOK
<1>3. \A q \in Tracked : proc'[q] = proc[q]
  BY <1>0 DEF Reparent, ProcOK
<1>4. Ctl'
  BY <1>0, <1>3 DEF Reparent, CtlOK, Ctl, Spawned, Flagged, Hit, SshdGone, DrainAlone,
                    UserCodeWins, Has, Reaped, Started
<1> QED BY <1>1, <1>2, <1>4, Together

\* Every step keeps the invariant.
LEMMA NextIInv == IInv /\ [Next]_vars => IInv'
<1> SUFFICES ASSUME IInv, [Next]_vars PROVE IInv'
  OBVIOUS
<1>1. CASE Main
  BY <1>1, StartKeeps, WaitKeeps, DecideKeeps, DecideInShutdownKeeps, DrainKeeps,
     DrainedKeeps DEF Main
<1>2. CASE Forwarder
  BY <1>2, ReceiveKeeps, ForwardOneKeeps DEF Forwarder
<1>3. CASE UNCHANGED vars
  BY <1>3 DEF vars, IInv, TypeOK, Spawned, Flagged, Hit, SshdGone, DrainAlone, UserCodeWins,
              Has, Reaped, UserReaped, Code
<1> QED BY <1>1, <1>2, <1>3, SignalKeeps, EndsKeeps, ReparentKeeps DEF Next

\* IInv is an invariant of the supervisor.
THEOREM SupervisorInductive == Spec => []IInv
  BY InitIInv, NextIInv, PTL DEF Spec

\* Every state of the supervisor is well typed; the channel of signals and the
\* forwarding keep their bounds, exit codes are below 256, and whenever main
\* calls Wait4 there is a tracked child to wait for.
THEOREM SupervisorTypeCorrect == Spec => []TypeOK
<1>1. IInv => TypeOK BY DEF IInv
<1> QED BY SupervisorInductive, <1>1, PTL

\* A shutdown that begins while both children live ends with the exit code of
\* the user's command, whichever child ends first.
THEOREM UserCodeAlwaysWins == Spec => []UserCodeWins
<1>1. IInv => UserCodeWins BY DEF IInv
<1> QED BY SupervisorInductive, <1>1, PTL
=============================================================================
