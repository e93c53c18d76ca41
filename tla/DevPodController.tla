-------------------------- MODULE DevPodController --------------------------
(***************************************************************************)
(* The DevPod reconciler (internal/controllers/devpod_controller.go) and   *)
(* the part of a cluster it talks to.                                      *)
(*                                                                         *)
(* One worker takes DevPod names off the work queue and performs Reconcile *)
(* one API call at a time, reading from the informer caches, so that       *)
(* users, the kubelet, the garbage collector and the watch streams         *)
(* interleave with it; any call may fail and the process may restart.      *)
(***************************************************************************)
EXTENDS ApiServer

CONSTANTS
    Names,            \* names of DevPods (Pod, Service, Secret and PVC derive theirs)
    OwnerOf,          \* spec.owner of the DevPod of each name (immutable, see the CRD's CEL)
    VMBacked,         \* the names whose DevPods set spec.vm instead of spec.pod
    HostNetwork,      \* the names whose pod template sets hostNetwork
    IsolateNetwork,   \* GatewayConfig.spec.isolateNetwork
    Persistence,      \* the choices of spec.persistence at creation, a subset of BOOLEAN
    Edits,            \* the spec fields users edit: subset of {"running","template","persistence"}
    MaxDevPods,       \* bound: DevPods ever created
    MaxEdits,         \* bound: spec edits
    MaxPodFaults,     \* bound: pods that fail or finish
    MaxRetry,         \* bound: RetryCount (a cache that still shows the failed pod counts it again)
    MaxFaults,        \* bound: failed API calls and controller restarts
    MaxTime           \* bound: ticks of the clock, 10 seconds each, unless a timer runs

VARIABLES
    pol,       \* pol[owner]: the port the owner's allow NetworkPolicy admits, or NoPolicy
    deny,      \* whether the namespace's default-deny NetworkPolicy exists
    timer,     \* timer[name]: when a delayed requeue falls due, 0 if there is none
    pc,        \* pc[name]: the next call of the reconcile of name, "idle" if there is none
    d,         \* the worker's in-memory copy of the DevPod it reconciles
    ra,        \* the reconciler's requeueAfter field, in ticks
    ids,       \* ids[kind]: the last uid handed out
    promised,  \* promised[name]: the uids of DevPods deleted with their home in the cache's sight
    now, edits, podFaults, faults

vars == <<api, cache, events, pol, deny, queue, timer, pc, d, ra, ids,
          promised, now, edits, podFaults, faults>>
world == <<pol, deny, timer, promised, now, edits, podFaults, faults>>
worker == <<pc, d, ra>>

Kinds == {"dp", "pod", "pvc", "sec", "svc"}
Owners == {OwnerOf[n] : n \in Names}
Phases == {"", "Pending", "Running", "Failed", "Stopped"}
PodPhases == {"Pending", "Running", "Failed", "Succeeded"}
Finished == {"Failed", "Succeeded"}
ApplySteps == {"secret", "pvc", "pod", "delfailed", "svc", "deny", "allow"}
DeleteSteps == {"detach", "netpol", "rmfin"}
Steps == {"idle", "addfin", "hibernate", "status"} \cup ApplySteps \cup DeleteSteps

ASSUME ConstantsOK ==
    /\ HostNetwork \subseteq Names /\ VMBacked \subseteq Names
    /\ IsolateNetwork \in BOOLEAN /\ Persistence \subseteq BOOLEAN
    /\ Edits \subseteq {"running", "template", "persistence"}
    /\ Lag \in [Kinds -> Nat]
    /\ MaxTime \in Nat \ {0} /\ MaxDevPods \in Nat /\ MaxEdits \in Nat
    /\ MaxPodFaults \in Nat /\ MaxFaults \in Nat /\ MaxRetry \in Nat

-----------------------------------------------------------------------------
(* Objects.  uid 0 means absent; a pod's uid stands for its IP as well, a   *)
(* Secret's for the host key in it and a PVC's for the data on it.          *)

\* DevPodStatus: ep is the endpoint's pod (0: ""), failAt and hibAt are
\* LastFailureAt and HibernatedAt (0: nil).
Status == [phase : Phases, ep : Nat, retry : Nat, failAt : Nat, hibAt : Nat]
NewStatus == [phase |-> "", ep |-> 0, retry |-> 0, failAt |-> 0, hibAt |-> 0]

DevPod == [uid : Nat, fin : BOOLEAN, del : BOOLEAN, running : BOOLEAN,
           tmpl : {0, 1}, persist : BOOLEAN, st : Status]
NoDevPod == [uid |-> 0, fin |-> FALSE, del |-> FALSE, running |-> FALSE,
             tmpl |-> 0, persist |-> FALSE, st |-> NewStatus]

\* tmpl of a pod is its spec-hash annotation, term its deletionTimestamp.
Pod == [uid : Nat, owner : Nat, tmpl : {0, 1}, phase : PodPhases, term : BOOLEAN]
NoPod == [uid |-> 0, owner |-> 0, tmpl |-> 0, phase |-> "Pending", term |-> FALSE]

\* owner is the uid in the DevPod ownerReference, 0 if there is none.
Owned == [uid : Nat, owner : Nat]
NoOwned == [uid |-> 0, owner |-> 0]

Object(k) == IF k = "dp" THEN DevPod ELSE IF k = "pod" THEN Pod ELSE Owned
Absent(k) == IF k = "dp" THEN NoDevPod ELSE IF k = "pod" THEN NoPod ELSE NoOwned

DefaultPort == 0
NoPolicy == -1

\* BackendPort: the port of the DevPod's sshd; derived from the uid under hostNetwork.
BackendPort(n, x) == IF n \in HostNetwork THEN x.uid ELSE DefaultPort

\* failureBackoff in ticks of 10s: doubles with each retry, at most 5 minutes
\* (the sixth doubling, 320s, is cut to 300s).
failureBackoff(r) ==
    <<1, 2, 4, 8, 16, 30>>[IF r < 1 THEN 1 ELSE IF r > 6 THEN 6 ELSE r]

AnyObject == DevPod \cup Pod \cup Owned

\* The stores of the API server, the caches and the watch streams hold objects
\* of their kinds, and the work queue holds names.
StoreOK ==
    /\ api \in [Kinds -> [Names -> AnyObject]]
    /\ cache \in [Kinds -> [Names -> AnyObject]]
    /\ events \in [Kinds -> Seq([n : Names, o : AnyObject])]
    /\ \A k \in Kinds : /\ api[k] \in [Names -> Object(k)]
                        /\ cache[k] \in [Names -> Object(k)]
                        /\ events[k] \in Seq([n : Names, o : Object(k)])
                        /\ Len(events[k]) <= Lag[k]
    /\ queue \subseteq Names

TypeOK ==
    /\ StoreOK
    /\ pol \in [Owners -> Nat \cup {NoPolicy}] /\ deny \in BOOLEAN
    /\ timer \in [Names -> Nat]
    /\ pc \in [Names -> Steps] /\ d \in DevPod /\ ra \in Nat
    /\ ids \in [Kinds -> Nat]
    /\ promised \in [Names -> SUBSET Nat]
    /\ now \in Nat \ {0} /\ edits \in 0..MaxEdits
    /\ podFaults \in 0..MaxPodFaults /\ faults \in 0..MaxFaults

Init ==
    /\ api = [k \in Kinds |-> [n \in Names |-> Absent(k)]]
    /\ cache = api
    /\ events = [k \in Kinds |-> <<>>]
    /\ pol = [o \in Owners |-> NoPolicy] /\ deny = FALSE
    /\ queue = {} /\ timer = [n \in Names |-> 0]
    /\ pc = [n \in Names |-> "idle"] /\ d = NoDevPod /\ ra = 0
    /\ ids = [k \in Kinds |-> 0] /\ promised = [n \in Names |-> {}]
    /\ now = 1 /\ edits = 0 /\ podFaults = 0 /\ faults = 0

-----------------------------------------------------------------------------
(* The API server and the informers. *)

\* A watch event reaches the informer cache and its handler.
Deliver(k) == DeliverEvent(k) /\ UNCHANGED <<ids, worker, world>>

\* The API server's response to a Pod delete: a finished pod goes at once,
\* any other gets its deletionTimestamp and the kubelet ends it (PodGone).
DeletedPod(p) == IF p.uid = 0 \/ p.phase \in Finished THEN NoPod
                 ELSE [p EXCEPT !.term = TRUE]

-----------------------------------------------------------------------------
(* Users of the API: kubectl and the web UI. *)

CreateDevPod(n, persist) ==
    /\ api["dp"][n].uid = 0 /\ ids["dp"] < MaxDevPods
    /\ ids' = [ids EXCEPT !["dp"] = @ + 1]
    /\ Put("dp", n, [NoDevPod EXCEPT !.uid = ids["dp"] + 1, !.running = TRUE,
                                     !.persist = persist], queue)
    /\ UNCHANGED <<worker, world>>

\* spec.persistence may be taken back, of a deleted DevPod too.
EditDevPod(n, field) ==
    LET x == api["dp"][n]
        y == IF field = "running" THEN [x EXCEPT !.running = ~@]
             ELSE IF field = "template" THEN [x EXCEPT !.tmpl = 1 - @]
             ELSE [x EXCEPT !.persist = ~@]
    IN  /\ x.uid # 0 /\ edits < MaxEdits
        /\ edits' = edits + 1
        /\ Put("dp", n, y, queue)
        /\ promised' = IF field = "persistence" THEN [promised EXCEPT ![n] = @ \ {x.uid}]
                       ELSE promised
        /\ UNCHANGED <<worker, ids, pol, deny, timer, now, podFaults, faults>>

\* The cache shows object k of name n as it is stored.
UpToDateAt(k, n) == /\ cache[k][n] = api[k][n]
                    /\ \A i \in 1..Len(events[k]) : events[k][i].n # n

\* With a finalizer the object stays, marked; without one it goes at once.
DeleteDevPod(n) ==
    LET x == api["dp"][n]
    IN  /\ x.uid # 0 /\ ~x.del
        /\ Put("dp", n, IF x.fin THEN [x EXCEPT !.del = TRUE] ELSE NoDevPod, queue)
        /\ promised' = IF /\ x.fin /\ x.persist
                          /\ api["pvc"][n].owner = x.uid /\ UpToDateAt("pvc", n)
                       THEN [promised EXCEPT ![n] = @ \cup {x.uid}] ELSE promised
        /\ UNCHANGED <<worker, ids, pol, deny, timer, now, edits, podFaults, faults>>

-----------------------------------------------------------------------------
(* The kubelet, the garbage collector and the clock. *)

\* A pod starts once its Secret exists to be mounted; it then has an IP.
PodRuns(n) ==
    LET p == api["pod"][n]
    IN  /\ p.uid # 0 /\ p.phase = "Pending" /\ ~p.term /\ api["sec"][n].uid # 0
        /\ Put("pod", n, [p EXCEPT !.phase = "Running"], queue)
        /\ UNCHANGED <<worker, ids, world>>

\* A pod fails, or its containers exit with status 0 and its restartPolicy
\* (a field of the user's template) does not start them again.
PodEnds(n, phase) ==
    LET p == api["pod"][n]
    IN  /\ p.uid # 0 /\ p.phase \notin Finished /\ podFaults < MaxPodFaults
        /\ phase = "Succeeded" => p.phase = "Running"
        /\ podFaults' = podFaults + 1
        /\ Put("pod", n, [p EXCEPT !.phase = phase], queue)
        /\ UNCHANGED <<worker, ids, pol, deny, timer, promised, now, edits, faults>>

PodGone(n) ==
    /\ api["pod"][n].uid # 0 /\ api["pod"][n].term
    /\ Put("pod", n, NoPod, queue)
    /\ UNCHANGED <<worker, ids, world>>

\* The garbage collector deletes an object whose owner no longer exists.
Collect(k, n) ==
    /\ api[k][n].uid # 0 /\ api[k][n].owner # 0
    /\ api[k][n].owner # api["dp"][n].uid
    /\ k = "pod" => ~api[k][n].term
    /\ Put(k, n, IF k = "pod" THEN DeletedPod(api[k][n]) ELSE NoOwned, queue)
    /\ UNCHANGED <<worker, ids, world>>

Tick ==
    /\ now < MaxTime \/ \E n \in Names : timer[n] > now
    /\ now' = now + 1
    /\ UNCHANGED <<api, cache, events, pol, deny, queue, timer, worker, ids,
                   promised, edits, podFaults, faults>>

-----------------------------------------------------------------------------
(* The work queue and the end of a reconcile. *)

\* Reconcile returned: with no requeue (q = queue), with an error or
\* Requeue (q = queue \cup {n}).
Return == /\ pc' = [n \in Names |-> "idle"] /\ d' = NoDevPod /\ ra' = 0

\* A reconcile fails after a conflict, an unexpected NotFound or a check of
\* its own: nothing is written and the name comes back.
Fail(n) == NoPut(queue \cup {n}) /\ Return /\ UNCHANGED <<ids, world>>

Goto(n, step) == pc' = [pc EXCEPT ![n] = step]

\* Mutant: the error of a call is logged and not returned.
CallFailsSwallowed(n) ==
    /\ pc[n] # "idle" /\ faults < MaxFaults
    /\ faults' = faults + 1
    /\ NoPut(queue) /\ Return
    /\ UNCHANGED <<ids, pol, deny, timer, promised, now, edits, podFaults>>

\* Any API call of a reconcile may fail.
CallFails(n) ==
    /\ pc[n] # "idle" /\ faults < MaxFaults
    /\ faults' = faults + 1
    /\ NoPut(queue \cup {n}) /\ Return
    /\ UNCHANGED <<ids, pol, deny, timer, promised, now, edits, podFaults>>

\* The controller restarts: the worker's state and the delayed requeues are
\* lost, the caches are listed afresh and every object found is enqueued.
Restart ==
    /\ faults < MaxFaults
    /\ faults' = faults + 1
    /\ cache' = api /\ events' = [k \in Kinds |-> <<>>]
    /\ queue' = {n \in Names : \E k \in Kinds : api[k][n].uid # 0}
    /\ timer' = [n \in Names |-> 0]
    /\ Return
    /\ UNCHANGED <<api, ids, pol, deny, promised, now, edits, podFaults>>

\* A delayed requeue falls due.
TimerFires(n) ==
    /\ timer[n] # 0 /\ timer[n] <= now
    /\ timer' = [timer EXCEPT ![n] = 0]
    /\ NoPut(queue \cup {n})
    /\ UNCHANGED <<worker, ids, pol, deny, promised, now, edits, podFaults, faults>>

-----------------------------------------------------------------------------
(* Reconcile. *)

\* Mutant: the deletion path does not call detachPVC.
FirstStepNoDetach(n, x) ==
    IF x.uid = 0 THEN "idle"
    ELSE IF x.del THEN "netpol"
    ELSE IF ~x.fin THEN "addfin"
    ELSE IF ~x.running THEN "hibernate"
    ELSE IF n \in VMBacked THEN "idle"
    ELSE "secret"

\* The branch Reconcile takes for the DevPod it reads.
FirstStep(n, x) ==
    IF x.uid = 0 THEN "idle"
    ELSE IF x.del THEN "detach"
    ELSE IF ~x.fin THEN "addfin"
    ELSE IF ~x.running THEN "hibernate"
    ELSE IF n \in VMBacked THEN "idle"
    ELSE "secret"

\* The one worker takes a name and reads its DevPod from the cache.
Reconcile(n) ==
    LET x == cache["dp"][n]
        step == FirstStep(n, x)
    IN  /\ n \in queue /\ \A m \in Names : pc[m] = "idle"
        /\ NoPut(queue \ {n})
        /\ Goto(n, step)
        /\ d' = IF step = "idle" THEN NoDevPod ELSE x
        /\ ra' = 0
        /\ UNCHANGED <<ids, world>>

\* detachPVC: strip our ownerReference from the home PVC as the cache shows it.
DetachPVC(n) ==
    LET c == cache["pvc"][n]
        p == api["pvc"][n]
        skip == ~d.persist \/ c.uid = 0 \/ c.owner # d.uid
    IN  /\ pc[n] = "detach"
        /\ IF ~skip /\ p.uid = 0 THEN Fail(n)
           ELSE /\ IF skip THEN NoPut(queue)
                   ELSE Put("pvc", n, [p EXCEPT !.owner = 0], queue)
                /\ Goto(n, "netpol")
                /\ UNCHANGED <<d, ra, ids, world>>

\* Mutant: the list of siblings is not consulted.
LiveSiblingIgnored(n, x) == FALSE

\* A DevPod in the cached list that keeps the owner's policy while x is deleted.
LiveSibling(n, x) ==
    \E m \in Names : /\ cache["dp"][m].uid \notin {0, x.uid}
                     /\ OwnerOf[m] = OwnerOf[n]
                     /\ ~cache["dp"][m].del

\* cleanupOwnerNetPolIfLast
CleanupOwnerNetPolIfLast(n) ==
    /\ pc[n] = "netpol"
    /\ pol' = IF LiveSibling(n, d) THEN pol ELSE [pol EXCEPT ![OwnerOf[n]] = NoPolicy]
    /\ Goto(n, "rmfin")
    /\ NoPut(queue)
    /\ UNCHANGED <<d, ra, ids, deny, timer, promised, now, edits, podFaults, faults>>

\* Update carries the resourceVersion the cache had: it conflicts unless the
\* object is still the one that was read.
RemoveFinalizer(n) ==
    /\ pc[n] = "rmfin"
    /\ IF d # api["dp"][n] THEN Fail(n)
       ELSE /\ Put("dp", n, NoDevPod, queue)
            /\ Return /\ UNCHANGED <<ids, world>>

AddFinalizer(n) ==
    /\ pc[n] = "addfin"
    /\ IF d # api["dp"][n] THEN Fail(n)
       ELSE /\ Put("dp", n, [d EXCEPT !.fin = TRUE], queue \cup {n})
            /\ Return /\ UNCHANGED <<ids, world>>

\* Mutant: the pod is left running.
HibernateKeepsPod(n) ==
    /\ pc[n] = "hibernate"
    /\ NoPut(queue)
    /\ Goto(n, "status")
    /\ UNCHANGED <<d, ra, ids, world>>

\* hibernate
Hibernate(n) ==
    /\ pc[n] = "hibernate"
    /\ Put("pod", n, DeletedPod(api["pod"][n]), queue)
    /\ Goto(n, "status")
    /\ UNCHANGED <<d, ra, ids, world>>

\* Mutant: a Secret the cache does not show is applied, not created.
EnsureHostKeySecretApplied(n) ==
    LET c == cache["sec"][n]
    IN  /\ pc[n] = "secret"
        /\ IF c.uid # 0 THEN NoPut(queue) /\ UNCHANGED ids
           ELSE /\ ids' = [ids EXCEPT !["sec"] = @ + 1]
                /\ Put("sec", n, [uid |-> ids["sec"] + 1, owner |-> d.uid], queue)
        /\ Goto(n, "pvc")
        /\ UNCHANGED <<d, ra, world>>

\* ensureHostKeySecret: a cached Secret must be ours; a missing one is
\* created with a new key, and AlreadyExists is not an error.
EnsureHostKeySecret(n) ==
    LET c == cache["sec"][n]
        create == c.uid = 0 /\ api["sec"][n].uid = 0
    IN  /\ pc[n] = "secret"
        /\ IF c.uid # 0 /\ c.owner # d.uid THEN Fail(n)
           ELSE /\ ids' = IF create THEN [ids EXCEPT !["sec"] = @ + 1] ELSE ids
                /\ IF create
                   THEN Put("sec", n, [uid |-> ids["sec"] + 1, owner |-> d.uid], queue)
                   ELSE NoPut(queue)
                /\ Goto(n, "pvc")
                /\ UNCHANGED <<d, ra, world>>

\* Server-side apply of an owned object: created if absent, else our
\* ownerReference replaces the one an earlier DevPod of the name applied.
ApplyOwned(k, n) ==
    LET x == api[k][n]
    IN  /\ ids' = IF x.uid = 0 THEN [ids EXCEPT ![k] = @ + 1] ELSE ids
        /\ Put(k, n, [uid |-> IF x.uid = 0 THEN ids[k] + 1 ELSE x.uid,
                      owner |-> d.uid], queue)

\* applyPVC
ApplyPVC(n) ==
    /\ pc[n] = "pvc"
    /\ IF d.persist THEN ApplyOwned("pvc", n) ELSE NoPut(queue) /\ UNCHANGED ids
    /\ Goto(n, "pod")
    /\ UNCHANGED <<d, ra, world>>

\* A merge patch of the status: only the fields that differ from the base the
\* patch was computed against are written.
MergePatch(cur, base, new) ==
    [f \in DOMAIN cur |-> IF new[f] = base[f] THEN cur[f] ELSE new[f]]

\* Server-side apply of the rendered pod: created if absent; a pod of
\* another template has immutable fields and the apply is Invalid.
ApplyPod(n) ==
    LET p == api["pod"][n]
    IN  IF p.uid # 0 /\ p.tmpl # d.tmpl THEN Fail(n)
        ELSE /\ ids' = IF p.uid = 0 THEN [ids EXCEPT !["pod"] = @ + 1] ELSE ids
             /\ Put("pod", n,
                    IF p.uid = 0
                    THEN [NoPod EXCEPT !.uid = ids["pod"] + 1, !.owner = d.uid, !.tmpl = d.tmpl]
                    ELSE [p EXCEPT !.owner = d.uid], queue)
             /\ Goto(n, "svc") /\ UNCHANGED <<d, ra, world>>

\* handleFailedPod up to the status patch; the response refreshes d.
RecordFailure(n) ==
    LET cur == api["dp"][n]
        new == [d.st EXCEPT !.phase = "Failed", !.retry = @ + 1, !.failAt = now]
        upd == [cur EXCEPT !.st = MergePatch(cur.st, d.st, new)]
    IN  IF cur.uid = 0 THEN Fail(n)
        ELSE /\ d.st.retry < MaxRetry
             /\ Put("dp", n, upd, queue)
             /\ d' = upd
             /\ Goto(n, "delfailed") /\ UNCHANGED <<ra, ids, world>>

\* The last recorded failure is younger than its backoff window.
InBackoff(st) == st.failAt # 0 /\ now - st.failAt < failureBackoff(st.retry)

\* Mutant: the operands of the subtraction are swapped.
BackoffLeftSwapped(st) == (now - st.failAt) - failureBackoff(st.retry)

\* What is left of that window.
BackoffLeft(st) == failureBackoff(st.retry) - (now - st.failAt)

\* applyPodWithDriftRecreate, by the pod the cache shows.
ApplyPodWithDriftRecreate(n) ==
    LET live == cache["pod"][n]
    IN  /\ pc[n] = "pod"
        /\ IF live.uid # 0 /\ live.phase = "Failed" THEN RecordFailure(n)
           ELSE IF live.uid # 0 /\ live.tmpl # d.tmpl
           THEN /\ Put("pod", n, DeletedPod(api["pod"][n]), queue)
                /\ Goto(n, "svc") /\ UNCHANGED <<d, ra, ids, world>>
           ELSE IF live.uid = 0 /\ InBackoff(d.st)
           THEN /\ ra' = BackoffLeft(d.st)
                /\ NoPut(queue) /\ Goto(n, "svc") /\ UNCHANGED <<d, ids, world>>
           ELSE ApplyPod(n)

\* handleFailedPod after the status patch.
DeleteFailedPod(n) ==
    /\ pc[n] = "delfailed"
    /\ Put("pod", n, DeletedPod(api["pod"][n]), queue)
    /\ ra' = failureBackoff(d.st.retry)
    /\ Goto(n, "svc")
    /\ UNCHANGED <<d, ids, world>>

ApplyService(n) ==
    /\ pc[n] = "svc"
    /\ ApplyOwned("svc", n)
    /\ Goto(n, IF IsolateNetwork THEN "deny" ELSE "status")
    /\ UNCHANGED <<d, ra, world>>

ApplyDefaultDeny(n) ==
    /\ pc[n] = "deny"
    /\ deny' = TRUE
    /\ Goto(n, "allow")
    /\ NoPut(queue)
    /\ UNCHANGED <<d, ra, ids, pol, timer, promised, now, edits, podFaults, faults>>

ApplyOwnerAllow(n) ==
    /\ pc[n] = "allow"
    /\ pol' = [pol EXCEPT ![OwnerOf[n]] = BackendPort(n, d)]
    /\ Goto(n, "status")
    /\ NoPut(queue)
    /\ UNCHANGED <<d, ra, ids, deny, timer, promised, now, edits, podFaults, faults>>

\* The status updateStatus wants, by the pod the cache shows.
Desired(x, p) ==
    IF ~x.running
    THEN [NewStatus EXCEPT !.phase = "Stopped",
                           !.hibAt = IF x.st.phase = "Stopped" /\ x.st.hibAt # 0
                                     THEN x.st.hibAt ELSE now]
    ELSE IF p.uid # 0 /\ p.phase = "Running"
    THEN [NewStatus EXCEPT !.phase = "Running", !.ep = p.uid]
    ELSE IF p.uid # 0 /\ p.phase = "Failed"
    THEN [NewStatus EXCEPT !.phase = "Failed", !.retry = x.st.retry, !.failAt = x.st.failAt]
    ELSE [NewStatus EXCEPT !.phase = "Pending"]

\* updateStatus ends the reconcile; a requeueAfter becomes a delayed requeue,
\* which keeps the earlier of two due times.
UpdateStatus(n) ==
    LET cur == api["dp"][n]
        new == Desired(d, cache["pod"][n])
        due == now + ra
    IN  /\ pc[n] = "status"
        /\ IF cur.uid = 0 /\ new # d.st THEN Fail(n)
           ELSE /\ IF new = d.st THEN NoPut(queue)
                   ELSE Put("dp", n, [cur EXCEPT !.st = MergePatch(@, d.st, new)], queue)
                /\ timer' = IF ra > 0 /\ (timer[n] = 0 \/ due < timer[n])
                            THEN [timer EXCEPT ![n] = due] ELSE timer
                /\ Return
                /\ UNCHANGED <<ids, pol, deny, promised, now, edits, podFaults, faults>>

-----------------------------------------------------------------------------
User(n) == \/ \E p \in Persistence : CreateDevPod(n, p)
           \/ \E f \in Edits : EditDevPod(n, f)
           \/ DeleteDevPod(n)

Step(n) == \/ DetachPVC(n) \/ CleanupOwnerNetPolIfLast(n) \/ RemoveFinalizer(n)
           \/ AddFinalizer(n) \/ Hibernate(n)
           \/ EnsureHostKeySecret(n) \/ ApplyPVC(n) \/ ApplyPodWithDriftRecreate(n)
           \/ DeleteFailedPod(n) \/ ApplyService(n)
           \/ ApplyDefaultDeny(n) \/ ApplyOwnerAllow(n) \/ UpdateStatus(n)

Kubelet(n) == \/ PodRuns(n) \/ PodGone(n)
              \/ \E phase \in Finished : PodEnds(n, phase)

Next == \/ \E n \in Names : \/ User(n) \/ Kubelet(n)
                            \/ Reconcile(n) \/ Step(n) \/ CallFails(n) \/ TimerFires(n)
                            \/ \E k \in Kinds \ {"dp"} : Collect(k, n)
        \/ \E k \in Kinds : Deliver(k)
        \/ Restart \/ Tick

Spec == Init /\ [][Next]_vars

\* The controller's worker, its queue (FIFO, hence strong fairness of taking a
\* name) and timers run; watch events arrive; kubelet, garbage collector and
\* clock proceed.  Users, failing pods, failing calls and restarts owe nothing.
Fairness ==
    /\ \A n \in Names : /\ SF_vars(Reconcile(n)) /\ WF_vars(Step(n))
                        /\ WF_vars(TimerFires(n))
                        /\ WF_vars(PodRuns(n)) /\ WF_vars(PodGone(n))
                        /\ \A k \in Kinds \ {"dp"} : WF_vars(Collect(k, n))
    /\ \A k \in Kinds : WF_vars(Deliver(k))
    /\ WF_vars(Tick)

FairSpec == Spec /\ Fairness

-----------------------------------------------------------------------------
(* Properties *)

\* applyAll installs the owner's allow policy before updateStatus publishes an
\* endpoint, and cleanupOwnerNetPolIfLast removes it only with the owner's last
\* live DevPod: so a DevPod that is not being deleted and has an endpoint is
\* always covered by its owner's policy, however stale the caches that both read.
EndpointHasPolicy ==
    \A n \in Names :
        (IsolateNetwork /\ api["dp"][n].uid # 0 /\ ~api["dp"][n].del /\ api["dp"][n].st.ep # 0)
            => pol[OwnerOf[n]] # NoPolicy

\* ensureHostKeySecret: while a DevPod exists, the host key Secret it controls
\* is never replaced, so its SSH host key never changes under its users.
HostKeyStable ==
    [][\A n \in Names :
        (/\ api["dp"][n].uid # 0 /\ api'["dp"][n].uid = api["dp"][n].uid
         /\ api["sec"][n].owner = api["dp"][n].uid)
            => api'["sec"][n] = api["sec"][n]]_vars

\* detachPVC before the finalizer goes: the home of a DevPod that is deleted when
\* the cache shows its PVC, and whose spec keeps asking for it, is never garbage
\* collected, however stale the cached DevPod, whichever call fails and wherever
\* the controller restarts.
HomeRetained ==
    [][\A n \in Names : api["pvc"][n].uid # 0 /\ api'["pvc"][n].uid = 0
                         => api["pvc"][n].owner \notin promised[n]]_vars

\* "Default behavior is **retain** (data survives `kubectl delete devpod`)."
HomeNeverCollected ==
    [][\A n \in Names : api["pvc"][n].uid # 0 => api'["pvc"][n].uid = api["pvc"][n].uid]_vars

\* The per-owner allow policy is deleted with the owner's last DevPod.
NoOrphanPolicy ==
    \A n \in Names : pol[OwnerOf[n]] # NoPolicy
        => \E m \in Names : OwnerOf[m] = OwnerOf[n] /\ api["dp"][m].uid # 0

\* DevPodStatus.RetryCount counts consecutive pod failures and is reset to
\* zero when the pod reaches Running (or when the DevPod is hibernated).
RetryResetOnlyWhenRunning ==
    [][\A n \in Names :
        LET x == api["dp"][n]  y == api'["dp"][n]
        IN  (x.uid # 0 /\ y.uid = x.uid /\ x.st.retry > 0 /\ y.st.retry = 0)
                => y.st.phase \in {"Running", "Stopped"}]_vars

\* What a DevPod's spec asks for is what exists, and its status says so.  A pod
\* that finished without failing is left as it is: no branch of
\* applyPodWithDriftRecreate replaces it and its DevPod stays Pending.
Settled(n) ==
    LET x == api["dp"][n]
        p == api["pod"][n]
    IN  IF x.uid = 0
        THEN p.uid = 0 /\ api["svc"][n].uid = 0 /\ api["sec"][n].uid = 0
             /\ api["pvc"][n].owner = 0
        ELSE /\ ~x.del /\ x.fin
             /\ IF ~x.running
                THEN p.uid = 0 /\ x.st.phase = "Stopped" /\ x.st.ep = 0
                ELSE /\ p.uid # 0 /\ ~p.term /\ p.tmpl = x.tmpl /\ p.owner = x.uid
                     /\ \/ p.phase = "Running" /\ x.st.phase = "Running" /\ x.st.ep = p.uid
                        \/ p.phase = "Succeeded" /\ x.st.phase = "Pending" /\ x.st.ep = 0
                     /\ api["sec"][n].owner = x.uid /\ api["svc"][n].owner = x.uid
                     /\ x.persist => api["pvc"][n].owner = x.uid
                     /\ IsolateNetwork => pol[OwnerOf[n]] # NoPolicy

\* Once users, failures and restarts cease, level-triggered reconciliation
\* brings every DevPod to what its spec asks for and keeps it there.
Converges == <>[](\A n \in Names \ VMBacked : Settled(n))
=============================================================================
