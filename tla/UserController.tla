--------------------------- MODULE UserController ---------------------------
(***************************************************************************)
(* The User reconciler (internal/controllers/user_controller.go): a        *)
(* finalizer holds a User that is being deleted while DevPods name it as   *)
(* owner, and the number of its DevPods is kept in its status.  The worker *)
(* reads both kinds from caches fed by separate watch streams, then makes  *)
(* one call; operators, the web UI and the DevPod controller interleave.   *)
(***************************************************************************)
EXTENDS ApiServer, FiniteSets

CONSTANTS
    Users,           \* names of Users
    DevPods,         \* names a User's DevPods may take
    MaxUsers,        \* bound: Users ever created
    MaxEdits,        \* bound: edits of User specs
    MaxDevPods,      \* bound: DevPods ever created
    MaxFaults        \* bound: failed API calls and controller restarts

VARIABLES
    pc,        \* pc[u]: the next call of the reconcile of u, "idle" if there is none
    w,         \* the worker's in-memory User and the number of DevPods it counted
    held,      \* held[u]: the DevPods that were there when u's deletion was requested, and still are
    users, edits, pods, faults   \* how often the bounded actions happened

worker == <<pc, w>>
bounds == <<users, edits, pods, faults>>
vars == <<api, cache, events, queue, worker, held, bounds>>

Kinds == {"user", "devpods"}
Steps == {"idle", "clear", "add", "count"}

ASSUME UserConstants ==
    /\ IsFiniteSet(DevPods) /\ Lag \in [Kinds -> Nat]
    /\ MaxUsers \in Nat /\ MaxEdits \in Nat /\ MaxDevPods \in Nat /\ MaxFaults \in Nat

\* uid 0 means absent; rev: the spec's edits; del: deletionTimestamp; fin:
\* userFinalizer; count: status.devPodCount.  An object under deletion
\* exists by its finalizer only.
NoUser == [uid |-> 0, rev |-> 0, del |-> FALSE, fin |-> FALSE, count |-> 0]
User == {x \in [uid : Nat, rev : Nat, del : BOOLEAN, fin : BOOLEAN, count : Nat] :
             (x.uid = 0 => x = NoUser) /\ (x.del => x.fin)}

\* A User's DevPods are kept as the set of their names, spec.owner being
\* immutable; their watch events map to the owner (mapDevPodToUser).
Object(k) == IF k = "user" THEN User ELSE SUBSET DevPods
Absent(k) == IF k = "user" THEN NoUser ELSE {}

TypeOK ==
    /\ \A k \in Kinds : /\ api[k] \in [Users -> Object(k)]
                        /\ cache[k] \in [Users -> Object(k)]
                        /\ \A i \in 1..Len(events[k]) :
                               events[k][i] \in [n : Users, o : Object(k)]
                        /\ Len(events[k]) <= Lag[k]
    /\ queue \subseteq Users
    /\ pc \in [Users -> Steps] /\ w \in [user : User, owned : Nat]
    /\ held \in [Users -> SUBSET DevPods]
    /\ users \in 0..MaxUsers /\ edits \in 0..MaxEdits
    /\ pods \in 0..MaxDevPods /\ faults \in 0..MaxFaults

Nothing == [user |-> NoUser, owned |-> 0]

Init ==
    /\ api = [k \in Kinds |-> [u \in Users |-> Absent(k)]]
    /\ cache = api /\ events = [k \in Kinds |-> <<>>] /\ queue = {}
    /\ pc = [u \in Users |-> "idle"] /\ w = Nothing
    /\ held = [u \in Users |-> {}]
    /\ users = 0 /\ edits = 0 /\ pods = 0 /\ faults = 0

-----------------------------------------------------------------------------
(* Operators, the web UI and the DevPod controller *)

CreateUser(u) ==
    /\ api["user"][u].uid = 0 /\ users < MaxUsers /\ users' = users + 1
    /\ Put("user", u, [NoUser EXCEPT !.uid = users + 1], queue)
    /\ UNCHANGED <<worker, held, edits, pods, faults>>

EditUser(u) ==
    /\ api["user"][u].uid # 0 /\ edits < MaxEdits /\ edits' = edits + 1
    /\ Put("user", u, [api["user"][u] EXCEPT !.rev = @ + 1], queue)
    /\ UNCHANGED <<worker, held, users, pods, faults>>

\* A finalizer turns the deletion into a request.
DeleteUser(u) ==
    LET x == api["user"][u]
    IN  /\ x.uid # 0 /\ ~x.del
        /\ Put("user", u, IF x.fin THEN [x EXCEPT !.del = TRUE] ELSE NoUser, queue)
        /\ held' = [held EXCEPT ![u] = api["devpods"][u]]
        /\ UNCHANGED <<worker, bounds>>

CreateDevPod(u, d) ==
    /\ d \notin api["devpods"][u] /\ pods < MaxDevPods /\ pods' = pods + 1
    /\ Put("devpods", u, api["devpods"][u] \cup {d}, queue)
    /\ UNCHANGED <<worker, held, users, edits, faults>>

\* A DevPod is deleted and its own finalizer is cleared.
RemoveDevPod(u, d) ==
    /\ d \in api["devpods"][u]
    /\ Put("devpods", u, api["devpods"][u] \ {d}, queue)
    /\ held' = [held EXCEPT ![u] = @ \ {d}]
    /\ UNCHANGED <<worker, bounds>>

Deliver(k) == DeliverEvent(k) /\ UNCHANGED <<worker, held, bounds>>

-----------------------------------------------------------------------------
(* Reconcile *)

Return == pc' = [u \in Users |-> "idle"] /\ w' = Nothing

Fail(u) == NoPut(queue \cup {u}) /\ Return /\ UNCHANGED <<held, bounds>>

CallFails(u) ==
    /\ pc[u] # "idle" /\ faults < MaxFaults /\ faults' = faults + 1
    /\ NoPut(queue \cup {u}) /\ Return
    /\ UNCHANGED <<held, users, edits, pods>>

\* The caches are listed anew and every User and DevPod is enqueued.
Restart ==
    /\ faults < MaxFaults /\ faults' = faults + 1
    /\ UNCHANGED api /\ cache' = api /\ events' = [k \in Kinds |-> <<>>]
    /\ queue' = {u \in Users : \E k \in Kinds : api[k][u] # Absent(k)}
    /\ Return
    /\ UNCHANGED <<held, users, edits, pods>>

\* Mutant: a deletion waits for the count in the status, not for the list.
FirstStepByStatus(x, owned) ==
    IF x.uid = 0 \/ (x.del /\ x.count > 0) THEN "idle"
    ELSE IF x.del THEN "clear"
    ELSE IF ~x.fin THEN "add"
    ELSE IF x.count # owned THEN "count"
    ELSE "idle"

\* Mutant: the count is only ever raised.
FirstStepCountUp(x, owned) ==
    IF x.uid = 0 \/ (x.del /\ owned > 0) THEN "idle"
    ELSE IF x.del THEN "clear"
    ELSE IF ~x.fin THEN "add"
    ELSE IF x.count < owned THEN "count"
    ELSE "idle"

\* The call Reconcile makes for the User it reads and the DevPods it counts.
FirstStep(x, owned) ==
    IF x.uid = 0 \/ (x.del /\ owned > 0) THEN "idle"
    ELSE IF x.del THEN "clear"
    ELSE IF ~x.fin THEN "add"
    ELSE IF x.count # owned THEN "count"
    ELSE "idle"

Reconcile(u) ==
    LET x == cache["user"][u]
        owned == Cardinality(cache["devpods"][u])
        step == FirstStep(x, owned)
    IN  /\ u \in queue /\ \A v \in Users : pc[v] = "idle"
        /\ NoPut(queue \ {u})
        /\ pc' = [pc EXCEPT ![u] = step]
        /\ w' = IF step = "idle" THEN Nothing ELSE [user |-> x, owned |-> owned]
        /\ UNCHANGED <<held, bounds>>

\* Update and Status().Update carry the resourceVersion that was read: they
\* conflict unless the User is still the one in the worker's hands.
Write(u, x, q) ==
    IF api["user"][u] # w.user THEN Fail(u)
    ELSE Put("user", u, x, q) /\ Return /\ UNCHANGED <<held, bounds>>

\* The last finalizer goes, and the User with it.
ClearFinalizer(u) == pc[u] = "clear" /\ Write(u, NoUser, queue)

\* Mutant: the User is written back whether or not it is still there.
AddFinalizerUpsert(u) ==
    /\ pc[u] = "add"
    /\ Put("user", u, [api["user"][u] EXCEPT !.fin = TRUE], queue \cup {u})
    /\ Return /\ UNCHANGED <<held, bounds>>

\* Mutant: the whole User is written back over whatever became of it.
AddFinalizerBlind(u) ==
    /\ pc[u] = "add"
    /\ IF api["user"][u].uid = 0 THEN Fail(u)
       ELSE /\ Put("user", u, [w.user EXCEPT !.fin = TRUE], queue \cup {u})
            /\ Return /\ UNCHANGED <<held, bounds>>

AddFinalizer(u) == pc[u] = "add" /\ Write(u, [w.user EXCEPT !.fin = TRUE], queue \cup {u})

UpdateCount(u) == pc[u] = "count" /\ Write(u, [w.user EXCEPT !.count = w.owned], queue)

-----------------------------------------------------------------------------
Step(u) == ClearFinalizer(u) \/ AddFinalizer(u) \/ UpdateCount(u)

Next == \/ \E u \in Users : \/ CreateUser(u) \/ EditUser(u) \/ DeleteUser(u)
                            \/ \E d \in DevPods : CreateDevPod(u, d) \/ RemoveDevPod(u, d)
                            \/ Reconcile(u) \/ Step(u) \/ CallFails(u)
        \/ \E k \in Kinds : Deliver(k)
        \/ Restart

Spec == Init /\ [][Next]_vars

\* The worker and its queue run and watch events arrive.
Fairness ==
    /\ \A u \in Users : SF_vars(Reconcile(u)) /\ WF_vars(Step(u))
    /\ \A k \in Kinds : WF_vars(Deliver(k))

FairSpec == Spec /\ Fairness

-----------------------------------------------------------------------------
(* Properties *)

\* Reconcile writes back the whole User it once read.  What happened to the
\* User since then survives: an edit of its spec is not lost, a request to
\* delete it is not undone, and an earlier User of the name does not return.
ChangesSurvive ==
    [][\A u \in Users :
        LET x == api["user"][u]  y == api'["user"][u]
        IN  y.uid # 0 => /\ y.uid >= x.uid
                         /\ y.uid = x.uid => y.rev >= x.rev /\ (x.del => y.del)]_vars

\* Reconcile returns without a requeue while DevPods block the deletion; the
\* DevPod watch still brings the deletion to its end when they are gone.
UserReleased == \A u \in Users : []<>~(api["user"][u].del /\ api["devpods"][u] = {})

\* Once nothing changes any more, status.devPodCount is the number of DevPods.
CountConverges ==
    <>[](\A u \in Users : LET x == api["user"][u]
                          IN  x.uid # 0 /\ ~x.del => x.count = Cardinality(api["devpods"][u]))

\* "Finalizer blocks User delete until DevPod removed": a User with the
\* finalizer is not removed while a DevPod that was there when the deletion
\* was requested is still there.
DevPodsHoldUser ==
    [][\A u \in Users :
        LET x == api["user"][u]
        IN  x.fin /\ api'["user"][u].uid # x.uid => held[u] = {}]_vars
=============================================================================
