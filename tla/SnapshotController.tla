------------------------- MODULE SnapshotController -------------------------
(***************************************************************************)
(* The DevPodSnapshot reconciler (internal/controllers/                    *)
(* snapshot_controller.go): it turns inline registry credentials into a    *)
(* Secret, runs one Job that commits the DevPod's container and records    *)
(* how the Job ended.  The worker performs one API call per step; users,   *)
(* the Job controller with its TTL, the garbage collector and the watch    *)
(* streams interleave with it.                                             *)
(***************************************************************************)
EXTENDS ApiServer

CONSTANTS
    Names,           \* names of DevPodSnapshots (Job and Secret derive theirs)
    Auth,            \* the choices of spec.pushAuth at creation, a subset of BOOLEAN
    MaxSnapshots,    \* bound: DevPodSnapshots ever created
    MaxEdits,        \* bound: edits of spec.pushAuth
    MaxFlips,        \* bound: changes of the target DevPod
    MaxFaults        \* bound: failed API calls and controller restarts

VARIABLES
    ready,     \* the cached DevPod and Pod can be snapshotted (running, with container and node)
    pc,        \* pc[name]: the next call of the reconcile of name, "idle" if there is none
    w,         \* the worker's in-memory copy of the DevPodSnapshot it reconciles
    created,   \* how many DevPodSnapshots were created; the last one's uid
    bore,      \* bore[name]: the uids of the DevPodSnapshots that were created as name
    done,      \* the uids of DevPodSnapshots one of whose Jobs completed
    edits, flips, faults

worker == <<pc, w>>
world == <<ready, edits, flips, faults>>
history == <<bore, done>>
vars == <<api, cache, events, queue, worker, created, history, world>>

Kinds == {"snap", "job", "sec"}
Phases == {"", "Running", "Succeeded", "Failed"}
Terminal == {"Succeeded", "Failed"}
JobPhases == {"Active", "Complete", "Failed"}
Steps == {"idle", "auth", "clear", "unready", "create", "running", "check"}
Uids == 1..MaxSnapshots

ASSUME SnapshotConstants ==
    /\ Auth \subseteq BOOLEAN /\ Lag \in [Kinds -> Nat]
    /\ MaxSnapshots \in Nat /\ MaxEdits \in Nat /\ MaxFlips \in Nat
    /\ MaxFaults \in Nat

\* auth: the credentials in spec.pushAuth, 0 for none, 1 for the ones the
\* snapshot was created with, another number for those of an edit; job:
\* status.jobRef is set.  A uid or owner of 0 means that the object is absent.
Given == 1
NoSnapshot == [uid |-> 0, auth |-> 0, phase |-> "", job |-> FALSE]
Snapshot == {x \in [uid : Nat, auth : Nat, phase : Phases, job : BOOLEAN] :
                 /\ x.uid = 0 => x = NoSnapshot
                 /\ x.phase = "Running" => x.job}
Job == [owner : Nat, phase : JobPhases]
NoJob == [owner |-> 0, phase |-> "Active"]
Secret == [owner : Nat, auth : Nat]
NoSecret == [owner |-> 0, auth |-> 0]

Object(k) == IF k = "snap" THEN Snapshot ELSE IF k = "job" THEN Job ELSE Secret
Absent(k) == IF k = "snap" THEN NoSnapshot ELSE IF k = "job" THEN NoJob ELSE NoSecret

TypeOK ==
    /\ \A k \in Kinds : /\ api[k] \in [Names -> Object(k)]
                        /\ cache[k] \in [Names -> Object(k)]
                        /\ \A i \in 1..Len(events[k]) :
                               events[k][i] \in [n : Names, o : Object(k)]
                        /\ Len(events[k]) <= Lag[k]
    /\ queue \subseteq Names /\ ready \in BOOLEAN
    /\ pc \in [Names -> Steps] /\ w \in Snapshot
    /\ created \in 0..MaxSnapshots
    /\ bore \in [Names -> SUBSET Uids] /\ done \subseteq Uids
    /\ edits \in 0..MaxEdits /\ flips \in 0..MaxFlips /\ faults \in 0..MaxFaults

Init ==
    /\ api = [k \in Kinds |-> [n \in Names |-> Absent(k)]]
    /\ cache = api /\ events = [k \in Kinds |-> <<>>] /\ queue = {}
    /\ ready \in BOOLEAN
    /\ pc = [n \in Names |-> "idle"] /\ w = NoSnapshot
    /\ created = 0 /\ bore = [n \in Names |-> {}] /\ done = {}
    /\ edits = 0 /\ flips = 0 /\ faults = 0

-----------------------------------------------------------------------------
(* Users, the target DevPod, the Job controller and the garbage collector *)

CreateSnapshot(n, auth) ==
    /\ api["snap"][n].uid = 0 /\ created < MaxSnapshots
    /\ created' = created + 1
    /\ bore' = [bore EXCEPT ![n] = @ \cup {created + 1}]
    /\ Put("snap", n, [NoSnapshot EXCEPT !.uid = created + 1,
                                         !.auth = IF auth THEN Given ELSE 0], queue)
    /\ UNCHANGED <<worker, done, world>>

\* spec.pushAuth is mutable: it is taken out or replaced by other credentials,
\* whatever has become of the snapshot.
EditAuth(n, auth) ==
    /\ api["snap"][n].uid # 0 /\ edits < MaxEdits
    /\ edits' = edits + 1
    /\ Put("snap", n, [api["snap"][n] EXCEPT !.auth = auth], queue)
    /\ UNCHANGED <<worker, created, history, ready, flips, faults>>

DeleteSnapshot(n) ==
    /\ api["snap"][n].uid # 0
    /\ Put("snap", n, NoSnapshot, queue)
    /\ UNCHANGED <<worker, created, history, world>>

\* The DevPod is stopped or started, or its pod comes or goes.
TargetChanges ==
    /\ flips < MaxFlips /\ flips' = flips + 1
    /\ ready' = ~ready
    /\ NoPut(queue)
    /\ UNCHANGED <<worker, created, history, edits, faults>>

JobFinishes(n, phase) ==
    LET j == api["job"][n]
    IN  /\ j.owner # 0 /\ j.phase = "Active"
        /\ Put("job", n, [j EXCEPT !.phase = phase], queue)
        /\ done' = IF phase = "Complete" THEN done \cup {j.owner} ELSE done
        /\ UNCHANGED <<worker, created, bore, world>>

\* ttlSecondsAfterFinished.  Five minutes outlast the lag of the caches and
\* the call that records the Job.
JobExpires(n) ==
    /\ api["job"][n].phase # "Active"
    /\ events["snap"] = <<>> /\ pc[n] # "running"
    /\ Put("job", n, NoJob, queue)
    /\ UNCHANGED <<worker, created, history, world>>

Collect(k, n) ==
    /\ api[k][n].owner \notin {0, api["snap"][n].uid}
    /\ Put(k, n, Absent(k), queue)
    /\ UNCHANGED <<worker, created, history, world>>

Deliver(k) == DeliverEvent(k) /\ UNCHANGED <<worker, created, history, world>>

-----------------------------------------------------------------------------
(* Reconcile *)

Return == pc' = [n \in Names |-> "idle"] /\ w' = NoSnapshot

Fail(n) == NoPut(queue \cup {n}) /\ Return /\ UNCHANGED <<created, history, world>>

Goto(n, step) == pc' = [pc EXCEPT ![n] = step] /\ UNCHANGED w

CallFails(n) ==
    /\ pc[n] # "idle" /\ faults < MaxFaults /\ faults' = faults + 1
    /\ NoPut(queue \cup {n}) /\ Return
    /\ UNCHANGED <<created, history, ready, edits, flips>>

Restart ==
    /\ faults < MaxFaults /\ faults' = faults + 1
    /\ UNCHANGED api /\ cache' = api /\ events' = [k \in Kinds |-> <<>>]
    /\ queue' = {n \in Names : \E k \in Kinds : api[k][n] # Absent(k)}
    /\ Return
    /\ UNCHANGED <<created, history, ready, edits, flips>>

\* Mutant: the target is examined before the inline credentials are.
FirstStepAuthLast(x) ==
    IF x.uid = 0 \/ x.phase \in Terminal THEN "idle"
    ELSE IF x.job THEN "check"
    ELSE IF ~ready THEN "unready"
    ELSE IF x.auth # 0 THEN "auth"
    ELSE "create"

\* The branch Reconcile takes for the snapshot and the target it reads.
FirstStep(x) ==
    IF x.uid = 0 \/ x.phase \in Terminal THEN "idle"
    ELSE IF x.auth # 0 THEN "auth"
    ELSE IF x.job THEN "check"
    ELSE IF ~ready THEN "unready"
    ELSE "create"

Reconcile(n) ==
    LET x == cache["snap"][n]
        step == FirstStep(x)
    IN  /\ n \in queue /\ \A m \in Names : pc[m] = "idle"
        /\ NoPut(queue \ {n})
        /\ pc' = [pc EXCEPT ![n] = step]
        /\ w' = IF step = "idle" THEN NoSnapshot ELSE x
        /\ UNCHANGED <<created, history, world>>

\* materializePushAuth, the Secret; AlreadyExists is not an error.
CreateAuthSecret(n) ==
    /\ pc[n] = "auth"
    /\ IF api["sec"][n] = NoSecret
       THEN Put("sec", n, [owner |-> w.uid, auth |-> w.auth], queue)
       ELSE NoPut(queue)
    /\ Goto(n, "clear")
    /\ UNCHANGED <<created, history, world>>

\* materializePushAuth, the Update: it conflicts unless the snapshot is still
\* the one that was read.
ClearAuth(n) ==
    /\ pc[n] = "clear"
    /\ IF w # api["snap"][n] THEN Fail(n)
       ELSE /\ Put("snap", n, [w EXCEPT !.auth = 0], queue \cup {n})
            /\ Return /\ UNCHANGED <<created, history, world>>

\* Mutant: a status patch creates what it does not find.
PatchStatusUpsert(n, phase, job) ==
    /\ Put("snap", n, [api["snap"][n] EXCEPT !.phase = phase, !.job = @ \/ job], queue)
    /\ Return /\ UNCHANGED <<created, history, world>>

\* A status patch names the snapshot, not its uid, and carries no
\* resourceVersion; it fails only when there is no such snapshot.
PatchStatus(n, phase, job) ==
    LET cur == api["snap"][n]
    IN  IF cur.uid = 0 THEN Fail(n)
        ELSE /\ Put("snap", n, [cur EXCEPT !.phase = phase, !.job = @ \/ job], queue)
             /\ Return /\ UNCHANGED <<created, history, world>>

\* setFailed: the DevPod cannot be snapshotted.
SetFailed(n) == pc[n] = "unready" /\ PatchStatus(n, "Failed", FALSE)

\* Create of the Job; AlreadyExists requeues.
CreateJob(n) ==
    /\ pc[n] = "create"
    /\ IF api["job"][n] # NoJob THEN Fail(n)
       ELSE /\ Put("job", n, [owner |-> w.uid, phase |-> "Active"], queue)
            /\ Goto(n, "running")
            /\ UNCHANGED <<created, history, world>>

\* Mutant: the Job is not recorded.
SetRunningNoRef(n) == pc[n] = "running" /\ PatchStatus(n, "Running", FALSE)

\* setRunning
SetRunning(n) == pc[n] = "running" /\ PatchStatus(n, "Running", TRUE)

\* Mutant: any condition of the Job counts as completion.
CheckJobAnyCondition(n) ==
    LET j == cache["job"][n]
    IN  /\ pc[n] = "check"
        /\ \/ j.owner = 0 /\ PatchStatus(n, "Failed", FALSE)
           \/ j.owner # 0 /\ j.phase # "Active" /\ PatchStatus(n, "Succeeded", FALSE)
           \/ /\ j.owner # 0 /\ j.phase = "Active"
              /\ NoPut(queue) /\ Return /\ UNCHANGED <<created, history, world>>

\* reconcileExistingJob, by the Job the cache shows; setSucceeded, setFailed.
CheckJob(n) ==
    LET j == cache["job"][n]
    IN  /\ pc[n] = "check"
        /\ \/ (j.owner = 0 \/ j.phase = "Failed") /\ PatchStatus(n, "Failed", FALSE)
           \/ j.owner # 0 /\ j.phase = "Complete" /\ PatchStatus(n, "Succeeded", FALSE)
           \/ /\ j.owner # 0 /\ j.phase = "Active"
              /\ NoPut(queue) /\ Return /\ UNCHANGED <<created, history, world>>

-----------------------------------------------------------------------------
User(n) == \/ \E a \in Auth : CreateSnapshot(n, a)
           \/ \E a \in {0, Given + 1 + edits} : EditAuth(n, a)
           \/ DeleteSnapshot(n)

JobStep(n) == (\E p \in {"Complete", "Failed"} : JobFinishes(n, p)) \/ JobExpires(n)

Step(n) == \/ CreateAuthSecret(n) \/ ClearAuth(n) \/ SetFailed(n)
           \/ CreateJob(n) \/ SetRunning(n) \/ CheckJob(n)

Next == \/ \E n \in Names : \/ User(n) \/ JobStep(n) \/ Reconcile(n) \/ Step(n) \/ CallFails(n)
                            \/ \E k \in {"job", "sec"} : Collect(k, n)
        \/ \E k \in Kinds : Deliver(k)
        \/ TargetChanges \/ Restart

Spec == Init /\ [][Next]_vars

\* The worker and its queue run, watch events arrive, Jobs finish and expire,
\* the garbage collector proceeds.
Fairness ==
    /\ \A n \in Names : /\ SF_vars(Reconcile(n)) /\ WF_vars(Step(n))
                        /\ WF_vars(JobStep(n))
                        /\ \A k \in {"job", "sec"} : WF_vars(Collect(k, n))
    /\ \A k \in Kinds : WF_vars(Deliver(k))

FairSpec == Spec /\ Fairness

-----------------------------------------------------------------------------
(* Properties *)

\* setSucceeded follows a complete Job: the phase never claims an image when no
\* Job of this snapshot, or of an earlier one that bore its name (a status patch
\* names no uid), committed one.
SuccessIsReal ==
    \A n \in Names : api["snap"][n].phase = "Succeeded" => bore[n] \cap done # {}

\* The inline credentials a snapshot was created with are out of its spec before
\* it gets any phase, so before its Job runs and before an outcome makes
\* Reconcile return early; unless its name was used before.
AuthFirst ==
    \A n \in Names : LET x == api["snap"][n]
                     IN  x.auth = Given /\ x.phase # "" => bore[n] # {x.uid}

\* Every snapshot gets an outcome: no call that fails, and no Job that is
\* found to exist already, leaves one waiting for ever.
Concludes == <>[](\A n \in Names : api["snap"][n].uid # 0 => api["snap"][n].phase \in Terminal)

\* "Plaintext only exists in etcd for the duration of one reconcile cycle"
\* (PushAuthInline): no credentials stay in the spec.
AuthCleared == <>[](\A n \in Names : api["snap"][n].auth = 0)

\* "converts them to a dockerconfigjson Secret ... and clears this field"
\* (spec.pushAuth): the credentials materializePushAuth clears are those the
\* Secret of the snapshot holds.
ClearedIsKept ==
    [][\A n \in Names :
         LET x == api["snap"][n]
         IN  pc[n] = "clear" /\ x.auth # 0 /\ api'["snap"][n] = [x EXCEPT !.auth = 0]
             /\ pc'[n] = "idle"
             => api["sec"][n] = [owner |-> x.uid, auth |-> x.auth]]_vars
=============================================================================
