----------------------- MODULE DevPodControllerProofs -----------------------
(***************************************************************************)
(* Proofs about DevPodController, for every set of names, assignment of    *)
(* owners, cache lag and bound: types, the owner's policy, the host key,   *)
(* the home.                                                               *)
(*                                                                         *)
(* The argument for the policy is about time.  cleanupOwnerNetPolIfLast    *)
(* decides from a cached list, so the invariant has to say how the         *)
(* versions of a DevPod that are still to be seen (in the cache, on the    *)
(* watch stream, at the API server) relate to each other and to the        *)
(* worker's copy.  The home rests on the same history: detachPVC comes     *)
(* before the finalizer goes, and acts on the DevPod that is stored.       *)
(***************************************************************************)
EXTENDS DevPodController, SequenceTheorems, TLAPS

-----------------------------------------------------------------------------
(* Type correctness *)

\* Absent objects are objects of their kind.
LEMMA AbsentType ==
    /\ NoDevPod \in DevPod /\ NoPod \in Pod /\ NoOwned \in Owned
    /\ NewStatus \in Status
    /\ \A k \in Kinds : Absent(k) \in Object(k) /\ Object(k) \subseteq AnyObject
BY DEF NoDevPod, DevPod, NoPod, Pod, NoOwned, Owned, NewStatus, Status, Phases, PodPhases,
       Absent, Object, AnyObject, Kinds

\* The store stays well-typed when an object of the right kind is written,
\* whether or not the write also delivers the oldest watch event.
LEMMA PutType ==
    ASSUME StoreOK, NEW k \in Kinds, NEW n \in Names, NEW o \in Object(k),
           NEW q \in SUBSET Names, Put(k, n, o, q)
    PROVE  StoreOK'
<1> DEFINE E == [n : Names, o : Object(k)]
           EA == [n : Names, o : AnyObject]
           e == [n |-> n, o |-> o]
           s == Append(events[k], e)
<1>0. Object(k) \subseteq AnyObject
  BY AbsentType
<1>1. /\ e \in E /\ E \subseteq EA
      /\ events[k] \in Seq(E) /\ Len(events[k]) \in Nat
      /\ Lag[k] \in Nat /\ Len(events[k]) <= Lag[k]
  <2>1. e \in E /\ E \subseteq EA
    BY <1>0
  <2>2. events[k] \in Seq(E) /\ Len(events[k]) <= Lag[k]
    BY DEF StoreOK
  <2>3. Lag[k] \in Nat
    BY ConstantsOK
  <2> QED BY <2>1, <2>2, <2>3
<1>2. s \in Seq(E) /\ s # <<>> /\ Len(s) = Len(events[k]) + 1
  BY <1>1
<1> HIDE DEF s, e, E
<1>3. Head(s) \in E /\ Tail(s) \in Seq(E) /\ Len(Tail(s)) = Len(events[k])
  BY <1>2, <1>1, HeadTailProperties
<1> USE DEF s, e, E
<1>4. Seq(E) \subseteq Seq(EA)
  <2> HIDE DEF E, EA
  <2> SUFFICES ASSUME NEW x \in Seq(E) PROVE x \in Seq(EA)
    OBVIOUS
  <2> QED BY <1>1, SeqMonotonic
<1>a. /\ api' = [api EXCEPT ![k] = [@ EXCEPT ![n] = o]]
      /\ \/ UNCHANGED <<cache, events>> /\ queue' = q
         \/ Len(s) <= Lag[k] /\ events' = [events EXCEPT ![k] = s] /\ UNCHANGED cache /\ queue' = q
         \/ /\ events' = [events EXCEPT ![k] = Tail(s)]
            /\ cache' = [cache EXCEPT ![k] = [@ EXCEPT ![Head(s).n] = Head(s).o]]
            /\ queue' = q \cup {Head(s).n}
  BY DEF Put
<1> HIDE DEF s, e
<1>5. /\ api' \in [Kinds -> [Names -> AnyObject]]
      /\ \A j \in Kinds : api'[j] \in [Names -> Object(j)]
  BY <1>a, <1>0 DEF StoreOK
<1>6. CASE UNCHANGED <<cache, events>> /\ queue' = q
  BY <1>5, <1>6 DEF StoreOK
<1>7. CASE Len(s) <= Lag[k] /\ events' = [events EXCEPT ![k] = s] /\ UNCHANGED cache /\ queue' = q
  <2>1. events' \in [Kinds -> Seq(EA)]
    BY <1>7, <1>2, <1>4 DEF StoreOK
  <2>2. \A j \in Kinds : events'[j] \in Seq([n : Names, o : Object(j)]) /\ Len(events'[j]) <= Lag[j]
    BY <1>7, <1>2 DEF StoreOK
  <2> QED BY <1>5, <1>7, <2>1, <2>2 DEF StoreOK
<1>8. CASE /\ events' = [events EXCEPT ![k] = Tail(s)]
           /\ cache' = [cache EXCEPT ![k] = [@ EXCEPT ![Head(s).n] = Head(s).o]]
           /\ queue' = q \cup {Head(s).n}
  <2>1. events' \in [Kinds -> Seq(EA)]
    BY <1>8, <1>3, <1>4 DEF StoreOK
  <2>2. \A j \in Kinds : events'[j] \in Seq([n : Names, o : Object(j)]) /\ Len(events'[j]) <= Lag[j]
    BY <1>8, <1>3, <1>1 DEF StoreOK
  <2>3. Head(s).n \in Names /\ Head(s).o \in Object(k)
    BY <1>3
  <2>4. /\ cache' \in [Kinds -> [Names -> AnyObject]]
        /\ \A j \in Kinds : cache'[j] \in [Names -> Object(j)]
    BY <1>8, <2>3, <1>0 DEF StoreOK
  <2> QED BY <1>5, <1>8, <2>1, <2>2, <2>3, <2>4 DEF StoreOK
<1> QED BY <1>a, <1>6, <1>7, <1>8

\* Delivering the oldest watch event keeps the store well-typed.
LEMMA DeliverType ==
    ASSUME StoreOK, NEW k \in Kinds, Deliver(k)
    PROVE  StoreOK'
<1> DEFINE E == [n : Names, o : Object(k)]
           EA == [n : Names, o : AnyObject]
           s == events[k]
<1>0. Object(k) \subseteq AnyObject
  BY AbsentType
<1>1. s \in Seq(E) /\ s # <<>> /\ Len(s) <= Lag[k] /\ Lag[k] \in Nat
  BY ConstantsOK DEF StoreOK, Deliver, DeliverEvent
<1>2. E \subseteq EA
  BY <1>0
<1>a. /\ cache' = [cache EXCEPT ![k] = [@ EXCEPT ![Head(s).n] = Head(s).o]]
      /\ queue' = queue \cup {Head(s).n} /\ queue \subseteq Names
      /\ events' = [events EXCEPT ![k] = Tail(s)]
      /\ UNCHANGED api
  BY DEF Deliver, DeliverEvent, StoreOK
<1>3. /\ Head(s) \in E /\ Tail(s) \in Seq(E) /\ Len(Tail(s)) = Len(s) - 1 /\ Len(s) \in Nat
  <2> HIDE DEF s, E
  <2> QED BY <1>1, HeadTailProperties, LenProperties
<1>b. Len(Tail(s)) <= Lag[k]
  BY <1>1, <1>3
<1>4. Tail(s) \in Seq(EA)
  <2> HIDE DEF s, E, EA
  <2> QED BY <1>2, <1>3, SeqMonotonic
<1>5. Head(s).n \in Names /\ Head(s).o \in Object(k)
  BY <1>3
<1> HIDE DEF s
<1>6. events' \in [Kinds -> Seq(EA)]
  BY <1>a, <1>4 DEF StoreOK
<1>7. \A j \in Kinds : events'[j] \in Seq([n : Names, o : Object(j)]) /\ Len(events'[j]) <= Lag[j]
  BY <1>a, <1>3, <1>b DEF StoreOK
<1>8. /\ cache' \in [Kinds -> [Names -> AnyObject]]
      /\ \A j \in Kinds : cache'[j] \in [Names -> Object(j)]
  BY <1>a, <1>5, <1>0 DEF StoreOK
<1> QED BY <1>a, <1>5, <1>6, <1>7, <1>8 DEF StoreOK

\* The part of TypeOK that no write to the store concerns.
RestOK ==
    /\ pol \in [Owners -> Nat \cup {NoPolicy}] /\ deny \in BOOLEAN
    /\ timer \in [Names -> Nat]
    /\ pc \in [Names -> Steps] /\ d \in DevPod /\ ra \in Nat
    /\ ids \in [Kinds -> Nat]
    /\ promised \in [Names -> SUBSET Nat]
    /\ now \in Nat \ {0} /\ edits \in 0..MaxEdits
    /\ podFaults \in 0..MaxPodFaults /\ faults \in 0..MaxFaults

\* The stored objects of each kind, by name.
LEMMA StoreAt ==
    ASSUME StoreOK, NEW n \in Names
    PROVE  /\ api["dp"][n] \in DevPod /\ cache["dp"][n] \in DevPod
           /\ api["pod"][n] \in Pod /\ cache["pod"][n] \in Pod
           /\ \A k \in {"pvc", "sec", "svc"} : api[k][n] \in Owned /\ cache[k][n] \in Owned
           /\ Object("dp") = DevPod /\ Object("pod") = Pod
           /\ \A k \in {"pvc", "sec", "svc"} : Object(k) = Owned
BY DEF StoreOK, Kinds, Object

\* A deleted pod is a pod.
LEMMA DeletedPodType == \A p \in Pod : DeletedPod(p) \in Pod
BY DEF Pod, DeletedPod, NoPod, PodPhases, Finished

\* The status updateStatus computes is a status, and so is any merge patch.
LEMMA StatusType ==
    ASSUME NEW x \in DevPod, NEW p \in Pod, now \in Nat
    PROVE  /\ Desired(x, p) \in Status
           /\ \A a, b, c \in Status : MergePatch(a, b, c) \in Status
<1>1. x.st \in Status /\ p.uid \in Nat
  BY DEF DevPod, Pod
<1>2. Desired(x, p) \in Status
  BY <1>1 DEF Desired, NewStatus, Status, Phases
<1>3. ASSUME NEW a \in Status, NEW b \in Status, NEW c \in Status
      PROVE  MergePatch(a, b, c) \in Status
  BY DEF MergePatch, Status
<1> QED BY <1>2, <1>3

\* Backoff windows are positive.
LEMMA BackoffType == \A r \in Nat : failureBackoff(r) \in Nat
<1> SUFFICES ASSUME NEW r \in Nat PROVE failureBackoff(r) \in Nat
  OBVIOUS
<1>1. r < 1 \/ r > 6 \/ r = 1 \/ r = 2 \/ r = 3 \/ r = 4 \/ r = 5 \/ r = 6
  OBVIOUS
<1> QED BY <1>1 DEF failureBackoff

\* An action that writes one object of kind k and leaves the rest typed.
\* (The steps below apply PutType with the object each action writes.)
LEMMA TypeParts == TypeOK <=> StoreOK /\ RestOK
BY DEF TypeOK, RestOK

\* The end of a reconcile.
LEMMA ReturnType == Return => pc' \in [Names -> Steps] /\ d' \in DevPod /\ ra' \in Nat
BY AbsentType DEF Return, Steps

\* A failed reconcile.
LEMMA FailType ==
    ASSUME StoreOK, RestOK, NEW n \in Names, Fail(n)
    PROVE  StoreOK' /\ RestOK'
BY ReturnType DEF Fail, NoPut, StoreOK, RestOK, world

\* Every action of users, kubelet, garbage collector and clock.
LEMMA EnvironmentType ==
    ASSUME StoreOK, RestOK, NEW n \in Names,
           \/ User(n) \/ Kubelet(n)
           \/ \E k \in Kinds \ {"dp"} : Collect(k, n)
    PROVE  StoreOK' /\ RestOK'
<1> USE DEF RestOK, world, worker
<1>k. {"dp", "pod", "pvc", "sec", "svc"} = Kinds /\ queue \in SUBSET Names
  BY DEF Kinds, StoreOK
<1>1. ASSUME NEW p \in Persistence, CreateDevPod(n, p)
      PROVE  StoreOK' /\ RestOK'
  <2>1. [NoDevPod EXCEPT !.uid = ids["dp"] + 1, !.running = TRUE, !.persist = p] \in Object("dp")
    <3>1. p \in BOOLEAN /\ ids["dp"] + 1 \in Nat
      BY <1>k, ConstantsOK
    <3>2. NoDevPod \in DevPod /\ Object("dp") = DevPod
      BY AbsentType, StoreAt
    <3> QED BY <3>1, <3>2 DEF DevPod
  <2> QED BY <1>1, <1>k, <2>1, PutType DEF CreateDevPod
<1>2. ASSUME NEW f \in Edits, EditDevPod(n, f)
      PROVE  StoreOK' /\ RestOK'
  <2> DEFINE x == api["dp"][n]
             y == IF f = "running" THEN [x EXCEPT !.running = ~@]
                  ELSE IF f = "template" THEN [x EXCEPT !.tmpl = 1 - @]
                  ELSE [x EXCEPT !.persist = ~@]
  <2>1. y \in Object("dp")
    <3>1. x \in DevPod /\ Object("dp") = DevPod
      BY StoreAt
    <3>2. x.running \in BOOLEAN /\ x.persist \in BOOLEAN /\ x.tmpl \in {0, 1}
      BY <3>1 DEF DevPod
    <3> HIDE DEF x
    <3>3. 1 - x.tmpl \in {0, 1}
      BY <3>2
    <3>5. (~x.running) \in BOOLEAN /\ (~x.persist) \in BOOLEAN
      BY <3>2, Zenon
    <3>4. \A b \in BOOLEAN, t \in {0, 1} :
              /\ [x EXCEPT !.running = b] \in DevPod
              /\ [x EXCEPT !.persist = b] \in DevPod
              /\ [x EXCEPT !.tmpl = t] \in DevPod
      BY <3>1 DEF DevPod
    <3> QED BY <3>1, <3>3, <3>4, <3>5
  <2>2. /\ Put("dp", n, y, queue) /\ edits < MaxEdits /\ edits' = edits + 1
        /\ promised' = [promised EXCEPT ![n] = @ \ {x.uid}] \/ promised' = promised
        /\ UNCHANGED <<worker, ids, pol, deny, timer, now, podFaults, faults>>
    BY <1>2 DEF EditDevPod
  <2> HIDE DEF y
  <2>3. StoreOK'
    BY <1>k, <2>1, <2>2, PutType
  <2>4. promised' \in [Names -> SUBSET Nat]
    BY <2>2
  <2> QED BY <2>2, <2>3, <2>4, ConstantsOK
<1>3. ASSUME DeleteDevPod(n)
      PROVE  StoreOK' /\ RestOK'
  <2> DEFINE x == api["dp"][n]
             y == IF x.fin THEN [x EXCEPT !.del = TRUE] ELSE NoDevPod
  <2>1. y \in Object("dp")
    BY StoreAt, AbsentType DEF DevPod
  <2>2. /\ Put("dp", n, y, queue)
        /\ promised' = [promised EXCEPT ![n] = @ \cup {x.uid}] \/ promised' = promised
        /\ UNCHANGED <<worker, ids, pol, deny, timer, now, edits, podFaults, faults>>
    BY <1>3 DEF DeleteDevPod
  <2>3. x.uid \in Nat
    BY StoreAt DEF DevPod
  <2> HIDE DEF x, y
  <2>4. StoreOK'
    BY <1>k, <2>1, <2>2, PutType
  <2>5. promised' \in [Names -> SUBSET Nat]
    BY <2>2, <2>3
  <2> QED BY <2>2, <2>4, <2>5
<1>4. ASSUME Kubelet(n)
      PROVE  StoreOK' /\ RestOK'
  <2> DEFINE p == api["pod"][n]
  <2>1. /\ [p EXCEPT !.phase = "Running"] \in Object("pod")
        /\ \A ph \in Finished : [p EXCEPT !.phase = ph] \in Object("pod")
        /\ NoPod \in Object("pod")
    BY StoreAt, AbsentType DEF Pod, PodPhases, Finished
  <2>2. CASE PodRuns(n)
    BY <2>2, <1>k, <2>1, PutType DEF PodRuns
  <2>3. ASSUME NEW ph \in Finished, PodEnds(n, ph)
        PROVE  StoreOK' /\ RestOK'
    <3>1. Put("pod", n, [p EXCEPT !.phase = ph], queue)
          /\ podFaults < MaxPodFaults /\ podFaults' = podFaults + 1
          /\ UNCHANGED <<worker, ids, pol, deny, timer, promised, now, edits, faults>>
      BY <2>3 DEF PodEnds
    <3>2. StoreOK'
      BY <3>1, <1>k, <2>1, PutType
    <3> QED BY <3>1, <3>2, ConstantsOK
  <2>4. CASE PodGone(n)
    BY <2>4, <1>k, <2>1, PutType DEF PodGone
  <2> QED BY <1>4, <2>2, <2>3, <2>4 DEF Kubelet
<1>5. ASSUME NEW k \in Kinds \ {"dp"}, Collect(k, n)
      PROVE  StoreOK' /\ RestOK'
  <2> DEFINE y == IF k = "pod" THEN DeletedPod(api[k][n]) ELSE NoOwned
  <2>1. y \in Object(k)
    BY StoreAt, AbsentType, DeletedPodType DEF Kinds
  <2>2. Put(k, n, y, queue) /\ UNCHANGED <<worker, ids, world>>
    BY <1>5 DEF Collect
  <2> HIDE DEF y
  <2> QED BY <1>k, <2>1, <2>2, PutType
<1> QED BY <1>1, <1>2, <1>3, <1>4, <1>5 DEF User

\* Server-side apply of an owned object.
LEMMA ApplyOwnedType ==
    ASSUME StoreOK, RestOK, NEW n \in Names, NEW k \in {"pvc", "sec", "svc"}, ApplyOwned(k, n)
    PROVE  StoreOK' /\ ids' \in [Kinds -> Nat]
<1> DEFINE x == api[k][n]
           y == [uid |-> IF x.uid = 0 THEN ids[k] + 1 ELSE x.uid, owner |-> d.uid]
<1>1. k \in Kinds /\ queue \in SUBSET Names /\ ids[k] \in Nat
  BY DEF Kinds, StoreOK, RestOK
<1>2. y \in Object(k)
  <2>1. x \in Owned /\ Object(k) = Owned /\ d.uid \in Nat
    BY StoreAt DEF RestOK, DevPod
  <2>2. x.uid \in Nat /\ ids[k] + 1 \in Nat
    BY <2>1, <1>1 DEF Owned
  <2> HIDE DEF x
  <2> QED BY <2>1, <2>2 DEF Owned
<1>3. Put(k, n, y, queue) /\ ids' = IF x.uid = 0 THEN [ids EXCEPT ![k] = @ + 1] ELSE ids
  BY DEF ApplyOwned
<1> HIDE DEF y
<1>4. StoreOK'
  BY <1>1, <1>2, <1>3, PutType
<1>5. ids' \in [Kinds -> Nat]
  BY <1>1, <1>3 DEF RestOK
<1> QED BY <1>4, <1>5

\* Every call of a reconcile.
LEMMA StepType ==
    ASSUME StoreOK, RestOK, NEW n \in Names, Step(n)
    PROVE  StoreOK' /\ RestOK'
<1> USE DEF world
<1>k. /\ Kinds = {"dp", "pod", "pvc", "sec", "svc"} /\ queue \in SUBSET Names
      /\ queue \cup {n} \in SUBSET Names
  BY DEF Kinds, StoreOK
<1>s. \A step \in Steps : Goto(n, step) => pc' \in [Names -> Steps]
  BY DEF Goto, RestOK
<1>t. /\ {"netpol", "rmfin", "pvc", "pod", "delfailed", "svc", "deny", "allow", "status"} \subseteq Steps
      /\ d \in DevPod /\ d.st \in Status /\ d.uid \in Nat
  BY DEF Steps, ApplySteps, DeleteSteps, RestOK, DevPod
<1>n. NoPut(queue) => StoreOK'
  BY DEF NoPut, StoreOK
<1>1. CASE DetachPVC(n)
  <2> DEFINE p == api["pvc"][n]
             y == [p EXCEPT !.owner = 0]
  <2>1. y \in Object("pvc")
    BY StoreAt DEF Owned
  <2>2. CASE Fail(n)
    BY <2>2, FailType
  <2>3. CASE /\ NoPut(queue) \/ Put("pvc", n, y, queue)
             /\ Goto(n, "netpol") /\ UNCHANGED <<d, ra, ids, world>>
    <3> HIDE DEF y
    <3>1. StoreOK'
      BY <2>3, <2>1, <1>k, <1>n, PutType
    <3> QED BY <2>3, <3>1, <1>s, <1>t DEF RestOK
  <2> QED BY <1>1, <2>2, <2>3 DEF DetachPVC
<1>2. CASE CleanupOwnerNetPolIfLast(n)
  <2>1. NoPut(queue) /\ Goto(n, "rmfin") /\ pol' \in [Owners -> Nat \cup {NoPolicy}]
        /\ UNCHANGED <<d, ra, ids, deny, timer, promised, now, edits, podFaults, faults>>
    BY <1>2 DEF CleanupOwnerNetPolIfLast, RestOK, Owners
  <2> QED BY <2>1, <1>n, <1>s, <1>t DEF RestOK
<1>3. CASE RemoveFinalizer(n)
  <2>1. NoDevPod \in Object("dp")
    BY AbsentType, StoreAt
  <2>2. CASE Fail(n)
    BY <2>2, FailType
  <2>3. CASE Put("dp", n, NoDevPod, queue) /\ Return /\ UNCHANGED <<ids, world>>
    <3>1. StoreOK'
      BY <2>3, <2>1, <1>k, PutType
    <3> QED BY <2>3, <3>1, ReturnType DEF RestOK
  <2> QED BY <1>3, <2>2, <2>3 DEF RemoveFinalizer
<1>4. CASE AddFinalizer(n)
  <2> DEFINE y == [d EXCEPT !.fin = TRUE]
  <2>1. y \in Object("dp")
    BY StoreAt, <1>t DEF DevPod
  <2>2. CASE Fail(n)
    BY <2>2, FailType
  <2>3. CASE Put("dp", n, y, queue \cup {n}) /\ Return /\ UNCHANGED <<ids, world>>
    <3> HIDE DEF y
    <3>1. StoreOK'
      BY <2>3, <2>1, <1>k, PutType
    <3> QED BY <2>3, <3>1, ReturnType DEF RestOK
  <2> QED BY <1>4, <2>2, <2>3 DEF AddFinalizer
<1>d. DeletedPod(api["pod"][n]) \in Object("pod")
  BY StoreAt, DeletedPodType
<1>5. CASE Hibernate(n)
  <2>1. StoreOK'
    BY <1>5, <1>d, <1>k, PutType DEF Hibernate
  <2> QED BY <1>5, <2>1, <1>s, <1>t DEF Hibernate, RestOK
<1>6. CASE EnsureHostKeySecret(n)
  <2> DEFINE y == [uid |-> ids["sec"] + 1, owner |-> d.uid]
  <2>0. ids["sec"] \in Nat
    BY <1>k DEF RestOK
  <2>1. y \in Object("sec")
    <3>1. Object("sec") = Owned /\ ids["sec"] + 1 \in Nat
      BY <2>0, StoreAt
    <3> QED BY <3>1, <1>t DEF Owned
  <2>2. CASE Fail(n)
    BY <2>2, FailType
  <2>3. CASE /\ NoPut(queue) \/ Put("sec", n, y, queue)
             /\ ids' = [ids EXCEPT !["sec"] = @ + 1] \/ ids' = ids
             /\ Goto(n, "pvc") /\ UNCHANGED <<d, ra, world>>
    <3> HIDE DEF y
    <3>1. StoreOK'
      BY <2>3, <2>1, <1>k, <1>n, PutType
    <3>2. ids' \in [Kinds -> Nat]
      BY <2>3, <2>0, <1>k DEF RestOK
    <3> QED BY <2>3, <3>1, <3>2, <1>s, <1>t DEF RestOK
  <2> QED BY <1>6, <2>2, <2>3 DEF EnsureHostKeySecret
<1>7. CASE ApplyPVC(n)
  <2>1. StoreOK' /\ ids' \in [Kinds -> Nat]
    BY <1>7, <1>n, ApplyOwnedType DEF ApplyPVC, RestOK
  <2> QED BY <1>7, <2>1, <1>s, <1>t DEF ApplyPVC, RestOK
<1>8. CASE ApplyPodWithDriftRecreate(n)
  <2>1. CASE RecordFailure(n)
    <3> DEFINE cur == api["dp"][n]
               new == [d.st EXCEPT !.phase = "Failed", !.retry = @ + 1, !.failAt = now]
               upd == [cur EXCEPT !.st = MergePatch(cur.st, d.st, new)]
    <3>1. cur \in DevPod /\ cur.st \in Status /\ now \in Nat /\ new \in Status
      <4>1. cur \in DevPod /\ now \in Nat
        BY StoreAt DEF RestOK
      <4>2. cur.st \in Status
        BY <4>1 DEF DevPod
      <4>3. d.st.retry + 1 \in Nat /\ "Failed" \in Phases
        <5>1. d.st.retry \in Nat
          BY <1>t DEF Status
        <5> QED BY <5>1 DEF Phases
      <4>4. new \in Status
        BY <4>1, <4>3, <1>t DEF Status
      <4> QED BY <4>1, <4>2, <4>4
    <3>2. MergePatch(cur.st, d.st, new) \in Status
      BY <3>1, <1>t, StatusType, AbsentType
    <3>3. upd \in DevPod /\ Object("dp") = DevPod
      BY <3>1, <3>2, StoreAt DEF DevPod
    <3>4. CASE Fail(n)
      BY <3>4, FailType
    <3>5. CASE Put("dp", n, upd, queue) /\ d' = upd /\ Goto(n, "delfailed")
               /\ UNCHANGED <<ra, ids, world>>
      <4> HIDE DEF upd
      <4>1. StoreOK'
        BY <3>5, <3>3, <1>k, PutType
      <4> QED BY <3>5, <3>3, <4>1, <1>s, <1>t DEF RestOK
    <3> QED BY <2>1, <3>4, <3>5 DEF RecordFailure
  <2>2. CASE /\ Put("pod", n, DeletedPod(api["pod"][n]), queue)
             /\ Goto(n, "svc") /\ UNCHANGED <<d, ra, ids, world>>
    <3>1. StoreOK'
      BY <2>2, <1>d, <1>k, PutType
    <3> QED BY <2>2, <3>1, <1>s, <1>t DEF RestOK
  <2>3. CASE /\ InBackoff(d.st) /\ ra' = BackoffLeft(d.st)
             /\ NoPut(queue) /\ Goto(n, "svc") /\ UNCHANGED <<d, ids, world>>
    <3>1. /\ d.st.retry \in Nat /\ d.st.failAt \in Nat /\ now \in Nat
          /\ failureBackoff(d.st.retry) \in Nat
      BY <1>t, BackoffType DEF Status, RestOK
    <3>2. ra' \in Nat
      BY <2>3, <3>1 DEF BackoffLeft, InBackoff
    <3> QED BY <2>3, <3>2, <1>n, <1>s, <1>t DEF RestOK
  <2>4. CASE ApplyPod(n)
    <3> DEFINE p == api["pod"][n]
               y == IF p.uid = 0
                    THEN [NoPod EXCEPT !.uid = ids["pod"] + 1, !.owner = d.uid, !.tmpl = d.tmpl]
                    ELSE [p EXCEPT !.owner = d.uid]
    <3>0. ids["pod"] \in Nat /\ d.tmpl \in {0, 1} /\ NoPod \in Pod /\ p \in Pod
          /\ Object("pod") = Pod
      BY <1>k, <1>t, AbsentType, StoreAt DEF RestOK, DevPod
    <3>1. y \in Object("pod")
      <4>1. ids["pod"] + 1 \in Nat
        BY <3>0
      <4>2. [NoPod EXCEPT !.uid = ids["pod"] + 1, !.owner = d.uid, !.tmpl = d.tmpl] \in Pod
        BY <4>1, <3>0, <1>t DEF Pod
      <4>3. [p EXCEPT !.owner = d.uid] \in Pod
        BY <3>0, <1>t DEF Pod
      <4> QED BY <3>0, <4>2, <4>3
    <3>2. CASE Fail(n)
      BY <3>2, FailType
    <3>3. CASE /\ ids' = [ids EXCEPT !["pod"] = @ + 1] \/ ids' = ids
               /\ Put("pod", n, y, queue) /\ Goto(n, "svc") /\ UNCHANGED <<d, ra, world>>
      <4> HIDE DEF y
      <4>1. StoreOK'
        BY <3>3, <3>1, <1>k, PutType
      <4>2. ids' \in [Kinds -> Nat]
        BY <3>3, <3>0, <1>k DEF RestOK
      <4> QED BY <3>3, <4>1, <4>2, <1>s, <1>t DEF RestOK
    <3> QED BY <2>4, <3>2, <3>3 DEF ApplyPod
  <2> QED BY <1>8, <2>1, <2>2, <2>3, <2>4 DEF ApplyPodWithDriftRecreate
<1>9. CASE DeleteFailedPod(n)
  <2>1. StoreOK'
    BY <1>9, <1>d, <1>k, PutType DEF DeleteFailedPod
  <2>2. ra' \in Nat
    BY <1>9, <1>t, BackoffType DEF DeleteFailedPod, Status
  <2> QED BY <1>9, <2>1, <2>2, <1>s, <1>t DEF DeleteFailedPod, RestOK
<1>10. CASE ApplyService(n)
  <2>1. StoreOK' /\ ids' \in [Kinds -> Nat]
    BY <1>10, ApplyOwnedType DEF ApplyService
  <2> QED BY <1>10, <2>1, <1>s, <1>t DEF ApplyService, RestOK
<1>11. CASE ApplyDefaultDeny(n)
  BY <1>11, <1>n, <1>s, <1>t DEF ApplyDefaultDeny, RestOK
<1>12. CASE ApplyOwnerAllow(n)
  <2>1. BackendPort(n, d) \in Nat
    BY <1>t DEF BackendPort, DefaultPort
  <2>2. pol' \in [Owners -> Nat \cup {NoPolicy}]
    BY <1>12, <2>1 DEF ApplyOwnerAllow, RestOK
  <2> QED BY <1>12, <2>2, <1>n, <1>s, <1>t DEF ApplyOwnerAllow, RestOK
<1>13. CASE UpdateStatus(n)
  <2> DEFINE cur == api["dp"][n]
             new == Desired(d, cache["pod"][n])
             upd == [cur EXCEPT !.st = MergePatch(cur.st, d.st, new)]
             due == now + ra
  <2>1. cur \in DevPod /\ cur.st \in Status /\ now \in Nat /\ new \in Status
    <3>1. cur \in DevPod /\ cur.st \in Status /\ now \in Nat
      BY StoreAt DEF DevPod, RestOK
    <3> QED BY <3>1, StoreAt, <1>t, StatusType
  <2>2. MergePatch(cur.st, d.st, new) \in Status
    BY <2>1, <1>t, StatusType, AbsentType
  <2>3. upd \in Object("dp")
    BY <2>1, <2>2, StoreAt DEF DevPod
  <2>4. CASE Fail(n)
    BY <2>4, FailType
  <2>5. CASE /\ NoPut(queue) \/ Put("dp", n, upd, queue)
             /\ timer' = [timer EXCEPT ![n] = due] \/ timer' = timer
             /\ Return /\ UNCHANGED <<ids, pol, deny, promised, now, edits, podFaults, faults>>
    <3> HIDE DEF upd
    <3>1. StoreOK'
      BY <2>5, <2>3, <1>k, <1>n, PutType
    <3>2. timer' \in [Names -> Nat]
      BY <2>5, <2>1 DEF RestOK
    <3> QED BY <2>5, <3>1, <3>2, ReturnType DEF RestOK
  <2> QED BY <1>13, <2>4, <2>5 DEF UpdateStatus
<1> QED BY <1>1, <1>2, <1>3, <1>4, <1>5, <1>6, <1>7, <1>8, <1>9, <1>10, <1>11, <1>12, <1>13 DEF Step

\* The initial state is well-typed.
LEMMA TypeInit == Init => TypeOK
<1> SUFFICES ASSUME Init PROVE TypeOK
  OBVIOUS
<1>1. StoreOK
  <2>1. api \in [Kinds -> [Names -> AnyObject]] /\ cache = api
        /\ \A k \in Kinds : api[k] \in [Names -> Object(k)]
    BY AbsentType DEF Init
  <2>2. \A S : <<>> \in Seq(S) /\ Len(<<>>) = 0
    BY EmptySeq
  <2>3. Lag \in [Kinds -> Nat]
    BY ConstantsOK
  <2> QED BY <2>1, <2>2, <2>3 DEF Init, StoreOK
<1>2. RestOK
  <2>1. /\ pol \in [Owners -> Nat \cup {NoPolicy}] /\ deny \in BOOLEAN
        /\ timer \in [Names -> Nat] /\ ids \in [Kinds -> Nat] /\ ra \in Nat
        /\ promised \in [Names -> SUBSET Nat]
    BY DEF Init
  <2>2. pc \in [Names -> Steps] /\ d \in DevPod
    BY AbsentType DEF Init, Steps
  <2>3. /\ now \in Nat \ {0} /\ edits \in 0..MaxEdits
        /\ podFaults \in 0..MaxPodFaults /\ faults \in 0..MaxFaults
    BY ConstantsOK DEF Init
  <2> QED BY <2>1, <2>2, <2>3 DEF RestOK
<1> QED BY <1>1, <1>2, TypeParts

\* Every step keeps the types.
LEMMA TypeNext == TypeOK /\ [Next]_vars => TypeOK'
<1> SUFFICES ASSUME StoreOK, RestOK, [Next]_vars PROVE StoreOK' /\ RestOK'
  BY TypeParts DEF TypeOK, RestOK
<1>1. ASSUME NEW n \in Names,
             User(n) \/ Kubelet(n) \/ \E k \in Kinds \ {"dp"} : Collect(k, n)
      PROVE  StoreOK' /\ RestOK'
  BY <1>1, EnvironmentType
<1>2. ASSUME NEW n \in Names, Step(n)
      PROVE  StoreOK' /\ RestOK'
  BY <1>2, StepType
<1>3. ASSUME NEW n \in Names, Reconcile(n)
      PROVE  StoreOK' /\ RestOK'
  <2>1. FirstStep(n, cache["dp"][n]) \in Steps
    BY DEF FirstStep, Steps, ApplySteps, DeleteSteps
  <2>2. cache["dp"][n] \in DevPod /\ NoDevPod \in DevPod
    BY StoreAt, AbsentType
  <2>3. StoreOK'
    BY <1>3 DEF Reconcile, NoPut, StoreOK
  <2> QED BY <1>3, <2>1, <2>2, <2>3 DEF Reconcile, Goto, RestOK, world
<1>4. ASSUME NEW n \in Names, CallFails(n)
      PROVE  StoreOK' /\ RestOK'
  <2>1. StoreOK'
    BY <1>4 DEF CallFails, NoPut, StoreOK
  <2>2. faults' \in 0..MaxFaults
    BY <1>4, ConstantsOK DEF CallFails, RestOK
  <2> QED BY <1>4, <2>1, <2>2, ReturnType DEF CallFails, RestOK
<1>5. ASSUME NEW n \in Names, TimerFires(n)
      PROVE  StoreOK' /\ RestOK'
  BY <1>5 DEF TimerFires, NoPut, StoreOK, RestOK, worker
<1>6. ASSUME NEW k \in Kinds, Deliver(k)
      PROVE  StoreOK' /\ RestOK'
  BY <1>6, DeliverType DEF Deliver, DeliverEvent, RestOK, worker, world
<1>7. CASE Restart
  <2>1. events' \in [Kinds -> Seq([n : Names, o : AnyObject])]
    BY <1>7 DEF Restart
  <2>2. \A k \in Kinds : events'[k] \in Seq([n : Names, o : Object(k)]) /\ Len(events'[k]) <= Lag[k]
    BY <1>7, ConstantsOK DEF Restart
  <2>3. api' = api /\ cache' = api /\ queue' \subseteq Names
    BY <1>7 DEF Restart
  <2>4. StoreOK'
    BY <2>1, <2>2, <2>3 DEF StoreOK
  <2>5. faults' \in 0..MaxFaults /\ timer' \in [Names -> Nat]
    BY <1>7, ConstantsOK DEF Restart, RestOK
  <2> QED BY <1>7, <2>4, <2>5, ReturnType DEF Restart, RestOK
<1>8. CASE Tick
  <2>1. StoreOK'
    BY <1>8 DEF Tick, StoreOK
  <2>2. now' \in Nat \ {0}
    BY <1>8 DEF Tick, RestOK
  <2> QED BY <1>8, <2>1, <2>2 DEF Tick, RestOK, worker
<1>9. CASE UNCHANGED vars
  BY <1>9 DEF vars, StoreOK, RestOK
<1> QED BY <1>1, <1>2, <1>3, <1>4, <1>5, <1>6, <1>7, <1>8, <1>9 DEF Next

\* TypeOK: every store holds objects of its kind, the cache lag stays within
\* its bound and the controller's registers keep their types.
THEOREM TypeCorrect == Spec => []TypeOK
BY TypeInit, TypeNext, PTL DEF Spec

-----------------------------------------------------------------------------
(* The owner's policy *)

(* c is the cache, s the watch stream and a the API server's store of       *)
(* DevPods.                                                                 *)

\* The versions of the DevPod of name n that a reader may yet be shown.
Versions(c, s, a, n) ==
    {c[n], a[n]} \cup {s[i].o : i \in {j \in 1..Len(s) : s[j].n = n}}

\* v is no later than w: a later one is of a younger DevPod, or of the same
\* DevPod and keeps its deletionTimestamp.  (uid 0, absence, says nothing.)
Precedes(v, w) == \/ v.uid = 0 \/ w.uid = 0 \/ v.uid < w.uid
                  \/ v.uid = w.uid /\ (v.del => w.del)

\* w follows v on the way to the reader while x is at the API server: a
\* DevPod whose removal is under way is not the one that is stored.
Follows(v, w, x) == /\ Precedes(v, w)
                    /\ w.uid = 0 => v.uid = 0 \/ v.uid # x.uid

Ordered(c, s, a) ==
    /\ \A i \in 1..Len(s) : Follows(c[s[i].n], s[i].o, a[s[i].n])
    /\ \A i, j \in 1..Len(s) :
           i < j /\ s[i].n = s[j].n => Follows(s[i].o, s[j].o, a[s[i].n])

\* The versions of the DevPod of name n in the current state.
Visible(n) == Versions(cache["dp"], events["dp"], api["dp"], n)

\* No version is later than the stored one.
UpToDate == \A n \in Names : \A v \in Visible(n) : Precedes(v, api["dp"][n])

\* A version with our finalizer that is not being deleted is of a DevPod that
\* is still stored, with the finalizer: only the worker removes it, and only
\* after it has seen the deletion.
Held ==
    \A n \in Names : \A v \in Visible(n) :
        v.uid # 0 /\ v.fin /\ ~v.del => api["dp"][n].uid = v.uid /\ api["dp"][n].fin

\* Uids are handed out once, and to one name.
Unique ==
    /\ \A n \in Names : \A v \in Visible(n) : v.uid <= ids["dp"]
    /\ \A n, m \in Names : \A v \in Visible(n) : \A w \in Visible(m) :
           v.uid # 0 /\ v.uid = w.uid => n = m

\* The DevPod u of name n is all a reader can still be shown.
Seen(n, u) == \A v \in Visible(n) : v.uid = u

\* A DevPod with an endpoint was reconciled, hence seen.
EndpointSeen ==
    \A n \in Names : api["dp"][n].uid # 0 /\ api["dp"][n].st.ep # 0
        => api["dp"][n].fin /\ Seen(n, api["dp"][n].uid)

History == /\ Ordered(cache["dp"], events["dp"], api["dp"])
           /\ UpToDate /\ Held /\ Unique /\ EndpointSeen

\* The worker deletes: its copy bears the deletionTimestamp, and no reader
\* will be shown the same DevPod without one.
Deleting ==
    \A n \in Names : pc[n] \in DeleteSteps =>
        /\ d.uid # 0 /\ d.del /\ d.uid <= ids["dp"]
        /\ \A v \in Visible(n) : Precedes(d, v)
        /\ \A m \in Names \ {n} : \A v \in Visible(m) : v.uid # d.uid

\* The worker applies: its copy is of the stored DevPod, held by the finalizer.
Applying ==
    \A n \in Names : pc[n] \in ApplySteps \cup {"hibernate", "status"} =>
        /\ d.uid # 0 /\ api["dp"][n].uid = d.uid /\ api["dp"][n].fin
        /\ Seen(n, d.uid)

-----------------------------------------------------------------------------
\* At most one reconcile is under way.
OneWorker == \A n, m \in Names : pc[n] # "idle" /\ pc[m] # "idle" => n = m

\* The policy is there before the status step publishes an endpoint.
PolicyFirst ==
    /\ \A n \in Names : pc[n] = "hibernate" => ~d.running
    /\ IsolateNetwork => \A n \in Names :
           pc[n] = "status" /\ d.running => pol[OwnerOf[n]] # NoPolicy

Core == /\ History /\ Deleting /\ Applying
        /\ OneWorker /\ PolicyFirst /\ EndpointHasPolicy

IInv == TypeOK /\ Core

-----------------------------------------------------------------------------
(* Watch streams *)

EventOf(O) == [n : Names, o : O]
Event == EventOf(DevPod)

\* An event joins the end of the stream.
LEMMA AppendAt ==
    ASSUME NEW E, NEW s \in Seq(E), NEW e \in E
    PROVE  /\ Append(s, e) \in Seq(E) /\ Append(s, e) # <<>>
           /\ Len(s) \in Nat /\ Len(Append(s, e)) = Len(s) + 1
           /\ \A i \in 1..Len(s) : Append(s, e)[i] = s[i]
           /\ Append(s, e)[Len(s) + 1] = e
OBVIOUS

\* The oldest event leaves the stream.
LEMMA TailAt ==
    ASSUME NEW E, NEW s \in Seq(E), s # <<>>
    PROVE  /\ Tail(s) \in Seq(E) /\ Head(s) \in E
           /\ Len(s) \in Nat \ {0} /\ Len(Tail(s)) = Len(s) - 1
           /\ Head(s) = s[1]
           /\ \A i \in 1..Len(Tail(s)) : Tail(s)[i] = s[i + 1]
<1>1. Len(s) \in Nat \ {0}
  BY EmptySeq
<1>2. Head(s) = s[1]
  BY <1>1
<1> QED BY <1>1, <1>2, HeadTailProperties

\* Membership in Versions.
LEMMA InVersions ==
    ASSUME NEW c, NEW s, NEW a, NEW n, NEW v
    PROVE  v \in Versions(c, s, a, n) <=>
             \/ v = c[n] \/ v = a[n]
             \/ \E i \in 1..Len(s) : s[i].n = n /\ s[i].o = v
BY DEF Versions

\* A write adds only the version written.
LEMMA AppendVersions ==
    ASSUME NEW O, NEW c, NEW s \in Seq(EventOf(O)), NEW a, NEW b,
           NEW n \in Names, NEW o \in O, NEW m \in Names, b[m] = IF m = n THEN o ELSE a[m],
           NEW v \in Versions(c, Append(s, [n |-> n, o |-> o]), b, m)
    PROVE  v \in Versions(c, s, a, m) \/ (m = n /\ v = o)
<1> DEFINE e == [n |-> n, o |-> o]
           t == Append(s, e)
<1>1. e \in EventOf(O)
  BY DEF EventOf
<1>2. /\ Len(s) \in Nat /\ Len(t) = Len(s) + 1
      /\ \A i \in 1..Len(s) : t[i] = s[i]
      /\ t[Len(s) + 1] = e
  BY <1>1, AppendAt
<1>3. \/ v = c[m] \/ v = b[m]
      \/ \E i \in 1..Len(t) : t[i].n = m /\ t[i].o = v
  <2>1. v \in Versions(c, t, b, m)
    OBVIOUS
  <2> HIDE DEF t
  <2> QED BY <2>1, InVersions
<1>4. CASE v = c[m]
  BY <1>4, InVersions
<1>5. CASE v = b[m]
  <2>1. v = a[m] \/ (m = n /\ v = o)
    BY <1>5
  <2> QED BY <2>1, InVersions
<1>6. ASSUME NEW i \in 1..Len(t), t[i].n = m, t[i].o = v
      PROVE  v \in Versions(c, s, a, m) \/ (m = n /\ v = o)
  <2> HIDE DEF t
  <2>1. CASE i = Len(s) + 1
    BY <2>1, <1>2, <1>6
  <2>2. CASE i # Len(s) + 1
    <3>1. i \in 1..Len(s)
      BY <2>2, <1>2
    <3>2. s[i].n = m /\ s[i].o = v
      BY <3>1, <1>2, <1>6
    <3> QED BY <3>1, <3>2, InVersions
  <2> QED BY <2>1, <2>2
<1> QED BY <1>3, <1>4, <1>5, <1>6

\* A delivery adds no version.
LEMMA DeliverVersions ==
    ASSUME NEW O, NEW c \in [Names -> O], NEW s \in Seq(EventOf(O)), s # <<>>,
           NEW a, NEW m \in Names,
           NEW v \in Versions([c EXCEPT ![Head(s).n] = Head(s).o], Tail(s), a, m)
    PROVE  v \in Versions(c, s, a, m)
<1> DEFINE h == Head(s)
           t == Tail(s)
           cc == [c EXCEPT ![h.n] = h.o]
<1>1. /\ h \in EventOf(O) /\ Len(s) \in Nat \ {0} /\ Len(t) = Len(s) - 1 /\ h = s[1]
      /\ \A i \in 1..Len(t) : t[i] = s[i + 1]
  BY TailAt
<1>2. \/ v = cc[m] \/ v = a[m] \/ \E i \in 1..Len(t) : t[i].n = m /\ t[i].o = v
  <2>1. v \in Versions(cc, t, a, m)
    OBVIOUS
  <2> HIDE DEF cc, t
  <2> QED BY <2>1, InVersions
<1> HIDE DEF h, t
<1>3. CASE v = cc[m]
  <2>1. v = c[m] \/ (m = h.n /\ v = h.o)
    BY <1>3
  <2>2. 1 \in 1..Len(s)
    BY <1>1
  <2> QED BY <2>1, <2>2, <1>1, InVersions
<1>4. CASE v = a[m]
  BY <1>4, InVersions
<1>5. ASSUME NEW i \in 1..Len(t), t[i].n = m, t[i].o = v
      PROVE  v \in Versions(c, s, a, m)
  <2>1. i + 1 \in 1..Len(s) /\ s[i + 1] = t[i]
    BY <1>1
  <2> QED BY <2>1, <1>5, InVersions
<1> QED BY <1>2, <1>3, <1>4, <1>5

\* A write of a version that follows the others keeps the stream ordered.
LEMMA AppendOrdered ==
    ASSUME NEW c, NEW s \in Seq(Event), NEW a \in [Names -> DevPod], Ordered(c, s, a),
           NEW n \in Names, NEW o \in DevPod,
           \A v \in Versions(c, s, a, n) : Precedes(v, o),
           o.uid \in {0, a[n].uid} \/ \A v \in Versions(c, s, a, n) : v.uid # o.uid
    PROVE  Ordered(c, Append(s, [n |-> n, o |-> o]), [a EXCEPT ![n] = o])
<1> DEFINE e == [n |-> n, o |-> o]
           t == Append(s, e)
           b == [a EXCEPT ![n] = o]
<1>1. e \in Event
  BY DEF Event, EventOf
<1>2. /\ Len(s) \in Nat /\ Len(t) = Len(s) + 1
      /\ \A i \in 1..Len(s) : t[i] = s[i]
      /\ t[Len(s) + 1] = e
  BY <1>1, AppendAt
<1>e. e.n = n /\ e.o = o /\ b[n] = o
  OBVIOUS
<1>v. /\ c[n] \in Versions(c, s, a, n)
      /\ \A i \in 1..Len(s) : s[i].n = n => s[i].o \in Versions(c, s, a, n)
  BY InVersions
<1>s. \A i \in 1..Len(s) : s[i].n \in Names
  <2> SUFFICES ASSUME NEW i \in 1..Len(s) PROVE s[i].n \in Names
    OBVIOUS
  <2>1. s[i] \in Event
    BY ElementOfSeq
  <2> QED BY <2>1 DEF Event, EventOf
<1>f. ASSUME NEW v, NEW w, NEW m \in Names, Follows(v, w, a[m]), m = n => v \in Versions(c, s, a, n)
      PROVE  Follows(v, w, b[m])
  <2>1. CASE m # n
    <3>1. b[m] = a[m]
      BY <2>1
    <3> QED BY <3>1, <1>f
  <2>2. CASE m = n
    BY <2>2, <1>e, <1>f DEF Follows
  <2> QED BY <2>1, <2>2
<1>g. ASSUME NEW v \in Versions(c, s, a, n)
      PROVE  Follows(v, o, b[n])
  BY <1>e DEF Follows
<1> HIDE DEF t, b, e
<1>3. ASSUME NEW i \in 1..Len(t)
      PROVE  Follows(c[t[i].n], t[i].o, b[t[i].n])
  <2>1. CASE i \in 1..Len(s)
    <3>1. Follows(c[s[i].n], s[i].o, a[s[i].n])
      BY <2>1 DEF Ordered
    <3> QED BY <3>1, <2>1, <1>2, <1>s, <1>f, <1>v
  <2>2. CASE i = Len(s) + 1
    BY <2>2, <1>2, <1>e, <1>g, <1>v
  <2> QED BY <2>1, <2>2, <1>2
<1>4. ASSUME NEW i \in 1..Len(t), NEW j \in 1..Len(t), i < j, t[i].n = t[j].n
      PROVE  Follows(t[i].o, t[j].o, b[t[i].n])
  <2>0. i \in 1..Len(s) /\ t[i] = s[i]
    BY <1>2, <1>4
  <2>1. CASE j \in 1..Len(s)
    <3>1. Follows(s[i].o, s[j].o, a[s[i].n])
      BY <2>0, <2>1, <1>2, <1>4 DEF Ordered
    <3>2. t[j] = s[j]
      BY <2>1, <1>2
    <3> QED BY <3>1, <3>2, <2>0, <1>s, <1>f, <1>v
  <2>2. CASE j = Len(s) + 1
    <3>1. t[j].o = o /\ t[i].n = n
      BY <2>2, <1>2, <1>e, <1>4
    <3>2. t[i].o \in Versions(c, s, a, n)
      BY <3>1, <2>0, <1>v
    <3> QED BY <3>1, <3>2, <1>g
  <2> QED BY <2>1, <2>2, <1>2
<1> QED BY <1>3, <1>4 DEF Ordered, t, b, e

\* A delivery keeps the stream ordered.
LEMMA DeliverOrdered ==
    ASSUME NEW c \in [Names -> DevPod], NEW s \in Seq(Event), s # <<>>, NEW a, Ordered(c, s, a)
    PROVE  Ordered([c EXCEPT ![Head(s).n] = Head(s).o], Tail(s), a)
<1> DEFINE h == Head(s)
           t == Tail(s)
           cc == [c EXCEPT ![h.n] = h.o]
<1>1. /\ h \in Event /\ t \in Seq(Event)
      /\ Len(s) \in Nat \ {0} /\ Len(t) = Len(s) - 1 /\ h = s[1]
      /\ \A i \in 1..Len(t) : t[i] = s[i + 1]
  BY TailAt
<1>2. h.n \in Names /\ \A i \in 1..Len(t) : t[i].n \in Names
  <2>1. \A i \in 1..Len(t) : t[i] \in Event
    BY <1>1, ElementOfSeq
  <2> QED BY <1>1, <2>1 DEF Event, EventOf
<1> HIDE DEF h, t
<1>3. ASSUME NEW i \in 1..Len(t)
      PROVE  Follows(cc[t[i].n], t[i].o, a[t[i].n])
  <2>0. i + 1 \in 1..Len(s) /\ 1 \in 1..Len(s) /\ 1 < i + 1 /\ s[i + 1] = t[i]
    BY <1>1
  <2>1. CASE t[i].n = h.n
    <3>1. cc[t[i].n] = h.o
      BY <2>1, <1>2
    <3>2. Follows(s[1].o, s[i + 1].o, a[s[1].n])
      BY <2>0, <2>1, <1>1 DEF Ordered
    <3> QED BY <3>1, <3>2, <2>0, <2>1, <1>1
  <2>2. CASE t[i].n # h.n
    <3>1. cc[t[i].n] = c[t[i].n]
      BY <2>2, <1>2
    <3> QED BY <3>1, <2>0 DEF Ordered
  <2> QED BY <2>1, <2>2
<1>4. ASSUME NEW i \in 1..Len(t), NEW j \in 1..Len(t), i < j, t[i].n = t[j].n
      PROVE  Follows(t[i].o, t[j].o, a[t[i].n])
  <2>1. /\ i + 1 \in 1..Len(s) /\ j + 1 \in 1..Len(s) /\ i + 1 < j + 1
        /\ s[i + 1] = t[i] /\ s[j + 1] = t[j]
    BY <1>1, <1>4
  <2> QED BY <2>1, <1>4 DEF Ordered
<1> QED BY <1>3, <1>4 DEF Ordered, t, h

-----------------------------------------------------------------------------
(* Writes to the store of DevPods *)

\* The types of the three places where DevPods are kept.
LEMMA DevPodStore ==
    ASSUME StoreOK
    PROVE  /\ cache["dp"] \in [Names -> DevPod] /\ api["dp"] \in [Names -> DevPod]
           /\ events["dp"] \in Seq(Event)
           /\ "dp" \in DOMAIN api /\ "dp" \in DOMAIN cache /\ "dp" \in DOMAIN events
BY DEF StoreOK, Kinds, Object, Event, EventOf

\* Every version is a DevPod.
LEMMA VersionType ==
    ASSUME StoreOK, NEW n \in Names, NEW v \in Visible(n)
    PROVE  v \in DevPod /\ v.uid \in Nat
<1>1. \/ v = cache["dp"][n] \/ v = api["dp"][n]
      \/ \E i \in 1..Len(events["dp"]) : events["dp"][i].o = v
  BY InVersions DEF Visible
<1>2. ASSUME NEW i \in 1..Len(events["dp"]) PROVE events["dp"][i].o \in DevPod
  <2>1. events["dp"][i] \in Event
    BY DevPodStore, ElementOfSeq
  <2> QED BY <2>1 DEF Event, EventOf
<1>3. v \in DevPod
  BY <1>1, <1>2, DevPodStore
<1> QED BY <1>3 DEF DevPod

\* A write of a kind other than DevPod leaves them alone.
LEMMA PutOther ==
    ASSUME StoreOK, NEW k \in Kinds \ {"dp"}, NEW n, NEW o, NEW q, Put(k, n, o, q)
    PROVE  cache'["dp"] = cache["dp"] /\ events'["dp"] = events["dp"] /\ api'["dp"] = api["dp"]
BY DEF Put, StoreOK, Kinds

\* A write of a DevPod adds its version, in order.
LEMMA PutDevPod ==
    ASSUME StoreOK, Ordered(cache["dp"], events["dp"], api["dp"]),
           NEW n \in Names, NEW o \in DevPod, NEW q, Put("dp", n, o, q),
           \A v \in Visible(n) : Precedes(v, o),
           o.uid \in {0, api["dp"][n].uid} \/ \A v \in Visible(n) : v.uid # o.uid
    PROVE  /\ api'["dp"] = [api["dp"] EXCEPT ![n] = o]
           /\ Ordered(cache'["dp"], events'["dp"], api'["dp"])
           /\ \A m \in Names : \A v \in Visible(m)' : v \in Visible(m) \/ (m = n /\ v = o)
<1> DEFINE c == cache["dp"]
           s == events["dp"]
           a == api["dp"]
           b == [a EXCEPT ![n] = o]
           t == Append(s, [n |-> n, o |-> o])
           cc == [c EXCEPT ![Head(t).n] = Head(t).o]
<1>0. c \in [Names -> DevPod] /\ a \in [Names -> DevPod] /\ s \in Seq(Event)
  BY DevPodStore
<1>1. api'["dp"] = b
  BY DevPodStore DEF Put
<1>2. \/ o = a[n] /\ cache'["dp"] = c /\ events'["dp"] = s
      \/ cache'["dp"] = c /\ events'["dp"] = t
      \/ cache'["dp"] = cc /\ events'["dp"] = Tail(t)
  BY DevPodStore DEF Put
<1>3. t \in Seq(Event) /\ t # <<>>
  <2>1. [n |-> n, o |-> o] \in Event
    BY DEF Event, EventOf
  <2> QED BY <2>1, <1>0, AppendAt
<1>4. Ordered(c, t, b)
  BY <1>0, AppendOrdered DEF Visible
<1>5. \A m \in Names : \A v \in Versions(c, t, b, m) : v \in Visible(m) \/ (m = n /\ v = o)
  <2>1. \A m \in Names : b[m] = IF m = n THEN o ELSE a[m]
    BY <1>0
  <2> HIDE DEF b
  <2> QED BY <1>0, <2>1, AppendVersions DEF Visible, Event
<1>v. \A m : Visible(m)' = Versions(cache'["dp"], events'["dp"], api'["dp"], m)
  BY DEF Visible
<1>6. CASE o = a[n] /\ cache'["dp"] = c /\ events'["dp"] = s
  <2>1. b = a
    BY <1>6, <1>0
  <2> QED BY <1>6, <2>1, <1>1, <1>v DEF Visible
<1> HIDE DEF t, b
<1>7. CASE cache'["dp"] = c /\ events'["dp"] = t
  BY <1>7, <1>1, <1>4, <1>5, <1>v DEF b
<1>8. CASE cache'["dp"] = cc /\ events'["dp"] = Tail(t)
  <2>1. Ordered(cc, Tail(t), b)
    BY <1>0, <1>3, <1>4, DeliverOrdered
  <2>2. \A m \in Names : \A v \in Versions(cc, Tail(t), b, m) : v \in Versions(c, t, b, m)
    BY <1>0, <1>3, DeliverVersions DEF Event
  <2> HIDE DEF cc, c
  <2> QED BY <1>8, <1>1, <1>5, <2>1, <2>2, <1>v DEF b
<1> QED BY <1>2, <1>6, <1>7, <1>8

\* What a written version must satisfy to keep the history of versions.
LEMMA HistoryPut ==
    ASSUME StoreOK, History, ids["dp"] \in Nat, ids'["dp"] \in Nat, ids["dp"] <= ids'["dp"],
           NEW n \in Names, NEW o \in DevPod, NEW q, Put("dp", n, o, q),
           \A v \in Visible(n) : Precedes(v, o),
           o.uid \in {0, api["dp"][n].uid} \/ \A v \in Visible(n) : v.uid # o.uid,
           \A v \in Visible(n) : v.uid # 0 /\ v.fin /\ ~v.del => o.uid = v.uid /\ o.fin,
           o.uid <= ids'["dp"],
           o.uid # 0 => \A m \in Names \ {n} : \A v \in Visible(m) : v.uid # o.uid,
           o.uid # 0 /\ o.st.ep # 0 => o.fin /\ Seen(n, o.uid)
    PROVE  History'
<1>1. /\ api'["dp"] = [api["dp"] EXCEPT ![n] = o]
      /\ Ordered(cache'["dp"], events'["dp"], api'["dp"])
      /\ \A m \in Names : \A v \in Visible(m)' : v \in Visible(m) \/ (m = n /\ v = o)
  BY PutDevPod DEF History
<1>2. /\ api'["dp"][n] = o
      /\ \A m \in Names \ {n} : api'["dp"][m] = api["dp"][m]
  BY <1>1, DevPodStore
<1>3. UpToDate'
  <2> SUFFICES ASSUME NEW m \in Names, NEW v \in Visible(m)' PROVE Precedes(v, api'["dp"][m])
    BY DEF UpToDate
  <2>1. CASE m = n
    BY <2>1, <1>1, <1>2 DEF Precedes
  <2>2. CASE m # n
    BY <2>2, <1>1, <1>2 DEF UpToDate, History
  <2> QED BY <2>1, <2>2
<1>4. Held'
  <2> SUFFICES ASSUME NEW m \in Names, NEW v \in Visible(m)', v.uid # 0, v.fin, ~v.del
               PROVE  api'["dp"][m].uid = v.uid /\ api'["dp"][m].fin
    BY DEF Held
  <2>1. CASE m = n
    BY <2>1, <1>1, <1>2
  <2>2. CASE m # n
    BY <2>2, <1>1, <1>2 DEF Held, History
  <2> QED BY <2>1, <2>2
<1>5. Unique'
  <2>1. ASSUME NEW m \in Names, NEW v \in Visible(m)' PROVE v.uid <= ids'["dp"]
    <3>1. CASE v \in Visible(m)
      BY <3>1, VersionType DEF Unique, History
    <3> QED BY <3>1, <1>1
  <2>2. ASSUME NEW m \in Names, NEW l \in Names, NEW v \in Visible(m)', NEW w \in Visible(l)',
               v.uid # 0, v.uid = w.uid
        PROVE  m = l
    BY <2>2, <1>1 DEF Unique, History
  <2> QED BY <2>1, <2>2 DEF Unique
<1>6. EndpointSeen'
  <2> SUFFICES ASSUME NEW m \in Names, api'["dp"][m].uid # 0, api'["dp"][m].st.ep # 0
               PROVE  api'["dp"][m].fin /\ \A v \in Visible(m)' : v.uid = api'["dp"][m].uid
    BY DEF EndpointSeen, Seen
  <2>1. CASE m = n
    BY <2>1, <1>1, <1>2 DEF Seen
  <2>2. CASE m # n
    BY <2>2, <1>1, <1>2 DEF EndpointSeen, Seen, History
  <2> QED BY <2>1, <2>2
<1> QED BY <1>1, <1>3, <1>4, <1>5, <1>6 DEF History

\* An update of the stored DevPod: same uid, the deletionTimestamp and the
\* finalizer stay, and an endpoint appears only on a DevPod that was seen.
LEMMA HistoryUpdate ==
    ASSUME StoreOK, History, ids["dp"] \in Nat, ids'["dp"] = ids["dp"],
           NEW n \in Names, NEW o \in DevPod, NEW q, Put("dp", n, o, q),
           o.uid = api["dp"][n].uid, api["dp"][n].del => o.del, api["dp"][n].fin => o.fin,
           o.st.ep = api["dp"][n].st.ep \/ (api["dp"][n].fin /\ Seen(n, o.uid))
    PROVE  History'
<1>0. api["dp"][n] \in Visible(n) /\ api["dp"][n].uid \in Nat
  BY InVersions, VersionType DEF Visible
<1>1. \A v \in Visible(n) : Precedes(v, o)
  BY DEF History, UpToDate, Precedes
<1>2. \A v \in Visible(n) : v.uid # 0 /\ v.fin /\ ~v.del => o.uid = v.uid /\ o.fin
  BY DEF History, Held
<1>3. o.uid <= ids'["dp"]
  BY <1>0 DEF History, Unique
<1>4. o.uid # 0 => \A m \in Names \ {n} : \A v \in Visible(m) : v.uid # o.uid
  BY <1>0 DEF History, Unique
<1>5. o.uid # 0 /\ o.st.ep # 0 => o.fin /\ Seen(n, o.uid)
  BY DEF History, EndpointSeen
<1> QED BY <1>1, <1>2, <1>3, <1>4, <1>5, HistoryPut

\* A step that writes no DevPod and shows a reader nothing new.
LEMMA HistoryShrink ==
    ASSUME History, ids'["dp"] = ids["dp"], api'["dp"] = api["dp"],
           Ordered(cache'["dp"], events'["dp"], api'["dp"]),
           \A m \in Names : \A v \in Visible(m)' : v \in Visible(m)
    PROVE  History'
<1>1. UpToDate' /\ Held'
  BY DEF History, UpToDate, Held
<1>2. Unique' /\ EndpointSeen'
  BY DEF History, Unique, EndpointSeen, Seen
<1> QED BY <1>1, <1>2 DEF History

\* A write of a DevPod under a reconcile of which it is no step.
LEMMA WorkerPut ==
    ASSUME StoreOK, History, Deleting, Applying, UNCHANGED <<pc, d>>,
           ids["dp"] \in Nat, ids'["dp"] \in Nat, ids["dp"] <= ids'["dp"],  d.uid \in Nat,
           NEW n \in Names, NEW o \in DevPod, api'["dp"] = [api["dp"] EXCEPT ![n] = o],
           \A m \in Names : \A v \in Visible(m)' : v \in Visible(m) \/ (m = n /\ v = o),
           pc[n] \in DeleteSteps => Precedes(d, o),
           \A m \in Names \ {n} : pc[m] \in DeleteSteps => d.uid # o.uid,
           pc[n] \in ApplySteps \cup {"hibernate", "status"} => o.uid = d.uid /\ o.fin
    PROVE  Deleting' /\ Applying'
<1>1. /\ api'["dp"][n] = o
      /\ \A m \in Names \ {n} : api'["dp"][m] = api["dp"][m]
  BY DevPodStore
<1>2. ASSUME NEW m \in Names, pc[m] \in DeleteSteps
      PROVE  /\ d.uid # 0 /\ d.del /\ d.uid <= ids'["dp"]
             /\ \A v \in Visible(m)' : Precedes(d, v)
             /\ \A l \in Names \ {m} : \A v \in Visible(l)' : v.uid # d.uid
  <2>1. /\ d.uid # 0 /\ d.del /\ d.uid <= ids["dp"]
        /\ \A v \in Visible(m) : Precedes(d, v)
        /\ \A l \in Names \ {m} : \A v \in Visible(l) : v.uid # d.uid
    BY <1>2 DEF Deleting
  <2>2. d.uid <= ids'["dp"]
    BY <2>1
  <2>3. \A v \in Visible(m)' : Precedes(d, v)
    BY <2>1, <1>2
  <2>4. \A l \in Names \ {m} : \A v \in Visible(l)' : v.uid # d.uid
    BY <2>1, <1>2
  <2> QED BY <2>1, <2>2, <2>3, <2>4
<1>3. ASSUME NEW m \in Names, pc[m] \in ApplySteps \cup {"hibernate", "status"}
      PROVE  /\ d.uid # 0 /\ api'["dp"][m].uid = d.uid /\ api'["dp"][m].fin
             /\ \A v \in Visible(m)' : v.uid = d.uid
  <2>1. /\ d.uid # 0 /\ api["dp"][m].uid = d.uid /\ api["dp"][m].fin
        /\ \A v \in Visible(m) : v.uid = d.uid
    BY <1>3 DEF Applying, Seen
  <2>2. CASE m = n
    BY <2>1, <2>2, <1>1, <1>3
  <2>3. CASE m # n
    BY <2>1, <2>3, <1>1
  <2> QED BY <2>2, <2>3
<1>4. Deleting'
  BY <1>2 DEF Deleting
<1>5. Applying'
  BY <1>3 DEF Applying, Seen
<1> QED BY <1>4, <1>5

\* A reconcile that moves on within its path, while no DevPod is written.
LEMMA WorkerMoves ==
    ASSUME Deleting, Applying, OneWorker, d' = d, ids'["dp"] = ids["dp"],
           pc \in [Names -> Steps], api'["dp"] = api["dp"],
           \A m \in Names : \A v \in Visible(m)' : v \in Visible(m),
           NEW n \in Names, NEW step, pc' = [pc EXCEPT ![n] = step], pc[n] # "idle",
           step \in DeleteSteps => pc[n] \in DeleteSteps,
           step \in ApplySteps \cup {"hibernate", "status"} =>
               pc[n] \in ApplySteps \cup {"hibernate", "status"}
    PROVE  Deleting' /\ Applying' /\ OneWorker' /\ \A m \in Names \ {n} : pc'[m] = "idle"
<1>1. \A m \in Names \ {n} : pc[m] = "idle" /\ pc'[m] = "idle"
  BY DEF OneWorker
<1>2. pc'[n] = step
  OBVIOUS
<1>3. "idle" \notin DeleteSteps \cup ApplySteps \cup {"hibernate", "status"}
  BY DEF DeleteSteps, ApplySteps
<1>4. Deleting'
  <2> SUFFICES ASSUME NEW m \in Names, pc'[m] \in DeleteSteps
      PROVE  /\ d'.uid # 0 /\ d'.del /\ d'.uid <= ids'["dp"]
             /\ \A v \in Visible(m)' : Precedes(d', v)
             /\ \A l \in Names \ {m} : \A v \in Visible(l)' : v.uid # d'.uid
    BY DEF Deleting
  <2>1. pc[m] \in DeleteSteps
    BY <1>1, <1>2, <1>3
  <2> QED BY <2>1 DEF Deleting
<1>5. Applying'
  <2> SUFFICES ASSUME NEW m \in Names, pc'[m] \in ApplySteps \cup {"hibernate", "status"}
      PROVE  /\ d'.uid # 0 /\ api'["dp"][m].uid = d'.uid /\ api'["dp"][m].fin
             /\ \A v \in Visible(m)' : v.uid = d'.uid
    BY DEF Applying, Seen
  <2>1. pc[m] \in ApplySteps \cup {"hibernate", "status"}
    BY <1>1, <1>2, <1>3
  <2> QED BY <2>1 DEF Applying, Seen
<1>6. OneWorker'
  BY <1>1 DEF OneWorker
<1> QED BY <1>1, <1>4, <1>5, <1>6

\* With no reconcile under way nothing is claimed of the worker.
LEMMA WorkerIdle ==
    ASSUME \A n \in Names : pc'[n] = "idle"
    PROVE  Deleting' /\ Applying' /\ OneWorker' /\ PolicyFirst'
<1>1. "idle" \notin DeleteSteps \cup ApplySteps \cup {"hibernate", "status"}
  BY DEF DeleteSteps, ApplySteps
<1> QED BY <1>1 DEF Deleting, Applying, OneWorker, PolicyFirst

-----------------------------------------------------------------------------
(* Steps *)

\* No DevPod is written and no watch event of one is delivered.
SameDevPods ==
    /\ cache'["dp"] = cache["dp"] /\ events'["dp"] = events["dp"]
    /\ api'["dp"] = api["dp"] /\ ids'["dp"] = ids["dp"]

\* Such a step keeps the history.
LEMMA SameHistory ==
    ASSUME History, SameDevPods
    PROVE  History' /\ \A m \in Names : \A v \in Visible(m)' : v \in Visible(m)
<1>1. \A m : Visible(m)' = Visible(m)
  BY DEF Visible, SameDevPods
<1>2. Ordered(cache'["dp"], events'["dp"], api'["dp"])
  BY DEF History, SameDevPods
<1> QED BY <1>1, <1>2, HistoryShrink DEF SameDevPods

\* Steps that concern neither DevPods nor policies nor the worker.
LEMMA QuietStep ==
    ASSUME Core, SameDevPods, UNCHANGED <<pc, d, pol>>
    PROVE  Core'
<1>1. History' /\ \A m : Visible(m)' = Visible(m)
  BY SameHistory DEF Core, Visible, SameDevPods
<1>2. Deleting' /\ Applying'
  BY <1>1 DEF Core, SameDevPods, Deleting, Applying, Seen
<1>3. OneWorker' /\ PolicyFirst' /\ EndpointHasPolicy'
  BY DEF Core, SameDevPods, OneWorker, PolicyFirst, EndpointHasPolicy
<1> QED BY <1>1, <1>2, <1>3 DEF Core

\* The reconcile fails.
LEMMA FailStep ==
    ASSUME Core, SameDevPods, Return, pol' = pol
    PROVE  Core'
<1>1. \A n \in Names : pc'[n] = "idle"
  BY DEF Return
<1>2. EndpointHasPolicy'
  BY DEF Core, SameDevPods, EndpointHasPolicy
<1> QED BY <1>1, <1>2, SameHistory, WorkerIdle DEF Core

\* A write keeps EndpointHasPolicy if what it writes is covered.
LEMMA EndpointPut ==
    ASSUME StoreOK, EndpointHasPolicy, pol' = pol, NEW n \in Names, NEW o,
           api'["dp"] = [api["dp"] EXCEPT ![n] = o],
           IsolateNetwork /\ o.uid # 0 /\ ~o.del /\ o.st.ep # 0 => pol[OwnerOf[n]] # NoPolicy
    PROVE  EndpointHasPolicy'
<1> SUFFICES ASSUME NEW m \in Names, IsolateNetwork, api'["dp"][m].uid # 0,
                    ~api'["dp"][m].del, api'["dp"][m].st.ep # 0
             PROVE  pol'[OwnerOf[m]] # NoPolicy
  BY DEF EndpointHasPolicy
<1>1. CASE m = n
  BY <1>1, DevPodStore
<1>2. CASE m # n
  BY <1>2, DevPodStore DEF EndpointHasPolicy
<1> QED BY <1>1, <1>2

\* Users create, edit and delete DevPods at any point of a reconcile.
LEMMA UserStep ==
    ASSUME TypeOK, Core, NEW n \in Names, User(n)
    PROVE  Core'
<1> DEFINE x == api["dp"][n]
           last == ids["dp"]
<1>0. StoreOK /\ x \in DevPod /\ d \in DevPod /\ last \in Nat /\ x \in Visible(n)
  BY StoreAt, InVersions DEF TypeOK, Kinds, Visible
<1>t. x.uid \in Nat /\ d.uid \in Nat
  BY <1>0 DEF DevPod
<1>u. UNCHANGED <<pc, d, pol>>
  BY DEF User, CreateDevPod, EditDevPod, DeleteDevPod, worker, world
<1>c. /\ History /\ Deleting /\ Applying /\ OneWorker /\ PolicyFirst /\ EndpointHasPolicy
      /\ Ordered(cache["dp"], events["dp"], api["dp"])
  BY DEF Core, History
<1>w. OneWorker' /\ PolicyFirst'
  BY <1>u, <1>c DEF OneWorker, PolicyFirst
<1>1. ASSUME NEW p \in Persistence, CreateDevPod(n, p)
      PROVE  Core'
  <2> DEFINE o == [NoDevPod EXCEPT !.uid = ids["dp"] + 1, !.running = TRUE, !.persist = p]
  <2>1. /\ o \in DevPod /\ o.uid = last + 1 /\ o.st.ep = 0
    <3>1. p \in BOOLEAN /\ last + 1 \in Nat /\ NoDevPod \in DevPod
      BY <1>0, ConstantsOK, AbsentType
    <3> QED BY <3>1 DEF DevPod, NoDevPod, NewStatus
  <2>2. Put("dp", n, o, queue) /\ ids'["dp"] = last + 1 /\ x.uid = 0
    BY <1>1 DEF CreateDevPod, TypeOK, Kinds
  <2> HIDE DEF o, x, last
  <2>3. \A m \in Names : \A v \in Visible(m) : v.uid < o.uid
    <3> SUFFICES ASSUME NEW m \in Names, NEW v \in Visible(m) PROVE v.uid < o.uid
      OBVIOUS
    <3>1. v.uid \in Nat /\ v.uid <= last
      BY <1>0, <1>c, VersionType DEF History, Unique, last
    <3> QED BY <3>1, <2>1, <1>0
  <2>4. \A v \in Visible(n) : Precedes(v, o) /\ v.uid # o.uid
    BY <2>3, <1>0, VersionType, <2>1 DEF Precedes
  <2>5. \A v \in Visible(n) : ~(v.uid # 0 /\ v.fin /\ ~v.del)
    BY <1>c, <2>2 DEF History, Held, x
  <2>6. \A m \in Names \ {n} : \A v \in Visible(m) : v.uid # o.uid
    BY <2>3, <1>0, VersionType, <2>1
  <2>7. ids["dp"] = last /\ ids["dp"] \in Nat /\ ids'["dp"] \in Nat /\ ids["dp"] <= ids'["dp"]
        /\ o.uid <= ids'["dp"]
    BY <1>0, <2>1, <2>2 DEF last
  <2>8. History'
    BY <1>0, <1>c, <2>1, <2>2, <2>4, <2>5, <2>6, <2>7, HistoryPut
  <2>9. /\ api'["dp"] = [api["dp"] EXCEPT ![n] = o]
        /\ \A m \in Names : \A v \in Visible(m)' : v \in Visible(m) \/ (m = n /\ v = o)
    BY <1>0, <1>c, <2>1, <2>2, <2>4, PutDevPod
  <2>10. \A m \in Names : pc[m] \in DeleteSteps => d.uid < o.uid
    BY <1>c, <1>t, <2>1, <2>7 DEF Deleting
  <2>11. Deleting' /\ Applying'
    <3>1. pc[n] \in DeleteSteps => Precedes(d, o)
      BY <2>10 DEF Precedes
    <3>2. \A m \in Names \ {n} : pc[m] \in DeleteSteps => d.uid # o.uid
      BY <2>10, <1>t, <2>1, <1>0
    <3>3. ~(pc[n] \in ApplySteps \cup {"hibernate", "status"})
      BY <1>c, <2>2 DEF Applying, x
    <3> QED BY <3>1, <3>2, <3>3, <1>0, <1>c, <1>t, <1>u, <2>1, <2>7, <2>9, WorkerPut
  <2>12. EndpointHasPolicy'
    BY <1>0, <1>c, <1>u, <2>1, <2>9, EndpointPut
  <2> QED BY <2>8, <2>11, <2>12, <1>w DEF Core
<1>2. ASSUME NEW o \in DevPod, Put("dp", n, o, queue), ids'["dp"] = ids["dp"],
             o.uid = x.uid, x.del => o.del, x.fin => o.fin, o.st = x.st
      PROVE  Core'
  <2> HIDE DEF x, last
  <2>1. History'
    BY <1>0, <1>c, <1>2, HistoryUpdate DEF x, last
  <2>2. \A v \in Visible(n) : Precedes(v, o)
    BY <1>0, <1>c, <1>2 DEF History, UpToDate, Precedes, x
  <2>3. /\ api'["dp"] = [api["dp"] EXCEPT ![n] = o]
        /\ \A m \in Names : \A v \in Visible(m)' : v \in Visible(m) \/ (m = n /\ v = o)
    BY <1>0, <1>c, <1>2, <2>2, PutDevPod DEF x
  <2>4. pc[n] \in DeleteSteps => Precedes(d, o)
    BY <1>0, <1>c, <1>2 DEF Deleting, Precedes
  <2>5. \A m \in Names \ {n} : pc[m] \in DeleteSteps => d.uid # o.uid
    BY <1>0, <1>c, <1>2 DEF Deleting
  <2>6. pc[n] \in ApplySteps \cup {"hibernate", "status"} => o.uid = d.uid /\ o.fin
    BY <1>c, <1>2 DEF Applying, x
  <2>7. Deleting' /\ Applying'
    BY <1>0, <1>c, <1>t, <1>u, <1>2, <2>3, <2>4, <2>5, <2>6, WorkerPut DEF last
  <2>8. IsolateNetwork /\ o.uid # 0 /\ ~o.del /\ o.st.ep # 0 => pol[OwnerOf[n]] # NoPolicy
    BY <1>c, <1>2 DEF EndpointHasPolicy, x
  <2>9. EndpointHasPolicy'
    BY <1>0, <1>c, <1>u, <2>3, <2>8, EndpointPut
  <2> QED BY <2>1, <2>7, <2>9, <1>w DEF Core
<1>3. ASSUME NEW f \in Edits, EditDevPod(n, f)
      PROVE  Core'
  <2> DEFINE o == IF f = "running" THEN [x EXCEPT !.running = ~@]
                  ELSE IF f = "template" THEN [x EXCEPT !.tmpl = 1 - @]
                  ELSE [x EXCEPT !.persist = ~@]
  <2>1. Put("dp", n, o, queue) /\ ids'["dp"] = ids["dp"]
    BY <1>3 DEF EditDevPod
  <2>2. o \in DevPod
    <3>1. x.running \in BOOLEAN /\ x.persist \in BOOLEAN /\ x.tmpl \in {0, 1}
      BY <1>0 DEF DevPod
    <3> HIDE DEF x
    <3>2. 1 - x.tmpl \in {0, 1}
      BY <3>1
    <3>3. (~x.running) \in BOOLEAN /\ (~x.persist) \in BOOLEAN
      BY <3>1, Zenon
    <3>4. \A b \in BOOLEAN, t \in {0, 1} :
              /\ [x EXCEPT !.running = b] \in DevPod
              /\ [x EXCEPT !.persist = b] \in DevPod
              /\ [x EXCEPT !.tmpl = t] \in DevPod
      BY <1>0 DEF DevPod
    <3> QED BY <3>2, <3>3, <3>4
  <2>3. o.uid = x.uid /\ o.del = x.del /\ o.fin = x.fin /\ o.st = x.st
    <3> HIDE DEF x
    <3> QED BY <1>0 DEF DevPod
  <2> HIDE DEF o, x
  <2> QED BY <2>1, <2>2, <2>3, <1>2
<1>4. ASSUME DeleteDevPod(n)
      PROVE  Core'
  <2>1. CASE x.fin
    <3> DEFINE o == [x EXCEPT !.del = TRUE]
    <3>1. Put("dp", n, o, queue) /\ ids'["dp"] = ids["dp"]
      BY <1>4, <2>1 DEF DeleteDevPod
    <3>2. o \in DevPod /\ o.uid = x.uid /\ o.del /\ o.fin = x.fin /\ o.st = x.st
      <4> HIDE DEF x
      <4> QED BY <1>0 DEF DevPod
    <3> HIDE DEF o, x
    <3> QED BY <3>1, <3>2, <1>2
  <2>2. CASE ~x.fin
    <3>1. Put("dp", n, NoDevPod, queue) /\ ids'["dp"] = ids["dp"]
      BY <1>4, <2>2 DEF DeleteDevPod
    <3>2. NoDevPod \in DevPod /\ NoDevPod.uid = 0
      BY AbsentType DEF NoDevPod
    <3>3. \A v \in Visible(n) : ~(v.uid # 0 /\ v.fin /\ ~v.del)
      BY <1>c, <2>2 DEF History, Held
    <3> HIDE DEF x
    <3>4. \A v : Precedes(v, NoDevPod)
      BY <3>2 DEF Precedes
    <3>5. History'
      BY <1>0, <1>c, <3>1, <3>2, <3>3, <3>4, HistoryPut DEF last
    <3>6. /\ api'["dp"] = [api["dp"] EXCEPT ![n] = NoDevPod]
          /\ \A m \in Names : \A v \in Visible(m)' : v \in Visible(m) \/ (m = n /\ v = NoDevPod)
      BY <1>0, <1>c, <3>1, <3>2, <3>4, PutDevPod
    <3>7. ~(pc[n] \in ApplySteps \cup {"hibernate", "status"})
      BY <1>c, <2>2 DEF Applying, x
    <3>8. \A m \in Names : pc[m] \in DeleteSteps => d.uid # NoDevPod.uid
      BY <1>c, <3>2 DEF Deleting
    <3>9. Deleting' /\ Applying'
      BY <1>0, <1>c, <1>t, <1>u, <3>1, <3>2, <3>4, <3>6, <3>7, <3>8, WorkerPut DEF last
    <3>10. EndpointHasPolicy'
      BY <1>0, <1>c, <1>u, <3>2, <3>6, EndpointPut
    <3> QED BY <3>5, <3>9, <3>10, <1>w DEF Core
  <2> QED BY <2>1, <2>2
<1> QED BY <1>1, <1>3, <1>4 DEF User

\* A reconcile begins from what the cache shows.
LEMMA ReconcileStep ==
    ASSUME TypeOK, Core, NEW n \in Names, Reconcile(n)
    PROVE  Core'
<1> DEFINE x == cache["dp"][n]
           step == FirstStep(n, x)
<1>0. /\ StoreOK /\ x \in DevPod /\ x \in Visible(n) /\ api["dp"][n] \in Visible(n)
      /\ pc \in [Names -> Steps] /\ x.uid \in Nat
  BY StoreAt, InVersions, VersionType DEF TypeOK, Visible
<1>1. /\ \A m \in Names : pc[m] = "idle"
      /\ pc' = [pc EXCEPT ![n] = step]
      /\ d' = IF step = "idle" THEN NoDevPod ELSE x
      /\ SameDevPods /\ pol' = pol
  BY DEF Reconcile, Goto, NoPut, SameDevPods, world
<1>2. /\ History /\ History' /\ EndpointHasPolicy' /\ \A m : Visible(m)' = Visible(m)
      /\ UpToDate /\ Held /\ Unique /\ Ordered(cache["dp"], events["dp"], api["dp"])
  BY <1>1, SameHistory DEF Core, History, SameDevPods, EndpointHasPolicy, Visible
<1>3. pc'[n] = step /\ \A m \in Names \ {n} : pc'[m] = "idle"
  BY <1>0, <1>1
<1>4. /\ step \in DeleteSteps => x.uid # 0 /\ x.del
      /\ step \in ApplySteps \cup {"hibernate", "status"} => x.uid # 0 /\ x.fin /\ ~x.del
      /\ step = "hibernate" => ~x.running
      /\ step # "status"
      /\ "idle" \notin DeleteSteps \cup ApplySteps \cup {"hibernate", "status"}
  BY DEF FirstStep, DeleteSteps, ApplySteps
<1>5. \A v \in Visible(n) : Follows(x, v, api["dp"][n]) \/ v = x \/ v = api["dp"][n]
  <2> SUFFICES ASSUME NEW i \in 1..Len(events["dp"]), events["dp"][i].n = n
               PROVE  Follows(x, events["dp"][i].o, api["dp"][n])
    BY InVersions DEF Visible
  <2> QED BY <1>2 DEF Ordered
<1> HIDE DEF step, x
<1>6. OneWorker'
  BY <1>3 DEF OneWorker
<1>7. PolicyFirst'
  BY <1>1, <1>3, <1>4 DEF PolicyFirst
<1>8. Deleting'
  <2> SUFFICES ASSUME NEW m \in Names, pc'[m] \in DeleteSteps
      PROVE  /\ d'.uid # 0 /\ d'.del /\ d'.uid <= ids'["dp"]
             /\ \A v \in Visible(m)' : Precedes(d', v)
             /\ \A l \in Names \ {m} : \A v \in Visible(l)' : v.uid # d'.uid
    BY DEF Deleting
  <2>1. m = n /\ d' = x /\ x.uid # 0 /\ x.del
    BY <1>1, <1>3, <1>4
  <2>2. x.uid <= ids'["dp"]
    BY <1>0, <1>1, <1>2 DEF Unique, SameDevPods
  <2>3. \A v \in Visible(n) : Precedes(x, v)
    BY <1>0, <1>2, <1>5 DEF UpToDate, Follows, Precedes
  <2>4. \A l \in Names \ {n} : \A v \in Visible(l) : v.uid # x.uid
    BY <1>0, <1>2, <2>1 DEF Unique
  <2> QED BY <1>2, <2>1, <2>2, <2>3, <2>4
<1>9. Applying'
  <2> SUFFICES ASSUME NEW m \in Names, pc'[m] \in ApplySteps \cup {"hibernate", "status"}
      PROVE  /\ d'.uid # 0 /\ api'["dp"][m].uid = d'.uid /\ api'["dp"][m].fin
             /\ \A v \in Visible(m)' : v.uid = d'.uid
    BY DEF Applying, Seen
  <2>1. m = n /\ d' = x /\ x.uid # 0 /\ x.fin /\ ~x.del
    BY <1>1, <1>3, <1>4
  <2>2. api["dp"][n].uid = x.uid /\ api["dp"][n].fin
    BY <1>0, <1>2, <2>1 DEF Held
  <2>3. ASSUME NEW v \in Visible(n) PROVE v.uid = x.uid
    <3>1. CASE v = x \/ v = api["dp"][n]
      BY <3>1, <2>2
    <3>2. CASE Follows(x, v, api["dp"][n])
      <4>1. v.uid \in Nat /\ v.uid # 0 /\ Precedes(x, v) /\ Precedes(v, api["dp"][n])
        BY <3>2, <2>1, <2>2, <1>0, <1>2, VersionType DEF Follows, UpToDate
      <4> QED BY <4>1, <2>1, <2>2, <1>0 DEF Precedes
    <3> QED BY <3>1, <3>2, <1>5
  <2> QED BY <1>1, <1>2, <2>1, <2>2, <2>3 DEF SameDevPods
<1> QED BY <1>2, <1>6, <1>7, <1>8, <1>9 DEF Core

\* The steps of a reconcile that write no DevPod and no policy.
LEMMA PlainStep ==
    ASSUME TypeOK, Core, SameDevPods, d' = d, pol' = pol,
           NEW n \in Names, NEW step, Goto(n, step), pc[n] # "idle", step # "hibernate",
           step \in DeleteSteps => pc[n] \in DeleteSteps,
           step \in ApplySteps \cup {"hibernate", "status"} =>
               pc[n] \in ApplySteps \cup {"hibernate", "status"},
           step = "status" /\ d.running /\ IsolateNetwork => pol[OwnerOf[n]] # NoPolicy
    PROVE  Core'
<1>1. History' /\ EndpointHasPolicy' /\ \A m \in Names : \A v \in Visible(m)' : v \in Visible(m)
  BY SameHistory DEF Core, SameDevPods, EndpointHasPolicy
<1>2. pc' = [pc EXCEPT ![n] = step] /\ pc'[n] = step
  BY DEF Goto, TypeOK
<1>3. Deleting' /\ Applying' /\ OneWorker' /\ \A m \in Names \ {n} : pc'[m] = "idle"
  BY <1>1, <1>2, WorkerMoves DEF Core, SameDevPods, TypeOK
<1>4. PolicyFirst'
  BY <1>2, <1>3 DEF PolicyFirst
<1> QED BY <1>1, <1>3, <1>4 DEF Core

\* cleanupOwnerNetPolIfLast never takes the policy from a DevPod that has an
\* endpoint: such a DevPod was seen, so the cached list shows it, alive.
LEMMA CleanupStep ==
    ASSUME TypeOK, Core, NEW n \in Names, CleanupOwnerNetPolIfLast(n)
    PROVE  Core'
<1>1. /\ pc[n] = "netpol" /\ Goto(n, "rmfin") /\ d' = d /\ SameDevPods
      /\ pol' = IF LiveSibling(n, d) THEN pol ELSE [pol EXCEPT ![OwnerOf[n]] = NoPolicy]
  BY DEF CleanupOwnerNetPolIfLast, NoPut, SameDevPods
<1>2. /\ StoreOK /\ History /\ Deleting /\ EndpointHasPolicy
      /\ UpToDate /\ EndpointSeen /\ pc[n] \in DeleteSteps
      /\ pol \in [Owners -> Nat \cup {NoPolicy}]
  BY <1>1 DEF Core, History, TypeOK, DeleteSteps
<1>3. pc' = [pc EXCEPT ![n] = "rmfin"] /\ pc'[n] = "rmfin"
  BY <1>1 DEF Goto, TypeOK
<1>4. History' /\ \A m \in Names : \A v \in Visible(m)' : v \in Visible(m)
  BY <1>1, <1>2, SameHistory
<1>5. Deleting' /\ Applying' /\ OneWorker' /\ \A m \in Names \ {n} : pc'[m] = "idle"
  BY <1>1, <1>3, <1>4, WorkerMoves DEF Core, SameDevPods, TypeOK, DeleteSteps, ApplySteps
<1>6. PolicyFirst'
  BY <1>3, <1>5 DEF PolicyFirst
<1>7. EndpointHasPolicy'
  <2> SUFFICES ASSUME NEW m \in Names, IsolateNetwork, api["dp"][m].uid # 0,
                      ~api["dp"][m].del, api["dp"][m].st.ep # 0
               PROVE  pol'[OwnerOf[m]] # NoPolicy
    BY <1>1 DEF EndpointHasPolicy, SameDevPods
  <2>1. pol[OwnerOf[m]] # NoPolicy
    BY <1>2 DEF EndpointHasPolicy
  <2>2. CASE OwnerOf[m] # OwnerOf[n]
    BY <1>1, <1>2, <2>1, <2>2 DEF Owners
  <2>3. CASE OwnerOf[m] = OwnerOf[n]
    <3>0. cache["dp"][m] \in Visible(m) /\ api["dp"][m] \in Visible(m)
      BY InVersions DEF Visible
    <3>1. cache["dp"][m].uid = api["dp"][m].uid
      BY <1>2, <3>0 DEF EndpointSeen, Seen
    <3>2. ~cache["dp"][m].del
      <4>1. Precedes(cache["dp"][m], api["dp"][m])
        BY <1>2, <3>0 DEF UpToDate
      <4>2. api["dp"][m].uid \in Nat
        BY <1>2, <3>0, VersionType
      <4> QED BY <4>1, <4>2, <3>1 DEF Precedes
    <3>3. d.uid # api["dp"][m].uid
      <4>1. CASE m # n
        BY <4>1, <1>2, <3>0 DEF Deleting
      <4>2. CASE m = n
        <5>1. d.uid # 0 /\ d.del /\ Precedes(d, api["dp"][n])
          BY <4>2, <1>2, <3>0 DEF Deleting
        <5>2. api["dp"][m].uid \in Nat
          BY <1>2, <3>0, VersionType
        <5> QED BY <5>1, <5>2, <4>2 DEF Precedes
      <4> QED BY <4>1, <4>2
    <3>4. LiveSibling(n, d)
      BY <2>3, <3>1, <3>2, <3>3 DEF LiveSibling
    <3> QED BY <1>1, <3>4, <2>1
  <2> QED BY <2>2, <2>3
<1> QED BY <1>4, <1>5, <1>6, <1>7 DEF Core

\* A reconcile that updates the DevPod it applies, keeping all but the status.
LEMMA UpdateApplied ==
    ASSUME TypeOK, Core, NEW n \in Names, pc[n] \in ApplySteps \cup {"hibernate", "status"},
           NEW st \in Status, Put("dp", n, [api["dp"][n] EXCEPT !.st = st], queue),
           ids'["dp"] = ids["dp"], pol' = pol,
           IsolateNetwork /\ st.ep # api["dp"][n].st.ep => pol[OwnerOf[n]] # NoPolicy
    PROVE  /\ History' /\ EndpointHasPolicy'
           /\ api'["dp"][n] = [api["dp"][n] EXCEPT !.st = st]
           /\ d.uid # 0 /\ api'["dp"][n].uid = d.uid /\ api'["dp"][n].fin
           /\ \A v \in Visible(n)' : v.uid = d.uid
<1> DEFINE x == api["dp"][n]
           o == [x EXCEPT !.st = st]
<1>0. /\ StoreOK /\ x \in DevPod /\ ids["dp"] \in Nat /\ History /\ EndpointHasPolicy /\ UpToDate
      /\ Ordered(cache["dp"], events["dp"], api["dp"])
  BY StoreAt DEF TypeOK, Kinds, Core, History
<1>1. o \in DevPod /\ o.uid = x.uid /\ o.del = x.del /\ o.fin = x.fin /\ o.st = st
  <2> HIDE DEF x
  <2> QED BY <1>0 DEF DevPod
<1>2. d.uid # 0 /\ x.uid = d.uid /\ x.fin /\ Seen(n, d.uid)
  BY DEF Core, Applying
<1>3. Put("dp", n, o, queue)
  OBVIOUS
<1>4. IsolateNetwork /\ x.uid # 0 /\ ~x.del /\ x.st.ep # 0 => pol[OwnerOf[n]] # NoPolicy
  BY <1>0 DEF EndpointHasPolicy
<1> HIDE DEF o
<1>5. History'
  BY <1>0, <1>1, <1>2, <1>3, HistoryUpdate
<1>6. \A v \in Visible(n) : Precedes(v, o)
  BY <1>0, <1>1 DEF UpToDate, Precedes
<1>7. /\ api'["dp"] = [api["dp"] EXCEPT ![n] = o]
      /\ \A v \in Visible(n)' : v \in Visible(n) \/ v = o
  BY <1>0, <1>1, <1>3, <1>6, PutDevPod
<1>8. api'["dp"][n] = o
  BY <1>0, <1>7, DevPodStore
<1>9. EndpointHasPolicy'
  BY <1>0, <1>1, <1>4, <1>7, EndpointPut
<1>10. \A v \in Visible(n)' : v.uid = d.uid
  BY <1>1, <1>2, <1>7 DEF Seen
<1>11. api'["dp"][n] = [api["dp"][n] EXCEPT !.st = st]
  BY <1>8 DEF o
<1> QED BY <1>1, <1>2, <1>5, <1>8, <1>9, <1>10, <1>11

\* Every call of a reconcile.
LEMMA CallStep ==
    ASSUME TypeOK, Core, NEW n \in Names, Step(n)
    PROVE  Core'
<1> USE DEF world
<1>0. /\ StoreOK /\ api["dp"][n] \in DevPod /\ d \in DevPod /\ d.st \in Status /\ d.uid \in Nat
      /\ api["dp"][n].st \in Status /\ ids["dp"] \in Nat /\ ids \in [Kinds -> Nat]
      /\ now \in Nat /\ pc \in [Names -> Steps] /\ cache["pod"][n] \in Pod
  BY StoreAt DEF TypeOK, Kinds, DevPod
<1>c. /\ History /\ Deleting /\ Applying /\ OneWorker /\ PolicyFirst /\ EndpointHasPolicy
      /\ Ordered(cache["dp"], events["dp"], api["dp"])
  BY DEF Core, History
<1>s. /\ Kinds = {"dp", "pod", "pvc", "sec", "svc"}
      /\ DeleteSteps = {"detach", "netpol", "rmfin"}
      /\ ApplySteps = {"secret", "pvc", "pod", "delfailed", "svc", "deny", "allow"}
  BY DEF Kinds, DeleteSteps, ApplySteps
<1>f. Fail(n) => Core'
  BY FailStep DEF Fail, NoPut, SameDevPods
<1>p. ASSUME NEW k \in Kinds \ {"dp"}, NEW o, NEW q, Put(k, n, o, q) \/ NoPut(q),
             \/ ids' = ids \/ ids' = [ids EXCEPT ![k] = @ + 1]
      PROVE  SameDevPods
  <2>1. ids'["dp"] = ids["dp"]
    BY <1>p, <1>0, <1>s
  <2>2. CASE Put(k, n, o, q)
    BY <2>1, <2>2, <1>0, PutOther DEF SameDevPods
  <2>3. CASE NoPut(q)
    BY <2>1, <2>3 DEF SameDevPods, NoPut
  <2> QED BY <1>p, <2>2, <2>3
<1>o. ASSUME NEW k \in Kinds \ {"dp"}, ApplyOwned(k, n) PROVE SameDevPods
  BY <1>o, <1>p DEF ApplyOwned
<1>1. CASE DetachPVC(n)
  <2>1. CASE Fail(n)
    BY <2>1, <1>f
  <2>2. CASE /\ \/ NoPut(queue)
                \/ Put("pvc", n, [api["pvc"][n] EXCEPT !.owner = 0], queue)
             /\ Goto(n, "netpol") /\ UNCHANGED <<d, ra, ids, world>>
    <3>1. SameDevPods
      BY <2>2, <1>p, <1>s
    <3>2. pc[n] = "detach"
      BY <1>1 DEF DetachPVC
    <3> QED BY <2>2, <3>1, <3>2, <1>s, PlainStep
  <2> QED BY <1>1, <2>1, <2>2 DEF DetachPVC
<1>2. CASE CleanupOwnerNetPolIfLast(n)
  BY <1>2, CleanupStep
<1>r. Return => Deleting' /\ Applying' /\ OneWorker' /\ PolicyFirst'
  BY WorkerIdle DEF Return
<1>3. CASE RemoveFinalizer(n)
  <2>1. CASE Fail(n)
    BY <2>1, <1>f
  <2>2. CASE d = api["dp"][n] /\ Put("dp", n, NoDevPod, queue) /\ Return /\ UNCHANGED <<ids, world>>
    <3>1. NoDevPod \in DevPod /\ NoDevPod.uid = 0 /\ \A v : Precedes(v, NoDevPod)
      BY AbsentType DEF NoDevPod, Precedes
    <3>2. \A v \in Visible(n) : ~(v.uid # 0 /\ v.fin /\ ~v.del)
      <4> SUFFICES ASSUME NEW v \in Visible(n), v.uid # 0, v.fin, ~v.del PROVE FALSE
        OBVIOUS
      <4>1. v.uid = d.uid
        BY <2>2, <1>c DEF History, Held
      <4>2. d.del /\ Precedes(d, v)
        BY <1>3, <1>c, <1>s DEF Deleting, RemoveFinalizer
      <4> QED BY <4>1, <4>2, <1>0 DEF Precedes
    <3>3. History'
      BY <2>2, <3>1, <3>2, <1>0, <1>c, HistoryPut
    <3>4. api'["dp"] = [api["dp"] EXCEPT ![n] = NoDevPod]
      BY <2>2, <3>1, <1>0, <1>c, PutDevPod
    <3>5. EndpointHasPolicy'
      BY <2>2, <3>1, <3>4, <1>0, <1>c, EndpointPut
    <3> QED BY <2>2, <3>3, <3>5, <1>r DEF Core
  <2> QED BY <1>3, <2>1, <2>2 DEF RemoveFinalizer
<1>4. CASE AddFinalizer(n)
  <2> DEFINE o == [d EXCEPT !.fin = TRUE]
  <2>1. CASE Fail(n)
    BY <2>1, <1>f
  <2>2. CASE d = api["dp"][n] /\ Put("dp", n, o, queue \cup {n}) /\ Return /\ UNCHANGED <<ids, world>>
    <3>1. o \in DevPod /\ o.uid = d.uid /\ o.del = d.del /\ o.fin /\ o.st = d.st
      BY <1>0 DEF DevPod
    <3> HIDE DEF o
    <3>2. History'
      BY <2>2, <3>1, <1>0, <1>c, HistoryUpdate
    <3>3. \A v \in Visible(n) : Precedes(v, o)
      BY <2>2, <3>1, <1>c DEF History, UpToDate, Precedes
    <3>4. api'["dp"] = [api["dp"] EXCEPT ![n] = o]
      BY <2>2, <3>1, <3>3, <1>0, <1>c, PutDevPod
    <3>5. IsolateNetwork /\ o.uid # 0 /\ ~o.del /\ o.st.ep # 0 => pol[OwnerOf[n]] # NoPolicy
      BY <2>2, <3>1, <1>c DEF EndpointHasPolicy
    <3>6. EndpointHasPolicy'
      BY <2>2, <3>4, <3>5, <1>0, <1>c, EndpointPut
    <3> QED BY <2>2, <3>2, <3>6, <1>r DEF Core
  <2> QED BY <1>4, <2>1, <2>2 DEF AddFinalizer
<1>5. CASE Hibernate(n)
  <2>1. pc[n] = "hibernate" /\ ~d.running
    BY <1>5, <1>c DEF Hibernate, PolicyFirst
  <2>2. SameDevPods /\ d' = d /\ pol' = pol /\ Goto(n, "status")
    BY <1>5, <1>p, <1>s DEF Hibernate
  <2> QED BY <2>1, <2>2, <1>s, PlainStep
<1>6. CASE EnsureHostKeySecret(n)
  <2>1. CASE Fail(n)
    BY <2>1, <1>f
  <2>2. CASE /\ \/ NoPut(queue)
                \/ Put("sec", n, [uid |-> ids["sec"] + 1, owner |-> d.uid], queue)
             /\ ids' = [ids EXCEPT !["sec"] = @ + 1] \/ ids' = ids
             /\ Goto(n, "pvc") /\ UNCHANGED <<d, ra, world>>
    <3>1. SameDevPods
      BY <2>2, <1>p, <1>s
    <3>2. pc[n] = "secret"
      BY <1>6 DEF EnsureHostKeySecret
    <3> QED BY <2>2, <3>1, <3>2, <1>s, PlainStep
  <2> QED BY <1>6, <2>1, <2>2 DEF EnsureHostKeySecret
<1>7. CASE ApplyPVC(n)
  <2>1. pc[n] = "pvc" /\ Goto(n, "pod") /\ d' = d /\ pol' = pol
    BY <1>7 DEF ApplyPVC
  <2>2. SameDevPods
    BY <1>7, <1>o, <1>s DEF ApplyPVC, NoPut, SameDevPods
  <2> QED BY <2>1, <2>2, <1>s, PlainStep
<1>8. CASE ApplyPodWithDriftRecreate(n)
  <2>0. pc[n] = "pod"
    BY <1>8 DEF ApplyPodWithDriftRecreate
  <2>1. CASE RecordFailure(n)
    <3> DEFINE cur == api["dp"][n]
               new == [d.st EXCEPT !.phase = "Failed", !.retry = @ + 1, !.failAt = now]
               st == MergePatch(cur.st, d.st, new)
               upd == [cur EXCEPT !.st = st]
    <3>1. CASE Fail(n)
      BY <3>1, <1>f
    <3>2. CASE Put("dp", n, upd, queue) /\ d' = upd /\ Goto(n, "delfailed")
               /\ UNCHANGED <<ra, ids, world>>
      <4>1. st \in Status /\ st.ep = cur.st.ep
        <5>1. new \in Status /\ new.ep = d.st.ep
          <6>1. d.st.retry + 1 \in Nat /\ "Failed" \in Phases
            <7>1. d.st.retry \in Nat
              BY <1>0 DEF Status
            <7> QED BY <7>1 DEF Phases
          <6> QED BY <6>1, <1>0 DEF Status
        <5> HIDE DEF new
        <5>2. st \in Status
          BY <5>1, <1>0, AbsentType, StatusType
        <5>3. st.ep = cur.st.ep
          BY <5>1, <1>0 DEF MergePatch, Status
        <5> QED BY <5>2, <5>3
      <4> HIDE DEF st
      <4>2. /\ History' /\ EndpointHasPolicy' /\ api'["dp"][n] = upd
            /\ d.uid # 0 /\ api'["dp"][n].uid = d.uid /\ api'["dp"][n].fin
            /\ \A v \in Visible(n)' : v.uid = d.uid
        BY <3>2, <4>1, <2>0, <1>s, UpdateApplied
      <4>3. d'.uid = d.uid
        BY <3>2, <4>2
      <4>4. pc'[n] = "delfailed" /\ \A m \in Names \ {n} : pc'[m] = "idle"
        BY <3>2, <2>0, <1>0, <1>c DEF Goto, OneWorker
      <4>5. Deleting' /\ OneWorker' /\ PolicyFirst'
        BY <4>4, <1>s DEF Deleting, OneWorker, PolicyFirst
      <4>6. Applying'
        <5> SUFFICES ASSUME NEW m \in Names, pc'[m] \in ApplySteps \cup {"hibernate", "status"}
            PROVE  /\ d'.uid # 0 /\ api'["dp"][m].uid = d'.uid /\ api'["dp"][m].fin
                   /\ \A v \in Visible(m)' : v.uid = d'.uid
          BY DEF Applying, Seen
        <5>1. m = n
          BY <4>4, <1>s
        <5> QED BY <5>1, <4>2, <4>3
      <4> QED BY <4>2, <4>5, <4>6 DEF Core
    <3> QED BY <2>1, <3>1, <3>2 DEF RecordFailure
  <2>2. CASE /\ \/ Put("pod", n, DeletedPod(api["pod"][n]), queue)
                \/ NoPut(queue)
             /\ Goto(n, "svc") /\ UNCHANGED <<d, ids, world>>
    <3>1. SameDevPods
      BY <2>2, <1>p, <1>s
    <3> QED BY <2>0, <2>2, <3>1, <1>s, PlainStep
  <2>3. CASE ApplyPod(n)
    <3> DEFINE p == api["pod"][n]
               y == IF p.uid = 0
                    THEN [NoPod EXCEPT !.uid = ids["pod"] + 1, !.owner = d.uid, !.tmpl = d.tmpl]
                    ELSE [p EXCEPT !.owner = d.uid]
    <3>1. CASE Fail(n)
      BY <3>1, <1>f
    <3>2. CASE /\ ids' = [ids EXCEPT !["pod"] = @ + 1] \/ ids' = ids
               /\ Put("pod", n, y, queue) /\ Goto(n, "svc") /\ UNCHANGED <<d, ra, world>>
      <4> HIDE DEF y
      <4>1. SameDevPods
        BY <3>2, <1>p, <1>s
      <4> QED BY <2>0, <3>2, <4>1, <1>s, PlainStep
    <3> QED BY <2>3, <3>1, <3>2 DEF ApplyPod
  <2> QED BY <1>8, <2>1, <2>2, <2>3 DEF ApplyPodWithDriftRecreate
<1>9. CASE DeleteFailedPod(n)
  <2>1. pc[n] = "delfailed" /\ Goto(n, "svc") /\ d' = d /\ pol' = pol
    BY <1>9 DEF DeleteFailedPod
  <2>2. SameDevPods
    BY <1>9, <1>p, <1>s DEF DeleteFailedPod
  <2> QED BY <2>1, <2>2, <1>s, PlainStep
<1>10. CASE ApplyService(n)
  <2>1. SameDevPods /\ pc[n] = "svc" /\ d' = d /\ pol' = pol
    BY <1>10, <1>o, <1>s DEF ApplyService
  <2>2. CASE IsolateNetwork
    <3>1. Goto(n, "deny")
      BY <1>10, <2>2 DEF ApplyService
    <3> QED BY <2>1, <3>1, <1>s, PlainStep
  <2>3. CASE ~IsolateNetwork
    <3>1. Goto(n, "status")
      BY <1>10, <2>3 DEF ApplyService
    <3> QED BY <2>1, <2>3, <3>1, <1>s, PlainStep
  <2> QED BY <2>2, <2>3
<1>11. CASE ApplyDefaultDeny(n)
  <2>1. SameDevPods /\ pc[n] = "deny" /\ Goto(n, "allow") /\ d' = d /\ pol' = pol
    BY <1>11 DEF ApplyDefaultDeny, NoPut, SameDevPods
  <2> QED BY <2>1, <1>s, PlainStep
<1>12. CASE ApplyOwnerAllow(n)
  <2>1. /\ SameDevPods /\ pc[n] = "allow" /\ pc' = [pc EXCEPT ![n] = "status"] /\ d' = d
        /\ pol' = [pol EXCEPT ![OwnerOf[n]] = BackendPort(n, d)]
        /\ pol \in [Owners -> Nat \cup {NoPolicy}]
    BY <1>12 DEF ApplyOwnerAllow, NoPut, SameDevPods, Goto, TypeOK
  <2>2. BackendPort(n, d) # NoPolicy
    BY <1>0 DEF BackendPort, DefaultPort, NoPolicy
  <2>3. \A m \in Names : pol[OwnerOf[m]] # NoPolicy => pol'[OwnerOf[m]] # NoPolicy
    BY <2>1, <2>2 DEF Owners
  <2>4. pol'[OwnerOf[n]] # NoPolicy
    BY <2>1, <2>2 DEF Owners
  <2>5. History' /\ \A m \in Names : \A v \in Visible(m)' : v \in Visible(m)
    BY <2>1, <1>c, SameHistory
  <2>6. Deleting' /\ Applying' /\ OneWorker' /\ \A m \in Names \ {n} : pc'[m] = "idle"
    BY <2>1, <2>5, <1>0, <1>c, <1>s, WorkerMoves DEF SameDevPods
  <2>7. PolicyFirst'
    BY <2>1, <2>4, <2>6, <1>0 DEF PolicyFirst
  <2>8. EndpointHasPolicy'
    BY <2>1, <2>3, <1>c DEF EndpointHasPolicy, SameDevPods
  <2> QED BY <2>5, <2>6, <2>7, <2>8 DEF Core
<1>13. CASE UpdateStatus(n)
  <2> DEFINE cur == api["dp"][n]
             new == Desired(d, cache["pod"][n])
             st == MergePatch(cur.st, d.st, new)
             upd == [cur EXCEPT !.st = st]
  <2>0. pc[n] = "status"
    BY <1>13 DEF UpdateStatus
  <2>1. CASE Fail(n)
    BY <2>1, <1>f
  <2>2. CASE NoPut(queue) /\ Return /\ UNCHANGED <<ids, pol>>
    BY <2>2, FailStep DEF NoPut, SameDevPods
  <2>3. CASE Put("dp", n, upd, queue) /\ Return /\ UNCHANGED <<ids, pol>>
    <3>1. new \in Status /\ (new.ep # 0 => d.running)
      <4>1. new \in Status
        BY <1>0, StatusType
      <4>2. ~d.running => new.ep = 0
        BY DEF Desired, NewStatus
      <4> QED BY <4>1, <4>2
    <3> HIDE DEF new
    <3>2. st \in Status
      BY <3>1, <1>0, AbsentType, StatusType
    <3>3. st.ep = cur.st.ep \/ st.ep = new.ep
      BY <3>1, <1>0 DEF MergePatch, Status
    <3> HIDE DEF st
    <3>4. d.running /\ IsolateNetwork => pol[OwnerOf[n]] # NoPolicy
      BY <2>0, <1>c DEF PolicyFirst
    <3>6. CASE d.running \/ ~IsolateNetwork \/ st.ep = cur.st.ep
      <4>1. History' /\ EndpointHasPolicy'
        BY <2>0, <2>3, <3>2, <3>4, <3>6, <1>s, UpdateApplied
      <4> QED BY <4>1, <2>3, <1>r DEF Core
    <3>7. CASE ~d.running /\ IsolateNetwork /\ st.ep = 0
      <4>0. cur \in DevPod /\ upd \in DevPod /\ upd.uid = cur.uid /\ upd.del = cur.del
            /\ upd.fin = cur.fin /\ upd.st = st
        <5> HIDE DEF cur
        <5> QED BY <3>2, <1>0 DEF DevPod, cur
      <4>1. cur.fin /\ Seen(n, cur.uid)
        BY <2>0, <1>c, <1>s DEF Applying
      <4> HIDE DEF upd
      <4>2. History'
        BY <2>3, <4>0, <4>1, <1>0, <1>c, HistoryUpdate
      <4>3. \A v \in Visible(n) : Precedes(v, upd)
        BY <4>0, <1>c DEF History, UpToDate, Precedes
      <4>4. api'["dp"] = [api["dp"] EXCEPT ![n] = upd]
        BY <2>3, <4>0, <4>3, <1>0, <1>c, PutDevPod
      <4>5. EndpointHasPolicy'
        BY <2>3, <3>7, <4>0, <4>4, <1>0, <1>c, EndpointPut
      <4> QED BY <4>2, <4>5, <2>3, <1>r DEF Core
    <3> QED BY <3>1, <3>3, <3>6, <3>7
  <2> QED BY <1>13, <2>1, <2>2, <2>3 DEF UpdateStatus
<1> QED BY <1>1, <1>2, <1>3, <1>4, <1>5, <1>6, <1>7, <1>8, <1>9, <1>10, <1>11, <1>12, <1>13 DEF Step

\* The invariant holds initially and every step keeps it.
THEOREM Inductive == Spec => []IInv
<1>1. Init => IInv
  <2> SUFFICES ASSUME Init PROVE IInv
    OBVIOUS
  <2>1. TypeOK
    BY TypeInit
  <2>2. /\ cache["dp"] = [n \in Names |-> NoDevPod] /\ api["dp"] = [n \in Names |-> NoDevPod]
        /\ events["dp"] = <<>> /\ ids["dp"] = 0
    BY DEF Init, Kinds, Absent
  <2>3. \A n \in Names : \A v \in Visible(n) : v = NoDevPod
    <3> SUFFICES ASSUME NEW n \in Names, NEW v \in Visible(n) PROVE v = NoDevPod
      OBVIOUS
    <3>1. Len(events["dp"]) = 0
      BY <2>2, EmptySeq
    <3> QED BY <2>2, <3>1, InVersions DEF Visible
  <2>4. NoDevPod.uid = 0 /\ NoDevPod.st.ep = 0
    BY DEF NoDevPod, NewStatus
  <2>5. History
    <3>1. Ordered(cache["dp"], events["dp"], api["dp"])
      BY <2>2 DEF Ordered
    <3>2. UpToDate /\ Held /\ Unique /\ EndpointSeen
      BY <2>2, <2>3, <2>4 DEF UpToDate, Held, Unique, EndpointSeen, Precedes
    <3> QED BY <3>1, <3>2 DEF History
  <2>6. Deleting /\ Applying /\ OneWorker /\ PolicyFirst
    BY DEF Init, Deleting, Applying, OneWorker, PolicyFirst, DeleteSteps, ApplySteps
  <2>7. EndpointHasPolicy
    BY <2>2, <2>4 DEF EndpointHasPolicy
  <2> QED BY <2>1, <2>5, <2>6, <2>7 DEF IInv, Core
<1>2. IInv /\ [Next]_vars => IInv'
  <2> SUFFICES ASSUME TypeOK, Core, [Next]_vars PROVE TypeOK' /\ Core'
    BY DEF IInv
  <2>0. TypeOK' /\ StoreOK
    BY TypeNext DEF TypeOK
  <2>1. ASSUME NEW n \in Names, User(n) PROVE Core'
    BY <2>1, UserStep
  <2>2. ASSUME NEW n \in Names, Kubelet(n) PROVE Core'
    <3>1. SameDevPods
      BY <2>0, <2>2, PutOther DEF Kubelet, PodRuns, PodEnds, PodGone, SameDevPods, Kinds
    <3> QED BY <2>2, <3>1, QuietStep DEF Kubelet, PodRuns, PodEnds, PodGone, worker, world
  <2>3. ASSUME NEW n \in Names, Reconcile(n) PROVE Core'
    BY <2>3, ReconcileStep
  <2>4. ASSUME NEW n \in Names, Step(n) PROVE Core'
    BY <2>4, CallStep
  <2>5. ASSUME NEW n \in Names, CallFails(n) PROVE Core'
    BY <2>5, FailStep DEF CallFails, NoPut, SameDevPods
  <2>6. ASSUME NEW n \in Names, TimerFires(n) PROVE Core'
    BY <2>6, QuietStep DEF TimerFires, NoPut, SameDevPods, worker
  <2>7. ASSUME NEW n \in Names, NEW k \in Kinds \ {"dp"}, Collect(k, n) PROVE Core'
    <3>1. SameDevPods
      BY <2>0, <2>7, PutOther DEF Collect, SameDevPods
    <3> QED BY <2>7, <3>1, QuietStep DEF Collect, worker, world
  <2>8. ASSUME NEW k \in Kinds \ {"dp"}, Deliver(k) PROVE Core'
    <3>1. SameDevPods
      BY <2>0, <2>8 DEF Deliver, DeliverEvent, SameDevPods, StoreOK, Kinds
    <3> QED BY <2>8, <3>1, QuietStep DEF Deliver, DeliverEvent, worker, world
  <2>9. CASE Deliver("dp")
    <3> DEFINE c == cache["dp"]
               s == events["dp"]
               a == api["dp"]
               cc == [c EXCEPT ![Head(s).n] = Head(s).o]
    <3>1. /\ cache'["dp"] = cc /\ events'["dp"] = Tail(s) /\ api' = api /\ ids' = ids
          /\ UNCHANGED <<pc, d, pol>> /\ s # <<>>
      BY <2>0, <2>9, DevPodStore DEF Deliver, DeliverEvent, worker, world
    <3>2. c \in [Names -> DevPod] /\ s \in Seq(Event) /\ Ordered(c, s, a)
      BY <2>0, DevPodStore DEF Core, History
    <3>3. Ordered(cc, Tail(s), a)
      BY <3>1, <3>2, DeliverOrdered
    <3>4. \A m \in Names : \A v \in Versions(cc, Tail(s), a, m) : v \in Versions(c, s, a, m)
      BY <3>1, <3>2, DeliverVersions DEF Event
    <3> HIDE DEF cc
    <3>5. \A m \in Names : \A v \in Visible(m)' : v \in Visible(m)
      BY <3>1, <3>4 DEF Visible
    <3>6. History'
      BY <3>1, <3>3, <3>5, HistoryShrink DEF Core
    <3>7. Deleting'
      BY <3>1, <3>5 DEF Core, Deleting
    <3>8. Applying'
      BY <3>1, <3>5 DEF Core, Applying, Seen
    <3>9. OneWorker' /\ PolicyFirst' /\ EndpointHasPolicy'
      BY <3>1 DEF Core, OneWorker, PolicyFirst, EndpointHasPolicy
    <3> QED BY <2>0, <3>6, <3>7, <3>8, <3>9 DEF Core
  <2>10. CASE Restart
    <3>1. /\ cache'["dp"] = api["dp"] /\ events'["dp"] = <<>> /\ api' = api /\ ids' = ids
          /\ pol' = pol /\ Return
      BY <2>10 DEF Restart, Kinds
    <3>2. Ordered(cache'["dp"], events'["dp"], api'["dp"])
      BY <3>1 DEF Ordered
    <3>3. ASSUME NEW m \in Names, NEW v \in Visible(m)' PROVE v \in Visible(m)
      <4>1. v \in Versions(api["dp"], <<>>, api["dp"], m)
        BY <3>1 DEF Visible
      <4>2. v = api["dp"][m]
        BY <4>1 DEF Versions
      <4> QED BY <4>2, InVersions DEF Visible
    <3>4. History'
      BY <3>1, <3>2, <3>3, HistoryShrink DEF Core
    <3>5. EndpointHasPolicy'
      BY <3>1 DEF Core, EndpointHasPolicy
    <3>6. \A n \in Names : pc'[n] = "idle"
      BY <3>1 DEF Return
    <3> QED BY <2>0, <3>4, <3>5, <3>6, WorkerIdle DEF Core
  <2>11. CASE Tick
    BY <2>0, <2>11, QuietStep DEF Tick, SameDevPods, worker
  <2>12. CASE UNCHANGED vars
    BY <2>0, <2>12, QuietStep DEF vars, SameDevPods
  <2> QED BY <2>0, <2>1, <2>2, <2>3, <2>4, <2>5, <2>6, <2>7, <2>8, <2>9, <2>10, <2>11, <2>12 DEF Next
<1> QED BY <1>1, <1>2, PTL DEF Spec

\* EndpointHasPolicy: however stale the caches, whatever calls fail and
\* wherever the controller restarts, cleanupOwnerNetPolIfLast never removes the
\* policy of an owner one of whose live DevPods has an endpoint, and updateStatus
\* never publishes an endpoint that no policy covers.
THEOREM EndpointAlwaysHasPolicy == Spec => []EndpointHasPolicy
BY Inductive, PTL DEF IInv, Core

-----------------------------------------------------------------------------
(* What the controller and the garbage collector own together: Secrets     *)
(* and PVCs.                                                               *)

\* A write of one kind leaves the others alone.
LEMMA PutLeaves ==
    ASSUME StoreOK, NEW k \in Kinds, NEW j \in Kinds \ {k}, NEW n, NEW o, NEW q, Put(k, n, o, q)
    PROVE  api'[j] = api[j]
<1>1. api' = [api EXCEPT ![k] = [@ EXCEPT ![n] = o]]
  BY DEF Put
<1> QED BY <1>1 DEF StoreOK

\* A write of one object leaves the other names alone.
LEMMA PutAt ==
    ASSUME StoreOK, NEW k \in Kinds, NEW n \in Names, NEW o, NEW q, Put(k, n, o, q)
    PROVE  \A m \in Names : api'[k][m] = IF m = n THEN o ELSE api[k][m]
<1>1. api' = [api EXCEPT ![k] = [@ EXCEPT ![n] = o]]
  BY DEF Put
<1> QED BY <1>1 DEF StoreOK

\* The steps that touch the API server, the watch streams and the caches.
LEMMA StoreSteps ==
    ASSUME [Next]_vars
    PROVE  \/ \E k \in Kinds, n \in Names : \E o, q : Put(k, n, o, q)
           \/ UNCHANGED <<api, cache, events>>
           \/ \E k \in Kinds : Deliver(k)
           \/ Restart
<1> DEFINE Writ == \E k \in Kinds, n \in Names : \E o, q : Put(k, n, o, q)
           Same == UNCHANGED <<api, cache, events>>
<1>k. Kinds = {"dp", "pod", "pvc", "sec", "svc"}
  BY DEF Kinds
<1>q. \A q : NoPut(q) => Same
  BY DEF NoPut
<1>f. \A n : Fail(n) => Same
  BY <1>q DEF Fail
<1>1. ASSUME NEW n \in Names, User(n) PROVE Writ
  <2>1. ASSUME NEW f, EditDevPod(n, f) PROVE \E o : Put("dp", n, o, queue)
    BY <2>1 DEF EditDevPod
  <2>2. ASSUME NEW p, CreateDevPod(n, p) PROVE \E o : Put("dp", n, o, queue)
    BY <2>2 DEF CreateDevPod
  <2>3. DeleteDevPod(n) => \E o : Put("dp", n, o, queue)
    BY DEF DeleteDevPod
  <2> QED BY <1>1, <1>k, <2>1, <2>2, <2>3 DEF User
<1>2. ASSUME NEW n \in Names, Kubelet(n) PROVE Writ
  BY <1>2, <1>k DEF Kubelet, PodRuns, PodEnds, PodGone
<1>3. ASSUME NEW n \in Names, NEW k \in Kinds \ {"dp"}, Collect(k, n) PROVE Writ
  <2>1. \E o : Put(k, n, o, queue)
    BY <1>3 DEF Collect
  <2> QED BY <2>1
<1>4. ASSUME NEW n \in Names, Step(n) PROVE Writ \/ Same
  <2>1. ASSUME NEW k \in Kinds, ApplyOwned(k, n) PROVE Writ
    BY <2>1 DEF ApplyOwned
  <2>2. DetachPVC(n) \/ EnsureHostKeySecret(n) => Writ \/ Same
    BY <1>k, <1>f, <1>q DEF DetachPVC, EnsureHostKeySecret
  <2>3. ApplyPVC(n) \/ ApplyService(n) => Writ \/ Same
    BY <2>1, <1>k, <1>q DEF ApplyPVC, ApplyService
  <2>4. CleanupOwnerNetPolIfLast(n) \/ ApplyDefaultDeny(n) \/ ApplyOwnerAllow(n) => Same
    BY <1>q DEF CleanupOwnerNetPolIfLast, ApplyDefaultDeny, ApplyOwnerAllow
  <2>5. RemoveFinalizer(n) \/ AddFinalizer(n) => Writ \/ Same
    BY <1>k, <1>f DEF RemoveFinalizer, AddFinalizer
  <2>6. Hibernate(n) \/ DeleteFailedPod(n) => Writ
    BY <1>k DEF Hibernate, DeleteFailedPod
  <2>7. RecordFailure(n) \/ ApplyPod(n) => Writ \/ Same
    BY <1>k, <1>f DEF RecordFailure, ApplyPod
  <2>8. ApplyPodWithDriftRecreate(n) => Writ \/ Same
    BY <2>7, <1>k, <1>q DEF ApplyPodWithDriftRecreate
  <2>9. UpdateStatus(n) => Writ \/ Same
    BY <1>k, <1>f, <1>q DEF UpdateStatus
  <2> QED BY <1>4, <2>2, <2>3, <2>4, <2>5, <2>6, <2>8, <2>9 DEF Step
<1>5. ASSUME NEW n \in Names, Reconcile(n) \/ CallFails(n) \/ TimerFires(n) PROVE Same
  BY <1>5, <1>q DEF Reconcile, CallFails, TimerFires
<1>6. CASE Tick \/ UNCHANGED vars
  BY <1>6 DEF Tick, vars
<1> QED BY <1>1, <1>2, <1>3, <1>4, <1>5, <1>6 DEF Next

\* A step shows a reader of an object nothing but what it could be shown before
\* and what is stored after the step.
LEMMA VersionStep ==
    ASSUME TypeOK, TypeOK', [Next]_vars, NEW k \in Kinds, NEW m \in Names
    PROVE  \A v \in Versions(cache'[k], events'[k], api'[k], m) :
               v \in Versions(cache[k], events[k], api[k], m) \/ v = api'[k][m]
<1> DEFINE O == Object(k)
           c == cache[k]
           s == events[k]
           a == api[k]
           G == \A v \in Versions(cache'[k], events'[k], api'[k], m) :
                    v \in Versions(c, s, a, m) \/ v = api'[k][m]
<1>0. /\ StoreOK /\ c \in [Names -> O] /\ a \in [Names -> O] /\ s \in Seq(EventOf(O))
      /\ api'[k] \in [Names -> O]
  BY DEF TypeOK, StoreOK, EventOf
<1>s. cache'[k] = c /\ events'[k] = s /\ api'[k] = a => G
  OBVIOUS
<1>1. ASSUME NEW n \in Names, NEW o, NEW q, Put(k, n, o, q) PROVE G
  <2> DEFINE b == [a EXCEPT ![n] = o]
             t == Append(s, [n |-> n, o |-> o])
             cc == [c EXCEPT ![Head(t).n] = Head(t).o]
  <2>1. api'[k] = b /\ b[n] = o /\ b[m] = IF m = n THEN o ELSE a[m]
    BY <1>0, <1>1 DEF Put, StoreOK
  <2>2. \/ o = a[n] /\ cache'[k] = c /\ events'[k] = s
        \/ cache'[k] = c /\ events'[k] = t
        \/ cache'[k] = cc /\ events'[k] = Tail(t)
    BY <1>0, <1>1 DEF Put, StoreOK
  <2>3. o \in O
    <3> HIDE DEF O, b, a
    <3> QED BY <1>0, <2>1
  <2>4. t \in Seq(EventOf(O)) /\ t # <<>>
    <3>1. [n |-> n, o |-> o] \in EventOf(O)
      BY <2>3 DEF EventOf
    <3> HIDE DEF O
    <3> QED BY <3>1, <1>0, AppendAt
  <2>5. \A v \in Versions(c, t, b, m) : v \in Versions(c, s, a, m) \/ v = b[m]
    <3>1. \A v \in Versions(c, t, b, m) : v \in Versions(c, s, a, m) \/ (m = n /\ v = o)
      <4> HIDE DEF O, c, s, a, b
      <4> QED BY <1>0, <2>1, <2>3, AppendVersions
    <3> HIDE DEF b, t, c, s, a
    <3> QED BY <2>1, <3>1
  <2>6. CASE o = a[n] /\ cache'[k] = c /\ events'[k] = s
    <3>1. b = a
      BY <2>6, <1>0
    <3> QED BY <2>6, <3>1, <2>1
  <2>7. CASE cache'[k] = c /\ events'[k] = t
    <3> HIDE DEF t, b, c, s, a
    <3> QED BY <2>7, <2>1, <2>5
  <2>8. CASE cache'[k] = cc /\ events'[k] = Tail(t)
    <3>1. \A v \in Versions(cc, Tail(t), b, m) : v \in Versions(c, t, b, m)
      <4> HIDE DEF O, t, b, c, s, a
      <4> QED BY <1>0, <2>4, DeliverVersions
    <3> HIDE DEF cc, t, b, c, s, a
    <3> QED BY <2>8, <3>1, <2>1, <2>5
  <2> QED BY <2>2, <2>6, <2>7, <2>8
<1>2. ASSUME NEW j \in Kinds \ {k}, NEW n \in Names, NEW o, NEW q, Put(j, n, o, q) PROVE G
  <2>1. cache'[k] = c /\ events'[k] = s /\ api'[k] = a
    BY <1>0, <1>2 DEF Put, StoreOK
  <2> QED BY <2>1, <1>s
<1>3. CASE Deliver(k)
  <2> DEFINE cc == [c EXCEPT ![Head(s).n] = Head(s).o]
  <2>1. cache'[k] = cc /\ events'[k] = Tail(s) /\ api'[k] = a /\ s # <<>>
    BY <1>0, <1>3 DEF Deliver, DeliverEvent, StoreOK
  <2> HIDE DEF O, c, s, a
  <2>2. \A v \in Versions(cc, Tail(s), a, m) : v \in Versions(c, s, a, m)
    BY <1>0, <2>1, DeliverVersions
  <2> HIDE DEF cc
  <2>3. Versions(cache'[k], events'[k], api'[k], m) = Versions(cc, Tail(s), a, m)
    BY <2>1
  <2> QED BY <2>2, <2>3 DEF c, s, a
<1>4. ASSUME NEW j \in Kinds \ {k}, Deliver(j) PROVE G
  <2>1. cache'[k] = c /\ events'[k] = s /\ api'[k] = a
    BY <1>0, <1>4 DEF Deliver, DeliverEvent, StoreOK
  <2> QED BY <2>1, <1>s
<1>5. CASE Restart
  <2>1. cache'[k] = a /\ events'[k] = <<>> /\ api'[k] = a
    BY <1>5 DEF Restart
  <2> HIDE DEF a
  <2>2. \A v \in Versions(a, <<>>, a, m) : v = a[m]
    BY DEF Versions
  <2> QED BY <2>1, <2>2
<1>6. CASE UNCHANGED <<api, cache, events>>
  BY <1>6, <1>s
<1> QED BY <1>1, <1>2, <1>3, <1>4, <1>5, <1>6, StoreSteps

\* The steps that write Secrets and PVCs.
LEMMA OwnedWrites ==
    ASSUME StoreOK, [Next]_vars
    PROVE  /\ \/ api'["sec"] = api["sec"]
              \/ \E n \in Names : EnsureHostKeySecret(n) \/ Collect("sec", n)
           /\ \/ api'["pvc"] = api["pvc"]
              \/ \E n \in Names : DetachPVC(n) \/ ApplyPVC(n) \/ Collect("pvc", n)
<1> DEFINE Sec == api'["sec"] = api["sec"] \/ \E n \in Names : EnsureHostKeySecret(n) \/ Collect("sec", n)
           Pvc == api'["pvc"] = api["pvc"] \/ \E n \in Names : DetachPVC(n) \/ ApplyPVC(n) \/ Collect("pvc", n)
<1>k. Kinds = {"dp", "pod", "pvc", "sec", "svc"}
  BY DEF Kinds
<1>p. ASSUME NEW k \in Kinds, NEW n, NEW o, NEW q, Put(k, n, o, q)
      PROVE  /\ k # "sec" => api'["sec"] = api["sec"]
             /\ k # "pvc" => api'["pvc"] = api["pvc"]
  BY <1>k, <1>p, PutLeaves
<1>q. \A q : NoPut(q) => api' = api
  BY DEF NoPut
<1>f. \A n : Fail(n) => api' = api
  BY <1>q DEF Fail
<1>d. ASSUME NEW k \in {"dp", "pod", "svc"}, NEW n, NEW o, NEW q, Put(k, n, o, q)
      PROVE  Sec /\ Pvc
  BY <1>d, <1>k, <1>p
<1>1. ASSUME NEW n \in Names, User(n) PROVE Sec /\ Pvc
  <2>1. ASSUME NEW p, CreateDevPod(n, p) PROVE Sec /\ Pvc
    BY <2>1, <1>d DEF CreateDevPod
  <2>2. ASSUME NEW f, EditDevPod(n, f) PROVE Sec /\ Pvc
    <3>1. \E o : Put("dp", n, o, queue)
      BY <2>2 DEF EditDevPod
    <3> QED BY <3>1, <1>d
  <2>3. CASE DeleteDevPod(n)
    <3>1. \E o : Put("dp", n, o, queue)
      BY <2>3 DEF DeleteDevPod
    <3> QED BY <3>1, <1>d
  <2> QED BY <1>1, <2>1, <2>2, <2>3 DEF User
<1>2. ASSUME NEW n \in Names, Kubelet(n) PROVE Sec /\ Pvc
  BY <1>2, <1>d DEF Kubelet, PodRuns, PodEnds, PodGone
<1>3. ASSUME NEW n \in Names, NEW k \in Kinds \ {"dp"}, Collect(k, n) PROVE Sec /\ Pvc
  <2>1. \E o : Put(k, n, o, queue)
    BY <1>3 DEF Collect
  <2>2. CASE k = "sec"
    BY <1>3, <1>k, <1>p, <2>1, <2>2
  <2>3. CASE k = "pvc"
    BY <1>3, <1>k, <1>p, <2>1, <2>3
  <2>4. CASE k \in {"pod", "svc"}
    BY <1>d, <2>1, <2>4
  <2> QED BY <1>k, <2>2, <2>3, <2>4
<1>4. ASSUME NEW n \in Names, Step(n) PROVE Sec /\ Pvc
  <2>0. api' = api => Sec /\ Pvc
    OBVIOUS
  <2>1. ASSUME NEW k \in Kinds, ApplyOwned(k, n) PROVE \E o : Put(k, n, o, queue)
    BY <2>1 DEF ApplyOwned
  <2>2. CASE DetachPVC(n)
    <3>1. api' = api \/ \E o : Put("pvc", n, o, queue)
      BY <2>2, <1>f, <1>q DEF DetachPVC
    <3> QED BY <1>k, <1>p, <2>2, <3>1
  <2>3. CASE EnsureHostKeySecret(n)
    <3>1. api' = api \/ \E o : Put("sec", n, o, queue)
      BY <2>3, <1>f, <1>q DEF EnsureHostKeySecret
    <3> QED BY <1>k, <1>p, <2>3, <3>1
  <2>4. CASE ApplyPVC(n)
    <3>1. api' = api \/ \E o : Put("pvc", n, o, queue)
      BY <2>4, <1>k, <1>q, <2>1 DEF ApplyPVC
    <3> QED BY <1>k, <1>p, <2>4, <3>1
  <2>5. CASE CleanupOwnerNetPolIfLast(n) \/ ApplyDefaultDeny(n) \/ ApplyOwnerAllow(n)
    BY <2>0, <2>5, <1>q DEF CleanupOwnerNetPolIfLast, ApplyDefaultDeny, ApplyOwnerAllow
  <2>6. CASE RemoveFinalizer(n) \/ AddFinalizer(n)
    BY <2>0, <2>6, <1>d, <1>f DEF RemoveFinalizer, AddFinalizer
  <2>7. CASE Hibernate(n) \/ DeleteFailedPod(n)
    BY <2>7, <1>d DEF Hibernate, DeleteFailedPod
  <2>8. CASE ApplyPodWithDriftRecreate(n)
    <3>1. CASE RecordFailure(n)
      BY <3>1, <2>0, <1>d, <1>f DEF RecordFailure
    <3>2. CASE ApplyPod(n)
      BY <3>2, <2>0, <1>d, <1>f DEF ApplyPod
    <3> QED BY <2>8, <3>1, <3>2, <2>0, <1>d, <1>q DEF ApplyPodWithDriftRecreate
  <2>9. CASE ApplyService(n)
    BY <2>9, <2>1, <1>k, <1>d DEF ApplyService
  <2>10. CASE UpdateStatus(n)
    BY <2>10, <2>0, <1>d, <1>f, <1>q DEF UpdateStatus
  <2> QED BY <1>4, <2>2, <2>3, <2>4, <2>5, <2>6, <2>7, <2>8, <2>9, <2>10 DEF Step
<1>5. ASSUME NEW n \in Names, Reconcile(n) \/ CallFails(n) \/ TimerFires(n) PROVE Sec /\ Pvc
  BY <1>5, <1>q DEF Reconcile, CallFails, TimerFires
<1>6. ASSUME (\E k \in Kinds : Deliver(k)) \/ Restart \/ Tick \/ UNCHANGED vars
      PROVE  Sec /\ Pvc
  BY <1>6 DEF Deliver, DeliverEvent, Restart, Tick, vars
<1> QED BY <1>1, <1>2, <1>3, <1>4, <1>5, <1>6 DEF Next

-----------------------------------------------------------------------------
(* The host key *)

\* An object that is absent has no owner.
Whole(k) == \A n \in Names : api[k][n].uid = 0 => api[k][n].owner = 0

\* A Secret is created where there is none, with a uid, and collected.
LEMMA SecretStep ==
    ASSUME TypeOK, [Next]_vars, NEW m \in Names
    PROVE  \/ api'["sec"][m] = api["sec"][m]
           \/ api["sec"][m].uid = 0 /\ api'["sec"][m].uid # 0
           \/ /\ api["sec"][m].owner \notin {0, api["dp"][m].uid}
              /\ api'["sec"][m] = NoOwned
<1>0. StoreOK /\ "sec" \in Kinds /\ ids["sec"] \in Nat
  BY DEF TypeOK, Kinds
<1>1. ASSUME NEW n \in Names, EnsureHostKeySecret(n)
      PROVE  api'["sec"][m] = api["sec"][m] \/ (api["sec"][m].uid = 0 /\ api'["sec"][m].uid # 0)
  <2> DEFINE y == [uid |-> ids["sec"] + 1, owner |-> d.uid]
  <2>1. api' = api \/ (api["sec"][n].uid = 0 /\ Put("sec", n, y, queue))
    BY <1>1 DEF EnsureHostKeySecret, Fail, NoPut
  <2>2. y.uid # 0
    BY <1>0
  <2> HIDE DEF y
  <2>3. Put("sec", n, y, queue) => api'["sec"][m] = IF m = n THEN y ELSE api["sec"][m]
    BY <1>0, PutAt
  <2> QED BY <2>1, <2>2, <2>3
<1>2. ASSUME NEW n \in Names, Collect("sec", n)
      PROVE  \/ api'["sec"][m] = api["sec"][m]
             \/ /\ api["sec"][m].owner \notin {0, api["dp"][m].uid}
                /\ api'["sec"][m] = NoOwned
  <2>1. Put("sec", n, NoOwned, queue) /\ api["sec"][n].owner \notin {0, api["dp"][n].uid}
    BY <1>2 DEF Collect
  <2>2. api'["sec"][m] = IF m = n THEN NoOwned ELSE api["sec"][m]
    BY <1>0, <2>1, PutAt
  <2> QED BY <2>1, <2>2
<1> QED BY <1>0, <1>1, <1>2, OwnedWrites

\* ensureHostKeySecret: the Secret a stored DevPod controls is never replaced,
\* however stale the cached Secret and whatever fails.
THEOREM HostKeyAlwaysStable == Spec => HostKeyStable
<1>1. Init => Whole("sec")
  BY DEF Init, Whole, Absent, NoOwned, Kinds
<1>2. TypeOK /\ Whole("sec") /\ [Next]_vars => Whole("sec")'
  <2> SUFFICES ASSUME TypeOK, Whole("sec"), [Next]_vars, NEW m \in Names, api'["sec"][m].uid = 0
               PROVE  api'["sec"][m].owner = 0
    BY DEF Whole
  <2> QED BY SecretStep DEF Whole, NoOwned
<1>3. TypeOK /\ Whole("sec") /\ [Next]_vars =>
        [\A n \in Names :
            (/\ api["dp"][n].uid # 0 /\ api'["dp"][n].uid = api["dp"][n].uid
             /\ api["sec"][n].owner = api["dp"][n].uid)
                => api'["sec"][n] = api["sec"][n]]_vars
  BY SecretStep DEF Whole
<1> QED BY <1>1, <1>2, <1>3, TypeCorrect, PTL DEF Spec, HostKeyStable

-----------------------------------------------------------------------------
(* The home PVC *)

\* What a step may make of the stored DevPod of name n: create it, update it,
\* or remove it, without a finalizer or by the reconcile whose copy it is.
Rewrites(n, o) ==
    LET x == api["dp"][n]
    IN  \/ x.uid = 0 /\ o.uid = ids["dp"] + 1
        \/ /\ o.uid = x.uid /\ (x.fin => o.fin) /\ (x.del => o.del)
           /\ o.persist = x.persist \/ EditDevPod(n, "persistence")
        \/ o.uid = 0 /\ (~x.fin \/ (pc[n] = "rmfin" /\ d = x))

\* The steps that write DevPods.
LEMMA DevPodWrites ==
    ASSUME TypeOK, [Next]_vars
    PROVE  \/ \E n \in Names : \E o, q : Put("dp", n, o, q) /\ Rewrites(n, o)
           \/ cache'["dp"] = cache["dp"] /\ events'["dp"] = events["dp"] /\ api'["dp"] = api["dp"]
           \/ Deliver("dp") \/ Restart
<1> DEFINE Writ == \E n \in Names : \E o, q : Put("dp", n, o, q) /\ Rewrites(n, o)
           Same == /\ cache'["dp"] = cache["dp"] /\ events'["dp"] = events["dp"]
                   /\ api'["dp"] = api["dp"]
<1>0. StoreOK
  BY DEF TypeOK
<1>a. /\ api["dp"] \in [Names -> DevPod] /\ d \in DevPod
      /\ \A n \in Names : api["dp"][n] \in DevPod
  BY <1>0, DevPodStore DEF TypeOK
<1>k. Kinds = {"dp", "pod", "pvc", "sec", "svc"}
  BY DEF Kinds
<1>q. \A q : NoPut(q) => Same
  BY DEF NoPut
<1>f. \A n : Fail(n) => Same
  BY <1>q DEF Fail
<1>o. ASSUME NEW k \in Kinds \ {"dp"}, NEW n, NEW o, NEW q, Put(k, n, o, q) PROVE Same
  BY <1>0, <1>o, PutOther
<1>1. ASSUME NEW n \in Names, User(n) PROVE Writ
  <2> DEFINE x == api["dp"][n]
  <2>x. x \in DevPod
    BY <1>a
  <2>1. ASSUME NEW p, CreateDevPod(n, p) PROVE Writ
    <3> DEFINE o == [NoDevPod EXCEPT !.uid = ids["dp"] + 1, !.running = TRUE, !.persist = p]
    <3>1. o.uid = ids["dp"] + 1
      BY DEF NoDevPod
    <3>2. Put("dp", n, o, queue) /\ x.uid = 0
      BY <2>1 DEF CreateDevPod
    <3> HIDE DEF o
    <3>3. Rewrites(n, o)
      BY <3>1, <3>2 DEF Rewrites
    <3> QED BY <3>2, <3>3
  <2>2. ASSUME NEW f \in Edits, EditDevPod(n, f) PROVE Writ
    <3>1. CASE f \in {"running", "template"}
      <4>1. \E o : /\ o = [x EXCEPT !.running = ~x.running] \/ o = [x EXCEPT !.tmpl = 1 - x.tmpl]
                   /\ Put("dp", n, o, queue)
        BY <2>2, <3>1 DEF EditDevPod
      <4>2. PICK o : /\ o = [x EXCEPT !.running = ~x.running] \/ o = [x EXCEPT !.tmpl = 1 - x.tmpl]
                     /\ Put("dp", n, o, queue)
        BY <4>1
      <4>3. /\ o.uid = x.uid /\ o.persist = x.persist
            /\ (x.fin => o.fin) /\ (x.del => o.del)
        BY <4>2, <2>x DEF DevPod
      <4>4. Rewrites(n, o)
        BY <4>3 DEF Rewrites
      <4> QED BY <4>2, <4>4
    <3>2. CASE f = "persistence"
      <4>1. \E o : o = [x EXCEPT !.persist = ~x.persist] /\ Put("dp", n, o, queue)
        BY <2>2, <3>2 DEF EditDevPod
      <4>2. PICK o : o = [x EXCEPT !.persist = ~x.persist] /\ Put("dp", n, o, queue)
        BY <4>1
      <4>3. o.uid = x.uid /\ (x.fin => o.fin) /\ (x.del => o.del)
        BY <4>2, <2>x DEF DevPod
      <4>4. Rewrites(n, o)
        BY <2>2, <3>2, <4>3 DEF Rewrites
      <4> QED BY <4>2, <4>4
    <3> QED BY <3>1, <3>2, ConstantsOK
  <2>3. CASE DeleteDevPod(n)
    <3> DEFINE y == [x EXCEPT !.del = TRUE]
    <3>1. y.uid = x.uid /\ y.persist = x.persist /\ (x.fin => y.fin) /\ (x.del => y.del)
      BY <2>x DEF DevPod
    <3>2. (x.fin /\ Put("dp", n, y, queue)) \/ (~x.fin /\ Put("dp", n, NoDevPod, queue))
      BY <2>3 DEF DeleteDevPod
    <3> HIDE DEF y
    <3>3. Rewrites(n, y)
      BY <3>1 DEF Rewrites
    <3>4. ~x.fin => Rewrites(n, NoDevPod)
      BY DEF Rewrites, NoDevPod
    <3> QED BY <3>2, <3>3, <3>4
  <2> QED BY <1>1, <2>1, <2>2, <2>3 DEF User
<1>2. ASSUME NEW n \in Names, Kubelet(n) PROVE Same
  BY <1>2, <1>k, <1>o DEF Kubelet, PodRuns, PodEnds, PodGone
<1>3. ASSUME NEW n \in Names, NEW k \in Kinds \ {"dp"}, Collect(k, n) PROVE Same
  BY <1>3, <1>o DEF Collect
<1>4. ASSUME NEW n \in Names, Step(n) PROVE Same \/ Writ
  <2> DEFINE x == api["dp"][n]
  <2>x. x \in DevPod
    BY <1>a
  <2>a. ASSUME NEW k \in Kinds \ {"dp"}, ApplyOwned(k, n) PROVE Same
    BY <2>a, <1>o DEF ApplyOwned
  <2>s. ASSUME NEW z, NEW q, Put("dp", n, [x EXCEPT !.st = z], q) PROVE Writ
    <3> DEFINE y == [x EXCEPT !.st = z]
    <3>1. y.uid = x.uid /\ y.persist = x.persist /\ (x.fin => y.fin) /\ (x.del => y.del)
      BY <2>x DEF DevPod
    <3>2. Put("dp", n, y, q)
      BY <2>s
    <3> HIDE DEF y
    <3>3. Rewrites(n, y)
      BY <3>1 DEF Rewrites
    <3> QED BY <3>2, <3>3
  <2>1. CASE DetachPVC(n) \/ EnsureHostKeySecret(n)
    BY <2>1, <1>k, <1>o, <1>f, <1>q DEF DetachPVC, EnsureHostKeySecret
  <2>2. CASE ApplyPVC(n) \/ ApplyService(n)
    BY <2>2, <2>a, <1>k, <1>q DEF ApplyPVC, ApplyService
  <2>3. CASE CleanupOwnerNetPolIfLast(n) \/ ApplyDefaultDeny(n) \/ ApplyOwnerAllow(n)
    BY <2>3, <1>q DEF CleanupOwnerNetPolIfLast, ApplyDefaultDeny, ApplyOwnerAllow
  <2>4. CASE RemoveFinalizer(n)
    <3>1. pc[n] = "rmfin" /\ d = x => Rewrites(n, NoDevPod)
      BY DEF Rewrites, NoDevPod
    <3> QED BY <2>4, <3>1, <1>f DEF RemoveFinalizer
  <2>5. CASE AddFinalizer(n)
    <3> DEFINE y == [d EXCEPT !.fin = TRUE]
    <3>1. d = x => y.uid = x.uid /\ y.persist = x.persist /\ y.fin /\ (x.del => y.del)
      BY <2>x DEF DevPod
    <3>2. Same \/ (d = x /\ Put("dp", n, y, queue \cup {n}))
      BY <2>5, <1>f DEF AddFinalizer
    <3> HIDE DEF y
    <3>3. d = x => Rewrites(n, y)
      BY <3>1 DEF Rewrites
    <3> QED BY <3>2, <3>3
  <2>6. CASE Hibernate(n) \/ DeleteFailedPod(n)
    BY <2>6, <1>k, <1>o DEF Hibernate, DeleteFailedPod
  <2>7. CASE ApplyPodWithDriftRecreate(n)
    <3>1. CASE RecordFailure(n)
      BY <3>1, <2>s, <1>f DEF RecordFailure
    <3>2. CASE ApplyPod(n)
      BY <3>2, <1>k, <1>o, <1>f DEF ApplyPod
    <3> QED BY <2>7, <3>1, <3>2, <1>k, <1>o, <1>q DEF ApplyPodWithDriftRecreate
  <2>8. CASE UpdateStatus(n)
    BY <2>8, <2>s, <1>f, <1>q DEF UpdateStatus
  <2> QED BY <1>4, <2>1, <2>2, <2>3, <2>4, <2>5, <2>6, <2>7, <2>8 DEF Step
<1>5. ASSUME NEW n \in Names, Reconcile(n) \/ CallFails(n) \/ TimerFires(n) PROVE Same
  BY <1>5, <1>q DEF Reconcile, CallFails, TimerFires
<1>6. ASSUME NEW k \in Kinds \ {"dp"}, Deliver(k) PROVE Same
  BY <1>0, <1>6 DEF Deliver, DeliverEvent, StoreOK, Kinds
<1>7. CASE Tick \/ UNCHANGED vars
  BY <1>7 DEF Tick, vars
<1> QED BY <1>1, <1>2, <1>3, <1>4, <1>5, <1>6, <1>7 DEF Next

\* A step rewrites a stored DevPod or leaves it.
LEMMA DevPodStep ==
    ASSUME TypeOK, [Next]_vars, NEW m \in Names
    PROVE  api'["dp"][m] = api["dp"][m] \/ Rewrites(m, api'["dp"][m])
<1>0. StoreOK /\ "dp" \in Kinds
  BY DEF TypeOK, Kinds
<1>1. ASSUME NEW n \in Names, NEW o, NEW q, Put("dp", n, o, q), Rewrites(n, o)
      PROVE  api'["dp"][m] = api["dp"][m] \/ Rewrites(m, api'["dp"][m])
  <2>1. api'["dp"][m] = IF m = n THEN o ELSE api["dp"][m]
    BY <1>0, <1>1, PutAt
  <2> QED BY <1>1, <2>1
<1>2. Deliver("dp") \/ Restart => api' = api
  BY DEF Deliver, DeliverEvent, Restart
<1> QED BY <1>1, <1>2, DevPodWrites

\* Uids only grow, and a promise is made by the deletion of the DevPod alone.
LEMMA PromiseStep ==
    ASSUME TypeOK, [Next]_vars
    PROVE  /\ ids["dp"] <= ids'["dp"]
           /\ \A m \in Names : promised'[m] # promised[m] =>
                  DeleteDevPod(m) \/ EditDevPod(m, "persistence")
<1> DEFINE G == ids["dp"] <= ids'["dp"] /\ \A m \in Names : promised'[m] # promised[m] =>
                    DeleteDevPod(m) \/ EditDevPod(m, "persistence")
<1>0. ids \in [Kinds -> Nat] /\ promised \in [Names -> SUBSET Nat]
      /\ Kinds = {"dp", "pod", "pvc", "sec", "svc"}
  BY DEF TypeOK, Kinds
<1>u. ids' = ids /\ promised' = promised => G
  BY <1>0
<1>w. ids' = ids /\ UNCHANGED world => G
  BY <1>u DEF world
<1>i. ASSUME NEW k \in Kinds \ {"dp"}, ids' = ids \/ ids' = [ids EXCEPT ![k] = @ + 1],
             UNCHANGED world
      PROVE  G
  BY <1>0, <1>i DEF world
<1>f. \A n : Fail(n) => G
  BY <1>w DEF Fail
<1>1. ASSUME NEW n \in Names, User(n) PROVE G
  <2>1. ASSUME NEW p, CreateDevPod(n, p) PROVE G
    BY <1>0, <2>1 DEF CreateDevPod, world
  <2>2. ASSUME NEW f \in Edits, EditDevPod(n, f) PROVE G
    <3>1. ids' = ids /\ (f # "persistence" => promised' = promised)
          /\ (f = "persistence" =>
                promised' = [promised EXCEPT ![n] = promised[n] \ {api["dp"][n].uid}])
      BY <2>2 DEF EditDevPod
    <3>2. CASE f # "persistence"
      BY <3>1, <3>2, <1>u
    <3>3. CASE f = "persistence"
      <4>1. \A m \in Names : promised'[m] # promised[m] => m = n
        BY <1>0, <3>1, <3>3
      <4> QED BY <1>0, <2>2, <3>1, <3>3, <4>1
    <3> QED BY <3>2, <3>3
  <2>3. CASE DeleteDevPod(n)
    <3>1. ids' = ids /\ (\/ promised' = promised
                         \/ promised' = [promised EXCEPT ![n] = promised[n] \cup {api["dp"][n].uid}])
      BY <2>3 DEF DeleteDevPod
    <3>2. \A m \in Names : promised'[m] # promised[m] => m = n
      BY <1>0, <3>1
    <3> QED BY <1>0, <2>3, <3>1, <3>2
  <2> QED BY <1>1, <2>1, <2>2, <2>3 DEF User
<1>2. ASSUME NEW n \in Names, Kubelet(n) \/ TimerFires(n) \/ CallFails(n) PROVE G
  BY <1>2, <1>u DEF Kubelet, PodRuns, PodEnds, PodGone, TimerFires, CallFails, world
<1>3. ASSUME NEW n \in Names, NEW k, Collect(k, n) PROVE G
  BY <1>3, <1>w DEF Collect
<1>4. ASSUME NEW n \in Names, Step(n) PROVE G
  <2>1. CASE DetachPVC(n) \/ RemoveFinalizer(n) \/ AddFinalizer(n) \/ Hibernate(n)
             \/ DeleteFailedPod(n)
    BY <2>1, <1>f, <1>w
       DEF DetachPVC, RemoveFinalizer, AddFinalizer, Hibernate, DeleteFailedPod
  <2>2. CASE CleanupOwnerNetPolIfLast(n) \/ ApplyDefaultDeny(n) \/ ApplyOwnerAllow(n)
    BY <2>2, <1>u DEF CleanupOwnerNetPolIfLast, ApplyDefaultDeny, ApplyOwnerAllow
  <2>3. CASE EnsureHostKeySecret(n)
    BY <2>3, <1>0, <1>f, <1>i DEF EnsureHostKeySecret
  <2>4. CASE ApplyPVC(n) \/ ApplyService(n)
    BY <2>4, <1>0, <1>i DEF ApplyPVC, ApplyService, ApplyOwned
  <2>5. CASE ApplyPodWithDriftRecreate(n)
    <3>1. CASE RecordFailure(n)
      BY <3>1, <1>f, <1>w DEF RecordFailure
    <3>2. CASE ApplyPod(n)
      BY <3>2, <1>0, <1>f, <1>i DEF ApplyPod
    <3> QED BY <2>5, <3>1, <3>2, <1>w DEF ApplyPodWithDriftRecreate
  <2>6. CASE UpdateStatus(n)
    BY <2>6, <1>f, <1>u DEF UpdateStatus
  <2> QED BY <1>4, <2>1, <2>2, <2>3, <2>4, <2>5, <2>6 DEF Step
<1>5. ASSUME NEW n \in Names, Reconcile(n) PROVE G
  BY <1>5, <1>w DEF Reconcile
<1>6. ASSUME (\E k \in Kinds : Deliver(k)) \/ Restart \/ Tick \/ UNCHANGED vars PROVE G
  BY <1>6, <1>u DEF Deliver, Restart, Tick, vars, world
<1> QED BY <1>1, <1>2, <1>3, <1>4, <1>5, <1>6 DEF Next

\* The reconciles that have yet to use spec.persistence of a live DevPod.
Persisting == {"secret", "pvc"}

\* A step's effect on the reconcile of n: its copy comes from the cache, and
\* stays; only detachPVC leads on to the rest of a deletion.
LEMMA CopyStep ==
    ASSUME TypeOK, OneWorker, [Next]_vars, NEW n \in Names
    PROVE  /\ pc'[n] \in Persisting => \/ pc[n] \in Persisting /\ d' = d
                                       \/ d' = cache["dp"][n] /\ ~d'.del
           /\ pc'[n] = "detach" => \/ pc[n] = "detach" /\ d' = d
                                   \/ d' = cache["dp"][n] /\ d'.del
           /\ pc'[n] \in {"netpol", "rmfin"} =>
                  d' = d /\ (pc[n] \in {"netpol", "rmfin"} \/ DetachPVC(n))
<1> DEFINE G == /\ pc'[n] \in Persisting => \/ pc[n] \in Persisting /\ d' = d
                                            \/ d' = cache["dp"][n] /\ ~d'.del
                /\ pc'[n] = "detach" => \/ pc[n] = "detach" /\ d' = d
                                        \/ d' = cache["dp"][n] /\ d'.del
                /\ pc'[n] \in {"netpol", "rmfin"} =>
                       d' = d /\ (pc[n] \in {"netpol", "rmfin"} \/ DetachPVC(n))
<1>0. pc \in [Names -> Steps]
  BY DEF TypeOK
<1>u. UNCHANGED <<pc, d>> => G
  OBVIOUS
<1>r. Return => G
  BY DEF Return, Persisting
<1>f. \A m : Fail(m) => G
  BY <1>r DEF Fail
<1>g. ASSUME NEW m \in Names, NEW step, Goto(m, step), d' = d PROVE n # m => G
  BY <1>0, <1>g, <1>u DEF Goto
<1>h. ASSUME NEW m \in Names, NEW step, Goto(m, step) PROVE pc'[m] = step
  BY <1>0, <1>h DEF Goto
<1>1. ASSUME NEW m \in Names, User(m) \/ Kubelet(m) \/ TimerFires(m) PROVE G
  <2>1. UNCHANGED <<pc, d>>
    <3>1. ASSUME NEW f, EditDevPod(m, f) PROVE UNCHANGED worker
      BY <3>1 DEF EditDevPod
    <3>2. ASSUME NEW p, CreateDevPod(m, p) PROVE UNCHANGED worker
      BY <3>2 DEF CreateDevPod
    <3>4. DeleteDevPod(m) => UNCHANGED worker
      BY DEF DeleteDevPod
    <3>3. Kubelet(m) \/ TimerFires(m) => UNCHANGED worker
      BY DEF Kubelet, PodRuns, PodEnds, PodGone, TimerFires
    <3> QED BY <1>1, <3>1, <3>2, <3>3, <3>4 DEF User, worker
  <2> QED BY <2>1, <1>u
<1>2. ASSUME NEW m \in Names, NEW k, Collect(k, m) PROVE G
  BY <1>2, <1>u DEF Collect, worker
<1>3. ASSUME (\E k \in Kinds : Deliver(k)) \/ Tick \/ UNCHANGED vars PROVE G
  BY <1>3, <1>u DEF Deliver, Tick, vars, worker
<1>4. CASE Restart
  BY <1>4, <1>r DEF Restart
<1>5. ASSUME NEW m \in Names, CallFails(m) PROVE G
  BY <1>5, <1>r DEF CallFails
<1>6. ASSUME NEW m \in Names, Reconcile(m) PROVE G
  <2> DEFINE step == FirstStep(m, cache["dp"][m])
  <2>1. /\ pc' = [pc EXCEPT ![m] = step] /\ pc[n] = "idle"
        /\ step # "idle" => d' = cache["dp"][m]
    BY <1>6 DEF Reconcile, Goto
  <2>2. /\ step \in {"idle", "detach", "addfin", "hibernate", "secret"}
        /\ step = "detach" => cache["dp"][m].del
        /\ step = "secret" => ~cache["dp"][m].del
    BY DEF FirstStep
  <2> HIDE DEF step
  <2>3. pc'[n] = IF n = m THEN step ELSE "idle"
    BY <1>0, <2>1
  <2> QED BY <2>1, <2>2, <2>3 DEF Persisting
<1>7. ASSUME NEW m \in Names, Step(m) PROVE G
  <2>1. CASE DetachPVC(m)
    <3>1. Fail(m) \/ (Goto(m, "netpol") /\ d' = d)
      BY <2>1 DEF DetachPVC
    <3> QED BY <2>1, <3>1, <1>f, <1>g, <1>h DEF Persisting
  <2>2. CASE CleanupOwnerNetPolIfLast(m)
    BY <2>2, <1>g, <1>h DEF CleanupOwnerNetPolIfLast, Persisting
  <2>3. CASE RemoveFinalizer(m) \/ AddFinalizer(m) \/ UpdateStatus(m)
    BY <2>3, <1>f, <1>r DEF RemoveFinalizer, AddFinalizer, UpdateStatus
  <2>4. CASE Hibernate(m) \/ DeleteFailedPod(m) \/ ApplyDefaultDeny(m) \/ ApplyOwnerAllow(m)
    <3>1. d' = d /\ \E step \in {"status", "svc", "allow"} : Goto(m, step)
      BY <2>4 DEF Hibernate, DeleteFailedPod, ApplyDefaultDeny, ApplyOwnerAllow
    <3> QED BY <3>1, <1>g, <1>h DEF Persisting
  <2>5. CASE EnsureHostKeySecret(m)
    <3>1. Fail(m) \/ (pc[m] = "secret" /\ Goto(m, "pvc") /\ d' = d)
      BY <2>5 DEF EnsureHostKeySecret
    <3> QED BY <3>1, <1>f, <1>g, <1>h DEF Persisting
  <2>6. CASE ApplyPVC(m) \/ ApplyService(m)
    <3>1. d' = d /\ \E step \in {"pod", "deny", "status"} : Goto(m, step)
      BY <2>6 DEF ApplyPVC, ApplyService
    <3> QED BY <3>1, <1>g, <1>h DEF Persisting
  <2>7. CASE ApplyPodWithDriftRecreate(m)
    <3>1. \/ Fail(m)
          \/ pc[m] = "pod" /\ Goto(m, "delfailed")
          \/ Goto(m, "svc") /\ d' = d
      BY <2>7 DEF ApplyPodWithDriftRecreate, RecordFailure, ApplyPod
    <3>2. CASE pc[m] = "pod" /\ Goto(m, "delfailed")
      <4>1. n # m => pc[n] = "idle"
        BY <3>2 DEF OneWorker
      <4>2. pc'[n] = IF n = m THEN "delfailed" ELSE pc[n]
        BY <1>0, <3>2 DEF Goto
      <4> QED BY <4>1, <4>2 DEF Persisting
    <3> QED BY <3>1, <3>2, <1>f, <1>g, <1>h DEF Persisting
  <2> QED BY <1>7, <2>1, <2>2, <2>3, <2>4, <2>5, <2>6, <2>7 DEF Step
<1> QED BY <1>1, <1>2, <1>3, <1>4, <1>5, <1>6, <1>7 DEF Next
-----------------------------------------------------------------------------
\* The versions of the home PVC of name n that a reader may yet be shown.
Homes(n) == Versions(cache["pvc"], events["pvc"], api["pvc"], n)

(* What is kept of a promise to the DevPod u of name n, deleted when the    *)
(* cache showed its PVC and not edited to give it up since.                 *)

\* While the PVC is u's, u is stored, deleted, held by its finalizer and
\* persists its home, and detachPVC can only be shown a PVC of u.
Attached(n, u) ==
    api["pvc"][n].owner = u =>
        /\ api["dp"][n].uid = u /\ api["dp"][n].fin /\ api["dp"][n].del /\ api["dp"][n].persist
        /\ \A c \in Homes(n) : c.uid # 0 /\ c.owner = u

\* A reader who finds u deleted, and the worker that deletes it, finds that it
\* persists its home.
Persists(n, u) ==
    /\ \A v \in Visible(n) : v.uid = u /\ v.del => v.persist
    /\ pc[n] = "detach" /\ d.uid = u => d.persist

\* Once detachPVC was there, the PVC is not u's any more.
Detached(n, u) == pc[n] \in {"netpol", "rmfin"} /\ d.uid = u => api["pvc"][n].owner # u

\* Nor will it be: no reader finds u alive, and the worker does not apply it.
Released(n, u) ==
    api["pvc"][n].owner # u =>
        /\ \A v \in Visible(n) : v.uid = u => v.del
        /\ pc[n] \in Persisting => d.uid # u

Promise(n, u) == /\ u \in Nat \ {0} /\ u <= ids["dp"]
                 /\ Attached(n, u) /\ Persists(n, u) /\ Detached(n, u) /\ Released(n, u)

Home == Whole("pvc") /\ \A n \in Names : \A u \in promised[n] : Promise(n, u)

\* What a step does to a PVC: detach it as the cache shows it, apply it with the
\* worker's DevPod as its owner, or collect it, when its owner is gone.
LEMMA HomeStep ==
    ASSUME TypeOK, [Next]_vars, NEW m \in Names
    PROVE  \/ api'["pvc"][m] = api["pvc"][m]
           \/ /\ DetachPVC(m) /\ d.persist /\ cache["pvc"][m].owner = d.uid
              /\ api["pvc"][m].uid # 0 /\ api'["pvc"][m].uid = api["pvc"][m].uid
              /\ api'["pvc"][m].owner = 0
           \/ ApplyPVC(m) /\ api'["pvc"][m].uid # 0 /\ api'["pvc"][m].owner = d.uid
           \/ /\ api["pvc"][m].owner \notin {0, api["dp"][m].uid}
              /\ api'["pvc"][m] = NoOwned
<1>0. /\ StoreOK /\ "pvc" \in Kinds /\ ids["pvc"] \in Nat
      /\ \A n \in Names : api["pvc"][n] \in Owned
  BY DEF TypeOK, Kinds, StoreOK, Object
<1>1. ASSUME NEW n \in Names, DetachPVC(n)
      PROVE  \/ api'["pvc"][m] = api["pvc"][m]
             \/ /\ m = n /\ d.persist /\ cache["pvc"][m].owner = d.uid
                /\ api["pvc"][m].uid # 0 /\ api'["pvc"][m].uid = api["pvc"][m].uid
                /\ api'["pvc"][m].owner = 0
  <2> DEFINE y == [api["pvc"][n] EXCEPT !.owner = 0]
  <2>1. \/ api' = api
        \/ /\ api["pvc"][n].uid # 0 /\ Put("pvc", n, y, queue)
           /\ d.persist /\ cache["pvc"][n].owner = d.uid
    BY <1>1 DEF DetachPVC, Fail, NoPut
  <2>2. y.uid = api["pvc"][n].uid /\ y.owner = 0
    BY <1>0 DEF Owned
  <2> HIDE DEF y
  <2>3. Put("pvc", n, y, queue) => api'["pvc"][m] = IF m = n THEN y ELSE api["pvc"][m]
    BY <1>0, PutAt
  <2> QED BY <2>1, <2>2, <2>3
<1>2. ASSUME NEW n \in Names, ApplyPVC(n)
      PROVE  \/ api'["pvc"][m] = api["pvc"][m]
             \/ m = n /\ api'["pvc"][m].uid # 0 /\ api'["pvc"][m].owner = d.uid
  <2> DEFINE x == api["pvc"][n]
             y == [uid |-> IF x.uid = 0 THEN ids["pvc"] + 1 ELSE x.uid, owner |-> d.uid]
  <2>1. api' = api \/ Put("pvc", n, y, queue)
    BY <1>2 DEF ApplyPVC, ApplyOwned, NoPut
  <2>2. y.uid # 0 /\ y.owner = d.uid
    BY <1>0
  <2> HIDE DEF y
  <2>3. Put("pvc", n, y, queue) => api'["pvc"][m] = IF m = n THEN y ELSE api["pvc"][m]
    BY <1>0, PutAt
  <2> QED BY <2>1, <2>2, <2>3
<1>3. ASSUME NEW n \in Names, Collect("pvc", n)
      PROVE  \/ api'["pvc"][m] = api["pvc"][m]
             \/ /\ api["pvc"][m].owner \notin {0, api["dp"][m].uid}
                /\ api'["pvc"][m] = NoOwned
  <2>1. Put("pvc", n, NoOwned, queue) /\ api["pvc"][n].owner \notin {0, api["dp"][n].uid}
    BY <1>3 DEF Collect
  <2>2. api'["pvc"][m] = IF m = n THEN NoOwned ELSE api["pvc"][m]
    BY <1>0, <2>1, PutAt
  <2> QED BY <2>1, <2>2
<1> QED BY <1>0, <1>1, <1>2, <1>3, OwnedWrites

\* A step that keeps a promise made earlier.
LEMMA PromiseKept ==
    ASSUME IInv, IInv', [Next]_vars, Whole("pvc"), Whole("pvc")', NEW n \in Names, NEW u,
           Promise(n, u), ~(EditDevPod(n, "persistence") /\ u = api["dp"][n].uid)
    PROVE  Promise(n, u)'
<1> DEFINE x == api["dp"][n]
           y == api'["dp"][n]
           p == api["pvc"][n]
           r == api'["pvc"][n]
<1>0. /\ TypeOK /\ TypeOK' /\ OneWorker /\ Deleting /\ Applying
      /\ ids["dp"] \in Nat /\ ids'["dp"] \in Nat /\ d.uid \in Nat /\ u \in Nat \ {0} /\ u <= ids["dp"]
      /\ "pvc" \in Kinds /\ "dp" \in Kinds
  BY DEF IInv, Core, TypeOK, Kinds, DevPod, Promise
<1>1. u \in Nat \ {0} /\ u <= ids'["dp"]
  BY <1>0, PromiseStep
<1>v. x \in Visible(n) /\ cache["dp"][n] \in Visible(n) /\ p \in Homes(n) /\ cache["pvc"][n] \in Homes(n)
  BY InVersions DEF Visible, Homes
<1>w. /\ \A v \in Visible(n)' : v \in Visible(n) \/ v = y
      /\ \A c \in Homes(n)' : c \in Homes(n) \/ c = r
  BY <1>0, VersionStep DEF Visible, Homes
\* u is stored only while it is deleted, and then stays so and persists its home.
<1>2. x.uid = u => x.del /\ x.persist
  BY <1>v DEF Promise, Attached, Released, Persists
<1>3. y.uid = u => x.uid = u /\ y.del /\ y.persist
  <2>1. CASE y = x
    BY <2>1, <1>2
  <2>2. CASE Rewrites(n, y)
    BY <2>2, <1>0, <1>2 DEF Rewrites
  <2> QED BY <2>1, <2>2, <1>0, DevPodStep
\* The PVC stays u's, or detachPVC takes it from u; it does not become u's again.
<1>4. CASE p.owner = u
  <2>1. /\ x.uid = u /\ x.fin /\ x.del /\ x.persist
        /\ \A c \in Homes(n) : c.uid # 0 /\ c.owner = u
    BY <1>4 DEF Promise, Attached
  <2>2. r = p \/ (DetachPVC(n) /\ d.uid = u /\ r.owner = 0) \/ (ApplyPVC(n) /\ r.owner = u)
    <3>1. ApplyPVC(n) => d.uid = u
      BY <1>0, <2>1 DEF ApplyPVC, Applying, ApplySteps
    <3> QED BY <1>0, <1>v, <2>1, <3>1, HomeStep
  <2>3. CASE r.owner = u
    <3>1. y.uid = u /\ y.fin
      <4>1. pc[n] = "rmfin" => d # x
        BY <1>4, <2>1 DEF Promise, Detached
      <4>2. CASE Rewrites(n, y)
        BY <4>1, <4>2, <1>0, <2>1 DEF Rewrites
      <4> QED BY <4>2, <1>0, <2>1, DevPodStep
    <3>2. r.uid # 0
      BY <2>3, <1>0 DEF Whole
    <3>3. Attached(n, u)'
      BY <3>1, <3>2, <1>3, <1>w, <2>1, <2>3 DEF Attached
    <3>4. Persists(n, u)'
      <4>1. \A v \in Visible(n)' : v.uid = u /\ v.del => v.persist
        BY <1>w, <1>3 DEF Promise, Persists
      <4>2. pc'[n] = "detach" /\ d'.uid = u => d'.persist
        BY <1>0, <1>v, CopyStep DEF Promise, Persists
      <4> QED BY <4>1, <4>2 DEF Persists
    <3>5. Detached(n, u)'
      <4> SUFFICES ASSUME pc'[n] \in {"netpol", "rmfin"}, d'.uid = u PROVE FALSE
        BY DEF Detached
      <4>1. d' = d /\ (pc[n] \in {"netpol", "rmfin"} \/ DetachPVC(n))
        BY <1>0, CopyStep
      <4>2. DetachPVC(n)
        BY <4>1, <1>4 DEF Promise, Detached
      <4>3. pc[n] = "detach" /\ d.persist
        BY <4>1, <4>2 DEF DetachPVC, Promise, Persists
      <4> DEFINE z == [p EXCEPT !.owner = 0]
      <4>4. Fail(n) \/ Put("pvc", n, z, queue)
        BY <4>1, <4>2, <4>3, <1>v, <2>1 DEF DetachPVC
      <4>5. ~Fail(n)
        BY <1>0 DEF Fail, Return
      <4>6. z.owner = 0
        BY <1>0 DEF TypeOK, StoreOK, Kinds, Object, Owned
      <4> HIDE DEF z
      <4>7. r = z
        BY <1>0, <4>4, <4>5, PutAt DEF TypeOK
      <4> QED BY <4>6, <4>7, <2>3, <1>0
    <3>6. Released(n, u)'
      BY <2>3 DEF Released
    <3> QED BY <1>1, <3>3, <3>4, <3>5, <3>6 DEF Promise
  <2>4. CASE r.owner # u
    <3>1. DetachPVC(n) /\ d.uid = u
      BY <2>2, <2>4, <1>4
    <3>2. pc[n] = "detach" /\ \A v \in Visible(n) : v.uid = u => v.del
      BY <3>1, <1>0 DEF DetachPVC, Deleting, DeleteSteps, Precedes
    <3>3. Attached(n, u)' /\ Detached(n, u)'
      BY <2>4 DEF Attached, Detached
    <3>4. Persists(n, u)'
      <4>1. \A v \in Visible(n)' : v.uid = u /\ v.del => v.persist
        BY <1>w, <1>3 DEF Promise, Persists
      <4>2. pc'[n] = "detach" /\ d'.uid = u => d'.persist
        BY <1>0, <1>v, CopyStep DEF Promise, Persists
      <4> QED BY <4>1, <4>2 DEF Persists
    <3>5. Released(n, u)'
      <4>1. \A v \in Visible(n)' : v.uid = u => v.del
        BY <1>w, <1>3, <3>2
      <4>2. pc'[n] \in Persisting => d'.uid # u
        BY <1>0, <1>v, <3>2, CopyStep DEF Persisting
      <4> QED BY <4>1, <4>2 DEF Released
    <3> QED BY <1>1, <3>3, <3>4, <3>5 DEF Promise
  <2> QED BY <2>3, <2>4
<1>5. CASE p.owner # u
  <2>1. /\ \A v \in Visible(n) : v.uid = u => v.del
        /\ pc[n] \in Persisting => d.uid # u
    BY <1>5 DEF Promise, Released
  <2>2. r.owner # u
    <3>1. ApplyPVC(n) => d.uid # u
      BY <2>1 DEF ApplyPVC, Persisting
    <3> QED BY <1>0, <1>5, <3>1, HomeStep DEF NoOwned
  <2>3. Attached(n, u)' /\ Detached(n, u)'
    BY <2>2 DEF Attached, Detached
  <2>4. Persists(n, u)'
    <3>1. \A v \in Visible(n)' : v.uid = u /\ v.del => v.persist
      BY <1>w, <1>3 DEF Promise, Persists
    <3>2. pc'[n] = "detach" /\ d'.uid = u => d'.persist
      BY <1>0, <1>v, CopyStep DEF Promise, Persists
    <3> QED BY <3>1, <3>2 DEF Persists
  <2>5. Released(n, u)'
    <3>1. \A v \in Visible(n)' : v.uid = u => v.del
      BY <1>w, <1>3, <2>1
    <3>2. pc'[n] \in Persisting => d'.uid # u
      BY <1>0, <1>v, <2>1, CopyStep
    <3> QED BY <3>1, <3>2 DEF Released
  <2> QED BY <1>1, <2>3, <2>4, <2>5 DEF Promise
<1> QED BY <1>4, <1>5

\* The deletion that makes a promise.
LEMMA PromiseMade ==
    ASSUME IInv, IInv', [Next]_vars, Whole("pvc"), NEW n \in Names, DeleteDevPod(n),
           NEW u, u = api["dp"][n].uid, api["dp"][n].fin, api["dp"][n].persist,
           api["pvc"][n].owner = u, UpToDateAt("pvc", n)
    PROVE  Promise(n, u)'
<1> DEFINE x == api["dp"][n]
           o == [x EXCEPT !.del = TRUE]
           y == api'["dp"][n]
<1>0. /\ TypeOK /\ TypeOK' /\ StoreOK /\ Deleting /\ UpToDate /\ Unique
      /\ "pvc" \in Kinds /\ "dp" \in Kinds /\ x \in DevPod /\ x.uid # 0 /\ ~x.del
      /\ UNCHANGED <<pc, d, ids>>
  BY StoreAt DEF IInv, Core, History, TypeOK, Kinds, DeleteDevPod, worker
<1>1. o.uid = u /\ o.fin /\ o.del /\ o.persist
  BY <1>0 DEF DevPod
<1>2. Put("dp", n, o, queue)
  BY <1>0 DEF DeleteDevPod
<1>3. api'["dp"][n] = o /\ api'["pvc"] = api["pvc"] /\ cache'["pvc"] = cache["pvc"]
      /\ events'["pvc"] = events["pvc"]
  <2> HIDE DEF o
  <2>1. api'["dp"][n] = o
    BY <1>0, <1>2, PutAt
  <2>2. "pvc" \in Kinds \ {"dp"}
    BY DEF Kinds
  <2>3. api'["pvc"] = api["pvc"] /\ cache'["pvc"] = cache["pvc"] /\ events'["pvc"] = events["pvc"]
    BY <1>0, <1>2, <2>2 DEF Put, StoreOK
  <2> QED BY <2>1, <2>3
<1>v. x \in Visible(n) /\ \A v \in Visible(n)' : v \in Visible(n) \/ v = y
  BY <1>0, VersionStep, InVersions DEF Visible
<1>u. u \in Nat \ {0} /\ u <= ids["dp"]
  BY <1>0, <1>v DEF DevPod, Unique
\* The deletion is the first: no reader finds u deleted, and no worker deletes it.
<1>4. \A v \in Visible(n) : v.uid = u => ~v.del
  BY <1>0, <1>u DEF UpToDate, Precedes
<1>5. pc[n] \in DeleteSteps => d.uid # u
  BY <1>0, <1>u, <1>v DEF Deleting, Precedes
<1> HIDE DEF o
<1>6. Attached(n, u)'
  <2>1. \A c \in Homes(n)' : c = api["pvc"][n]
    <3> SUFFICES ASSUME NEW c \in Homes(n)' PROVE c = api["pvc"][n]
      OBVIOUS
    <3>1. Homes(n)' = Versions(cache["pvc"], events["pvc"], api["pvc"], n)
      BY <1>3 DEF Homes
    <3> QED BY <3>1, InVersions DEF UpToDateAt
  <2>2. api["pvc"][n].uid # 0
    BY <1>u DEF Whole
  <2> QED BY <1>1, <1>3, <2>1, <2>2 DEF Attached
<1>7. Persists(n, u)'
  BY <1>0, <1>1, <1>3, <1>4, <1>5, <1>v DEF Persists, DeleteSteps
<1>8. Detached(n, u)'
  BY <1>0, <1>5 DEF Detached, DeleteSteps
<1>9. Released(n, u)'
  BY <1>3 DEF Released
<1>10. u \in Nat \ {0} /\ u <= ids'["dp"]
  BY <1>0, <1>u
<1> QED BY <1>6, <1>7, <1>8, <1>9, <1>10 DEF Promise

\* The invariant about homes holds initially and every step keeps it.
LEMMA HomeInductive == Spec => []Home
<1>1. Init => Home
  <2> SUFFICES ASSUME Init PROVE Home
    OBVIOUS
  <2>1. Whole("pvc")
    BY DEF Init, Whole, Absent, NoOwned, Kinds
  <2>2. \A n \in Names : promised[n] = {}
    BY DEF Init
  <2> QED BY <2>1, <2>2 DEF Home
<1>2. IInv /\ IInv' /\ Home /\ [Next]_vars => Home'
  <2> SUFFICES ASSUME IInv, IInv', Home, [Next]_vars PROVE Home'
    OBVIOUS
  <2>0. TypeOK /\ promised \in [Names -> SUBSET Nat] /\ Whole("pvc")
    BY DEF IInv, TypeOK, Home
  <2>1. Whole("pvc")'
    <3> SUFFICES ASSUME NEW m \in Names, api'["pvc"][m].uid = 0 PROVE api'["pvc"][m].owner = 0
      BY DEF Whole
    <3> QED BY <2>0, HomeStep DEF Whole, NoOwned
  <2>2. ASSUME NEW n \in Names, NEW u \in promised'[n] PROVE Promise(n, u)'
    <3>1. CASE u \in promised[n] /\ ~(EditDevPod(n, "persistence") /\ u = api["dp"][n].uid)
      BY <3>1, <2>0, <2>1, PromiseKept DEF Home
    <3>2. CASE EditDevPod(n, "persistence") /\ u = api["dp"][n].uid
      <4>1. promised' = [promised EXCEPT ![n] = promised[n] \ {api["dp"][n].uid}]
        BY <3>2 DEF EditDevPod
      <4>2. u \notin promised'[n]
        BY <4>1, <3>2, <2>0
      <4> QED BY <4>2
    <3>3. CASE u \notin promised[n]
      <4>1. DeleteDevPod(n) \/ EditDevPod(n, "persistence")
        BY <3>3, <2>0, PromiseStep
      <4>2. ~EditDevPod(n, "persistence")
        <5> SUFFICES ASSUME EditDevPod(n, "persistence") PROVE FALSE
          OBVIOUS
        <5>1. promised' = [promised EXCEPT ![n] = promised[n] \ {api["dp"][n].uid}]
          BY DEF EditDevPod
        <5>2. promised'[n] \subseteq promised[n]
          BY <5>1, <2>0
        <5> QED BY <5>2, <3>3
      <4>3. DeleteDevPod(n) /\ promised' # promised
        BY <4>1, <4>2, <3>3
      <4>4. /\ promised' = [promised EXCEPT ![n] = promised[n] \cup {api["dp"][n].uid}]
            /\ api["dp"][n].fin /\ api["dp"][n].persist
            /\ api["pvc"][n].owner = api["dp"][n].uid /\ UpToDateAt("pvc", n)
        BY <4>3 DEF DeleteDevPod
      <4>5. u = api["dp"][n].uid
        BY <4>4, <3>3, <2>0
      <4> QED BY <4>3, <4>4, <4>5, <2>0, PromiseMade
    <3> QED BY <3>1, <3>2, <3>3
  <2> QED BY <2>1, <2>2 DEF Home
<1> QED BY <1>1, <1>2, Inductive, PTL DEF Spec

\* detachPVC: the home of a DevPod that is deleted when the cache shows its PVC,
\* and whose spec keeps asking for it, is never garbage collected, whatever the
\* lag of the caches, whichever call fails and wherever the controller restarts.
THEOREM HomeAlwaysRetained == Spec => HomeRetained
<1>1. IInv /\ Home /\ [Next]_vars =>
        [\A n \in Names : api["pvc"][n].uid # 0 /\ api'["pvc"][n].uid = 0
                           => api["pvc"][n].owner \notin promised[n]]_vars
  <2> SUFFICES ASSUME IInv, Home, [Next]_vars, NEW n \in Names,
                      api["pvc"][n].uid # 0, api'["pvc"][n].uid = 0,
                      api["pvc"][n].owner \in promised[n]
               PROVE  FALSE
    OBVIOUS
  <2>1. api["pvc"][n].owner = api["dp"][n].uid
    BY DEF Home, Promise, Attached
  <2>2. TypeOK
    BY DEF IInv
  <2> QED BY <2>1, <2>2, HomeStep
<1> QED BY <1>1, Inductive, HomeInductive, PTL DEF Spec, HomeRetained
=============================================================================
