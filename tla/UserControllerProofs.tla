----------------------- MODULE UserControllerProofs -----------------------
(***************************************************************************)
(* Proofs about UserController, for any Users, DevPods, lag of the caches  *)
(* and bounds: the store and the worker keep their types, and no call of   *)
(* the worker undoes what happened to the User since it was read.          *)
(***************************************************************************)
EXTENDS UserController, SequenceTheorems, FiniteSetTheorems, TLAPS

AnyObject == User \cup SUBSET DevPods

\* The store: the objects, the caches, the watch events and the work queue.
StoreOK ==
    /\ api \in [Kinds -> [Users -> AnyObject]]
    /\ cache \in [Kinds -> [Users -> AnyObject]]
    /\ events \in [Kinds -> Seq([n : Users, o : AnyObject])]
    /\ \A k \in Kinds : /\ api[k] \in [Users -> Object(k)]
                        /\ cache[k] \in [Users -> Object(k)]
                        /\ events[k] \in Seq([n : Users, o : Object(k)])
                        /\ Len(events[k]) <= Lag[k]
    /\ queue \subseteq Users

\* The worker, the DevPods that hold a deletion, and the bounds.
RestOK ==
    /\ pc \in [Users -> Steps] /\ w \in [user : User, owned : Nat]
    /\ held \in [Users -> SUBSET DevPods]
    /\ users \in 0..MaxUsers /\ edits \in 0..MaxEdits
    /\ pods \in 0..MaxDevPods /\ faults \in 0..MaxFaults

\* A reconcile under way has a User in its hands.
HasUser == \A u \in Users : pc[u] # "idle" => w.user.uid # 0

IInv == StoreOK /\ RestOK /\ HasUser

-----------------------------------------------------------------------------
(* Objects and the store.                                                  *)

\* The fields of a User, and what the actions make of one.
LEMMA UserFields ==
    ASSUME NEW x \in User
    PROVE  /\ x.uid \in Nat /\ x.rev \in Nat /\ x.count \in Nat
           /\ x.del \in BOOLEAN /\ x.fin \in BOOLEAN
  BY DEF User

\* An absent User, and no DevPods, are objects of their kind.
LEMMA AbsentType ==
    /\ NoUser \in User /\ NoUser.uid = 0
    /\ \A k \in Kinds : Absent(k) \in Object(k) /\ Object(k) \subseteq AnyObject
<1>1. NoUser \in [uid : Nat, rev : Nat, del : BOOLEAN, fin : BOOLEAN, count : Nat]
  BY DEF NoUser
<1>2. ~NoUser.del /\ NoUser.uid = 0
  BY DEF NoUser
<1>3. NoUser \in User
  BY <1>1, <1>2 DEF User
<1> QED BY <1>2, <1>3 DEF Absent, Object, AnyObject, Kinds

\* The store stays well-typed when an object of the right kind is written,
\* whether or not the write also delivers the oldest watch event.
LEMMA PutType ==
    ASSUME StoreOK, NEW k \in Kinds, NEW n \in Users, NEW o \in Object(k),
           NEW q \in SUBSET Users, Put(k, n, o, q)
    PROVE  StoreOK'
<1> DEFINE E == [n : Users, o : Object(k)]
           EA == [n : Users, o : AnyObject]
           e == [n |-> n, o |-> o]
           s == Append(events[k], e)
<1>0. Object(k) \subseteq AnyObject
  BY AbsentType
<1>1. /\ e \in E /\ E \subseteq EA
      /\ events[k] \in Seq(E) /\ Len(events[k]) \in Nat
      /\ Lag[k] \in Nat /\ Len(events[k]) <= Lag[k]
  <2>1. e \in E /\ E \subseteq EA
    BY <1>0
  <2>2. events[k] \in Seq(E) /\ Len(events[k]) <= Lag[k]
    BY DEF StoreOK
  <2>3. Lag[k] \in Nat
    BY UserConstants
  <2> QED BY <2>1, <2>2, <2>3
<1>2. s \in Seq(E) /\ s # <<>> /\ Len(s) = Len(events[k]) + 1
  BY <1>1
<1> HIDE DEF s, e, E
<1>3. Head(s) \in E /\ Tail(s) \in Seq(E) /\ Len(Tail(s)) = Len(events[k])
  BY <1>2, <1>1, HeadTailProperties
<1> USE DEF s, e, E
<1>4. Seq(E) \subseteq Seq(EA)
  <2> HIDE DEF E, EA
  <2> SUFFICES ASSUME NEW x \in Seq(E) PROVE x \in Seq(EA)
    OBVIOUS
  <2> QED BY <1>1, SeqMonotonic
<1>a. /\ api' = [api EXCEPT ![k] = [@ EXCEPT ![n] = o]]
      /\ \/ UNCHANGED <<cache, events>> /\ queue' = q
         \/ Len(s) <= Lag[k] /\ events' = [events EXCEPT ![k] = s] /\ UNCHANGED cache /\ queue' = q
         \/ /\ events' = [events EXCEPT ![k] = Tail(s)]
            /\ cache' = [cache EXCEPT ![k] = [@ EXCEPT ![Head(s).n] = Head(s).o]]
            /\ queue' = q \cup {Head(s).n}
  BY DEF Put
<1> HIDE DEF s, e
<1>5. /\ api' \in [Kinds -> [Users -> AnyObject]]
      /\ \A j \in Kinds : api'[j] \in [Users -> Object(j)]
  BY <1>a, <1>0 DEF StoreOK
<1>6. CASE UNCHANGED <<cache, events>> /\ queue' = q
  BY <1>5, <1>6 DEF StoreOK
<1>7. CASE Len(s) <= Lag[k] /\ events' = [events EXCEPT ![k] = s] /\ UNCHANGED cache /\ queue' = q
  <2>1. events' \in [Kinds -> Seq(EA)]
    BY <1>7, <1>2, <1>4 DEF StoreOK
  <2>2. \A j \in Kinds : events'[j] \in Seq([n : Users, o : Object(j)]) /\ Len(events'[j]) <= Lag[j]
    BY <1>7, <1>2 DEF StoreOK
  <2> QED BY <1>5, <1>7, <2>1, <2>2 DEF StoreOK
<1>8. CASE /\ events' = [events EXCEPT ![k] = Tail(s)]
           /\ cache' = [cache EXCEPT ![k] = [@ EXCEPT ![Head(s).n] = Head(s).o]]
           /\ queue' = q \cup {Head(s).n}
  <2>1. events' \in [Kinds -> Seq(EA)]
    BY <1>8, <1>3, <1>4 DEF StoreOK
  <2>2. \A j \in Kinds : events'[j] \in Seq([n : Users, o : Object(j)]) /\ Len(events'[j]) <= Lag[j]
    BY <1>8, <1>3, <1>1 DEF StoreOK
  <2>3. Head(s).n \in Users /\ Head(s).o \in Object(k)
    BY <1>3
  <2>4. /\ cache' \in [Kinds -> [Users -> AnyObject]]
        /\ \A j \in Kinds : cache'[j] \in [Users -> Object(j)]
    BY <1>8, <2>3, <1>0 DEF StoreOK
  <2> QED BY <1>5, <1>8, <2>1, <2>2, <2>3, <2>4 DEF StoreOK
<1> QED BY <1>a, <1>6, <1>7, <1>8

\* Delivering the oldest watch event keeps the store well-typed.
LEMMA DeliverType ==
    ASSUME StoreOK, NEW k \in Kinds, Deliver(k)
    PROVE  StoreOK'
<1> DEFINE E == [n : Users, o : Object(k)]
           EA == [n : Users, o : AnyObject]
           s == events[k]
<1>0. Object(k) \subseteq AnyObject
  BY AbsentType
<1>1. s \in Seq(E) /\ s # <<>> /\ Len(s) <= Lag[k] /\ Lag[k] \in Nat
  BY UserConstants DEF StoreOK, Deliver, DeliverEvent
<1>2. E \subseteq EA
  BY <1>0
<1>a. /\ cache' = [cache EXCEPT ![k] = [@ EXCEPT ![Head(s).n] = Head(s).o]]
      /\ queue' = queue \cup {Head(s).n} /\ queue \subseteq Users
      /\ events' = [events EXCEPT ![k] = Tail(s)]
      /\ UNCHANGED api
  BY DEF Deliver, DeliverEvent, StoreOK
<1>3. /\ Head(s) \in E /\ Tail(s) \in Seq(E) /\ Len(Tail(s)) = Len(s) - 1 /\ Len(s) \in Nat
  <2> HIDE DEF s, E
  <2> QED BY <1>1, HeadTailProperties, LenProperties
<1>b. Len(Tail(s)) <= Lag[k]
  BY <1>1, <1>3
<1>4. Tail(s) \in Seq(EA)
  <2> HIDE DEF s, E, EA
  <2> QED BY <1>2, <1>3, SeqMonotonic
<1>5. Head(s).n \in Users /\ Head(s).o \in Object(k)
  BY <1>3
<1> HIDE DEF s
<1>6. events' \in [Kinds -> Seq(EA)]
  BY <1>a, <1>4 DEF StoreOK
<1>7. \A j \in Kinds : events'[j] \in Seq([n : Users, o : Object(j)]) /\ Len(events'[j]) <= Lag[j]
  BY <1>a, <1>3, <1>b DEF StoreOK
<1>8. /\ cache' \in [Kinds -> [Users -> AnyObject]]
      /\ \A j \in Kinds : cache'[j] \in [Users -> Object(j)]
  BY <1>a, <1>5, <1>0 DEF StoreOK
<1> QED BY <1>a, <1>5, <1>6, <1>7, <1>8 DEF StoreOK

\* Streams that were just opened.
LEMMA NoEvents ==
    ASSUME NEW e, e = [k \in Kinds |-> <<>>]
    PROVE  /\ e \in [Kinds -> Seq([n : Users, o : AnyObject])]
           /\ \A k \in Kinds : e[k] \in Seq([n : Users, o : Object(k)])
                               /\ Len(e[k]) <= Lag[k]
<1>1. \A S : <<>> \in Seq(S) /\ Len(<<>>) = 0
  BY EmptySeq
<1>2. Lag \in [Kinds -> Nat]
  BY UserConstants
<1> QED BY <1>1, <1>2

\* Users of the store, of the caches and of the worker.
LEMMA StoreAt ==
    ASSUME StoreOK, NEW u \in Users
    PROVE  /\ api["user"][u] \in User /\ cache["user"][u] \in User
           /\ api["devpods"][u] \in SUBSET DevPods
           /\ cache["devpods"][u] \in SUBSET DevPods
           /\ Object("user") = User /\ Object("devpods") = SUBSET DevPods
           /\ "user" \in Kinds /\ "devpods" \in Kinds
           /\ queue \in SUBSET Users /\ queue \cup {u} \in SUBSET Users
           /\ queue \ {u} \in SUBSET Users
  BY DEF StoreOK, Kinds, Object

\* What the actions make of a User is a User.
LEMMA EditedType ==
    ASSUME NEW x \in User, x.uid # 0, NEW m \in Nat
    PROVE  [x EXCEPT !.rev = m] \in User /\ [x EXCEPT !.count = m] \in User
<1>1. /\ [x EXCEPT !.rev = m].uid # 0 /\ [x EXCEPT !.rev = m].del = x.del
      /\ [x EXCEPT !.rev = m].fin = x.fin
      /\ [x EXCEPT !.count = m].uid # 0 /\ [x EXCEPT !.count = m].del = x.del
      /\ [x EXCEPT !.count = m].fin = x.fin
  BY DEF User
<1>2. x.del => x.fin
  BY DEF User
<1> QED BY <1>1, <1>2 DEF User

\* A finalizer may be added, and with one a deletion may be requested.
LEMMA MarkedType ==
    ASSUME NEW x \in User, x.uid # 0
    PROVE  /\ [x EXCEPT !.fin = TRUE] \in User
           /\ x.fin => [x EXCEPT !.del = TRUE] \in User
<1> DEFINE R == [uid : Nat, rev : Nat, del : BOOLEAN, fin : BOOLEAN, count : Nat]
<1>1. x \in R
  BY DEF User
<1>2. ASSUME NEW b \in BOOLEAN
      PROVE  [x EXCEPT !.fin = b] \in R /\ [x EXCEPT !.del = b] \in R
  BY <1>1
<1>3. [x EXCEPT !.fin = TRUE] \in R /\ [x EXCEPT !.del = TRUE] \in R
  BY <1>2, Zenon
<1>4. /\ [x EXCEPT !.fin = TRUE].fin /\ [x EXCEPT !.fin = TRUE].uid # 0
      /\ [x EXCEPT !.del = TRUE].uid # 0
      /\ [x EXCEPT !.del = TRUE].fin <=> x.fin
  BY <1>1
<1> QED BY <1>3, <1>4 DEF User

\* A User that is created.
LEMMA NewUserType ==
    ASSUME NEW m \in Nat \ {0}
    PROVE  [NoUser EXCEPT !.uid = m] \in User
<1>1. NoUser \in [uid : Nat, rev : Nat, del : BOOLEAN, fin : BOOLEAN, count : Nat]
  BY AbsentType DEF User
<1>2. /\ [NoUser EXCEPT !.uid = m].uid = m
      /\ [NoUser EXCEPT !.uid = m].del = NoUser.del
  BY <1>1
<1>3. ~NoUser.del
  BY DEF NoUser
<1> QED BY <1>1, <1>2, <1>3 DEF User

-----------------------------------------------------------------------------
(* The actions.                                                            *)

\* The end of a reconcile.
LEMMA ReturnType ==
    ASSUME Return
    PROVE  /\ pc' \in [Users -> Steps] /\ w' \in [user : User, owned : Nat]
           /\ HasUser'
<1>1. Nothing \in [user : User, owned : Nat]
  BY AbsentType DEF Nothing
<1> QED BY <1>1 DEF Return, Steps, HasUser

\* A failed reconcile leaves the store alone.
LEMMA FailKeeps ==
    ASSUME IInv, NEW u \in Users, Fail(u)
    PROVE  IInv'
<1>1. StoreOK'
  BY StoreAt DEF IInv, Fail, NoPut, StoreOK
<1>2. RestOK' /\ HasUser'
  BY ReturnType DEF IInv, Fail, RestOK, bounds
<1> QED BY <1>1, <1>2 DEF IInv

\* Operators, the web UI and the DevPod controller.
LEMMA EnvironmentKeeps ==
    ASSUME IInv, NEW u \in Users,
           \/ CreateUser(u) \/ EditUser(u) \/ DeleteUser(u)
           \/ \E d \in DevPods : CreateDevPod(u, d) \/ RemoveDevPod(u, d)
    PROVE  IInv'
<1>a. StoreOK /\ RestOK /\ HasUser
  BY DEF IInv
<1>b. api["user"][u] \in User /\ queue \in SUBSET Users /\ "user" \in Kinds
      /\ "devpods" \in Kinds /\ Object("user") = User
      /\ Object("devpods") = SUBSET DevPods /\ api["devpods"][u] \in SUBSET DevPods
  BY <1>a, StoreAt
<1>c. UNCHANGED worker => HasUser'
  BY <1>a DEF HasUser, worker
<1>1. CASE CreateUser(u)
  <2> DEFINE y == [NoUser EXCEPT !.uid = users + 1]
  <2>1. y \in Object("user")
    <3>1. users + 1 \in Nat \ {0}
      BY <1>a, UserConstants DEF RestOK
    <3> QED BY <1>b, <3>1, NewUserType
  <2>2. Put("user", u, y, queue) /\ users < MaxUsers /\ users' = users + 1
        /\ UNCHANGED <<worker, held, edits, pods, faults>>
    BY <1>1 DEF CreateUser
  <2> HIDE DEF y
  <2>3. StoreOK'
    BY <1>a, <1>b, <2>1, <2>2, PutType
  <2>4. RestOK'
    BY <1>a, <2>2, UserConstants DEF RestOK, worker
  <2> QED BY <1>c, <2>2, <2>3, <2>4 DEF IInv
<1>2. CASE EditUser(u)
  <2> DEFINE x == api["user"][u]
             y == [x EXCEPT !.rev = x.rev + 1]
  <2>1. y \in Object("user")
    <3>1. x.uid # 0 /\ x.rev + 1 \in Nat
      BY <1>2, <1>b, UserFields DEF EditUser
    <3> QED BY <1>b, <3>1, EditedType
  <2>2. Put("user", u, y, queue) /\ edits < MaxEdits /\ edits' = edits + 1
        /\ UNCHANGED <<worker, held, users, pods, faults>>
    BY <1>2 DEF EditUser
  <2> HIDE DEF y
  <2>3. StoreOK'
    BY <1>a, <1>b, <2>1, <2>2, PutType
  <2>4. RestOK'
    BY <1>a, <2>2, UserConstants DEF RestOK, worker
  <2> QED BY <1>c, <2>2, <2>3, <2>4 DEF IInv
<1>3. CASE DeleteUser(u)
  <2> DEFINE x == api["user"][u]
             y == IF x.fin THEN [x EXCEPT !.del = TRUE] ELSE NoUser
  <2>1. y \in Object("user")
    <3>1. x.uid # 0
      BY <1>3 DEF DeleteUser
    <3> QED BY <1>b, <3>1, MarkedType, AbsentType
  <2>2. Put("user", u, y, queue) /\ held' = [held EXCEPT ![u] = api["devpods"][u]]
        /\ UNCHANGED <<worker, bounds>>
    BY <1>3 DEF DeleteUser
  <2> HIDE DEF y
  <2>3. StoreOK'
    BY <1>a, <1>b, <2>1, <2>2, PutType
  <2>4. RestOK'
    BY <1>a, <1>b, <2>2 DEF RestOK, worker, bounds
  <2> QED BY <1>c, <2>2, <2>3, <2>4 DEF IInv
<1>4. ASSUME NEW d \in DevPods, CreateDevPod(u, d)
      PROVE  IInv'
  <2> DEFINE y == api["devpods"][u] \cup {d}
  <2>1. y \in Object("devpods")
    BY <1>b
  <2>2. Put("devpods", u, y, queue) /\ pods < MaxDevPods /\ pods' = pods + 1
        /\ UNCHANGED <<worker, held, users, edits, faults>>
    BY <1>4 DEF CreateDevPod
  <2> HIDE DEF y
  <2>3. StoreOK'
    BY <1>a, <1>b, <2>1, <2>2, PutType
  <2>4. RestOK'
    BY <1>a, <2>2, UserConstants DEF RestOK, worker
  <2> QED BY <1>c, <2>2, <2>3, <2>4 DEF IInv
<1>5. ASSUME NEW d \in DevPods, RemoveDevPod(u, d)
      PROVE  IInv'
  <2> DEFINE y == api["devpods"][u] \ {d}
  <2>1. y \in Object("devpods")
    BY <1>b
  <2>2. Put("devpods", u, y, queue) /\ held' = [held EXCEPT ![u] = held[u] \ {d}]
        /\ UNCHANGED <<worker, bounds>>
    BY <1>5 DEF RemoveDevPod
  <2> HIDE DEF y
  <2>3. StoreOK'
    BY <1>a, <1>b, <2>1, <2>2, PutType
  <2>4. RestOK'
    <3>1. held' \in [Users -> SUBSET DevPods]
      BY <1>a, <2>2 DEF RestOK
    <3> QED BY <1>a, <2>2, <3>1 DEF RestOK, worker, bounds
  <2> QED BY <1>c, <2>2, <2>3, <2>4 DEF IInv
<1> QED BY <1>1, <1>2, <1>3, <1>4, <1>5

\* The worker picks a User up.
LEMMA ReconcileKeeps ==
    ASSUME IInv, NEW u \in Users, Reconcile(u)
    PROVE  IInv'
<1> DEFINE x == cache["user"][u]
           owned == Cardinality(cache["devpods"][u])
           step == FirstStep(x, owned)
<1>a. StoreOK /\ RestOK /\ HasUser
  BY DEF IInv
<1>1. /\ \A v \in Users : pc[v] = "idle"
      /\ NoPut(queue \ {u}) /\ pc' = [pc EXCEPT ![u] = step]
      /\ w' = IF step = "idle" THEN Nothing ELSE [user |-> x, owned |-> owned]
      /\ UNCHANGED <<held, bounds>>
  BY DEF Reconcile
<1>2. x \in User /\ owned \in Nat
  <2>1. cache["devpods"][u] \in SUBSET DevPods /\ x \in User
    BY <1>a, StoreAt
  <2>2. IsFiniteSet(cache["devpods"][u])
    BY <2>1, UserConstants, FS_Subset
  <2> QED BY <2>1, <2>2, FS_CardinalityType
<1>3. step \in Steps /\ (step # "idle" => x.uid # 0)
  BY DEF FirstStep, Steps
<1> HIDE DEF x, owned, step
<1>4. StoreOK'
  BY <1>a, <1>1, StoreAt DEF NoPut, StoreOK
<1>5. w' \in [user : User, owned : Nat] /\ pc' \in [Users -> Steps]
  BY <1>a, <1>1, <1>2, <1>3, AbsentType DEF Nothing, RestOK
<1>6. HasUser'
  <2>1. \A v \in Users : pc'[v] = IF v = u THEN step ELSE "idle"
    BY <1>a, <1>1 DEF RestOK
  <2>2. step # "idle" => w'.user = x
    BY <1>1
  <2> QED BY <1>3, <2>1, <2>2 DEF HasUser
<1>7. RestOK'
  BY <1>a, <1>1, <1>5 DEF RestOK, bounds
<1> QED BY <1>4, <1>6, <1>7 DEF IInv

\* A call that carries the resourceVersion the worker read.
LEMMA WriteKeeps ==
    ASSUME IInv, NEW u \in Users, NEW x \in User, NEW q \in SUBSET Users,
           Write(u, x, q)
    PROVE  IInv'
<1>1. CASE api["user"][u] # w.user
  BY <1>1, FailKeeps DEF Write
<1>2. CASE api["user"][u] = w.user
  <2>1. Put("user", u, x, q) /\ Return /\ UNCHANGED <<held, bounds>>
    BY <1>2 DEF Write
  <2>2. StoreOK'
    BY <2>1, PutType, StoreAt DEF IInv
  <2>3. RestOK' /\ HasUser'
    BY <2>1, ReturnType DEF IInv, RestOK, bounds
  <2> QED BY <2>2, <2>3 DEF IInv
<1> QED BY <1>1, <1>2

\* The calls of a reconcile.
LEMMA StepKeeps ==
    ASSUME IInv, NEW u \in Users, Step(u)
    PROVE  IInv'
<1>1. /\ w.user \in User /\ w.owned \in Nat
      /\ queue \in SUBSET Users /\ queue \cup {u} \in SUBSET Users
      /\ pc[u] # "idle" => w.user.uid # 0
  BY StoreAt DEF IInv, RestOK, HasUser
<1>2. CASE ClearFinalizer(u)
  BY <1>1, <1>2, WriteKeeps, AbsentType DEF ClearFinalizer
<1>3. CASE AddFinalizer(u)
  <2> DEFINE y == [w.user EXCEPT !.fin = TRUE]
  <2>1. y \in User /\ Write(u, y, queue \cup {u})
    BY <1>1, <1>3, MarkedType DEF AddFinalizer
  <2> HIDE DEF y
  <2> QED BY <1>1, <2>1, WriteKeeps
<1>4. CASE UpdateCount(u)
  <2> DEFINE y == [w.user EXCEPT !.count = w.owned]
  <2>1. y \in User /\ Write(u, y, queue)
    BY <1>1, <1>4, EditedType DEF UpdateCount
  <2> HIDE DEF y
  <2> QED BY <1>1, <2>1, WriteKeeps
<1> QED BY <1>2, <1>3, <1>4 DEF Step

\* A call fails, or the controller restarts and lists its caches anew.
LEMMA FaultKeeps ==
    ASSUME IInv, (\E u \in Users : CallFails(u)) \/ Restart
    PROVE  IInv'
<1>a. StoreOK /\ RestOK /\ HasUser
  BY DEF IInv
<1>1. /\ Return /\ faults < MaxFaults /\ faults' = faults + 1
      /\ UNCHANGED <<held, users, edits, pods>>
  BY DEF CallFails, Restart
<1>2. RestOK' /\ HasUser'
  BY <1>a, <1>1, ReturnType, UserConstants DEF RestOK
<1>3. ASSUME NEW u \in Users, CallFails(u)
      PROVE  StoreOK'
  BY <1>a, <1>3, StoreAt DEF CallFails, NoPut, StoreOK
<1>4. ASSUME Restart
      PROVE  StoreOK'
  <2>1. api' = api /\ cache' = api /\ queue' \subseteq Users
    BY <1>4 DEF Restart
  <2>2. /\ events' \in [Kinds -> Seq([n : Users, o : AnyObject])]
        /\ \A k \in Kinds : events'[k] \in Seq([n : Users, o : Object(k)])
                            /\ Len(events'[k]) <= Lag[k]
    BY <1>4, NoEvents DEF Restart
  <2> QED BY <1>a, <2>1, <2>2 DEF StoreOK
<1> QED BY <1>2, <1>3, <1>4 DEF IInv

\* The invariant holds at the start.
LEMMA InitIInv ==
    ASSUME Init
    PROVE  IInv
<1>2. /\ events \in [Kinds -> Seq([n : Users, o : AnyObject])]
      /\ \A k \in Kinds : events[k] \in Seq([n : Users, o : Object(k)])
                          /\ Len(events[k]) <= Lag[k]
  BY NoEvents DEF Init
<1>4. /\ api \in [Kinds -> [Users -> AnyObject]] /\ cache = api
      /\ \A k \in Kinds : api[k] \in [Users -> Object(k)]
  BY AbsentType DEF Init
<1>5. StoreOK
  BY <1>2, <1>4 DEF StoreOK, Init
<1>6. Nothing \in [user : User, owned : Nat]
  BY AbsentType DEF Nothing
<1>7. RestOK /\ HasUser
  BY <1>6, UserConstants DEF RestOK, HasUser, Init, Steps
<1> QED BY <1>5, <1>7 DEF IInv

\* Every step keeps the invariant.
LEMMA NextIInv ==
    ASSUME IInv, [Next]_vars
    PROVE  IInv'
<1>1. CASE UNCHANGED vars
  BY <1>1 DEF vars, worker, bounds, IInv, StoreOK, RestOK, HasUser
<1>2. ASSUME NEW k \in Kinds, Deliver(k)
      PROVE  IInv'
  <2>1. StoreOK'
    BY <1>2, DeliverType DEF IInv
  <2>2. RestOK' /\ HasUser'
    BY <1>2 DEF Deliver, IInv, RestOK, HasUser, worker, bounds
  <2> QED BY <2>1, <2>2 DEF IInv
<1> QED BY <1>1, <1>2, EnvironmentKeeps, ReconcileKeeps, StepKeeps, FaultKeeps
           DEF Next

-----------------------------------------------------------------------------
(* The theorems.                                                           *)

\* The invariant holds in every reachable state.
THEOREM UserInductive == Spec => []IInv
<1>1. Init => IInv
  BY InitIInv
<1>2. IInv /\ [Next]_vars => IInv'
  BY NextIInv
<1> QED BY <1>1, <1>2, PTL DEF Spec

\* The objects, the caches, the watch events, the queue and the worker keep
\* their types: no write leaves an absent User with a finalizer, and no
\* stream holds more events than its lag.
THEOREM UserTypeCorrect == Spec => []TypeOK
<1>1. IInv => TypeOK
  <2> SUFFICES ASSUME IInv PROVE TypeOK
    OBVIOUS
  <2>1. ASSUME NEW k \in Kinds
        PROVE  \A i \in 1..Len(events[k]) : events[k][i] \in [n : Users, o : Object(k)]
    <3>1. events[k] \in Seq([n : Users, o : Object(k)])
      BY DEF IInv, StoreOK
    <3> DEFINE E == [n : Users, o : Object(k)]
    <3> HIDE DEF E
    <3>2. events[k] \in Seq(E)
      BY <3>1 DEF E
    <3>3. \A i \in 1..Len(events[k]) : events[k][i] \in E
      BY <3>2
    <3> QED BY <3>3 DEF E
  <2> QED BY <2>1 DEF IInv, StoreOK, RestOK, TypeOK
<1> QED BY <1>1, UserInductive, PTL

\* A stored object after a Put.
LEMMA PutAt ==
    ASSUME StoreOK, NEW k \in Kinds, NEW n \in Users, NEW o, NEW q, Put(k, n, o, q),
           NEW u \in Users
    PROVE  api'["user"][u] = IF k = "user" /\ u = n THEN o ELSE api["user"][u]
<1>1. api' = [api EXCEPT ![k] = [@ EXCEPT ![n] = o]]
  BY DEF Put
<1>2. api \in [Kinds -> [Users -> AnyObject]] /\ "user" \in Kinds
  BY DEF StoreOK, Kinds
<1> QED BY <1>1, <1>2

\* What became of a User survives the steps of everyone.
Survives(x, y) ==
    y.uid # 0 => /\ y.uid >= x.uid
                 /\ y.uid = x.uid => y.rev >= x.rev /\ (x.del => y.del)

\* A write that leaves the Users alone, or replaces one by a later one.
LEMMA PutSurvives ==
    ASSUME StoreOK, NEW k \in Kinds, NEW n \in Users, NEW o, NEW q, Put(k, n, o, q),
           k = "user" => Survives(api["user"][n], o), NEW u \in Users
    PROVE  Survives(api["user"][u], api'["user"][u])
<1>1. api["user"][u] \in User
  BY StoreAt
<1>2. api["user"][u].uid \in Nat /\ api["user"][u].rev \in Nat
  BY <1>1, UserFields
<1> QED BY <1>2, PutAt DEF Survives

\* An edit, a deletion already requested and a User created anew are never
\* lost to the worker, which writes back the whole User it once read.
THEOREM UserChangesSurvive == Spec => ChangesSurvive
<1> DEFINE Kept(u) == Survives(api["user"][u], api'["user"][u])
<1>1. ASSUME IInv, Next, NEW u \in Users
      PROVE  Kept(u)
  <2>a. StoreOK /\ RestOK /\ "user" \in Kinds /\ "devpods" \in Kinds
    BY <1>1, StoreAt DEF IInv
  <2>b. \A v \in Users : /\ api["user"][v] \in User /\ api["user"][v].uid \in Nat
                         /\ api["user"][v].rev \in Nat
    BY <2>a, StoreAt, UserFields
  <2>c. api' = api => Kept(u)
    BY <2>b DEF Survives
  <2>1. ASSUME NEW v \in Users, CreateUser(v)
        PROVE  Kept(u)
    <3> DEFINE y == [NoUser EXCEPT !.uid = users + 1]
    <3>1. Put("user", v, y, queue) /\ api["user"][v].uid = 0
      BY <2>1 DEF CreateUser
    <3>2. y.uid = users + 1 /\ users + 1 \in Nat /\ users + 1 > 0
      BY <2>a, UserConstants DEF NoUser, RestOK
    <3> HIDE DEF y
    <3>3. Survives(api["user"][v], y)
      BY <3>1, <3>2 DEF Survives
    <3> QED BY <2>a, <3>1, <3>3, PutSurvives
  <2>2. ASSUME NEW v \in Users, EditUser(v)
        PROVE  Kept(u)
    <3> DEFINE x == api["user"][v]
               y == [x EXCEPT !.rev = x.rev + 1]
    <3>1. Put("user", v, y, queue)
      BY <2>2 DEF EditUser
    <3>2. y.uid = x.uid /\ y.rev = x.rev + 1 /\ (y.del <=> x.del)
      BY <2>b DEF User
    <3> HIDE DEF y
    <3>3. Survives(x, y)
      BY <2>b, <3>2 DEF Survives
    <3> QED BY <2>a, <3>1, <3>3, PutSurvives
  <2>3. ASSUME NEW v \in Users, DeleteUser(v)
        PROVE  Kept(u)
    <3> DEFINE x == api["user"][v]
               y == IF x.fin THEN [x EXCEPT !.del = TRUE] ELSE NoUser
    <3>1. Put("user", v, y, queue)
      BY <2>3 DEF DeleteUser
    <3>2. CASE x.fin
      <4>1. y.uid = x.uid /\ y.rev = x.rev /\ y.del
        BY <2>b, <3>2 DEF User
      <4> HIDE DEF y
      <4>2. Survives(x, y)
        BY <2>b, <4>1 DEF Survives
      <4> QED BY <2>a, <3>1, <4>2, PutSurvives
    <3>3. CASE ~x.fin
      <4>1. y.uid = 0
        BY <3>3, AbsentType
      <4> HIDE DEF y
      <4>2. Survives(x, y)
        BY <4>1 DEF Survives
      <4> QED BY <2>a, <3>1, <4>2, PutSurvives
    <3> QED BY <3>2, <3>3
  <2>4. ASSUME NEW v \in Users, NEW d \in DevPods,
               CreateDevPod(v, d) \/ RemoveDevPod(v, d)
        PROVE  Kept(u)
    <3>1. PICK o : Put("devpods", v, o, queue)
      BY <2>4 DEF CreateDevPod, RemoveDevPod
    <3> QED BY <2>a, <3>1, PutSurvives
  <2>5. ASSUME NEW v \in Users, Step(v)
        PROVE  Kept(u)
    <3> DEFINE x == w.user
    <3>1. x \in User /\ x.uid \in Nat /\ x.rev \in Nat
      BY <2>a, UserFields DEF RestOK
    <3>2. ASSUME NEW y, NEW q, Write(v, y, q), Survives(x, y)
          PROVE  Kept(u)
      <4>1. CASE api["user"][v] # x
        BY <2>c, <3>2, <4>1 DEF Write, Fail, NoPut
      <4>2. CASE api["user"][v] = x
        <5>1. Put("user", v, y, q)
          BY <3>2, <4>2 DEF Write
        <5> QED BY <2>a, <3>2, <4>2, <5>1, PutSurvives
      <4> QED BY <4>1, <4>2
    <3>3. CASE ClearFinalizer(v)
      BY <3>2, <3>3, AbsentType DEF ClearFinalizer, Survives
    <3>4. CASE AddFinalizer(v)
      <4> DEFINE y == [x EXCEPT !.fin = TRUE]
      <4>1. Write(v, y, queue \cup {v})
        BY <3>4 DEF AddFinalizer
      <4>2. y.uid = x.uid /\ y.rev = x.rev /\ (y.del <=> x.del)
        BY <3>1 DEF User
      <4> HIDE DEF y
      <4>3. Survives(x, y)
        BY <3>1, <4>2 DEF Survives
      <4> QED BY <3>2, <4>1, <4>3
    <3>5. CASE UpdateCount(v)
      <4> DEFINE y == [x EXCEPT !.count = w.owned]
      <4>1. Write(v, y, queue)
        BY <3>5 DEF UpdateCount
      <4>2. y.uid = x.uid /\ y.rev = x.rev /\ (y.del <=> x.del)
        BY <3>1 DEF User
      <4> HIDE DEF y
      <4>3. Survives(x, y)
        BY <3>1, <4>2 DEF Survives
      <4> QED BY <3>2, <4>1, <4>3
    <3> QED BY <2>5, <3>3, <3>4, <3>5 DEF Step
  <2>6. ASSUME \/ \E v \in Users : Reconcile(v) \/ CallFails(v)
               \/ (\E k \in Kinds : Deliver(k)) \/ Restart
        PROVE  Kept(u)
    <3>1. api' = api
      BY <2>6 DEF Reconcile, CallFails, NoPut, Deliver, DeliverEvent, Restart
    <3> QED BY <2>c, <3>1
  <2> QED BY <1>1, <2>1, <2>2, <2>3, <2>4, <2>5, <2>6 DEF Next
<1>2. IInv /\ [Next]_vars =>
        [\A u \in Users :
            LET x == api["user"][u]  y == api'["user"][u]
            IN  y.uid # 0 => /\ y.uid >= x.uid
                             /\ y.uid = x.uid => y.rev >= x.rev /\ (x.del => y.del)]_vars
  BY <1>1 DEF Survives
<1> QED BY <1>2, UserInductive, PTL DEF Spec, ChangesSurvive
=============================================================================
