--------------------- MODULE SnapshotControllerProofs ---------------------
(***************************************************************************)
(* Proofs about SnapshotController, for any names, lag of the caches and   *)
(* bounds: the types of the store and the worker, that no snapshot is      *)
(* marked Succeeded when no Job under its name completed, and that the     *)
(* credentials it was created with leave its spec first.                   *)
(*                                                                         *)
(* An object is seen where the API server, a cache or a watch event not    *)
(* yet delivered holds it.  A write adds one object to those that are      *)
(* seen and a delivery adds none, so what the invariant says of an object  *)
(* it says of every place the object is seen in.                           *)
(***************************************************************************)
EXTENDS SnapshotController, SequenceTheorems, TLAPS

AnyObject == Snapshot \cup Job \cup Secret

\* The store holds objects of any kind under the names.
Shape ==
    /\ api \in [Kinds -> [Names -> AnyObject]]
    /\ cache \in [Kinds -> [Names -> AnyObject]]
    /\ events \in [Kinds -> Seq([n : Names, o : AnyObject])]
    /\ \A k \in Kinds : Len(events[k]) <= Lag[k]
    /\ queue \subseteq Names

Seen(k) == {[n |-> m, o |-> api[k][m]] : m \in Names}
           \cup {[n |-> m, o |-> cache[k][m]] : m \in Names}
           \cup {events[k][i] : i \in 1..Len(events[k])}

\* The uid of the snapshot an object is or belongs to.
Uid(k, o) == IF k = "snap" THEN o.uid ELSE o.owner

\* Objects are of their kind and belong to snapshots that were created.
Typed == \A k \in Kinds : \A p \in Seen(k) :
             p.o \in Object(k) /\ Uid(k, p.o) <= created

RestOK ==
    /\ ready \in BOOLEAN
    /\ pc \in [Names -> Steps] /\ w \in Snapshot /\ w.uid <= created
    /\ created \in 0..MaxSnapshots
    /\ bore \in [Names -> SUBSET Uids] /\ done \subseteq Uids
    /\ edits \in 0..MaxEdits /\ flips \in 0..MaxFlips /\ faults \in 0..MaxFaults

\* A reconcile under way has a snapshot in its hands.
HasSnapshot == \A n \in Names : pc[n] # "idle" => w.uid # 0

TInv == Shape /\ Typed /\ RestOK /\ HasSnapshot

-----------------------------------------------------------------------------
(* What is seen.                                                           *)

\* The number of events a stream may hold.
LEMMA LagType == ASSUME NEW k \in Kinds PROVE Lag[k] \in Nat
  BY SnapshotConstants

\* The objects of the server and of the caches are seen.
LEMMA SeenAt ==
    ASSUME NEW k \in Kinds, NEW n \in Names
    PROVE  /\ \E p \in Seen(k) : p.n = n /\ p.o = api[k][n]
           /\ \E p \in Seen(k) : p.n = n /\ p.o = cache[k][n]
<1>1. [n |-> n, o |-> api[k][n]] \in Seen(k) /\ [n |-> n, o |-> cache[k][n]] \in Seen(k)
  BY DEF Seen
<1> QED BY <1>1

\* A write adds the object that is written to those that are seen.
LEMMA PutSeen ==
    ASSUME Shape, NEW k \in Kinds, NEW n \in Names, NEW o \in AnyObject,
           NEW q \in SUBSET Names, Put(k, n, o, q)
    PROVE  /\ Shape'
           /\ \A j \in Kinds : \A p \in Seen(j)' :
                  p \in Seen(j) \/ (j = k /\ p = [n |-> n, o |-> o])
           /\ api' = [api EXCEPT ![k] = [@ EXCEPT ![n] = o]]
<1> DEFINE E == [n : Names, o : AnyObject]
           e == [n |-> n, o |-> o]
           s == Append(events[k], e)
<1>1. /\ e \in E /\ events[k] \in Seq(E) /\ Len(events[k]) \in Nat
      /\ Lag[k] \in Nat /\ Len(events[k]) <= Lag[k]
  <2>1. e \in E
    OBVIOUS
  <2>2. events[k] \in Seq(E) /\ Len(events[k]) <= Lag[k]
    BY DEF Shape
  <2> HIDE DEF E, e
  <2> QED BY <2>1, <2>2, LagType
<1>a. /\ api' = [api EXCEPT ![k] = [@ EXCEPT ![n] = o]]
      /\ \/ UNCHANGED <<cache, events>> /\ queue' = q
         \/ /\ Len(s) <= Lag[k] /\ events' = [events EXCEPT ![k] = s]
            /\ UNCHANGED cache /\ queue' = q
         \/ /\ events' = [events EXCEPT ![k] = Tail(s)]
            /\ cache' = [cache EXCEPT ![k] = [@ EXCEPT ![Head(s).n] = Head(s).o]]
            /\ queue' = q \cup {Head(s).n}
  BY DEF Put
<1>b. Shape /\ events \in [Kinds -> Seq(E)]
  BY DEF Shape
<1>c. \A p \in E : p = [n |-> p.n, o |-> p.o] /\ p.n \in Names /\ p.o \in AnyObject
  OBVIOUS
<1> HIDE DEF E, e
<1>2. /\ s \in Seq(E) /\ s # <<>> /\ Len(s) = Len(events[k]) + 1
      /\ \A i \in 1..Len(events[k]) : s[i] = events[k][i]
      /\ s[Len(events[k]) + 1] = e
  BY <1>1
<1> HIDE DEF s
<1>3. /\ Head(s) = s[1] /\ Head(s) \in E /\ Tail(s) \in Seq(E)
      /\ Len(Tail(s)) = Len(events[k])
      /\ \A i \in 1..Len(Tail(s)) : Tail(s)[i] = s[i + 1]
  BY <1>1, <1>2, HeadTailProperties
<1>4. \A i \in 1..Len(s) : s[i] \in Seen(k) \/ s[i] = e
  BY <1>1, <1>2 DEF Seen
<1>5. api' \in [Kinds -> [Names -> AnyObject]]
  BY <1>a, <1>b DEF Shape
<1>6. \A j \in Kinds, m \in Names :
          \/ api'[j][m] = api[j][m]
          \/ j = k /\ m = n /\ api'[j][m] = o
  BY <1>a, <1>b DEF Shape
<1>7. CASE UNCHANGED <<cache, events>> /\ queue' = q
  <2>1. Shape'
    BY <1>5, <1>7 DEF Shape
  <2>2. \A j \in Kinds : \A p \in Seen(j)' : p \in Seen(j) \/ (j = k /\ p = e)
    BY <1>6, <1>7 DEF Seen, e
  <2> QED BY <1>a, <2>1, <2>2 DEF e
<1>8. CASE /\ Len(s) <= Lag[k] /\ events' = [events EXCEPT ![k] = s]
           /\ UNCHANGED cache /\ queue' = q
  <2>0. \A j \in Kinds : events'[j] = IF j = k THEN s ELSE events[j]
    BY <1>8, <1>b
  <2>1. Shape'
    <3>1. events' \in [Kinds -> Seq(E)]
      BY <1>8, <1>b, <1>2
    <3> QED BY <1>5, <1>8, <1>b, <2>0, <3>1 DEF Shape, E
  <2>2. \A j \in Kinds : \A p \in Seen(j)' : p \in Seen(j) \/ (j = k /\ p = e)
    <3> SUFFICES ASSUME NEW j \in Kinds, NEW p \in Seen(j)'
                 PROVE  p \in Seen(j) \/ (j = k /\ p = e)
      OBVIOUS
    <3>1. CASE \E m \in Names : p = [n |-> m, o |-> api'[j][m]]
      BY <1>6, <3>1 DEF Seen, e
    <3>2. CASE \E m \in Names : p = [n |-> m, o |-> cache'[j][m]]
      BY <1>8, <3>2 DEF Seen
    <3>3. CASE \E i \in 1..Len(events'[j]) : p = events'[j][i]
      <4>1. CASE j = k
        BY <1>4, <2>0, <3>3, <4>1
      <4>2. CASE j # k
        BY <2>0, <3>3, <4>2 DEF Seen
      <4> QED BY <4>1, <4>2
    <3> QED BY <3>1, <3>2, <3>3 DEF Seen
  <2> QED BY <1>a, <2>1, <2>2 DEF e
<1>9. CASE /\ events' = [events EXCEPT ![k] = Tail(s)]
           /\ cache' = [cache EXCEPT ![k] = [@ EXCEPT ![Head(s).n] = Head(s).o]]
           /\ queue' = q \cup {Head(s).n}
  <2>0. \A j \in Kinds : events'[j] = IF j = k THEN Tail(s) ELSE events[j]
    BY <1>9, <1>b
  <2>a. /\ Head(s).n \in Names /\ Head(s).o \in AnyObject
        /\ Head(s) = [n |-> Head(s).n, o |-> Head(s).o]
    BY <1>c, <1>3
  <2>b. \A j \in Kinds, m \in Names :
            \/ cache'[j][m] = cache[j][m]
            \/ j = k /\ m = Head(s).n /\ cache'[j][m] = Head(s).o
    BY <1>9, <1>b, <2>a DEF Shape
  <2>1. Shape'
    <3>1. events' \in [Kinds -> Seq(E)]
      BY <1>9, <1>b, <1>3
    <3>2. cache' \in [Kinds -> [Names -> AnyObject]]
      BY <1>9, <1>b, <2>a DEF Shape
    <3>3. \A j \in Kinds : Len(events'[j]) <= Lag[j]
      BY <1>1, <1>3, <1>b, <2>0 DEF Shape
    <3>4. queue' \subseteq Names
      BY <1>9, <2>a
    <3> QED BY <1>5, <3>1, <3>2, <3>3, <3>4 DEF Shape, E
  <2>2. \A j \in Kinds : \A p \in Seen(j)' : p \in Seen(j) \/ (j = k /\ p = e)
    <3> SUFFICES ASSUME NEW j \in Kinds, NEW p \in Seen(j)'
                 PROVE  p \in Seen(j) \/ (j = k /\ p = e)
      OBVIOUS
    <3>0. 1 \in 1..Len(s)
      BY <1>1, <1>2
    <3>1. CASE \E m \in Names : p = [n |-> m, o |-> api'[j][m]]
      BY <1>6, <3>1 DEF Seen, e
    <3>2. CASE \E m \in Names : p = [n |-> m, o |-> cache'[j][m]]
      <4>1. PICK m \in Names : p = [n |-> m, o |-> cache'[j][m]]
        BY <3>2
      <4>2. CASE cache'[j][m] = cache[j][m]
        BY <4>1, <4>2 DEF Seen
      <4>3. CASE j = k /\ m = Head(s).n /\ cache'[j][m] = Head(s).o
        <5>1. p = s[1]
          BY <1>3, <2>a, <4>1, <4>3
        <5> QED BY <1>4, <3>0, <4>3, <5>1
      <4> QED BY <2>b, <4>2, <4>3
    <3>3. CASE \E i \in 1..Len(events'[j]) : p = events'[j][i]
      <4>1. CASE j = k
        <5>1. PICK i \in 1..Len(Tail(s)) : p = Tail(s)[i]
          BY <2>0, <3>3, <4>1
        <5>2. i + 1 \in 1..Len(s) /\ p = s[i + 1]
          BY <1>1, <1>2, <1>3, <5>1
        <5> QED BY <1>4, <4>1, <5>2
      <4>2. CASE j # k
        BY <2>0, <3>3, <4>2 DEF Seen
      <4> QED BY <4>1, <4>2
    <3> QED BY <3>1, <3>2, <3>3 DEF Seen
  <2> QED BY <1>a, <2>1, <2>2 DEF e
<1> QED BY <1>a, <1>7, <1>8, <1>9

\* A delivery adds nothing to what is seen.
LEMMA DeliverSeen ==
    ASSUME Shape, NEW k \in Kinds, DeliverEvent(k)
    PROVE  Shape' /\ api' = api /\ \A j \in Kinds : Seen(j)' \subseteq Seen(j)
<1> DEFINE E == [n : Names, o : AnyObject]
           s == events[k]
<1>a. /\ api' = api /\ events' = [events EXCEPT ![k] = Tail(s)]
      /\ cache' = [cache EXCEPT ![k] = [@ EXCEPT ![Head(s).n] = Head(s).o]]
      /\ queue' = queue \cup {Head(s).n} /\ s # <<>>
  BY DEF DeliverEvent
<1>b. Shape /\ events \in [Kinds -> Seq(E)] /\ s \in Seq(E) /\ Len(s) <= Lag[k]
      /\ Lag[k] \in Nat
  BY LagType DEF Shape
<1>c. \A p \in E : p = [n |-> p.n, o |-> p.o] /\ p.n \in Names /\ p.o \in AnyObject
  OBVIOUS
<1> HIDE DEF E
<1>1. \A i \in 1..Len(s) : s[i] \in Seen(k)
  BY DEF Seen
<1>d. Len(s) \in Nat
  BY <1>b
<1> HIDE DEF s
<1>2. /\ Head(s) = s[1] /\ Head(s) \in E /\ Tail(s) \in Seq(E)
      /\ Len(Tail(s)) = Len(s) - 1 /\ 1 \in 1..Len(s)
      /\ \A i \in 1..Len(Tail(s)) : Tail(s)[i] = s[i + 1]
  <2>1. 1 \in 1..Len(s)
    <3>1. Len(s) # 0
      BY <1>a, <1>b, EmptySeq
    <3> QED BY <1>d, <3>1
  <2> QED BY <2>1, <1>a, <1>b, HeadTailProperties
<1>3. /\ Head(s).n \in Names /\ Head(s).o \in AnyObject
      /\ Head(s) = [n |-> Head(s).n, o |-> Head(s).o]
  BY <1>c, <1>2
<1>4. \A j \in Kinds : events'[j] = IF j = k THEN Tail(s) ELSE events[j]
  BY <1>a, <1>b
<1>5. \A j \in Kinds, m \in Names :
          \/ cache'[j][m] = cache[j][m]
          \/ j = k /\ m = Head(s).n /\ cache'[j][m] = Head(s).o
  BY <1>a, <1>b, <1>3 DEF Shape
<1>6. Shape'
  <2>1. events' \in [Kinds -> Seq(E)]
    BY <1>a, <1>b, <1>2
  <2>2. cache' \in [Kinds -> [Names -> AnyObject]]
    BY <1>a, <1>b, <1>3 DEF Shape
  <2>3. \A j \in Kinds : Len(events'[j]) <= Lag[j]
    <3>1. Len(Tail(s)) <= Lag[k]
      BY <1>b, <1>d, <1>2
    <3>2. \A j \in Kinds : Len(events[j]) <= Lag[j]
      BY DEF Shape
    <3> QED BY <1>4, <3>1, <3>2
  <2>4. queue' \subseteq Names /\ api' \in [Kinds -> [Names -> AnyObject]]
    BY <1>a, <1>b, <1>3 DEF Shape
  <2> QED BY <2>1, <2>2, <2>3, <2>4 DEF Shape, E
<1>7. ASSUME NEW j \in Kinds, NEW p \in Seen(j)'
      PROVE  p \in Seen(j)
  <2>1. CASE \E m \in Names : p = [n |-> m, o |-> api'[j][m]]
    BY <1>a, <2>1 DEF Seen
  <2>2. CASE \E m \in Names : p = [n |-> m, o |-> cache'[j][m]]
    <3>1. PICK m \in Names : p = [n |-> m, o |-> cache'[j][m]]
      BY <2>2
    <3>2. CASE cache'[j][m] = cache[j][m]
      BY <3>1, <3>2 DEF Seen
    <3>3. CASE j = k /\ m = Head(s).n /\ cache'[j][m] = Head(s).o
      BY <1>1, <1>2, <1>3, <3>1, <3>3
    <3> QED BY <1>5, <3>2, <3>3
  <2>3. CASE \E i \in 1..Len(events'[j]) : p = events'[j][i]
    <3>1. CASE j = k
      <4>1. PICK i \in 1..Len(Tail(s)) : p = Tail(s)[i]
        BY <1>4, <2>3, <3>1
      <4>2. i + 1 \in 1..Len(s) /\ p = s[i + 1]
        BY <1>d, <1>2, <4>1
      <4> QED BY <1>1, <3>1, <4>2
    <3>2. CASE j # k
      BY <1>4, <2>3, <3>2 DEF Seen
    <3> QED BY <3>1, <3>2
  <2> QED BY <2>1, <2>2, <2>3 DEF Seen
<1> QED BY <1>a, <1>6, <1>7

\* Nor does a step that leaves the store alone.
LEMMA NoPutSeen ==
    ASSUME Shape, NEW q \in SUBSET Names, NoPut(q)
    PROVE  Shape' /\ api' = api /\ \A j \in Kinds : Seen(j)' \subseteq Seen(j)
  BY DEF NoPut, Shape, Seen

\* Nor does a restart, which lists the caches anew.
LEMMA RestartSeen ==
    ASSUME Shape, Restart
    PROVE  Shape' /\ api' = api /\ \A j \in Kinds : Seen(j)' \subseteq Seen(j)
<1>1. /\ api' = api /\ cache' = api /\ queue' \subseteq Names
      /\ events' = [k \in Kinds |-> <<>>]
  BY DEF Restart
<1>2. \A S : <<>> \in Seq(S) /\ Len(<<>>) = 0
  BY EmptySeq
<1>3. Lag \in [Kinds -> Nat]
  BY SnapshotConstants
<1>4. \A j \in Kinds : events'[j] = <<>> /\ Len(events'[j]) = 0
  BY <1>1, <1>2
<1>5. Shape'
  BY <1>1, <1>2, <1>3 DEF Shape
<1>6. \A j \in Kinds : Seen(j)' \subseteq Seen(j)
  BY <1>1, <1>4 DEF Seen
<1> QED BY <1>1, <1>5, <1>6

-----------------------------------------------------------------------------
(* Objects.                                                                *)

\* The fields of a snapshot.
LEMMA SnapshotFields ==
    ASSUME NEW x \in Snapshot
    PROVE  /\ x \in [uid : Nat, auth : Nat, phase : Phases, job : BOOLEAN]
           /\ x.uid \in Nat /\ x.phase \in Phases /\ x.auth \in Nat
           /\ x.job \in BOOLEAN /\ (x.uid = 0 => x = NoSnapshot)
           /\ (x.phase = "Running" => x.job)
  BY DEF Snapshot

\* The absent objects are objects of their kind.
LEMMA AbsentType ==
    /\ NoSnapshot \in Snapshot /\ NoSnapshot.uid = 0 /\ NoSnapshot.phase = ""
    /\ NoSnapshot.auth = 0
    /\ NoJob \in Job /\ NoJob.owner = 0 /\ NoJob.phase = "Active"
    /\ NoSecret \in Secret /\ NoSecret.owner = 0
<1>1. NoSnapshot \in [uid : Nat, auth : Nat, phase : Phases, job : BOOLEAN]
  <2>1. ASSUME NEW b \in BOOLEAN, NEW h \in Phases
        PROVE  [uid |-> 0, auth |-> 0, phase |-> h, job |-> b]
               \in [uid : Nat, auth : Nat, phase : Phases, job : BOOLEAN]
    OBVIOUS
  <2>2. FALSE \in BOOLEAN /\ "" \in Phases
    BY DEF Phases
  <2> QED BY <2>1, <2>2, Zenon DEF NoSnapshot
<1>2. NoSnapshot.uid = 0 /\ NoSnapshot.phase = "" /\ NoSnapshot.auth = 0
  BY DEF NoSnapshot
<1>3. NoSnapshot \in Snapshot
  BY <1>1, <1>2 DEF Snapshot
<1> QED BY <1>2, <1>3 DEF NoJob, Job, JobPhases, NoSecret, Secret

\* The kinds, and the uids objects of a kind carry.
LEMMA ObjectFacts ==
    /\ "snap" \in Kinds /\ "job" \in Kinds /\ "sec" \in Kinds
    /\ Object("snap") = Snapshot /\ Object("job") = Job /\ Object("sec") = Secret
    /\ \A k \in Kinds : /\ Object(k) \subseteq AnyObject /\ Absent(k) \in Object(k)
                        /\ Uid(k, Absent(k)) = 0
                        /\ \A o \in Object(k) : Uid(k, o) \in Nat
<1>1. \A x \in Snapshot : x.uid \in Nat
  BY SnapshotFields
<1>2. (\A j \in Job : j.owner \in Nat) /\ \A x \in Secret : x.owner \in Nat
  BY DEF Job, Secret
<1> QED BY <1>1, <1>2, AbsentType DEF Kinds, Object, AnyObject, Absent, Uid

\* A snapshot that is created.
LEMMA CreatedType ==
    ASSUME NEW m \in Nat \ {0}, NEW b \in Nat
    PROVE  LET x == [NoSnapshot EXCEPT !.uid = m, !.auth = b]
           IN  x \in Snapshot /\ x.uid = m /\ x.phase = ""
<1>1. NoSnapshot \in [uid : Nat, auth : Nat, phase : Phases, job : BOOLEAN]
      /\ NoSnapshot.phase = ""
  BY AbsentType, SnapshotFields
<1> DEFINE x == [NoSnapshot EXCEPT !.uid = m, !.auth = b]
<1>2. /\ x \in [uid : Nat, auth : Nat, phase : Phases, job : BOOLEAN]
      /\ x.uid = m /\ x.phase = ""
  BY <1>1
<1> HIDE DEF x
<1>3. x \in Snapshot
  BY <1>2 DEF Snapshot
<1> QED BY <1>2, <1>3 DEF x

\* A snapshot whose inline credentials are dropped or replaced.
LEMMA EditedType ==
    ASSUME NEW x \in Snapshot, x.uid # 0, NEW b \in Nat
    PROVE  LET y == [x EXCEPT !.auth = b]
           IN  y \in Snapshot /\ y.uid = x.uid /\ y.phase = x.phase /\ y.auth = b
<1> DEFINE R == [uid : Nat, auth : Nat, phase : Phases, job : BOOLEAN]
           y == [x EXCEPT !.auth = b]
<1>1. x \in R /\ (x.phase = "Running" => x.job)
  BY SnapshotFields
<1>2. y \in R
  BY <1>1
<1>3. y.uid = x.uid /\ y.phase = x.phase /\ (y.job <=> x.job) /\ y.auth = b
  BY <1>1
<1> HIDE DEF y
<1>4. y \in Snapshot
  BY <1>1, <1>2, <1>3 DEF Snapshot
<1> QED BY <1>3, <1>4 DEF y

\* A snapshot after a status patch.
LEMMA PatchedType ==
    \A x \in Snapshot, h \in Phases, c \in BOOLEAN :
        x.uid # 0 /\ (h = "Running" => c = TRUE) =>
            /\ [x EXCEPT !.phase = h, !.job = c] \in Snapshot
            /\ [x EXCEPT !.phase = h, !.job = c].uid = x.uid
            /\ [x EXCEPT !.phase = h, !.job = c].phase = h
            /\ [x EXCEPT !.phase = h, !.job = c].auth = x.auth
<1> SUFFICES ASSUME NEW x \in Snapshot, NEW h \in Phases, NEW c \in BOOLEAN,
                    x.uid # 0, h = "Running" => c = TRUE
             PROVE  /\ [x EXCEPT !.phase = h, !.job = c] \in Snapshot
                    /\ [x EXCEPT !.phase = h, !.job = c].uid = x.uid
                    /\ [x EXCEPT !.phase = h, !.job = c].phase = h
                    /\ [x EXCEPT !.phase = h, !.job = c].auth = x.auth
  BY Zenon
<1> DEFINE R == [uid : Nat, auth : Nat, phase : Phases, job : BOOLEAN]
           y == [x EXCEPT !.phase = h, !.job = c]
<1>1. x \in R
  BY SnapshotFields
<1>2. y \in R
  BY <1>1
<1>3. y.uid = x.uid /\ y.phase = h /\ (y.job <=> c) /\ y.auth = x.auth
  BY <1>1
<1> HIDE DEF y
<1>4. y \in Snapshot
  BY <1>2, <1>3 DEF Snapshot
<1> QED BY <1>3, <1>4 DEF y

-----------------------------------------------------------------------------
(* Types.                                                                  *)

\* What is stored and cached under a name.
LEMMA StoreAt ==
    ASSUME TInv, NEW k \in Kinds, NEW n \in Names
    PROVE  /\ api[k][n] \in Object(k) /\ Uid(k, api[k][n]) <= created
           /\ cache[k][n] \in Object(k) /\ Uid(k, cache[k][n]) <= created
  BY SeenAt DEF TInv, Typed

\* A write of an object of the right kind keeps the types.
LEMMA PutTyped ==
    ASSUME TInv, NEW k \in Kinds, NEW n \in Names, NEW o \in Object(k),
           NEW q \in SUBSET Names, Put(k, n, o, q),
           created' \in Nat, created <= created', Uid(k, o) <= created'
    PROVE  Shape' /\ Typed'
<1>1. o \in AnyObject
  BY ObjectFacts
<1>2. /\ Shape'
      /\ \A j \in Kinds : \A p \in Seen(j)' :
             p \in Seen(j) \/ (j = k /\ p = [n |-> n, o |-> o])
  BY <1>1, PutSeen DEF TInv
<1>3. ASSUME NEW j \in Kinds, NEW p \in Seen(j)'
      PROVE  p.o \in Object(j) /\ Uid(j, p.o) <= created'
  <2>1. CASE p \in Seen(j)
    <3>1. p.o \in Object(j) /\ Uid(j, p.o) <= created /\ created \in Nat
      BY <2>1, SnapshotConstants DEF TInv, Typed, RestOK
    <3>2. Uid(j, p.o) \in Nat
      BY <3>1, ObjectFacts
    <3> QED BY <3>1, <3>2
  <2>2. CASE j = k /\ p = [n |-> n, o |-> o]
    BY <2>2
  <2> QED BY <1>2, <2>1, <2>2
<1> QED BY <1>2, <1>3 DEF Typed

\* So does a step after which no more is seen.
LEMMA LessTyped ==
    ASSUME TInv, Shape', \A j \in Kinds : Seen(j)' \subseteq Seen(j), created' = created
    PROVE  Shape' /\ Typed'
  BY DEF TInv, Typed

\* The end of a reconcile.
LEMMA ReturnType ==
    ASSUME TInv, Return, created' \in Nat
    PROVE  pc' \in [Names -> Steps] /\ w' \in Snapshot /\ w'.uid <= created' /\ HasSnapshot'
<1>1. w' = NoSnapshot /\ pc' = [m \in Names |-> "idle"]
  BY DEF Return
<1>2. w' \in Snapshot /\ w'.uid = 0
  BY <1>1, AbsentType
<1>3. pc' \in [Names -> Steps] /\ \A n \in Names : pc'[n] = "idle"
  BY <1>1 DEF Steps
<1> QED BY <1>2, <1>3 DEF HasSnapshot

\* The worker moves to its next call.
LEMMA GotoType ==
    ASSUME TInv, NEW n \in Names, NEW st \in Steps, Goto(n, st), pc[n] # "idle",
           created' = created
    PROVE  pc' \in [Names -> Steps] /\ w' \in Snapshot /\ w'.uid <= created' /\ HasSnapshot'
<1>1. pc \in [Names -> Steps] /\ w \in Snapshot /\ w.uid <= created /\ w.uid # 0
  BY DEF TInv, RestOK, HasSnapshot
<1> QED BY <1>1 DEF Goto, HasSnapshot

\* A call that failed, or one that returns without a write.
LEMMA QuietTyped ==
    ASSUME TInv, NEW q \in SUBSET Names, NoPut(q), Return,
           UNCHANGED <<created, history, world>>
    PROVE  TInv'
<1>1. Shape' /\ Typed'
  BY NoPutSeen, LessTyped DEF TInv
<1>2. created' \in Nat
  BY SnapshotConstants DEF TInv, RestOK
<1>3. RestOK' /\ HasSnapshot'
  BY <1>2, ReturnType DEF TInv, RestOK, history, world
<1> QED BY <1>1, <1>3 DEF TInv

\* The parts of the invariant, and what arithmetic the steps need.
LEMMA Basics ==
    ASSUME TInv
    PROVE  /\ Shape /\ Typed /\ RestOK /\ HasSnapshot
           /\ queue \in SUBSET Names
           /\ \A n \in Names : queue \cup {n} \in SUBSET Names
           /\ created \in Nat /\ w \in Snapshot /\ w.uid <= created /\ w.uid \in Nat
<1>1. Shape /\ Typed /\ RestOK /\ HasSnapshot
  BY DEF TInv
<1>2. queue \subseteq Names
  BY <1>1 DEF Shape
<1>3. created \in Nat /\ w \in Snapshot /\ w.uid <= created
  BY <1>1, SnapshotConstants DEF RestOK
<1>4. w.uid \in Nat
  BY <1>3, SnapshotFields
<1> QED BY <1>1, <1>2, <1>3, <1>4

\* What is stored under a name, by kind.
LEMMA StoredAs ==
    ASSUME TInv, NEW n \in Names
    PROVE  /\ api["snap"][n] \in Snapshot /\ api["snap"][n].uid <= created
           /\ cache["snap"][n] \in Snapshot /\ cache["snap"][n].uid <= created
           /\ api["job"][n] \in Job /\ api["job"][n].owner <= created
           /\ cache["job"][n] \in Job /\ cache["job"][n].owner <= created
<1>1. "snap" \in Kinds /\ "job" \in Kinds /\ Object("snap") = Snapshot /\ Object("job") = Job
  BY ObjectFacts
<1>2. \A k \in Kinds : /\ api[k][n] \in Object(k) /\ Uid(k, api[k][n]) <= created
                       /\ cache[k][n] \in Object(k) /\ Uid(k, cache[k][n]) <= created
  BY StoreAt
<1>3. \A o : Uid("snap", o) = o.uid /\ Uid("job", o) = o.owner
  BY DEF Uid
<1> QED BY <1>1, <1>2, <1>3

\* Users, the target, the Job controller and the garbage collector.
LEMMA EnvironmentTyped ==
    ASSUME TInv, NEW n \in Names,
           \/ User(n) \/ JobStep(n) \/ \E k \in {"job", "sec"} : Collect(k, n)
    PROVE  TInv'
<1>a. /\ "snap" \in Kinds /\ "job" \in Kinds /\ "sec" \in Kinds
      /\ Object("snap") = Snapshot /\ Object("job") = Job
      /\ api["snap"][n] \in Snapshot /\ api["job"][n] \in Job
      /\ api["job"][n].owner <= created
  BY StoredAs, ObjectFacts
<1>b. /\ Shape /\ RestOK /\ HasSnapshot /\ queue \in SUBSET Names
      /\ created \in Nat
  BY Basics
<1>c. UNCHANGED <<pc, w>> /\ created' \in Nat /\ created <= created' =>
        /\ pc' \in [Names -> Steps] /\ w' \in Snapshot /\ w'.uid <= created'
        /\ HasSnapshot'
  <2>1. w.uid \in Nat
    BY <1>b, SnapshotFields DEF RestOK
  <2> QED BY <1>b, <2>1 DEF RestOK, HasSnapshot
<1>1. ASSUME NEW a \in Auth, CreateSnapshot(n, a)
      PROVE  TInv'
  <2> DEFINE g == IF a THEN Given ELSE 0
             y == [NoSnapshot EXCEPT !.uid = created + 1, !.auth = g]
  <2>1. /\ Put("snap", n, y, queue) /\ created' = created + 1
        /\ bore' = [bore EXCEPT ![n] = @ \cup {created + 1}]
        /\ UNCHANGED <<worker, done, world>> /\ created < MaxSnapshots
    BY <1>1 DEF CreateSnapshot
  <2>2. y \in Snapshot /\ y.uid = created + 1
    <3>1. created + 1 \in Nat \ {0} /\ g \in Nat
      BY <1>b DEF Given
    <3> HIDE DEF g
    <3> QED BY <3>1, CreatedType
  <2> HIDE DEF y
  <2>3. created' \in Nat /\ created <= created' /\ Uid("snap", y) <= created'
    BY <1>b, <2>1, <2>2 DEF Uid
  <2>4. Shape' /\ Typed'
    BY <1>a, <1>b, <2>1, <2>2, <2>3, PutTyped
  <2>5. created' \in 0..MaxSnapshots
    BY <1>b, <2>1, SnapshotConstants
  <2>6. bore' \in [Names -> SUBSET Uids]
    <3>1. created + 1 \in Uids
      BY <1>b, <2>1, SnapshotConstants DEF Uids
    <3> QED BY <1>b, <2>1, <3>1 DEF RestOK
  <2> QED BY <1>b, <1>c, <2>1, <2>3, <2>4, <2>5, <2>6 DEF TInv, RestOK, worker, world
<1>6. ASSUME NEW a \in {0, Given + 1 + edits}, EditAuth(n, a)
      PROVE  TInv'
  <2> DEFINE y == [api["snap"][n] EXCEPT !.auth = a]
  <2>1. /\ Put("snap", n, y, queue) /\ api["snap"][n].uid # 0
        /\ edits < MaxEdits /\ edits' = edits + 1
        /\ UNCHANGED <<worker, created, history, ready, flips, faults>>
    BY <1>6 DEF EditAuth
  <2>2. edits \in Nat /\ a \in Nat /\ edits' \in 0..MaxEdits
    BY <1>b, <2>1, SnapshotConstants DEF RestOK, Given
  <2>3. y \in Snapshot /\ y.uid = api["snap"][n].uid
    BY <1>a, <2>1, <2>2, EditedType
  <2> HIDE DEF y
  <2>4. Uid("snap", y) <= created' /\ created' = created
    BY <2>1, <2>3, StoredAs DEF Uid
  <2>5. Shape' /\ Typed'
    BY <1>a, <1>b, <2>1, <2>3, <2>4, PutTyped
  <2> QED BY <1>b, <1>c, <2>1, <2>2, <2>4, <2>5 DEF TInv, RestOK, worker, history
<1>2. CASE DeleteSnapshot(n)
  <2>1. Put("snap", n, NoSnapshot, queue) /\ UNCHANGED <<worker, created, history, world>>
    BY <1>2 DEF DeleteSnapshot
  <2>2. NoSnapshot \in Snapshot /\ Uid("snap", NoSnapshot) <= created' /\ created' = created
    <3>1. Uid("snap", NoSnapshot) = 0 /\ NoSnapshot \in Snapshot
      BY AbsentType DEF Uid
    <3> QED BY <1>b, <2>1, <3>1
  <2>3. Shape' /\ Typed'
    BY <1>a, <1>b, <2>1, <2>2, PutTyped
  <2> QED BY <1>b, <1>c, <2>1, <2>3 DEF TInv, RestOK, worker, history, world
<1>3. ASSUME NEW h \in {"Complete", "Failed"}, JobFinishes(n, h)
      PROVE  TInv'
  <2> DEFINE j == api["job"][n]
             y == [j EXCEPT !.phase = h]
  <2>1. /\ Put("job", n, y, queue) /\ done' = (IF h = "Complete" THEN done \cup {j.owner} ELSE done)
        /\ UNCHANGED <<worker, created, bore, world>> /\ j.owner # 0
    BY <1>3 DEF JobFinishes
  <2>2. y \in Job /\ y.owner = j.owner /\ j.owner \in Nat
    BY <1>a DEF Job, JobPhases
  <2> HIDE DEF y
  <2>3. Uid("job", y) <= created' /\ created' = created /\ j.owner <= created
    BY <1>a, <2>1, <2>2 DEF Uid
  <2>4. Shape' /\ Typed'
    BY <1>a, <1>b, <2>1, <2>2, <2>3, PutTyped
  <2>5. done' \subseteq Uids
    <3>1. j.owner \in Uids
      BY <1>b, <2>1, <2>2, <2>3, SnapshotConstants DEF Uids, RestOK
    <3> QED BY <1>b, <2>1, <3>1 DEF RestOK
  <2> QED BY <1>b, <1>c, <2>1, <2>4, <2>5 DEF TInv, RestOK, worker, world
<1>4. CASE JobExpires(n)
  <2>1. Put("job", n, NoJob, queue) /\ UNCHANGED <<worker, created, history, world>>
    BY <1>4 DEF JobExpires
  <2>2. NoJob \in Job /\ Uid("job", NoJob) <= created' /\ created' = created
    <3>1. Uid("job", NoJob) = 0 /\ NoJob \in Job
      BY AbsentType DEF Uid
    <3> QED BY <1>b, <2>1, <3>1
  <2>3. Shape' /\ Typed'
    BY <1>a, <1>b, <2>1, <2>2, PutTyped
  <2> QED BY <1>b, <1>c, <2>1, <2>3 DEF TInv, RestOK, worker, history, world
<1>5. ASSUME NEW k \in {"job", "sec"}, Collect(k, n)
      PROVE  TInv'
  <2>1. Put(k, n, Absent(k), queue) /\ UNCHANGED <<worker, created, history, world>>
    BY <1>5 DEF Collect
  <2>2. /\ k \in Kinds /\ Absent(k) \in Object(k) /\ Uid(k, Absent(k)) <= created'
        /\ created' = created
    BY <1>a, <1>b, <2>1, ObjectFacts
  <2>3. Shape' /\ Typed'
    BY <1>b, <2>1, <2>2, PutTyped
  <2> QED BY <1>b, <1>c, <2>1, <2>3 DEF TInv, RestOK, worker, history, world
<1> QED BY <1>1, <1>2, <1>3, <1>4, <1>5, <1>6 DEF User, JobStep

\* A status patch.
LEMMA PatchTyped ==
    ASSUME TInv, NEW n \in Names, NEW h \in Phases, NEW b \in BOOLEAN,
           h = "Running" => b, PatchStatus(n, h, b)
    PROVE  TInv'
<1> DEFINE cur == api["snap"][n]
           y == [cur EXCEPT !.phase = h, !.job = @ \/ b]
<1>a. /\ "snap" \in Kinds /\ Object("snap") = Snapshot /\ cur \in Snapshot
      /\ cur.uid <= created /\ created \in Nat
      /\ queue \in SUBSET Names /\ queue \cup {n} \in SUBSET Names
  BY StoredAs, ObjectFacts, Basics
<1>1. CASE cur.uid = 0
  <2>1. Fail(n)
    BY <1>1 DEF PatchStatus
  <2> QED BY <1>a, <2>1, QuietTyped DEF Fail
<1>2. CASE cur.uid # 0
  <2>1. Put("snap", n, y, queue) /\ Return /\ UNCHANGED <<created, history, world>>
    BY <1>2 DEF PatchStatus
  <2>2. y \in Snapshot /\ y.uid = cur.uid
    <3>1. PICK c \in BOOLEAN : c = (cur.job \/ b)
      OBVIOUS
    <3>2. h = "Running" => c = TRUE
      BY <3>1
    <3>3. y = [cur EXCEPT !.phase = h, !.job = c]
      BY <3>1, Zenon
    <3>4. cur \in Snapshot /\ cur.uid # 0 /\ h \in Phases /\ c \in BOOLEAN
      BY <1>a, <1>2
    <3> HIDE DEF cur
    <3>5. /\ [cur EXCEPT !.phase = h, !.job = c] \in Snapshot
          /\ [cur EXCEPT !.phase = h, !.job = c].uid = cur.uid
      BY <3>2, <3>4, PatchedType
    <3> QED BY <3>3, <3>5, Zenon
  <2> HIDE DEF y
  <2>3. Uid("snap", y) <= created' /\ created' = created
    BY <1>a, <2>1, <2>2 DEF Uid
  <2>4. Shape' /\ Typed'
    BY <1>a, <2>1, <2>2, <2>3, PutTyped
  <2>5. RestOK' /\ HasSnapshot'
    BY <1>a, <2>1, <2>3, ReturnType DEF TInv, RestOK, history, world
  <2> QED BY <2>4, <2>5 DEF TInv
<1> QED BY <1>1, <1>2

\* The calls of a reconcile.
LEMMA StepTyped ==
    ASSUME TInv, NEW n \in Names, Step(n)
    PROVE  TInv'
<1>a. /\ "snap" \in Kinds /\ "job" \in Kinds /\ "sec" \in Kinds
      /\ Object("snap") = Snapshot /\ Object("job") = Job /\ Object("sec") = Secret
  BY ObjectFacts
<1>b. /\ Shape /\ RestOK /\ HasSnapshot /\ queue \in SUBSET Names
      /\ queue \cup {n} \in SUBSET Names /\ created \in Nat
      /\ w \in Snapshot /\ w.uid <= created /\ w.uid \in Nat
  BY Basics
<1>1. CASE CreateAuthSecret(n)
  <2> DEFINE y == [owner |-> w.uid, auth |-> w.auth]
  <2>1. /\ Put("sec", n, y, queue) \/ NoPut(queue)
        /\ Goto(n, "clear") /\ pc[n] # "idle" /\ UNCHANGED <<created, history, world>>
    BY <1>1 DEF CreateAuthSecret
  <2>2. y \in Secret /\ Uid("sec", y) <= created' /\ created' = created
    <3>1. w.auth \in Nat
      BY <1>b, SnapshotFields
    <3> QED BY <1>b, <2>1, <3>1 DEF Secret, Uid
  <2> HIDE DEF y
  <2>4. Shape' /\ Typed'
    <3>1. ASSUME Put("sec", n, y, queue) PROVE Shape' /\ Typed'
      BY <1>a, <1>b, <2>2, <3>1, PutTyped
    <3>2. ASSUME NoPut(queue) PROVE Shape' /\ Typed'
      BY <1>b, <2>2, <3>2, NoPutSeen, LessTyped
    <3> QED BY <2>1, <3>1, <3>2
  <2>5. "clear" \in Steps
    BY DEF Steps
  <2>6. RestOK' /\ HasSnapshot'
    BY <1>b, <2>1, <2>2, <2>5, GotoType DEF RestOK, history, world
  <2> QED BY <2>4, <2>6 DEF TInv
<1>2. CASE ClearAuth(n)
  <2> DEFINE y == [w EXCEPT !.auth = 0]
  <2>1. CASE Fail(n)
    BY <1>b, <2>1, QuietTyped DEF Fail
  <2>2. CASE /\ Put("snap", n, y, queue \cup {n}) /\ Return
             /\ UNCHANGED <<created, history, world>>
    <3>1. w.uid # 0
      BY <1>2, <1>b DEF ClearAuth, HasSnapshot
    <3>2. y \in Snapshot /\ y.uid = w.uid
      BY <1>b, <3>1, EditedType
    <3> HIDE DEF y
    <3>3. Uid("snap", y) <= created' /\ created' = created
      BY <1>b, <2>2, <3>2 DEF Uid
    <3>4. Shape' /\ Typed'
      BY <1>a, <1>b, <2>2, <3>2, <3>3, PutTyped
    <3>5. RestOK' /\ HasSnapshot'
      BY <1>b, <2>2, <3>3, ReturnType DEF RestOK, history, world
    <3> QED BY <3>4, <3>5 DEF TInv
  <2> QED BY <1>2, <2>1, <2>2 DEF ClearAuth
<1>p. "Failed" \in Phases /\ "Running" \in Phases /\ "Succeeded" \in Phases
  BY DEF Phases
<1>3. CASE SetFailed(n)
  BY <1>3, <1>p, PatchTyped DEF SetFailed
<1>4. CASE CreateJob(n)
  <2> DEFINE y == [owner |-> w.uid, phase |-> "Active"]
  <2>1. CASE Fail(n)
    BY <1>b, <2>1, QuietTyped DEF Fail
  <2>2. CASE /\ Put("job", n, y, queue) /\ Goto(n, "running")
             /\ UNCHANGED <<created, history, world>>
    <3>1. y \in Job /\ Uid("job", y) <= created' /\ created' = created
      BY <1>b, <2>2 DEF Job, JobPhases, Uid
    <3> HIDE DEF y
    <3>2. Shape' /\ Typed'
      BY <1>a, <1>b, <2>2, <3>1, PutTyped
    <3>3. "running" \in Steps /\ pc[n] # "idle"
      BY <1>4 DEF Steps, CreateJob
    <3>4. RestOK' /\ HasSnapshot'
      BY <1>b, <2>2, <3>1, <3>3, GotoType DEF RestOK, history, world
    <3> QED BY <3>2, <3>4 DEF TInv
  <2> QED BY <1>4, <2>1, <2>2 DEF CreateJob
<1>5. CASE SetRunning(n)
  BY <1>5, <1>p, PatchTyped DEF SetRunning
<1>6. CASE CheckJob(n)
  <2>1. CASE PatchStatus(n, "Failed", FALSE)
    BY <1>p, <2>1, PatchTyped
  <2>2. CASE PatchStatus(n, "Succeeded", FALSE)
    BY <1>p, <2>2, PatchTyped
  <2>3. CASE NoPut(queue) /\ Return /\ UNCHANGED <<created, history, world>>
    BY <1>b, <2>3, QuietTyped
  <2> QED BY <1>6, <2>1, <2>2, <2>3 DEF CheckJob
<1> QED BY <1>1, <1>2, <1>3, <1>4, <1>5, <1>6 DEF Step

\* Deliveries, the target and failures.
LEMMA OtherTyped ==
    ASSUME TInv,
           \/ \E k \in Kinds : Deliver(k)
           \/ TargetChanges
           \/ Restart
           \/ \E n \in Names : CallFails(n)
    PROVE  TInv'
<1>b. /\ Shape /\ RestOK /\ HasSnapshot /\ queue \in SUBSET Names
      /\ \A n \in Names : queue \cup {n} \in SUBSET Names
      /\ created \in Nat
  BY Basics
<1>1. ASSUME NEW k \in Kinds, Deliver(k) PROVE TInv'
  <2>1. DeliverEvent(k) /\ UNCHANGED <<worker, created, history, world>>
    BY <1>1 DEF Deliver
  <2>2. Shape' /\ Typed'
    BY <1>b, <2>1, DeliverSeen, LessTyped
  <2>3. RestOK' /\ HasSnapshot'
    BY <1>b, <2>1 DEF RestOK, HasSnapshot, worker, history, world
  <2> QED BY <2>2, <2>3 DEF TInv
<1>2. CASE TargetChanges
  <2>1. NoPut(queue) /\ UNCHANGED <<worker, created, history, edits, faults>>
    BY <1>2 DEF TargetChanges
  <2>2. Shape' /\ Typed'
    BY <1>b, <2>1, NoPutSeen, LessTyped
  <2>3. ready' \in BOOLEAN
    BY <1>2 DEF TargetChanges
  <2>4. flips' \in 0..MaxFlips
    BY <1>2, <1>b, SnapshotConstants DEF TargetChanges, RestOK
  <2>5. HasSnapshot'
    BY <1>b, <2>1 DEF HasSnapshot, worker
  <2>6. RestOK'
    BY <1>b, <2>1, <2>3, <2>4 DEF RestOK, worker, history
  <2> QED BY <2>2, <2>5, <2>6 DEF TInv
<1>3. CASE Restart
  <2>1. Return /\ UNCHANGED <<created, history, ready, edits, flips>>
    BY <1>3 DEF Restart
  <2>2. Shape' /\ Typed'
    BY <1>b, <1>3, <2>1, RestartSeen, LessTyped
  <2>3. faults' \in 0..MaxFaults
    BY <1>3, <1>b, SnapshotConstants DEF Restart, RestOK
  <2>4. RestOK' /\ HasSnapshot'
    BY <1>b, <2>1, <2>3, ReturnType DEF RestOK, history
  <2> QED BY <2>2, <2>4 DEF TInv
<1>4. ASSUME NEW n \in Names, CallFails(n) PROVE TInv'
  <2>1. NoPut(queue \cup {n}) /\ Return /\ UNCHANGED <<created, history, ready, edits, flips>>
    BY <1>4 DEF CallFails
  <2>2. Shape' /\ Typed'
    BY <1>b, <2>1, NoPutSeen, LessTyped
  <2>3. faults' \in 0..MaxFaults
    BY <1>4, <1>b, SnapshotConstants DEF CallFails, RestOK
  <2>4. RestOK' /\ HasSnapshot'
    BY <1>b, <2>1, <2>3, ReturnType DEF RestOK, history
  <2> QED BY <2>2, <2>4 DEF TInv
<1> QED BY <1>1, <1>2, <1>3, <1>4

\* A reconcile that begins has read the snapshot the cache shows.
LEMMA ReconcileTyped ==
    ASSUME TInv, NEW n \in Names, Reconcile(n)
    PROVE  TInv'
<1> DEFINE x == cache["snap"][n]
           st == FirstStep(x)
<1>1. /\ \A m \in Names : pc[m] = "idle"
      /\ NoPut(queue \ {n}) /\ pc' = [pc EXCEPT ![n] = st]
      /\ w' = (IF st = "idle" THEN NoSnapshot ELSE x)
      /\ UNCHANGED <<created, history, world>>
  BY DEF Reconcile
<1>2. x \in Snapshot /\ x.uid <= created
  BY StoredAs
<1>3. Shape /\ RestOK /\ queue \ {n} \in SUBSET Names /\ created \in Nat
  BY Basics
<1>4. st \in Steps /\ (st # "idle" => x.uid # 0)
  BY DEF FirstStep, Steps
<1> HIDE DEF x, st
<1>5. Shape' /\ Typed'
  BY <1>1, <1>3, NoPutSeen, LessTyped
<1>6. w' \in Snapshot /\ w'.uid <= created' /\ (st # "idle" => w'.uid # 0)
  <2>1. NoSnapshot \in Snapshot /\ NoSnapshot.uid = 0 /\ created' = created
    BY <1>1, AbsentType
  <2>2. CASE st = "idle"
    BY <1>1, <1>3, <2>1, <2>2
  <2>3. CASE st # "idle"
    BY <1>1, <1>2, <1>4, <2>1, <2>3
  <2> QED BY <2>2, <2>3
<1>7. pc' \in [Names -> Steps] /\ \A m \in Names : pc'[m] # "idle" => m = n /\ st # "idle"
  BY <1>1, <1>3, <1>4 DEF RestOK
<1>8. HasSnapshot'
  BY <1>6, <1>7 DEF HasSnapshot
<1>9. RestOK'
  BY <1>1, <1>3, <1>6, <1>7 DEF RestOK, history, world
<1> QED BY <1>5, <1>8, <1>9 DEF TInv

\* At the start nothing is stored and nothing is under way.
LEMMA InitTyped == Init => TInv
<1> SUFFICES ASSUME Init PROVE TInv
  OBVIOUS
<1>1. /\ api = [k \in Kinds |-> [n \in Names |-> Absent(k)]] /\ cache = api
      /\ events = [k \in Kinds |-> <<>>] /\ queue = {}
      /\ pc = [n \in Names |-> "idle"] /\ w = NoSnapshot
      /\ ready \in BOOLEAN /\ created = 0 /\ bore = [n \in Names |-> {}] /\ done = {}
      /\ edits = 0 /\ flips = 0 /\ faults = 0
  BY DEF Init
<1>2. \A S : <<>> \in Seq(S) /\ Len(<<>>) = 0
  BY EmptySeq
<1>3. \A k \in Kinds : Absent(k) \in AnyObject /\ Absent(k) \in Object(k) /\ Uid(k, Absent(k)) = 0
  BY ObjectFacts
<1>4. \A k \in Kinds : events[k] = <<>> /\ Len(events[k]) = 0 /\ Lag[k] \in Nat
  BY <1>1, <1>2, LagType
<1>5. \A k \in Kinds, n \in Names : api[k][n] = Absent(k) /\ cache[k][n] = Absent(k)
  BY <1>1
<1>6. Shape
  <2>1. api \in [Kinds -> [Names -> AnyObject]] /\ cache \in [Kinds -> [Names -> AnyObject]]
    BY <1>1, <1>3
  <2>2. events \in [Kinds -> Seq([n : Names, o : AnyObject])]
    BY <1>1, <1>2
  <2>3. \A k \in Kinds : Len(events[k]) <= Lag[k]
    BY <1>4
  <2> QED BY <1>1, <2>1, <2>2, <2>3 DEF Shape
<1>7. Typed
  <2>1. \A k \in Kinds : \A p \in Seen(k) : p.o = Absent(k)
    BY <1>4, <1>5 DEF Seen
  <2> QED BY <1>1, <1>3, <2>1 DEF Typed
<1>8. RestOK
  <2>1. pc \in [Names -> Steps]
    BY <1>1 DEF Steps
  <2>2. w \in Snapshot /\ w.uid <= created
    <3>1. NoSnapshot \in Snapshot /\ NoSnapshot.uid = 0
      BY AbsentType
    <3> QED BY <1>1, <3>1
  <2> QED BY <1>1, <2>1, <2>2, SnapshotConstants DEF RestOK
<1>9. HasSnapshot
  BY <1>1 DEF HasSnapshot
<1> QED BY <1>6, <1>7, <1>8, <1>9 DEF TInv

\* Every step keeps the types.
LEMMA NextTyped == TInv /\ [Next]_vars => TInv'
<1> SUFFICES ASSUME TInv, [Next]_vars PROVE TInv'
  OBVIOUS
<1>1. CASE Next
  <2>1. ASSUME NEW n \in Names, User(n) \/ JobStep(n) \/ \E k \in {"job", "sec"} : Collect(k, n)
        PROVE  TInv'
    BY <2>1, EnvironmentTyped
  <2>2. ASSUME NEW n \in Names, Reconcile(n) PROVE TInv'
    BY <2>2, ReconcileTyped
  <2>3. ASSUME NEW n \in Names, Step(n) PROVE TInv'
    BY <2>3, StepTyped
  <2>4. ASSUME NEW n \in Names, CallFails(n) PROVE TInv'
    BY <2>4, OtherTyped
  <2>5. ASSUME (\E k \in Kinds : Deliver(k)) \/ TargetChanges \/ Restart PROVE TInv'
    BY <2>5, OtherTyped
  <2> QED BY <1>1, <2>1, <2>2, <2>3, <2>4, <2>5 DEF Next
<1>2. CASE UNCHANGED vars
  <2>1. UNCHANGED <<api, cache, events, queue, pc, w, created, bore, done, ready, edits, flips, faults>>
    BY <1>2 DEF vars, worker, history, world
  <2>2. Shape' /\ RestOK' /\ HasSnapshot'
    BY <2>1 DEF TInv, Shape, RestOK, HasSnapshot
  <2>3. \A k \in Kinds : Seen(k)' = Seen(k)
    BY <2>1 DEF Seen
  <2>4. Typed'
    BY <2>1, <2>3 DEF TInv, Typed
  <2> QED BY <2>2, <2>4 DEF TInv
<1> QED BY <1>1, <1>2

\* The inductive invariant of the types.
THEOREM SnapshotTyped == Spec => []TInv
<1> QED BY InitTyped, NextTyped, PTL DEF Spec

\* The types of the module's own invariant follow.
LEMMA TypedTypeOK == TInv => TypeOK
<1> SUFFICES ASSUME TInv PROVE TypeOK
  OBVIOUS
<1>1. Shape /\ Typed /\ RestOK
  BY DEF TInv
<1>2. ASSUME NEW k \in Kinds
      PROVE  /\ api[k] \in [Names -> Object(k)] /\ cache[k] \in [Names -> Object(k)]
             /\ \A i \in 1..Len(events[k]) : events[k][i] \in [n : Names, o : Object(k)]
             /\ Len(events[k]) <= Lag[k]
  <2>1. api[k] \in [Names -> AnyObject] /\ cache[k] \in [Names -> AnyObject]
    BY <1>1 DEF Shape
  <2>2. \A n \in Names : api[k][n] \in Object(k) /\ cache[k][n] \in Object(k)
    BY StoreAt
  <2>3. api[k] \in [Names -> Object(k)] /\ cache[k] \in [Names -> Object(k)]
    BY <2>1, <2>2
  <2>4. ASSUME NEW i \in 1..Len(events[k])
        PROVE  events[k][i] \in [n : Names, o : Object(k)]
    <3>1. events[k][i] \in [n : Names, o : AnyObject]
      <4> DEFINE E == [n : Names, o : AnyObject]
      <4>1. events[k] \in Seq(E)
        BY <1>1 DEF Shape
      <4> HIDE DEF E
      <4>2. events[k][i] \in E
        BY <4>1
      <4> QED BY <4>2 DEF E
    <3>2. events[k][i].o \in Object(k)
      BY <1>1 DEF Typed, Seen
    <3> QED BY <3>1, <3>2
  <2> QED BY <1>1, <2>3, <2>4 DEF Shape
<1> QED BY <1>1, <1>2 DEF TypeOK, RestOK, Shape

\* TypeOK holds for every name, lag and bound.
THEOREM SnapshotTypeCorrect == Spec => []TypeOK
<1> QED BY SnapshotTyped, TypedTypeOK, PTL

-----------------------------------------------------------------------------
(* A Job's name is its snapshot's and a status patch names no uid, so what *)
(* is seen under a name may be of any snapshot that bore it.  The          *)
(* credentials a snapshot was created with never come back once they left  *)
(* its spec, so a worker that read a version without them knows that they  *)
(* are gone, unless the snapshot it patches is not the one it read.        *)

Late == {"unready", "create", "running", "check"}

\* Credentials given to the snapshot with uid u that some version of it no
\* longer has (its auth is a) are gone from x too, if x is that snapshot.
Clean(x, u, a) == x.uid # 0 /\ u = x.uid /\ a # Given => x.auth # Given

SnapshotsBorne == \A p \in Seen("snap") : p.o.uid # 0 =>
    p.o.uid \in bore[p.n] /\ Clean(api["snap"][p.n], p.o.uid, p.o.auth)

\* A Job that is seen as complete did complete.
JobsBorne == \A p \in Seen("job") : p.o.owner # 0 =>
    /\ p.o.owner \in bore[p.n]
    /\ p.o.phase = "Complete" => p.o.owner \in done

\* The worker examines the target only for a snapshot without the credentials
\* it was created with.
WorkerClean == \A n \in Names : pc[n] # "idle" =>
    /\ w.uid \in bore[n] /\ Clean(api["snap"][n], w.uid, w.auth)
    /\ pc[n] \in Late => w.auth # Given

SInv == SnapshotsBorne /\ JobsBorne /\ WorkerClean /\ SuccessIsReal /\ AuthFirst

\* A write of a snapshot over another of the same name.
Follows(x, y) ==
    \/ y.uid = 0
    \/ y.uid > created
    \/ y.uid = x.uid /\ (y.auth = x.auth \/ y.auth # Given)

\* The worker stops, or goes on with the snapshot in its hands.
WorkerGoesOn == \A n \in Names : pc'[n] # "idle" =>
    pc[n] # "idle" /\ w' = w /\ (pc'[n] \in Late => pc[n] \in Late)

\* What a version tells of the stored snapshot it also tells of the next one.
LEMMA CleanKept ==
    ASSUME created \in Nat, NEW x \in Snapshot, NEW y \in Snapshot, Follows(x, y),
           NEW u \in Nat, u <= created, NEW a \in Nat, Clean(x, u, a)
    PROVE  Clean(y, u, a)
<1>1. x.uid \in Nat /\ y.uid \in Nat
  BY SnapshotFields
<1> QED BY <1>1 DEF Follows, Clean

\* What is seen bears a name.
LEMMA SeenNamed ==
    ASSUME Shape, NEW k \in Kinds
    PROVE  \A p \in Seen(k) : p.n \in Names
<1> DEFINE E == [n : Names, o : AnyObject]
<1>1. events[k] \in Seq(E)
  BY DEF Shape
<1>2. \A e \in E : e.n \in Names
  OBVIOUS
<1> HIDE DEF E
<1>3. \A i \in 1..Len(events[k]) : events[k][i] \in E
  BY <1>1
<1>4. \A m \in Names : \A x : [n |-> m, o |-> x].n = m
  OBVIOUS
<1> QED BY <1>2, <1>3, <1>4 DEF Seen

\* What a step may do to the parts of the invariant.
LEMMA SafeStep ==
    ASSUME TInv, SInv, done \subseteq done', \A n \in Names : bore[n] \subseteq bore'[n],
           \A n \in Names : api'["snap"][n] \in Snapshot
                            /\ Follows(api["snap"][n], api'["snap"][n]),
           \A p \in Seen("snap")' :
               \/ p \in Seen("snap")
               \/ p.o = api'["snap"][p.n] /\ (p.o.uid # 0 => p.o.uid \in bore'[p.n]),
           \A p \in Seen("job")' :
               \/ p \in Seen("job")
               \/ p.o.owner # 0 => /\ p.o.owner \in bore'[p.n]
                                   /\ p.o.phase = "Complete" => p.o.owner \in done',
           \A n \in Names : pc'[n] # "idle" =>
               \/ pc[n] # "idle" /\ w' = w /\ (pc'[n] \in Late => pc[n] \in Late)
               \/ /\ w'.uid \in bore'[n] /\ Clean(api'["snap"][n], w'.uid, w'.auth)
                  /\ pc'[n] \in Late => w'.auth # Given,
           \A n \in Names : api'["snap"][n].phase = "Succeeded" =>
               \/ api["snap"][n].phase = "Succeeded"
               \/ bore'[n] \cap done' # {},
           \A n \in Names : api'["snap"][n].auth = Given /\ api'["snap"][n].phase # "" =>
               \/ api'["snap"][n] = api["snap"][n] /\ bore'[n] = bore[n]
               \/ bore'[n] # {api'["snap"][n].uid}
    PROVE  SInv'
<1>0. /\ created \in Nat /\ w \in Snapshot /\ w.uid <= created /\ Typed
      /\ SnapshotsBorne /\ JobsBorne /\ WorkerClean /\ SuccessIsReal /\ AuthFirst
      /\ "snap" \in Kinds /\ "job" \in Kinds /\ Object("snap") = Snapshot
  BY Basics, ObjectFacts DEF SInv
<1>n. \A p \in Seen("snap") \cup Seen("job") : p.n \in Names
  BY <1>0, SeenNamed DEF TInv
<1>k. ASSUME NEW n \in Names, NEW u \in Nat, u <= created, NEW a \in Nat,
             Clean(api["snap"][n], u, a)
      PROVE  Clean(api'["snap"][n], u, a)
  <2>1. api["snap"][n] \in Snapshot
    BY StoredAs
  <2> QED BY <1>0, <1>k, <2>1, CleanKept
<1>1. SnapshotsBorne'
  <2> SUFFICES ASSUME NEW p \in Seen("snap")', p.o.uid # 0
               PROVE  /\ p.o.uid \in bore'[p.n]
                      /\ Clean(api'["snap"][p.n], p.o.uid, p.o.auth)
    BY DEF SnapshotsBorne
  <2>1. CASE p \in Seen("snap")
    <3>1. p.o \in Snapshot /\ p.o.uid <= created
      BY <1>0, <2>1 DEF Typed, Uid
    <3>2. p.o.uid \in Nat /\ p.o.auth \in Nat /\ p.n \in Names
      BY <1>n, <2>1, <3>1, SnapshotFields
    <3>3. p.o.uid \in bore[p.n] /\ Clean(api["snap"][p.n], p.o.uid, p.o.auth)
      BY <1>0, <2>1 DEF SnapshotsBorne
    <3> QED BY <1>k, <3>1, <3>2, <3>3
  <2>2. CASE p.o = api'["snap"][p.n] /\ (p.o.uid # 0 => p.o.uid \in bore'[p.n])
    BY <2>2 DEF Clean
  <2> QED BY <2>1, <2>2
<1>2. JobsBorne'
  <2> SUFFICES ASSUME NEW p \in Seen("job")', p.o.owner # 0
               PROVE  /\ p.o.owner \in bore'[p.n]
                      /\ p.o.phase = "Complete" => p.o.owner \in done'
    BY DEF JobsBorne
  <2>1. CASE p \in Seen("job")
    BY <1>0, <1>n, <2>1 DEF JobsBorne
  <2> QED BY <2>1
<1>3. WorkerClean'
  <2> SUFFICES ASSUME NEW n \in Names, pc'[n] # "idle"
               PROVE  /\ w'.uid \in bore'[n] /\ Clean(api'["snap"][n], w'.uid, w'.auth)
                      /\ pc'[n] \in Late => w'.auth # Given
    BY DEF WorkerClean
  <2>1. CASE pc[n] # "idle" /\ w' = w /\ (pc'[n] \in Late => pc[n] \in Late)
    <3>1. w.uid \in Nat /\ w.auth \in Nat
      BY <1>0, SnapshotFields
    <3>2. /\ w.uid \in bore[n] /\ Clean(api["snap"][n], w.uid, w.auth)
          /\ pc[n] \in Late => w.auth # Given
      BY <1>0, <2>1 DEF WorkerClean
    <3>3. Clean(api'["snap"][n], w.uid, w.auth)
      BY <1>0, <1>k, <3>1, <3>2
    <3> QED BY <2>1, <3>2, <3>3
  <2> QED BY <2>1
<1>4. SuccessIsReal'
  <2> SUFFICES ASSUME NEW n \in Names, api'["snap"][n].phase = "Succeeded"
               PROVE  bore'[n] \cap done' # {}
    BY DEF SuccessIsReal
  <2>1. CASE api["snap"][n].phase = "Succeeded"
    BY <1>0, <2>1 DEF SuccessIsReal
  <2> QED BY <2>1
<1>5. AuthFirst'
  BY <1>0 DEF AuthFirst
<1> QED BY <1>1, <1>2, <1>3, <1>4, <1>5 DEF SInv

\* What the invariant says of the objects under a name.
LEMMA StoredBorne ==
    ASSUME TInv, SInv, NEW n \in Names
    PROVE  /\ \A x \in {api["snap"][n], cache["snap"][n]} : x.uid # 0 =>
                  x.uid \in bore[n] /\ Clean(api["snap"][n], x.uid, x.auth)
           /\ \A j \in {api["job"][n], cache["job"][n]} : j.owner # 0 =>
                  j.owner \in bore[n] /\ (j.phase = "Complete" => j.owner \in done)
<1>1. "snap" \in Kinds /\ "job" \in Kinds
  BY ObjectFacts
<1>2. PICK p \in Seen("snap") : p.n = n /\ p.o = cache["snap"][n]
  BY <1>1, SeenAt
<1>3. PICK s \in Seen("snap") : s.n = n /\ s.o = api["snap"][n]
  BY <1>1, SeenAt
<1>4. PICK q \in Seen("job") : q.n = n /\ q.o = api["job"][n]
  BY <1>1, SeenAt
<1>5. PICK r \in Seen("job") : r.n = n /\ r.o = cache["job"][n]
  BY <1>1, SeenAt
<1> QED BY <1>2, <1>3, <1>4, <1>5 DEF SInv, SnapshotsBorne, JobsBorne

\* A step that shows nothing new keeps it, if the worker stops, goes on with
\* the snapshot in its hands, or takes up one that it may.
LEMMA LessSafe ==
    ASSUME TInv, SInv, api' = api, \A k \in Kinds : Seen(k)' \subseteq Seen(k),
           bore' = bore, done' = done,
           \A n \in Names : pc'[n] # "idle" =>
               \/ pc[n] # "idle" /\ w' = w /\ (pc'[n] \in Late => pc[n] \in Late)
               \/ /\ w'.uid \in bore[n] /\ Clean(api["snap"][n], w'.uid, w'.auth)
                  /\ pc'[n] \in Late => w'.auth # Given
    PROVE  SInv'
<1>1. Seen("snap")' \subseteq Seen("snap") /\ Seen("job")' \subseteq Seen("job")
  BY ObjectFacts
<1>2. \A n \in Names : api'["snap"][n] \in Snapshot
                       /\ Follows(api["snap"][n], api'["snap"][n])
  BY StoredAs DEF Follows
<1> QED BY <1>1, <1>2, SafeStep

\* So does a write of a snapshot that follows the one it replaces.
LEMMA PutSnapSafe ==
    ASSUME TInv, SInv, NEW n \in Names, NEW y \in Snapshot, NEW q \in SUBSET Names,
           Put("snap", n, y, q), Follows(api["snap"][n], y),
           done' = done, bore[n] \subseteq bore'[n],
           \A m \in Names \ {n} : bore'[m] = bore[m],
           y.uid # 0 => y.uid \in bore'[n],
           y.phase = "Succeeded" =>
               api["snap"][n].phase = "Succeeded" \/ bore'[n] \cap done # {},
           y.auth = Given /\ y.phase # "" => bore'[n] # {y.uid},
           WorkerGoesOn
    PROVE  SInv'
<1>1. "snap" \in Kinds /\ "job" \in Kinds /\ "job" # "snap" /\ y \in AnyObject
  BY ObjectFacts
<1>2. /\ \A j \in Kinds : \A p \in Seen(j)' :
             p \in Seen(j) \/ (j = "snap" /\ p = [n |-> n, o |-> y])
      /\ api' = [api EXCEPT !["snap"] = [@ EXCEPT ![n] = y]]
  BY <1>1, PutSeen DEF TInv
<1>3. \A m \in Names : api'["snap"][m] = IF m = n THEN y ELSE api["snap"][m]
  BY <1>1, <1>2 DEF TInv, Shape
<1>4. \A m \in Names : api'["snap"][m] \in Snapshot
                       /\ Follows(api["snap"][m], api'["snap"][m])
  <2> SUFFICES ASSUME NEW m \in Names
               PROVE  api'["snap"][m] \in Snapshot
                      /\ Follows(api["snap"][m], api'["snap"][m])
    OBVIOUS
  <2>1. CASE m = n
    BY <1>3, <2>1
  <2>2. CASE m # n
    BY <1>3, <2>2, StoredAs DEF Follows
  <2> QED BY <2>1, <2>2
<1>5. \A p \in Seen("snap")' :
          \/ p \in Seen("snap")
          \/ p.o = api'["snap"][p.n] /\ (p.o.uid # 0 => p.o.uid \in bore'[p.n])
  <2> SUFFICES ASSUME NEW p \in Seen("snap")', p \notin Seen("snap")
               PROVE  /\ p.o = api'["snap"][p.n]
                      /\ p.o.uid # 0 => p.o.uid \in bore'[p.n]
    OBVIOUS
  <2>1. p = [n |-> n, o |-> y]
    BY <1>1, <1>2
  <2>2. p.n = n /\ p.o = y
    BY <2>1
  <2> QED BY <1>3, <2>2
<1>6. \A p \in Seen("job")' : p \in Seen("job")
  BY <1>1, <1>2
<1>7. \A m \in Names : api'["snap"][m].phase = "Succeeded" =>
          api["snap"][m].phase = "Succeeded" \/ bore'[m] \cap done' # {}
  BY <1>3
<1>8. \A m \in Names : api'["snap"][m].auth = Given /\ api'["snap"][m].phase # "" =>
          \/ api'["snap"][m] = api["snap"][m] /\ bore'[m] = bore[m]
          \/ bore'[m] # {api'["snap"][m].uid}
  BY <1>3
<1>9. done \subseteq done' /\ \A m \in Names : bore[m] \subseteq bore'[m]
  <2>1. \A m \in Names : m = n \/ m \in Names \ {n}
    OBVIOUS
  <2> QED BY <2>1
<1> QED BY <1>4, <1>5, <1>6, <1>7, <1>8, <1>9, SafeStep DEF WorkerGoesOn

\* And a write of another object, provided a Job is one of a snapshot that
\* bore its name and is marked complete when it did complete.
LEMMA PutOtherSafe ==
    ASSUME TInv, SInv, NEW k \in {"job", "sec"}, NEW n \in Names, NEW y \in Object(k),
           NEW q \in SUBSET Names, Put(k, n, y, q), done \subseteq done', bore' = bore,
           k = "job" /\ y.owner # 0 => /\ y.owner \in bore[n]
                                       /\ y.phase = "Complete" => y.owner \in done',
           WorkerGoesOn
    PROVE  SInv'
<1>1. "snap" \in Kinds /\ "job" \in Kinds /\ k \in Kinds /\ k # "snap" /\ y \in AnyObject
  BY ObjectFacts
<1>2. /\ \A j \in Kinds : \A p \in Seen(j)' :
             p \in Seen(j) \/ (j = k /\ p = [n |-> n, o |-> y])
      /\ api' = [api EXCEPT ![k] = [@ EXCEPT ![n] = y]]
  BY <1>1, PutSeen DEF TInv
<1>3. api'["snap"] = api["snap"]
  BY <1>1, <1>2 DEF TInv, Shape
<1>4. \A m \in Names : api'["snap"][m] \in Snapshot
                       /\ Follows(api["snap"][m], api'["snap"][m])
  BY <1>3, StoredAs DEF Follows
<1>5. \A p \in Seen("snap")' : p \in Seen("snap")
  BY <1>1, <1>2
<1>6. \A p \in Seen("job")' :
          \/ p \in Seen("job")
          \/ p.o.owner # 0 => /\ p.o.owner \in bore'[p.n]
                              /\ p.o.phase = "Complete" => p.o.owner \in done'
  <2> SUFFICES ASSUME NEW p \in Seen("job")', p \notin Seen("job"), p.o.owner # 0
               PROVE  /\ p.o.owner \in bore'[p.n]
                      /\ p.o.phase = "Complete" => p.o.owner \in done'
    OBVIOUS
  <2>1. p.n = n /\ p.o = y /\ k = "job"
    BY <1>1, <1>2
  <2> QED BY <2>1
<1> QED BY <1>3, <1>4, <1>5, <1>6, SafeStep DEF WorkerGoesOn

\* A status patch, if it marks a snapshot as succeeded only when a Job under
\* its name completed.  If the credentials are still there, the worker has
\* read a snapshot that bore the name before.
LEMMA PatchSafe ==
    ASSUME TInv, SInv, NEW n \in Names, NEW h \in Phases, NEW b \in BOOLEAN,
           pc[n] \in Late, h = "Running" => b, PatchStatus(n, h, b),
           h = "Succeeded" => bore[n] \cap done # {}
    PROVE  SInv'
<1> DEFINE cur == api["snap"][n]
           y == [cur EXCEPT !.phase = h, !.job = @ \/ b]
<1>a. /\ cur \in Snapshot /\ queue \in SUBSET Names /\ queue \cup {n} \in SUBSET Names
      /\ Shape /\ created \in Nat
  BY StoredAs, Basics
<1>1. CASE cur.uid = 0
  <2>1. NoPut(queue \cup {n}) /\ Return /\ bore' = bore /\ done' = done
    BY <1>1 DEF PatchStatus, Fail, history
  <2>2. \A m \in Names : pc'[m] = "idle"
    BY <2>1 DEF Return
  <2> QED BY <1>a, <2>1, <2>2, NoPutSeen, LessSafe
<1>2. CASE cur.uid # 0
  <2>1. Put("snap", n, y, queue) /\ Return /\ bore' = bore /\ done' = done
    BY <1>2 DEF PatchStatus, history
  <2>2. y \in Snapshot /\ y.uid = cur.uid /\ y.phase = h /\ y.auth = cur.auth
    <3>1. PICK c \in BOOLEAN : c = (cur.job \/ b)
      OBVIOUS
    <3>2. h = "Running" => c = TRUE
      BY <3>1
    <3>3. y = [cur EXCEPT !.phase = h, !.job = c]
      BY <3>1, Zenon
    <3>4. cur \in Snapshot /\ cur.uid # 0 /\ h \in Phases /\ c \in BOOLEAN
      BY <1>a, <1>2
    <3> HIDE DEF cur
    <3>5. /\ [cur EXCEPT !.phase = h, !.job = c] \in Snapshot
          /\ [cur EXCEPT !.phase = h, !.job = c].uid = cur.uid
          /\ [cur EXCEPT !.phase = h, !.job = c].phase = h
          /\ [cur EXCEPT !.phase = h, !.job = c].auth = cur.auth
      BY <3>2, <3>4, PatchedType
    <3> QED BY <3>3, <3>5, Zenon
  <2> HIDE DEF y
  <2>3. WorkerGoesOn
    BY <2>1 DEF Return, WorkerGoesOn
  <2>4. cur.uid \in bore[n]
    BY <1>2, StoredBorne
  <2>5. y.auth = Given => bore[n] # {y.uid}
    <3>1. /\ w.uid \in bore[n] /\ Clean(cur, w.uid, w.auth) /\ w.auth # Given
      <4>1. pc[n] # "idle"
        BY DEF Late
      <4> QED BY <4>1 DEF SInv, WorkerClean
    <3>2. cur.auth = Given => w.uid # cur.uid
      BY <1>2, <3>1 DEF Clean
    <3> QED BY <2>2, <3>1, <3>2
  <2>6. Follows(cur, y) /\ y.uid \in bore[n]
    BY <2>2, <2>4 DEF Follows
  <2> QED BY <1>a, <2>1, <2>2, <2>3, <2>5, <2>6, PutSnapSafe
<1> QED BY <1>1, <1>2

\* Users, the Job controller and the garbage collector.
LEMMA EnvironmentSafe ==
    ASSUME TInv, SInv, NEW n \in Names,
           \/ User(n) \/ JobStep(n) \/ \E k \in {"job", "sec"} : Collect(k, n)
    PROVE  SInv'
<1>a. /\ "job" \in {"job", "sec"} /\ Object("job") = Job /\ queue \in SUBSET Names
      /\ api["snap"][n] \in Snapshot /\ api["job"][n] \in Job /\ created \in Nat
      /\ bore \in [Names -> SUBSET Uids]
  BY StoredAs, ObjectFacts, Basics DEF RestOK
<1>b. UNCHANGED worker => WorkerGoesOn
  BY DEF worker, WorkerGoesOn
<1>1. ASSUME NEW a \in Auth, CreateSnapshot(n, a)
      PROVE  SInv'
  <2> DEFINE g == IF a THEN Given ELSE 0
             y == [NoSnapshot EXCEPT !.uid = created + 1, !.auth = g]
  <2>1. /\ Put("snap", n, y, queue) /\ UNCHANGED worker /\ done' = done
        /\ bore' = [bore EXCEPT ![n] = @ \cup {created + 1}]
    BY <1>1 DEF CreateSnapshot
  <2>2. y \in Snapshot /\ y.uid = created + 1 /\ y.phase = ""
    <3>1. created + 1 \in Nat \ {0} /\ g \in Nat
      BY <1>a DEF Given
    <3> HIDE DEF g
    <3> QED BY <3>1, CreatedType
  <2> HIDE DEF y
  <2>3. /\ bore[n] \subseteq bore'[n] /\ y.uid \in bore'[n]
        /\ \A m \in Names \ {n} : bore'[m] = bore[m]
    BY <1>a, <2>1, <2>2
  <2>4. Follows(api["snap"][n], y)
    <3>1. created + 1 > created
      BY <1>a
    <3>2. y.uid > created
      BY <2>2, <3>1
    <3> QED BY <3>2 DEF Follows
  <2> QED BY <1>a, <1>b, <2>1, <2>2, <2>3, <2>4, PutSnapSafe
<1>2. CASE DeleteSnapshot(n)
  <2>1. Put("snap", n, NoSnapshot, queue) /\ UNCHANGED worker /\ done' = done /\ bore' = bore
    BY <1>2 DEF DeleteSnapshot, history
  <2>2. Follows(api["snap"][n], NoSnapshot)
    BY AbsentType DEF Follows
  <2> QED BY <1>a, <1>b, <2>1, <2>2, AbsentType, PutSnapSafe
<1>3. ASSUME NEW h \in {"Complete", "Failed"}, JobFinishes(n, h)
      PROVE  SInv'
  <2> DEFINE j == api["job"][n]
             y == [j EXCEPT !.phase = h]
  <2>1. /\ Put("job", n, y, queue) /\ UNCHANGED worker /\ bore' = bore
        /\ done' = (IF h = "Complete" THEN done \cup {j.owner} ELSE done)
    BY <1>3 DEF JobFinishes
  <2>2. y \in Job /\ y.owner = j.owner /\ y.phase = h
    BY <1>a DEF Job, JobPhases
  <2>3. j.owner # 0 => j.owner \in bore[n]
    BY StoredBorne
  <2> HIDE DEF y, j
  <2>4. done \subseteq done' /\ (y.phase = "Complete" => y.owner \in done')
    BY <2>1, <2>2
  <2> QED BY <1>a, <1>b, <2>1, <2>2, <2>3, <2>4, PutOtherSafe
<1>4. CASE JobExpires(n)
  <2>1. Put("job", n, NoJob, queue) /\ UNCHANGED worker /\ done' = done /\ bore' = bore
    BY <1>4 DEF JobExpires, history
  <2>2. NoJob \in Job /\ NoJob.owner = 0
    BY AbsentType
  <2> QED BY <1>a, <1>b, <2>1, <2>2, PutOtherSafe
<1>5. ASSUME NEW k \in {"job", "sec"}, Collect(k, n)
      PROVE  SInv'
  <2>1. Put(k, n, Absent(k), queue) /\ UNCHANGED worker /\ done' = done /\ bore' = bore
    BY <1>5 DEF Collect, history
  <2>2. Absent(k) \in Object(k)
    BY ObjectFacts
  <2>3. k = "job" => Absent(k) = NoJob
    BY DEF Absent
  <2>4. NoJob.owner = 0
    BY AbsentType
  <2> QED BY <1>a, <1>b, <2>1, <2>2, <2>3, <2>4, PutOtherSafe
<1>6. ASSUME NEW a \in {0, Given + 1 + edits}, EditAuth(n, a)
      PROVE  SInv'
  <2> DEFINE x == api["snap"][n]
             y == [x EXCEPT !.auth = a]
  <2>1. /\ Put("snap", n, y, queue) /\ x.uid # 0 /\ UNCHANGED worker
        /\ done' = done /\ bore' = bore
    BY <1>6 DEF EditAuth, history
  <2>2. a \in Nat /\ a # Given
    BY Basics, SnapshotConstants DEF RestOK, Given
  <2>3. y \in Snapshot /\ y.uid = x.uid /\ y.phase = x.phase /\ y.auth = a
    BY <1>a, <2>1, <2>2, EditedType
  <2>4. x.uid \in bore[n]
    BY <2>1, StoredBorne
  <2> HIDE DEF y
  <2>5. Follows(api["snap"][n], y)
    BY <2>2, <2>3 DEF Follows
  <2> QED BY <1>a, <1>b, <2>1, <2>2, <2>3, <2>4, <2>5, PutSnapSafe
<1> QED BY <1>1, <1>2, <1>3, <1>4, <1>5, <1>6 DEF User, JobStep

\* The calls of a reconcile: a snapshot is marked succeeded for the Job the
\* cache shows, which is complete and of a snapshot of its name.
LEMMA StepSafe ==
    ASSUME TInv, SInv, NEW n \in Names, Step(n)
    PROVE  SInv'
<1>a. /\ Object("job") = Job /\ Object("sec") = Secret
      /\ queue \in SUBSET Names /\ queue \cup {n} \in SUBSET Names
      /\ Shape /\ HasSnapshot /\ w \in Snapshot /\ w.uid \in Nat
      /\ pc \in [Names -> Steps]
  BY ObjectFacts, Basics DEF RestOK
<1>b. Return => WorkerGoesOn /\ \A m \in Names : pc'[m] = "idle"
  BY DEF Return, WorkerGoesOn
<1>c. \A st : Goto(n, st) /\ pc[n] # "idle" /\ (st \in Late => pc[n] \in Late)
              => WorkerGoesOn
  BY <1>a DEF Goto, WorkerGoesOn
<1>d. Fail(n) => SInv'
  <2> SUFFICES ASSUME Fail(n) PROVE SInv'
    OBVIOUS
  <2>1. NoPut(queue \cup {n}) /\ Return /\ done' = done /\ bore' = bore
    BY DEF Fail, history
  <2> QED BY <1>a, <1>b, <2>1, NoPutSeen, LessSafe
<1>1. CASE CreateAuthSecret(n)
  <2> DEFINE y == [owner |-> w.uid, auth |-> w.auth]
  <2>1. /\ Put("sec", n, y, queue) \/ NoPut(queue)
        /\ Goto(n, "clear") /\ pc[n] # "idle" /\ done' = done /\ bore' = bore
    BY <1>1 DEF CreateAuthSecret, history
  <2>2. y \in Secret
    <3>1. w.auth \in Nat
      BY <1>a, SnapshotFields
    <3> QED BY <1>a, <3>1 DEF Secret
  <2> HIDE DEF y
  <2>3. WorkerGoesOn
    BY <1>c, <2>1 DEF Late
  <2>4. CASE Put("sec", n, y, queue)
    BY <1>a, <2>1, <2>2, <2>3, <2>4, PutOtherSafe
  <2>5. CASE NoPut(queue)
    BY <1>a, <2>1, <2>3, <2>5, NoPutSeen, LessSafe DEF WorkerGoesOn
  <2> QED BY <2>1, <2>4, <2>5
<1>2. CASE ClearAuth(n)
  <2> DEFINE y == [w EXCEPT !.auth = 0]
  <2>1. CASE /\ w = api["snap"][n] /\ Put("snap", n, y, queue \cup {n}) /\ Return
             /\ done' = done /\ bore' = bore
    <3>1. w.uid # 0 /\ w.uid \in bore[n]
      BY <1>2, <1>a DEF ClearAuth, HasSnapshot, SInv, WorkerClean
    <3>2. y \in Snapshot /\ y.uid = w.uid /\ y.phase = w.phase /\ y.auth = 0
      BY <1>a, <3>1, EditedType
    <3> HIDE DEF y
    <3>3. Follows(api["snap"][n], y) /\ y.auth # Given
      BY <2>1, <3>2 DEF Follows, Given
    <3> QED BY <1>a, <1>b, <2>1, <3>1, <3>2, <3>3, PutSnapSafe
  <2> QED BY <1>2, <1>d, <2>1 DEF ClearAuth, history
<1>p. "Failed" \in Phases /\ "Running" \in Phases /\ "Succeeded" \in Phases
  BY DEF Phases
<1>3. CASE SetFailed(n)
  BY <1>3, <1>p, PatchSafe DEF SetFailed, Late
<1>4. CASE CreateJob(n)
  <2> DEFINE y == [owner |-> w.uid, phase |-> "Active"]
  <2>1. CASE /\ Put("job", n, y, queue) /\ Goto(n, "running")
             /\ done' = done /\ bore' = bore
    <3>1. y \in Job /\ y.owner = w.uid /\ y.phase # "Complete"
      BY <1>a DEF Job, JobPhases
    <3> HIDE DEF y
    <3>2. pc[n] # "idle" /\ pc[n] \in Late
      BY <1>4 DEF CreateJob, Late
    <3>3. y.owner \in bore[n]
      BY <3>1, <3>2 DEF SInv, WorkerClean
    <3>4. WorkerGoesOn
      BY <1>c, <2>1, <3>2
    <3> QED BY <1>a, <2>1, <3>1, <3>3, <3>4, PutOtherSafe
  <2> QED BY <1>4, <1>d, <2>1 DEF CreateJob, history
<1>5. CASE SetRunning(n)
  BY <1>5, <1>p, PatchSafe DEF SetRunning, Late
<1>6. CASE CheckJob(n)
  <2> DEFINE j == cache["job"][n]
  <2>0. pc[n] \in Late
    BY <1>6 DEF CheckJob, Late
  <2>1. CASE PatchStatus(n, "Failed", FALSE)
    BY <1>p, <2>0, <2>1, PatchSafe
  <2>2. CASE j.owner # 0 /\ j.phase = "Complete" /\ PatchStatus(n, "Succeeded", FALSE)
    <3>1. j.owner \in bore[n] /\ j.owner \in done
      BY <2>2, StoredBorne
    <3>2. bore[n] \cap done # {}
      BY <3>1
    <3> QED BY <1>p, <2>0, <2>2, <3>2, PatchSafe
  <2>3. CASE NoPut(queue) /\ Return /\ UNCHANGED history
    BY <1>a, <1>b, <2>3, NoPutSeen, LessSafe DEF history
  <2> QED BY <1>6, <2>1, <2>2, <2>3 DEF CheckJob
<1> QED BY <1>1, <1>2, <1>3, <1>4, <1>5, <1>6 DEF Step

\* Deliveries, the target, failures and the start of a reconcile.
LEMMA OtherSafe ==
    ASSUME TInv, SInv,
           \/ \E k \in Kinds : Deliver(k)
           \/ TargetChanges
           \/ Restart
           \/ \E n \in Names : CallFails(n) \/ Reconcile(n)
    PROVE  SInv'
<1>a. /\ Shape /\ RestOK /\ queue \in SUBSET Names
      /\ \A n \in Names : queue \cup {n} \in SUBSET Names /\ queue \ {n} \in SUBSET Names
  BY Basics
<1>b. Return => \A m \in Names : pc'[m] = "idle"
  BY DEF Return
<1>c. UNCHANGED worker => WorkerGoesOn
  BY DEF worker, WorkerGoesOn
<1>1. ASSUME NEW k \in Kinds, Deliver(k) PROVE SInv'
  <2>1. DeliverEvent(k) /\ UNCHANGED worker /\ done' = done /\ bore' = bore
    BY <1>1 DEF Deliver, history
  <2> QED BY <1>a, <1>c, <2>1, DeliverSeen, LessSafe DEF WorkerGoesOn
<1>2. CASE TargetChanges
  <2>1. NoPut(queue) /\ UNCHANGED worker /\ done' = done /\ bore' = bore
    BY <1>2 DEF TargetChanges, history
  <2> QED BY <1>a, <1>c, <2>1, NoPutSeen, LessSafe DEF WorkerGoesOn
<1>3. CASE Restart
  <2>1. Return /\ done' = done /\ bore' = bore
    BY <1>3 DEF Restart, history
  <2> QED BY <1>a, <1>b, <1>3, <2>1, RestartSeen, LessSafe
<1>4. ASSUME NEW n \in Names, CallFails(n) PROVE SInv'
  <2>1. NoPut(queue \cup {n}) /\ Return /\ done' = done /\ bore' = bore
    BY <1>4 DEF CallFails, history
  <2> QED BY <1>a, <1>b, <2>1, NoPutSeen, LessSafe
<1>5. ASSUME NEW n \in Names, Reconcile(n) PROVE SInv'
  <2> DEFINE x == cache["snap"][n]
             st == FirstStep(x)
  <2>1. /\ \A m \in Names : pc[m] = "idle"
        /\ NoPut(queue \ {n}) /\ pc' = [pc EXCEPT ![n] = st]
        /\ w' = (IF st = "idle" THEN NoSnapshot ELSE x) /\ done' = done /\ bore' = bore
    BY <1>5 DEF Reconcile, history
  <2>2. x.uid # 0 => x.uid \in bore[n] /\ Clean(api["snap"][n], x.uid, x.auth)
    BY StoredBorne
  <2>3. (st # "idle" => x.uid # 0) /\ (st \in Late => x.auth # Given)
    BY DEF FirstStep, Late, Given
  <2> HIDE DEF x, st
  <2>4. \A m \in Names : pc'[m] # "idle" => m = n /\ st # "idle" /\ pc'[m] = st
    BY <1>a, <2>1 DEF RestOK
  <2>5. \A m \in Names : pc'[m] # "idle" =>
            /\ w'.uid \in bore[m] /\ Clean(api["snap"][m], w'.uid, w'.auth)
            /\ pc'[m] \in Late => w'.auth # Given
    BY <2>1, <2>2, <2>3, <2>4
  <2> QED BY <1>a, <2>1, <2>5, NoPutSeen, LessSafe
<1> QED BY <1>1, <1>2, <1>3, <1>4, <1>5

\* At the start there is nothing to be mistaken about.
LEMMA InitSafe == Init => SInv
<1> SUFFICES ASSUME Init PROVE SInv
  OBVIOUS
<1>1. /\ api = [k \in Kinds |-> [n \in Names |-> Absent(k)]]
      /\ pc = [n \in Names |-> "idle"] /\ "snap" \in Kinds /\ "job" \in Kinds
  BY ObjectFacts DEF Init
<1>2. \A n \in Names : api["snap"][n] = NoSnapshot
  BY <1>1 DEF Absent
<1>3. TInv /\ created = 0
  BY InitTyped DEF Init
<1>4. \A k \in Kinds : \A p \in Seen(k) : Uid(k, p.o) = 0
  <2> SUFFICES ASSUME NEW k \in Kinds, NEW p \in Seen(k)
               PROVE  Uid(k, p.o) = 0
    OBVIOUS
  <2>1. p.o \in Object(k) /\ Uid(k, p.o) <= 0
    BY <1>3 DEF TInv, Typed
  <2>2. Uid(k, p.o) \in Nat
    BY <2>1, ObjectFacts
  <2> QED BY <2>1, <2>2
<1>5. SnapshotsBorne /\ JobsBorne
  BY <1>1, <1>4 DEF SnapshotsBorne, JobsBorne, Uid
<1>6. WorkerClean /\ SuccessIsReal /\ AuthFirst
  BY <1>1, <1>2, AbsentType DEF WorkerClean, SuccessIsReal, AuthFirst
<1> QED BY <1>5, <1>6 DEF SInv

\* Every step keeps it.
LEMMA NextSafe ==
    ASSUME TInv, SInv, [Next]_vars
    PROVE  SInv'
<1>1. CASE Next
  <2>1. ASSUME NEW n \in Names, User(n) \/ JobStep(n) \/ \E k \in {"job", "sec"} : Collect(k, n)
        PROVE  SInv'
    BY <2>1, EnvironmentSafe
  <2>2. ASSUME NEW n \in Names, Step(n) PROVE SInv'
    BY <2>2, StepSafe
  <2>3. ASSUME NEW n \in Names, Reconcile(n) \/ CallFails(n) PROVE SInv'
    BY <2>3, OtherSafe
  <2>4. ASSUME (\E k \in Kinds : Deliver(k)) \/ TargetChanges \/ Restart PROVE SInv'
    BY <2>4, OtherSafe
  <2> QED BY <1>1, <2>1, <2>2, <2>3, <2>4 DEF Next
<1>2. CASE UNCHANGED vars
  <2>1. UNCHANGED <<api, cache, events, pc, w, bore, done>>
    BY <1>2 DEF vars, worker, history
  <2>2. \A k \in Kinds : Seen(k)' = Seen(k)
    BY <2>1 DEF Seen
  <2> QED BY <2>1, <2>2, LessSafe
<1> QED BY <1>1, <1>2

-----------------------------------------------------------------------------
(* Results.                                                                *)

\* setSucceeded, reconcileExistingJob: for any number of snapshots, names and
\* failures and any lag, no snapshot is marked Succeeded when no Job under its
\* name committed an image.
THEOREM SuccessAlwaysReal == Spec => []SuccessIsReal
<1>1. SInv => SuccessIsReal
  BY DEF SInv
<1> QED BY <1>1, SnapshotTyped, InitSafe, NextSafe, PTL DEF Spec

\* materializePushAuth: the credentials a snapshot was created with are out of
\* its spec before it gets any phase, unless its name was used before.
THEOREM AuthAlwaysFirst == Spec => []AuthFirst
<1>1. SInv => AuthFirst
  BY DEF SInv
<1> QED BY <1>1, SnapshotTyped, InitSafe, NextSafe, PTL DEF Spec
=============================================================================
