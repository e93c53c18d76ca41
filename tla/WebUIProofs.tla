---------------------------- MODULE WebUIProofs ----------------------------
(***************************************************************************)
(* The web UI's handlers for any users, DevPods, requests and quotas: what *)
(* is stored, whose changes survive an update, how long an admin's session *)
(* stays one.                                                              *)
(*                                                                         *)
(* The argument for updates: every write gets a resourceVersion that no    *)
(* copy bears, so a copy with the version of the stored object is a copy   *)
(* of the stored object.                                                   *)
(***************************************************************************)
EXTENDS WebUI, TLAPS

Job == [pc : {"provision", "admin", "mint", "user", "list", "write"}, op : Ops,
        user : Users, admin : BOOLEAN, asked : Nat, minted : Nat,
        obj : DevPod \cup User, quota : Quota, since : Nat, fresh : BOOLEAN]

\* Objects are stored under their names, in versions given out, and
\* DevPods are valid and metered.
Kept(s, v) ==
    /\ s \in Store
    /\ \A u \in Users : s.users[u] # Absent => s.users[u].name = u /\ s.users[u].rv <= v
    /\ \A n \in Names : s.devpods[n] # Absent =>
           /\ s.devpods[n].name = n /\ s.devpods[n].rv <= v
           /\ Valid(s.devpods[n]) /\ Metered(s.devpods[n])

\* Copies of an object that bear the same version are the same.
Agree(s, c) ==
    /\ \A u \in Users : /\ s.users[u] # Absent /\ c.users[u] # Absent
                        /\ s.users[u].rv = c.users[u].rv
                        => s.users[u] = c.users[u]
    /\ \A n \in Names : /\ s.devpods[n] # Absent /\ c.devpods[n] # Absent
                        /\ s.devpods[n].rv = c.devpods[n].rv
                        => s.devpods[n] = c.devpods[n]

UserCopy == [n : Users, o : User \cup {Absent}]
DevPodCopy == [n : Names, o : DevPod \cup {Absent}]

\* So it is with the copies that are on their way to the caches, while s is
\* stored in versions up to v.
UserEvent(e, s, v) ==
    /\ e.o # Absent => e.o.name = e.n /\ e.o.rv <= v
    /\ e.o # Absent /\ s.users[e.n] # Absent /\ s.users[e.n].rv = e.o.rv
       => s.users[e.n] = e.o

DevPodEvent(e, s, v) ==
    /\ e.o # Absent =>
         e.o.name = e.n /\ e.o.rv <= v /\ Valid(e.o) /\ Metered(e.o)
    /\ e.o # Absent /\ s.devpods[e.n] # Absent /\ s.devpods[e.n].rv = e.o.rv
       => s.devpods[e.n] = e.o

Streams(ev, s, v) ==
    /\ ev \in [users : Seq(UserCopy),
               devpods : Seq(DevPodCopy)]
    /\ \A i \in 1 .. Len(ev.users) : UserEvent(ev.users[i], s, v)
    /\ \A i \in 1 .. Len(ev.devpods) : DevPodEvent(ev.devpods[i], s, v)

\* A DevPod turned on or off.
Turned(dp, on) == [dp EXCEPT !.running = on]

\* What a request is about to write, while s is stored in versions up to v:
\* if it updates, then the stored object, in its version or in a later one.
Wakes(q, s, v) ==
    /\ q.obj \in DevPod /\ q.obj.name = q.op.name /\ q.obj.rv <= v
    /\ Valid(q.obj) /\ Metered(q.obj)
    /\ s.devpods[q.op.name] # Absent /\ s.devpods[q.op.name].rv = q.obj.rv
           => q.obj = Turned(s.devpods[q.op.name], q.op.running)

Edits(q, u, new(_), s, v) ==
    /\ q.obj \in User /\ q.obj.name = u /\ q.obj.rv <= v
    /\ s.users[u] # Absent /\ s.users[u].rv = q.obj.rv => q.obj = new(s.users[u])

Prepared(q, s, v) ==
    CASE q.op.h = "create" -> q.obj \in DevPod /\ Metered(q.obj)
      [] q.op.h = "patch" -> Wakes(q, s, v)
      [] q.op.h = "delete" -> q.obj \in DevPod
      [] q.op.h = "putMe" -> Edits(q, q.user, LAMBDA o : WithOwn(q.op, o), s, v)
      [] q.op.h = "patchUser" -> Edits(q, q.op.user, LAMBDA o : Patched(q.op, o), s, v)
      [] OTHER -> q.obj \in User

Requested ==
    /\ req \in [Requests -> Job \cup {Idle}]
    /\ \A r \in Requests : req[r].pc # "idle" =>
           req[r] \in Job /\ Prepared(req[r], api, rev)

\* The caches showed a user as an admin until adminAt, which is after he was
\* asked for: by the logins that made his tokens, and by those under way.
Tokens ==
    /\ tokens \subseteq Token /\ adminAt \in [Users -> Int]
    /\ \A u \in Users : /\ adminFor(u) => adminAt[u] = clock
                        /\ adminAt[u] <= clock
    /\ \A t \in tokens : /\ t.minted <= clock /\ t.expiry <= t.minted + TTL
                         /\ t.admin => t.asked <= adminAt[t.user]

Rights ==
    \A r \in Requests : req[r].pc # "idle" /\ req[r].admin =>
        req[r].asked <= adminAt[req[r].user]

IInv ==
    /\ clock \in 0 .. MaxTime /\ rev \in 0 .. MaxWrites
    /\ Kept(api, rev) /\ Kept(cache, rev) /\ Agree(api, cache)
    /\ Streams(events, api, rev)
    /\ Tokens /\ Requested /\ Rights

-----------------------------------------------------------------------------
(* Operators *)

\* An effective quota is one.
LEMMA QuotaType ==
    ASSUME NEW u \in User \cup {Absent}
    PROVE  EffectiveQuota(u) \in Quota
<1>0. DefaultQuota \in Quota
  BY WorldAssumption
<1>1. CASE u = Absent \/ u.quota = Unset
  BY <1>0, <1>1 DEF EffectiveQuota
<1>2. CASE ~(u = Absent \/ u.quota = Unset)
  <2> DEFINE e == [f \in DOMAIN DefaultQuota |->
                      IF u.quota[f] # Unset THEN u.quota[f] ELSE DefaultQuota[f]]
  <2>1. u.quota \in Quota
    BY <1>2 DEF User
  <2>2. DOMAIN DefaultQuota = {"devpods", "compute", "storage"}
    BY <1>0 DEF Quota
  <2>3. e \in Quota
    BY <1>0, <2>1, <2>2 DEF Quota
  <2> QED BY <1>2, <2>3 DEF EffectiveQuota
<1> QED BY <1>1, <1>2

\* The pod of a DevPod that carries a binding's annotations is a pod.
LEMMA StampedType ==
    ASSUME NEW op \in Ops, op.h = "create", op.tpl # Unset => TemplateFits(op.dp, op.tpl)
    PROVE  op.dp \in DevPod /\ Stamped(op) \in DevPod
<1> DEFINE dp == op.dp
           t == op.tpl
           p == WithPreset(dp, t.preset)
<1>0. dp \in DevPod /\ t \in TemplateSpec \cup {Unset}
  BY WorldAssumption DEF Op
<1>1. CASE t = Unset
  BY <1>0, <1>1 DEF Stamped
<1>2. CASE t # Unset
  <2>0. /\ t.preset \in [pod : PodSpec, persistence : Persistence \cup {Unset}] \cup {Unset}
        /\ t.binding \in [valid : BOOLEAN, limits : Limits] \cup {Unset}
    BY <1>0, <1>2 DEF TemplateSpec
  <2>1. p \in DevPod
    BY <1>0, <2>0 DEF WithPreset, DevPod
  <2>2. t.binding # Unset => p.pod \in PodSpec
    BY <1>2, <2>1 DEF TemplateFits, DevPod
  <2> HIDE DEF p
  <2>3. WithBinding(p, t.binding) \in DevPod
    <3>1. CASE t.binding = Unset
      BY <2>1, <3>1 DEF WithBinding
    <3>2. CASE t.binding # Unset
      <4> DEFINE l == [k \in Resources |->
                         IF t.binding.limits[k] # Unset THEN t.binding.limits[k]
                         ELSE p.pod.limits[k]]
                 y == [limits |-> l, kore |-> TRUE]
      <4>1. t.binding.limits \in [Resources -> Int \cup {Unset}] /\ p.pod.limits \in [Resources -> Int]
        BY <2>0, <2>2, <3>2 DEF PodSpec, Limits, Limit
      <4>2. l \in [Resources -> Int]
        BY <4>1
      <4> HIDE DEF l
      <4>3. y \in PodSpec
        BY <4>2 DEF PodSpec
      <4>4. WithBinding(p, t.binding) = [p EXCEPT !.pod = y]
        BY <3>2 DEF WithBinding, l
      <4> HIDE DEF y
      <4> QED BY <2>1, <4>3, <4>4 DEF DevPod
    <3> QED BY <3>1, <3>2
  <2>4. Stamped(op) = WithBinding(p, t.binding)
    BY <1>2 DEF Stamped, ApplyTemplate, p
  <2> QED BY <1>0, <2>3, <2>4
<1> QED BY <1>1, <1>2

\* A user's edits of himself and an admin's leave name and version alone.
LEMMA EditType ==
    ASSUME NEW op \in Ops, NEW o \in User
    PROVE  /\ op.h = "putMe" => /\ WithOwn(op, o) \in User
                                /\ WithOwn(op, o).name = o.name /\ WithOwn(op, o).rv = o.rv
           /\ op.h = "patchUser" => /\ Patched(op, o) \in User
                                    /\ Patched(op, o).name = o.name /\ Patched(op, o).rv = o.rv
<1>0. op \in Op
  BY WorldAssumption
<1>d. DOMAIN o = {"name", "admin", "pw", "keys", "quota", "deleting", "rv"}
  BY DEF User
<1>1. ASSUME op.h = "putMe"
      PROVE  /\ WithOwn(op, o) \in User
             /\ WithOwn(op, o).name = o.name /\ WithOwn(op, o).rv = o.rv
  <2>1. op.set \in [pw : Passwords] \cup [keys : SUBSET STRING]
    BY <1>0, <1>1 DEF Op
  <2>2. CASE op.set \in [pw : Passwords]
    BY <1>d, <2>2 DEF WithOwn, User
  <2>3. CASE op.set \in [keys : SUBSET STRING]
    BY <1>d, <2>3 DEF WithOwn, User
  <2> QED BY <2>1, <2>2, <2>3
<1>2. ASSUME op.h = "patchUser"
      PROVE  /\ Patched(op, o) \in User
             /\ Patched(op, o).name = o.name /\ Patched(op, o).rv = o.rv
  <2>1. op.set \in [pw : Passwords] \cup [quota : Form] \cup [pw : Passwords, quota : Form]
    BY <1>0, <1>2 DEF Op
  <2>b. \A p \in Form : BuildQuota(p) \in Quota \cup {Unset}
    BY DEF BuildQuota, Form, Quota
  <2>2. CASE op.set \in [pw : Passwords]
    BY <1>d, <2>2 DEF Patched, User
  <2>3. CASE op.set \in [quota : Form]
    BY <1>d, <2>b, <2>3 DEF Patched, User
  <2>4. CASE op.set \in [pw : Passwords, quota : Form]
    BY <1>d, <2>b, <2>4 DEF Patched, User
  <2> QED BY <2>1, <2>2, <2>3, <2>4
<1> QED BY <1>1, <1>2

-----------------------------------------------------------------------------
(* Writes *)

\* A write leaves an object alone, removes it or gives it a new version.
Newer(s, t, v) ==
    /\ \A u \in Users : t.users[u] \in {s.users[u], Absent} \/ t.users[u].rv = v + 1
    /\ \A n \in Names : t.devpods[n] \in {s.devpods[n], Absent} \/ t.devpods[n].rv = v + 1

StoreStep ==
    /\ Kept(api', rev') /\ Newer(api, api', rev) /\ rev' \in rev .. MaxWrites
    /\ Streams(events', api', rev')

\* Copies on their way stay what they are when something is written.
LEMMA StreamsKept ==
    ASSUME NEW ev, NEW s, NEW t, NEW v \in Nat, NEW w \in Nat, v <= w,
           Streams(ev, s, v), Newer(s, t, v)
    PROVE  Streams(ev, t, w)
<1>1. ASSUME NEW i \in 1 .. Len(ev.users) PROVE UserEvent(ev.users[i], t, w)
  <2> DEFINE e == ev.users[i]
  <2>1. e \in UserCopy /\ UserEvent(e, s, v)
    BY <1>1 DEF Streams
  <2> HIDE DEF e
  <2>2. e.n \in Users /\ (e.o # Absent => e.o.rv \in Nat)
    BY <2>1 DEF UserCopy, User
  <2>3. t.users[e.n] \in {s.users[e.n], Absent} \/ t.users[e.n].rv = v + 1
    BY <2>2 DEF Newer
  <2>4. UserEvent(e, t, w)
    BY <2>1, <2>2, <2>3 DEF UserEvent
  <2> QED BY <2>4 DEF e
<1>2. ASSUME NEW i \in 1 .. Len(ev.devpods) PROVE DevPodEvent(ev.devpods[i], t, w)
  <2> DEFINE e == ev.devpods[i]
  <2>1. e \in DevPodCopy /\ DevPodEvent(e, s, v)
    BY <1>2 DEF Streams
  <2> HIDE DEF e
  <2>2. e.n \in Names /\ (e.o # Absent => e.o.rv \in Nat)
    BY <2>1 DEF DevPodCopy, DevPod
  <2>3. t.devpods[e.n] \in {s.devpods[e.n], Absent} \/ t.devpods[e.n].rv = v + 1
    BY <2>2 DEF Newer
  <2>4. DevPodEvent(e, t, w)
    BY <2>1, <2>2, <2>3 DEF DevPodEvent
  <2> QED BY <2>4 DEF e
<1> QED BY <1>1, <1>2 DEF Streams

\* Storing a User.
LEMMA PutUser ==
    ASSUME Kept(api, rev), Streams(events, api, rev), rev \in Nat, rev < MaxWrites,
           NEW u \in Users, NEW x \in User \cup {Absent},
           x # Absent => x.name = u /\ x.rv = rev + 1,
           Put("users", u, x)
    PROVE  StoreStep
<1>0. /\ MaxWrites \in Nat /\ rev' = rev + 1
      /\ api' = [api EXCEPT !["users"][u] = x]
      /\ events' = [events EXCEPT !["users"] = Append(events.users, [n |-> u, o |-> x])]
  BY WebUIAssumption DEF Put
<1>1. /\ api'.users = [api.users EXCEPT ![u] = x] /\ api'.devpods = api.devpods
      /\ api' \in Store
  BY <1>0 DEF Kept, Store
<1>2. \A w \in Users : api'.users[w] = IF w = u THEN x ELSE api.users[w]
  BY <1>1 DEF Kept, Store
<1>3. /\ \A w \in Users : api.users[w] # Absent => api.users[w].rv \in Nat
      /\ \A n \in Names : api.devpods[n] # Absent => api.devpods[n].rv \in Nat
  BY DEF Kept, Store, User, DevPod
<1>4. Kept(api', rev')
  BY <1>0, <1>1, <1>2, <1>3 DEF Kept
<1>5. Newer(api, api', rev)
  BY <1>1, <1>2 DEF Newer
<1>6. Streams(events, api', rev')
  BY <1>0, <1>5, StreamsKept
<1>7. Streams(events', api', rev')
  <2> DEFINE e == [n |-> u, o |-> x]
  <2>0. e.n = u /\ e.o = x /\ e \in UserCopy
    BY DEF UserCopy
  <2>1. UserEvent(e, api', rev')
    BY <1>0, <1>2, <2>0 DEF UserEvent, User
  <2>2. events' = [events EXCEPT !["users"] = Append(events.users, e)]
    BY <1>0
  <2> HIDE DEF e
  <2>3. /\ events.users \in Seq(UserCopy) /\ events.devpods \in Seq(DevPodCopy)
        /\ events'.users = Append(events.users, e) /\ events'.devpods = events.devpods
        /\ events' \in [users : Seq(UserCopy), devpods : Seq(DevPodCopy)]
    <3>1. events \in [users : Seq(UserCopy), devpods : Seq(DevPodCopy)]
      BY DEF Streams
    <3>2. Append(events.users, e) \in Seq(UserCopy)
      BY <2>0, <3>1
    <3>3. \A z \in Seq(UserCopy) :
            LET y == [events EXCEPT !["users"] = z]
            IN  /\ y.users = z /\ y.devpods = events.devpods
                /\ y \in [users : Seq(UserCopy), devpods : Seq(DevPodCopy)]
      BY <3>1
    <3> QED BY <2>2, <3>1, <3>2, <3>3
  <2>4. ASSUME NEW i \in 1 .. Len(events'.users) PROVE UserEvent(events'.users[i], api', rev')
    <3>1. \/ i \in 1 .. Len(events.users) /\ events'.users[i] = events.users[i]
          \/ events'.users[i] = e
      BY <2>0, <2>3
    <3> QED BY <1>6, <2>1, <3>1 DEF Streams
  <2> QED BY <1>6, <2>3, <2>4 DEF Streams
<1> QED BY <1>0, <1>4, <1>5, <1>7 DEF StoreStep

\* Storing a DevPod.
LEMMA PutDevPod ==
    ASSUME Kept(api, rev), Streams(events, api, rev), rev \in Nat, rev < MaxWrites,
           NEW n \in Names, NEW x \in DevPod \cup {Absent},
           x # Absent => x.name = n /\ x.rv = rev + 1 /\ Valid(x) /\ Metered(x),
           Put("devpods", n, x)
    PROVE  StoreStep
<1>0. /\ MaxWrites \in Nat /\ rev' = rev + 1
      /\ api' = [api EXCEPT !["devpods"][n] = x]
      /\ events' = [events EXCEPT !["devpods"] = Append(events.devpods, [n |-> n, o |-> x])]
  BY WebUIAssumption DEF Put
<1>1. /\ api'.devpods = [api.devpods EXCEPT ![n] = x] /\ api'.users = api.users
      /\ api' \in Store
  BY <1>0 DEF Kept, Store
<1>2. \A m \in Names : api'.devpods[m] = IF m = n THEN x ELSE api.devpods[m]
  BY <1>1 DEF Kept, Store
<1>3. /\ \A w \in Users : api.users[w] # Absent => api.users[w].rv \in Nat
      /\ \A m \in Names : api.devpods[m] # Absent => api.devpods[m].rv \in Nat
  BY DEF Kept, Store, User, DevPod
<1>4. Kept(api', rev')
  BY <1>0, <1>1, <1>2, <1>3 DEF Kept
<1>5. Newer(api, api', rev)
  BY <1>1, <1>2 DEF Newer
<1>6. Streams(events, api', rev')
  BY <1>0, <1>5, StreamsKept
<1>7. Streams(events', api', rev')
  <2> DEFINE e == [n |-> n, o |-> x]
  <2>0. e.n = n /\ e.o = x /\ e \in DevPodCopy
    BY DEF DevPodCopy
  <2>1. DevPodEvent(e, api', rev')
    BY <1>0, <1>2, <2>0 DEF DevPodEvent, DevPod
  <2>2. events' = [events EXCEPT !["devpods"] = Append(events.devpods, e)]
    BY <1>0
  <2> HIDE DEF e
  <2>3. /\ events.users \in Seq(UserCopy) /\ events.devpods \in Seq(DevPodCopy)
        /\ events'.devpods = Append(events.devpods, e) /\ events'.users = events.users
        /\ events' \in [users : Seq(UserCopy), devpods : Seq(DevPodCopy)]
    <3>1. events \in [users : Seq(UserCopy), devpods : Seq(DevPodCopy)]
      BY DEF Streams
    <3>2. Append(events.devpods, e) \in Seq(DevPodCopy)
      BY <2>0, <3>1
    <3>3. \A z \in Seq(DevPodCopy) :
            LET y == [events EXCEPT !["devpods"] = z]
            IN  /\ y.devpods = z /\ y.users = events.users
                /\ y \in [users : Seq(UserCopy), devpods : Seq(DevPodCopy)]
      BY <3>1
    <3> QED BY <2>2, <3>1, <3>2, <3>3
  <2>4. ASSUME NEW i \in 1 .. Len(events'.devpods)
        PROVE  DevPodEvent(events'.devpods[i], api', rev')
    <3>1. \/ i \in 1 .. Len(events.devpods) /\ events'.devpods[i] = events.devpods[i]
          \/ events'.devpods[i] = e
      BY <2>0, <2>3
    <3> QED BY <1>6, <2>1, <3>1 DEF Streams
  <2> QED BY <1>6, <2>3, <2>4 DEF Streams
<1> QED BY <1>0, <1>4, <1>5, <1>7 DEF StoreStep

\* A request that fails writes nothing.
LEMMA NoWrite ==
    ASSUME Kept(api, rev), Streams(events, api, rev), rev \in 0 .. MaxWrites, NoPut
    PROVE  StoreStep
<1>0. MaxWrites \in Nat
  BY WebUIAssumption
<1> QED BY <1>0 DEF StoreStep, Newer, NoPut

\* The fields the rules on DevPods look at.
LEMMA SameRules ==
    ASSUME NEW x \in DevPod, NEW y \in DevPod,
           y.name = x.name, y.owner = x.owner, y.pod = x.pod, y.vm = x.vm,
           y.kore = x.kore, y.by = x.by
    PROVE  Valid(y) = Valid(x) /\ Metered(y) = Metered(x)
BY DEF Valid, Metered, Meterable, RequireLimits

\* An object that is marked as being deleted.
MarkedAt(o, v) == [o EXCEPT !.deleting = TRUE, !.rv = v]

\* It is still an object, of the same name and under the same rules.
LEMMA Marked ==
    ASSUME NEW v \in Nat
    PROVE  /\ \A o \in User : /\ MarkedAt(o, v) \in User
                              /\ MarkedAt(o, v).name = o.name /\ MarkedAt(o, v).rv = v
           /\ \A o \in DevPod :
                  LET x == MarkedAt(o, v)
                  IN  /\ x \in DevPod /\ x.name = o.name /\ x.rv = v /\ x.owner = o.owner
                      /\ x.pod = o.pod /\ x.vm = o.vm /\ x.kore = o.kore /\ x.by = o.by
<1>1. ASSUME NEW o \in User PROVE MarkedAt(o, v) \in User
  BY Zenon DEF MarkedAt, User
<1>2. ASSUME NEW o \in DevPod PROVE MarkedAt(o, v) \in DevPod
  BY Zenon DEF MarkedAt, DevPod
<1>3. ASSUME NEW o \in User PROVE MarkedAt(o, v).name = o.name /\ MarkedAt(o, v).rv = v
  BY DEF MarkedAt, User
<1>4. ASSUME NEW o \in DevPod
      PROVE  LET x == MarkedAt(o, v)
             IN  /\ x.name = o.name /\ x.rv = v /\ x.owner = o.owner
                 /\ x.pod = o.pod /\ x.vm = o.vm /\ x.kore = o.kore /\ x.by = o.by
  BY DEF MarkedAt, DevPod
<1> QED BY <1>1, <1>2, <1>3, <1>4

\* The calls of the API server for Users.
LEMMA UserCalls ==
    ASSUME Kept(api, rev), Streams(events, api, rev), rev \in 0 .. MaxWrites
    PROVE  /\ \A o \in User : Creates("users", o) \/ Updates("users", o) => StoreStep
           /\ \A u \in Users : Deletes("users", u) => StoreStep
<1>0. rev \in Nat /\ MaxWrites \in Nat
  BY WebUIAssumption
<1>1. ASSUME NEW o \in User, Creates("users", o) \/ Updates("users", o) PROVE StoreStep
  <2> DEFINE x == [o EXCEPT !.rv = rev + 1]
  <2>1. x \in User /\ x.name = o.name /\ x.rv = rev + 1 /\ o.name \in Users
    BY <1>0 DEF User
  <2>2. NoPut \/ (rev < MaxWrites /\ Put("users", o.name, x))
    BY <1>1 DEF Creates, Updates
  <2> HIDE DEF x
  <2> QED BY <1>0, <2>1, <2>2, NoWrite, PutUser
<1>2. ASSUME NEW u \in Users, Deletes("users", u) PROVE StoreStep
  <2> DEFINE x == MarkedAt(api.users[u], rev + 1)
  <2>0. api.users[u] # Absent => api.users[u] \in User /\ api.users[u].name = u
    BY DEF Kept, Store
  <2>1. api.users[u] # Absent => x \in User /\ x.name = u /\ x.rv = rev + 1
    BY <1>0, <2>0, Marked
  <2>2. NoPut \/ (api.users[u] # Absent /\ rev < MaxWrites /\ Put("users", u, x))
    BY <1>2 DEF Deletes, MarkedAt
  <2> HIDE DEF x
  <2> QED BY <1>0, <2>1, <2>2, NoWrite, PutUser
<1> QED BY <1>1, <1>2

\* The calls of the API server for DevPods.
LEMMA DevPodCalls ==
    ASSUME Kept(api, rev), Streams(events, api, rev), rev \in 0 .. MaxWrites
    PROVE  /\ \A o \in DevPod : Valid(o) /\ Metered(o) =>
                  (Creates("devpods", o) \/ Updates("devpods", o) => StoreStep)
           /\ \A n \in Names : Deletes("devpods", n) => StoreStep
<1>0. rev \in Nat /\ MaxWrites \in Nat
  BY WebUIAssumption
<1>1. ASSUME NEW o \in DevPod, Valid(o), Metered(o),
             Creates("devpods", o) \/ Updates("devpods", o)
      PROVE  StoreStep
  <2> DEFINE x == [o EXCEPT !.rv = rev + 1]
  <2>1. /\ x \in DevPod /\ x.name = o.name /\ x.rv = rev + 1 /\ o.name \in Names
        /\ x.owner = o.owner /\ x.pod = o.pod /\ x.vm = o.vm /\ x.kore = o.kore /\ x.by = o.by
    BY <1>0 DEF DevPod
  <2>2. NoPut \/ (rev < MaxWrites /\ Put("devpods", o.name, x))
    BY <1>1 DEF Creates, Updates
  <2> HIDE DEF x
  <2>3. Valid(x) /\ Metered(x)
    BY <1>1, <2>1, SameRules
  <2> QED BY <1>0, <2>1, <2>2, <2>3, NoWrite, PutDevPod
<1>2. ASSUME NEW n \in Names, Deletes("devpods", n) PROVE StoreStep
  <2> DEFINE o == api.devpods[n]
             x == MarkedAt(o, rev + 1)
  <2>1. o # Absent =>
        /\ x \in DevPod /\ x.name = o.name /\ x.rv = rev + 1 /\ o \in DevPod /\ o.name = n
        /\ x.owner = o.owner /\ x.pod = o.pod /\ x.vm = o.vm /\ x.kore = o.kore /\ x.by = o.by
        /\ Valid(o) /\ Metered(o)
    <3>1. o # Absent => o \in DevPod /\ o.name = n /\ Valid(o) /\ Metered(o)
      BY DEF Kept, Store
    <3> HIDE DEF o
    <3> QED BY <1>0, <3>1, Marked
  <2>2. NoPut \/ (o # Absent /\ rev < MaxWrites /\ Put("devpods", n, x))
    BY <1>2 DEF Deletes, MarkedAt
  <2> HIDE DEF x, o
  <2>3. o # Absent => Valid(x) /\ Metered(x)
    BY <2>1, SameRules
  <2> QED BY <1>0, <2>1, <2>2, <2>3, NoWrite, PutDevPod
<1> QED BY <1>1, <1>2

-----------------------------------------------------------------------------
(* What a write leaves true *)

\* The parameters of the operations.
LEMMA OpFields ==
    ASSUME NEW op \in Ops
    PROVE  /\ op.h \in {"create", "patch", "delete", "putMe", "patchUser",
                        "createUser", "deleteUser", "login", "callback"}
           /\ op.who \in Users
           /\ op.h \in {"patch", "delete"} => op.name \in Names
           /\ op.h = "patch" => op.running \in BOOLEAN
           /\ op.h \in {"patchUser", "createUser", "deleteUser"} => op.user \in Users
BY WorldAssumption DEF Op

\* A request under way does not notice a write, except that it may come too late.
LEMMA PreparedKept ==
    ASSUME NEW q \in Job, NEW s, NEW t, NEW v \in Nat, NEW w \in Nat, v <= w,
           Newer(s, t, v), Prepared(q, s, v)
    PROVE  Prepared(q, t, w)
<1> DEFINE h == q.op.h
<1>0. q.op \in Ops /\ q.user \in Users
  BY DEF Job
<1>1. CASE h = "patch"
  <2>1. Wakes(q, s, v) /\ q.op.name \in Names
    BY <1>0, <1>1, OpFields DEF Prepared
  <2>2. q.obj.rv \in Nat
    BY <2>1 DEF Wakes, DevPod
  <2>3. Wakes(q, t, w)
    BY <2>1, <2>2 DEF Wakes, Newer
  <2> QED BY <1>1, <2>3 DEF Prepared
<1>2. ASSUME NEW u \in Users, NEW N(_), Edits(q, u, N, s, v) PROVE Edits(q, u, N, t, w)
  <2>1. q.obj.rv \in Nat
    BY <1>2 DEF Edits, User
  <2> QED BY <1>2, <2>1 DEF Edits, Newer
<1>3. CASE h = "putMe"
  BY <1>0, <1>2, <1>3 DEF Prepared
<1>4. CASE h = "patchUser"
  BY <1>0, <1>2, <1>4, OpFields DEF Prepared
<1>5. CASE h \in {"create", "delete", "createUser", "deleteUser", "login", "callback"}
  BY <1>5 DEF Prepared
<1> QED BY <1>0, <1>1, <1>3, <1>4, <1>5, OpFields

\* Requests that go on are about the same object, for the same session.
Continues ==
    /\ req' \in [Requests -> Job \cup {Idle}]
    /\ \A r \in Requests : req'[r].pc # "idle" =>
         /\ req[r].pc # "idle"
         /\ req'[r].op = req[r].op /\ req'[r].obj = req[r].obj
         /\ req'[r].user = req[r].user /\ req'[r].asked = req[r].asked
         /\ req'[r].admin => req[r].admin

\* Those that nothing happens to, and those that end.
LEMMA EndsOrWaits ==
    ASSUME IInv, req' = req \/ \E r \in Requests : Done(r)
    PROVE  Continues
<1>1. /\ req' \in [Requests -> Job \cup {Idle}]
      /\ \A r \in Requests : req'[r] = req[r] \/ req'[r] = Idle
  BY DEF IInv, Requested, Done
<1>2. \A r \in Requests : req'[r].pc # "idle" => req'[r] = req[r]
  BY <1>1 DEF Idle
<1> QED BY <1>1, <1>2 DEF Continues

\* checkQuotaFor and the write keep a request's operation, object and user.
LEMMA PreparedSame ==
    ASSUME NEW p, NEW q, q.op = p.op, q.obj = p.obj, q.user = p.user,
           NEW s, NEW v, Prepared(p, s, v)
    PROVE  Prepared(q, s, v)
BY DEF Prepared, Wakes, Edits

\* A step that writes, in which requests go on or end.
LEMMA WriteStep ==
    ASSUME IInv, StoreStep, UNCHANGED <<clock, cache, adminAt>>, Tokens', Continues
    PROVE  IInv'
<1>0. rev \in Nat /\ rev' \in Nat /\ rev <= rev' /\ rev' \in 0 .. MaxWrites
  BY WebUIAssumption DEF IInv, StoreStep
<1>1. Kept(api', rev') /\ Newer(api, api', rev) /\ Streams(events', api', rev')
  BY DEF StoreStep
<1>2. Kept(cache', rev')
  <2>1. /\ \A w \in Users : cache.users[w] # Absent => cache.users[w].rv \in Nat
        /\ \A m \in Names : cache.devpods[m] # Absent => cache.devpods[m].rv \in Nat
    BY DEF IInv, Kept, Store, User, DevPod
  <2> QED BY <1>0, <2>1 DEF IInv, Kept
<1>3. Agree(api', cache')
  <2>1. /\ \A w \in Users : cache.users[w] # Absent => cache.users[w].rv \in Nat
        /\ \A m \in Names : cache.devpods[m] # Absent => cache.devpods[m].rv \in Nat
    BY DEF IInv, Kept, Store, User, DevPod
  <2>2. /\ \A w \in Users : cache.users[w] # Absent => cache.users[w].rv # rev + 1
        /\ \A m \in Names : cache.devpods[m] # Absent => cache.devpods[m].rv # rev + 1
    BY <1>0, <2>1 DEF IInv, Kept
  <2> QED BY <1>1, <2>2 DEF IInv, Agree, Newer
<1>5. Requested'
  <2>1. ASSUME NEW r \in Requests, req'[r].pc # "idle"
        PROVE  req'[r] \in Job /\ Prepared(req'[r], api', rev')
    <3>1. req[r] \in Job /\ Prepared(req[r], api, rev)
      BY <2>1 DEF IInv, Requested, Continues
    <3>2. Prepared(req[r], api', rev')
      BY <1>0, <1>1, <3>1, PreparedKept
    <3>3. Prepared(req'[r], api', rev')
      BY <2>1, <3>2, PreparedSame DEF Continues
    <3> QED BY <2>1, <3>3 DEF Continues, Idle
  <2> QED BY <2>1 DEF Continues, Requested
<1>6. Rights'
  BY DEF IInv, Rights, Continues
<1> QED BY <1>0, <1>1, <1>2, <1>3, <1>5, <1>6 DEF IInv

-----------------------------------------------------------------------------
(* Requests *)

\* Steps that concern no session.
LEMMA SameTokens ==
    ASSUME IInv, UNCHANGED <<clock, cache, tokens, adminAt>>
    PROVE  Tokens'
BY DEF IInv, Tokens, adminFor, IsAdmin

\* A step of one request that writes nothing.
LEMMA RequestStep ==
    ASSUME IInv, UNCHANGED unchangedButReq, NEW r \in Requests, NEW q,
           req' = [req EXCEPT ![r] = q],
           \/ q = Idle
           \/ /\ q \in Job /\ Prepared(q, api, rev)
              /\ q.admin => q.asked <= adminAt[q.user]
    PROVE  IInv'
<1>1. /\ req' \in [Requests -> Job \cup {Idle}]
      /\ \A p \in Requests : req'[p] = IF p = r THEN q ELSE req[p]
  BY DEF IInv, Requested
<1>2. Requested' /\ Rights'
  <2> SUFFICES ASSUME NEW p \in Requests, req'[p].pc # "idle"
               PROVE  /\ req'[p] \in Job /\ Prepared(req'[p], api, rev)
                      /\ req'[p].admin => req'[p].asked <= adminAt[req'[p].user]
    BY <1>1 DEF Requested, Rights, unchangedButReq
  <2>1. CASE p = r
    BY <1>1, <2>1 DEF Idle
  <2>2. CASE p # r
    BY <1>1, <2>2 DEF IInv, Requested, Rights
  <2> QED BY <2>1, <2>2
<1>3. Tokens'
  BY SameTokens DEF unchangedButReq
<1> QED BY <1>2, <1>3 DEF IInv, unchangedButReq

\* What a request holds when its handler has read what it needs.
LEMMA BusyType ==
    ASSUME IInv, NEW pc \in {"provision", "mint", "user", "write"}, NEW op \in Ops,
           NEW sess, sess.user \in Users, sess.admin \in BOOLEAN,
           sess.asked \in Nat, sess.minted \in Nat, NEW obj \in DevPod \cup User,
           sess.admin => sess.asked <= adminAt[sess.user]
    PROVE  LET q == Busy(pc, op, sess, obj)
           IN  /\ q \in Job /\ q.op = op /\ q.obj = obj /\ q.user = sess.user
               /\ q.pc = pc
               /\ q.admin => q.asked <= adminAt[q.user]
<1>0. DefaultQuota \in Quota /\ rev \in Nat
  BY WorldAssumption DEF IInv
<1>1. PICK b \in BOOLEAN : sess.admin = b
  OBVIOUS
<1> QED BY <1>0, <1>1 DEF Busy, Job

\* A token is a session ...
LEMMA TokenSession ==
    ASSUME IInv, NEW t \in tokens
    PROVE  /\ t.user \in Users /\ t.admin \in BOOLEAN /\ t.asked \in Nat /\ t.minted \in Nat
           /\ t.expiry \in Nat
           /\ t.admin => t.asked <= adminAt[t.user]
BY DEF IInv, Tokens, Token

\* ... and so is what a login finds out about a user.
LEMMA AsksSession ==
    ASSUME IInv, NEW u \in Users
    PROVE  LET t == Asks(u)
           IN  /\ t.user = u /\ t.admin \in BOOLEAN /\ t.asked \in Nat /\ t.minted \in Nat
               /\ t.admin => t.asked <= adminAt[t.user]
<1>0. clock \in Nat /\ (adminFor(u) => adminAt[u] = clock)
  BY WebUIAssumption DEF IInv, Tokens
<1>1. PICK b \in BOOLEAN : b = adminFor(u)
  <2>1. CASE adminFor(u)
    BY <2>1 DEF adminFor, IsAdmin
  <2>2. CASE ~adminFor(u)
    BY <2>2 DEF adminFor, IsAdmin
  <2> QED BY <2>1, <2>2
<1> QED BY <1>0, <1>1 DEF Asks

\* Turning a DevPod on or off changes nothing else.
LEMMA TurnedType ==
    ASSUME NEW dp \in DevPod, NEW b \in BOOLEAN
    PROVE  LET x == Turned(dp, b)
           IN  /\ x \in DevPod /\ x.name = dp.name /\ x.rv = dp.rv /\ x.owner = dp.owner
               /\ x.pod = dp.pod /\ x.vm = dp.vm /\ x.kore = dp.kore /\ x.by = dp.by
<1>1. Turned(dp, b) \in DevPod
  BY Zenon DEF Turned, DevPod
<1> QED BY <1>1 DEF Turned, DevPod

\* Every handler keeps the invariant up to its first call.
LEMMA HandleStep ==
    ASSUME IInv, NEW r \in Requests, NEW t \in tokens, NEW op \in Ops,
           \/ handleCreateDevPod(r, t, op) \/ handlePatchDevPod(r, t, op)
           \/ handleDeleteDevPod(r, t, op) \/ handlePutMe(r, t, op)
           \/ handlePatchUser(r, t, op) \/ handleAdminUser(r, t, op)
    PROVE  IInv'
<1> DEFINE u == t.user
<1>0. /\ t.user \in Users /\ t.admin \in BOOLEAN /\ t.asked \in Nat /\ t.minted \in Nat
      /\ t.admin => t.asked <= adminAt[t.user]
      /\ Kept(cache, rev) /\ Agree(api, cache)
  BY TokenSession DEF IInv
<1>1. CASE handleCreateDevPod(r, t, op)
  <2> DEFINE by == IF t.admin THEN "admin" ELSE IF op.tpl # Unset THEN "template" ELSE "user"
             pc == IF t.admin THEN "write" ELSE "user"
             x == [Stamped(op) EXCEPT !.by = by]
             q == Busy(pc, op, t, x)
  <2>1. op.h = "create" /\ op.dp \in DevPod /\ Stamped(op) \in DevPod
    BY <1>1, StampedType DEF handleCreateDevPod
  <2>2. req' = [req EXCEPT ![r] = q] /\ UNCHANGED unchangedButReq
    BY <1>1 DEF handleCreateDevPod
  <2>3. /\ by \in {"admin", "template", "user"} /\ pc \in {"user", "write"}
        /\ by # "admin" => ~t.admin
        /\ by = "user" => ~t.admin /\ op.tpl = Unset
    OBVIOUS
  <2> HIDE DEF by, pc
  <2>4. /\ x \in DevPod /\ x.by = by /\ x.vm = Stamped(op).vm /\ x.pod = Stamped(op).pod
        /\ x.kore = Stamped(op).kore
    BY <2>1, <2>3 DEF DevPod
  <2>5. ~t.admin => Meterable(Stamped(op)) /\ ~KoreAnnotationKeys(op.dp)
    BY <1>1 DEF handleCreateDevPod, rejectKore
  <2>6. by = "user" => Stamped(op) = op.dp
    BY <2>3 DEF Stamped
  <2> HIDE DEF x
  <2>7. Metered(x)
    BY <2>3, <2>4, <2>5, <2>6 DEF Metered, Meterable, RequireLimits, KoreAnnotationKeys
  <2>8. /\ q \in Job /\ q.op = op /\ q.obj = x /\ q.pc = pc
        /\ q.admin => q.asked <= adminAt[q.user]
    BY <1>0, <2>3, <2>4, BusyType
  <2> HIDE DEF q
  <2>9. Prepared(q, api, rev)
    BY <2>1, <2>4, <2>7, <2>8 DEF Prepared
  <2> QED BY <2>2, <2>3, <2>8, <2>9, RequestStep
<1>2. CASE handlePatchDevPod(r, t, op)
  <2> DEFINE dp == cache.devpods[op.name]
             pc == IF op.running /\ ~t.admin THEN "user" ELSE "write"
             x == Turned(dp, op.running)
             q == Busy(pc, op, t, x)
  <2>0. op.name \in Names /\ op.h = "patch" /\ op.running \in BOOLEAN
    BY <1>2, OpFields DEF handlePatchDevPod
  <2>1. /\ dp \in DevPod /\ dp # Absent /\ dp.name = op.name /\ dp.rv <= rev
        /\ Valid(dp) /\ Metered(dp)
    BY <1>0, <1>2, <2>0 DEF handlePatchDevPod, Owns, Kept, Store
  <2>2. req' = [req EXCEPT ![r] = q] /\ UNCHANGED unchangedButReq
    BY <1>2 DEF handlePatchDevPod, Turned
  <2>3. pc \in {"user", "write"}
    OBVIOUS
  <2>4. api.devpods[op.name] # Absent /\ api.devpods[op.name].rv = dp.rv
           => api.devpods[op.name] = dp
    BY <1>0, <2>0, <2>1 DEF Agree
  <2> HIDE DEF dp, pc
  <2>5. /\ x \in DevPod /\ x.name = dp.name /\ x.rv = dp.rv /\ x.owner = dp.owner
        /\ x.pod = dp.pod /\ x.vm = dp.vm /\ x.kore = dp.kore /\ x.by = dp.by
    BY <2>0, <2>1, TurnedType
  <2>6. Valid(x) /\ Metered(x)
    <3> HIDE DEF x
    <3> QED BY <2>1, <2>5, SameRules
  <2>7. /\ q \in Job /\ q.op = op /\ q.obj = x /\ q.pc = pc
        /\ q.admin => q.asked <= adminAt[q.user]
    BY <1>0, <2>3, <2>5, BusyType
  <2> HIDE DEF q
  <2>8. Prepared(q, api, rev)
    BY <2>0, <2>1, <2>4, <2>5, <2>6, <2>7 DEF Prepared, Wakes
  <2> QED BY <2>2, <2>3, <2>7, <2>8, RequestStep
<1>3. CASE handleDeleteDevPod(r, t, op)
  <2> DEFINE x == cache.devpods[op.name]
             q == Busy("write", op, t, x)
  <2>1. op.name \in Names /\ op.h = "delete"
    BY <1>3, OpFields DEF handleDeleteDevPod
  <2>2. x \in DevPod
    BY <1>0, <1>3, <2>1 DEF handleDeleteDevPod, Owns, Kept, Store
  <2>3. req' = [req EXCEPT ![r] = q] /\ UNCHANGED unchangedButReq
    BY <1>3 DEF handleDeleteDevPod
  <2>4. /\ q \in Job /\ q.op = op /\ q.obj = x /\ q.pc = "write"
        /\ q.admin => q.asked <= adminAt[q.user]
    BY <1>0, <2>2, BusyType
  <2> HIDE DEF q
  <2>5. Prepared(q, api, rev)
    BY <2>1, <2>2, <2>4 DEF Prepared
  <2> QED BY <2>3, <2>4, <2>5, RequestStep
<1>4. CASE handlePutMe(r, t, op)
  <2> DEFINE me == cache.users[u]
             q == Busy("write", op, t, WithOwn(op, me))
  <2>1. me \in User /\ me # Absent /\ me.name = u /\ me.rv <= rev /\ op.h = "putMe"
    BY <1>0, <1>4 DEF handlePutMe, Kept, Store
  <2>2. WithOwn(op, me) \in User /\ WithOwn(op, me).name = u /\ WithOwn(op, me).rv = me.rv
    BY <2>1, EditType
  <2>3. req' = [req EXCEPT ![r] = q] /\ UNCHANGED unchangedButReq
    BY <1>4 DEF handlePutMe
  <2>4. /\ q \in Job /\ q.op = op /\ q.obj = WithOwn(op, me) /\ q.user = u /\ q.pc = "write"
        /\ q.admin => q.asked <= adminAt[q.user]
    BY <1>0, <2>2, BusyType
  <2>5. api.users[u] # Absent /\ api.users[u].rv = me.rv => api.users[u] = me
    BY <1>0, <2>1 DEF Agree
  <2> HIDE DEF q, me
  <2>6. Prepared(q, api, rev)
    BY <2>1, <2>2, <2>4, <2>5 DEF Prepared, Edits
  <2> QED BY <2>3, <2>4, <2>6, RequestStep
<1>5. CASE handlePatchUser(r, t, op)
  <2> DEFINE o == cache.users[op.user]
             q == Busy("write", op, t, Patched(op, o))
  <2>0. op.user \in Users /\ op.h = "patchUser"
    BY <1>5, OpFields DEF handlePatchUser
  <2>1. o \in User /\ o # Absent /\ o.name = op.user /\ o.rv <= rev
    BY <1>0, <1>5, <2>0 DEF handlePatchUser, Kept, Store
  <2>2. Patched(op, o) \in User /\ Patched(op, o).name = op.user /\ Patched(op, o).rv = o.rv
    BY <2>0, <2>1, EditType
  <2>3. req' = [req EXCEPT ![r] = q] /\ UNCHANGED unchangedButReq
    BY <1>5 DEF handlePatchUser
  <2>4. /\ q \in Job /\ q.op = op /\ q.obj = Patched(op, o) /\ q.pc = "write"
        /\ q.admin => q.asked <= adminAt[q.user]
    BY <1>0, <2>2, BusyType
  <2>5. api.users[op.user] # Absent /\ api.users[op.user].rv = o.rv => api.users[op.user] = o
    BY <1>0, <2>0, <2>1 DEF Agree
  <2> HIDE DEF q, o
  <2>6. Prepared(q, api, rev)
    BY <2>0, <2>1, <2>2, <2>4, <2>5 DEF Prepared, Edits
  <2> QED BY <2>3, <2>4, <2>6, RequestStep
<1>6. CASE handleAdminUser(r, t, op)
  <2> DEFINE x == NewUser(op.user, "p")
             q == Busy("write", op, t, x)
  <2>1. op.user \in Users /\ op.h \in {"createUser", "deleteUser"}
    BY <1>6, OpFields DEF handleAdminUser
  <2>2. x \in User
    BY <2>1 DEF NewUser, User, Passwords
  <2>3. req' = [req EXCEPT ![r] = q] /\ UNCHANGED unchangedButReq
    BY <1>6 DEF handleAdminUser
  <2> HIDE DEF x
  <2>4. /\ q \in Job /\ q.op = op /\ q.obj = x /\ q.pc = "write"
        /\ q.admin => q.asked <= adminAt[q.user]
    BY <1>0, <2>2, BusyType
  <2> HIDE DEF q
  <2>5. Prepared(q, api, rev)
    BY <2>1, <2>2, <2>4 DEF Prepared
  <2> QED BY <2>3, <2>4, <2>5, RequestStep
<1> QED BY <1>1, <1>2, <1>3, <1>4, <1>5, <1>6

\* Logins: a request without a session.
LEMMA LoginStep ==
    ASSUME IInv, NEW r \in Requests, NEW op \in Ops,
           handlePasswordLogin(r, op) \/ HandleCallback(r, op)
    PROVE  IInv'
<1> DEFINE u == op.who
           t == Asks(u)
<1>0. u \in Users /\ Kept(cache, rev)
  BY OpFields DEF IInv
<1>t. /\ t.user \in Users /\ t.admin \in BOOLEAN /\ t.asked \in Nat /\ t.minted \in Nat
      /\ t.admin => t.asked <= adminAt[t.user]
  BY <1>0, AsksSession
<1> HIDE DEF t
<1>1. PICK pc \in {"provision", "mint"}, o \in User :
         /\ req' = [req EXCEPT ![r] = Busy(pc, op, t, o)]
         /\ UNCHANGED unchangedButReq /\ op.h \in {"login", "callback"}
  <2>1. CASE handlePasswordLogin(r, op)
    <3>1. cache.users[u] \in User
      BY <1>0, <2>1 DEF handlePasswordLogin, Kept, Store
    <3> QED BY <2>1, <3>1 DEF handlePasswordLogin, t
  <2>2. CASE HandleCallback(r, op)
    <3>1. NewUser(u, Unset) \in User
      BY <1>0 DEF NewUser, User
    <3> QED BY <2>2, <3>1 DEF HandleCallback, t
  <2> QED BY <2>1, <2>2
<1> DEFINE q == Busy(pc, op, t, o)
<1>2. /\ q \in Job /\ q.op = op /\ q.obj = o
      /\ q.admin => q.asked <= adminAt[q.user]
  BY <1>t, <1>1, BusyType
<1> HIDE DEF q
<1>3. Prepared(q, api, rev)
  BY <1>1, <1>2 DEF Prepared
<1> QED BY <1>1, <1>2, <1>3, RequestStep DEF q

\* ensureUser: the request goes on.
LEMMA ProvisionStep ==
    ASSUME IInv, NEW r \in Requests, ensureUser(r)
    PROVE  IInv'
<1> DEFINE q == req[r]
           x == [q EXCEPT !.pc = "admin"]
<1>0. /\ q \in Job /\ q.pc = "provision" /\ req \in [Requests -> Job \cup {Idle}]
      /\ Kept(api, rev) /\ Streams(events, api, rev) /\ rev \in 0 .. MaxWrites
  BY DEF IInv, Requested, ensureUser
<1>1. Creates("users", NewUser(q.user, Unset)) /\ req' = [req EXCEPT ![r] = x]
  BY <1>0 DEF ensureUser
<1>2. x \in Job /\ x.op = q.op /\ x.obj = q.obj /\ x.user = q.user /\ x.asked = q.asked
  BY <1>0 DEF Job
<1>3. x.admin => q.admin
  <2>1. PICK b \in BOOLEAN : q.admin = b
    BY <1>0 DEF Job
  <2>2. x.admin = b
    BY <1>0, <2>1 DEF Job
  <2> QED BY <2>1, <2>2
<1>4. Continues
  <2> HIDE DEF x
  <2>1. \A p \in Requests : req'[p] = IF p = r THEN x ELSE req[p]
    BY <1>0, <1>1
  <2> QED BY <1>0, <1>1, <1>2, <1>3, <2>1 DEF Continues
<1>5. StoreStep
  <2>1. NewUser(q.user, Unset) \in User
    BY <1>0 DEF Job, NewUser, User
  <2> QED BY <1>0, <1>1, <2>1, UserCalls
<1>6. UNCHANGED <<clock, cache, tokens, adminAt>>
  BY DEF ensureUser
<1> QED BY <1>4, <1>5, <1>6, SameTokens, WriteStep

\* The look at the admin bit: the request is now for what the caches show.
LEMMA CallbackStep ==
    ASSUME IInv, NEW r \in Requests, CallbackAdmin(r)
    PROVE  IInv'
<1> DEFINE p == req[r]
           t == Asks(p.user)
           q == Busy("mint", p.op, t, p.obj)
<1>0. /\ p \in Job /\ Prepared(p, api, rev) /\ p.user \in Users /\ p.op \in Ops
      /\ p.obj \in DevPod \cup User /\ req \in [Requests -> Job \cup {Idle}]
  BY DEF IInv, Requested, CallbackAdmin, Job
<1>1. req' = [req EXCEPT ![r] = q] /\ UNCHANGED unchangedButReq
  BY <1>0 DEF CallbackAdmin
<1>2. /\ t.user = p.user /\ t.admin \in BOOLEAN /\ t.asked \in Nat /\ t.minted \in Nat
      /\ t.admin => t.asked <= adminAt[t.user]
  BY <1>0, AsksSession
<1> HIDE DEF t
<1>3. /\ q \in Job /\ q.op = p.op /\ q.obj = p.obj /\ q.user = p.user
      /\ q.admin => q.asked <= adminAt[q.user]
  BY <1>0, <1>2, BusyType
<1> HIDE DEF q
<1>4. Prepared(q, api, rev)
  BY <1>0, <1>3, PreparedSame
<1> QED BY <1>1, <1>3, <1>4, RequestStep

\* The token: its life starts now, its admin bit was read before.
LEMMA SessionStep ==
    ASSUME IInv, NEW r \in Requests, setSession(r)
    PROVE  IInv'
<1> DEFINE q == req[r]
           t == Mint(q)
<1>0. /\ q \in Job /\ clock \in Nat /\ TTL \in Nat /\ clock \in 0 .. MaxTime
      /\ q.admin => q.asked <= adminAt[q.user]
  BY WebUIAssumption DEF IInv, Requested, Rights, setSession
<1>1. PICK b \in BOOLEAN : q.admin = b
  BY <1>0 DEF Job
<1>2. /\ t \in Token /\ t.minted <= clock /\ t.expiry <= t.minted + TTL
      /\ t.admin => t.asked <= adminAt[t.user]
  <2>1. q.user \in Users /\ q.asked \in Nat
    BY <1>0 DEF Job
  <2> QED BY <1>0, <1>1, <2>1 DEF Mint, Token
<1>3. tokens' = tokens \cup {t} /\ Done(r) /\ UNCHANGED <<clock, api, cache, events, rev, adminAt>>
  BY DEF setSession
<1> HIDE DEF t
<1>4. Tokens'
  <2>1. \A u \in Users : adminFor(u)' = adminFor(u)
    BY <1>3 DEF adminFor, IsAdmin
  <2> QED BY <1>2, <1>3, <2>1 DEF IInv, Tokens
<1>5. StoreStep
  BY <1>3, NoWrite DEF IInv, NoPut
<1>6. Continues
  BY <1>3, EndsOrWaits
<1> QED BY <1>3, <1>4, <1>5, <1>6, WriteStep

\* The reads of the quota gate ...
LEMMA CheckStep ==
    ASSUME IInv, NEW r \in Requests, checkQuotaUser(r) \/ checkQuotaList(r)
    PROVE  IInv'
<1> DEFINE p == req[r]
<1>0. /\ p \in Job /\ Prepared(p, api, rev) /\ p.user \in Users
      /\ p.admin => p.asked <= adminAt[p.user]
  BY DEF IInv, Requested, Rights, checkQuotaUser, checkQuotaList, Job
<1>b. PICK b \in BOOLEAN : p.admin = b
  BY <1>0 DEF Job
<1>1. CASE checkQuotaUser(r)
  <2> DEFINE e == EffectiveQuota(cache.users[p.user])
             f == cache.users[p.user] = api.users[p.user]
             q == [p EXCEPT !.pc = "list", !.quota = e, !.since = rev, !.fresh = f]
  <2>1. req' = [req EXCEPT ![r] = q] /\ UNCHANGED unchangedButReq
    BY <1>1 DEF checkQuotaUser, IInv, Requested
  <2>2. e \in Quota /\ f \in BOOLEAN /\ rev \in Nat
    BY <1>0, QuotaType DEF IInv, Kept, Store
  <2> HIDE DEF e, f
  <2>3. q \in Job
    BY <1>0, <2>2, Zenon DEF Job
  <2>4. /\ q.op = p.op /\ q.obj = p.obj /\ q.user = p.user
        /\ q.asked = p.asked /\ q.admin = b
    BY <1>0, <1>b DEF Job
  <2> HIDE DEF q
  <2> QED BY <1>0, <1>b, <2>1, <2>3, <2>4, PreparedSame, RequestStep
<1>2. CASE checkQuotaList(r)
  <2> DEFINE f == p.fresh /\ Existing(r, cache) = Existing(r, api)
             q == [p EXCEPT !.pc = "write", !.fresh = f]
  <2>1. /\ Done(r) \/ req' = [req EXCEPT ![r] = q]
        /\ UNCHANGED unchangedButReq
    BY <1>2 DEF checkQuotaList, IInv, Requested
  <2>2. f \in BOOLEAN
    OBVIOUS
  <2> HIDE DEF f
  <2>3. q \in Job
    BY <1>0, <2>2, Zenon DEF Job
  <2>4. /\ q.op = p.op /\ q.obj = p.obj /\ q.user = p.user
        /\ q.asked = p.asked /\ q.admin = b
    BY <1>0, <1>b DEF Job
  <2> HIDE DEF q
  <2> QED BY <1>0, <1>b, <2>1, <2>3, <2>4, PreparedSame, RequestStep DEF Done
<1> QED BY <1>1, <1>2

\* ... and the call that ends a request.
LEMMA CallStep ==
    ASSUME IInv, NEW r \in Requests, Write(r)
    PROVE  IInv'
<1> DEFINE q == req[r]
<1>0. /\ q \in Job /\ Prepared(q, api, rev) /\ q.op \in Ops
      /\ Kept(api, rev) /\ Streams(events, api, rev) /\ rev \in 0 .. MaxWrites
  BY DEF IInv, Requested, Write, Job
<1>1. StoreStep
  <2>1. CASE q.op.h = "create"
    <3>1. q.obj \in DevPod /\ Metered(q.obj)
      BY <1>0, <2>1 DEF Prepared
    <3>2. (Valid(q.obj) /\ Creates("devpods", q.obj)) \/ NoPut
      BY <2>1 DEF Write
    <3> QED BY <1>0, <3>1, <3>2, DevPodCalls, NoWrite
  <2>2. CASE q.op.h = "patch"
    <3>1. q.obj \in DevPod /\ Valid(q.obj) /\ Metered(q.obj)
      BY <1>0, <2>2 DEF Prepared, Wakes
    <3>2. Updates("devpods", q.obj)
      BY <2>2 DEF Write, Submitted
    <3> QED BY <1>0, <3>1, <3>2, DevPodCalls
  <2>3. CASE q.op.h = "delete"
    <3>1. q.obj \in DevPod /\ q.obj.name \in Names
      BY <1>0, <2>3 DEF Prepared, DevPod
    <3>2. Deletes("devpods", q.obj.name)
      BY <2>3 DEF Write
    <3> QED BY <1>0, <3>1, <3>2, DevPodCalls
  <2>4. CASE q.op.h \in {"putMe", "patchUser"}
    <3>1. q.obj \in User
      BY <1>0, <2>4 DEF Prepared, Edits
    <3>2. Updates("users", q.obj)
      BY <2>4 DEF Write, Submitted
    <3> QED BY <1>0, <3>1, <3>2, UserCalls
  <2>5. CASE q.op.h = "createUser"
    <3>1. q.obj \in User
      BY <1>0, <2>5 DEF Prepared
    <3>2. Creates("users", q.obj)
      BY <2>5 DEF Write
    <3> QED BY <1>0, <3>1, <3>2, UserCalls
  <2>6. CASE q.op.h \in {"deleteUser", "login", "callback"}
    <3>1. q.obj \in User /\ q.obj.name \in Users
      BY <1>0, <2>6 DEF Prepared, User
    <3>2. Deletes("users", q.obj.name)
      BY <2>6 DEF Write
    <3> QED BY <1>0, <3>1, <3>2, UserCalls
  <2> QED BY <1>0, <2>1, <2>2, <2>3, <2>4, <2>5, <2>6, OpFields
<1>2. Done(r) /\ UNCHANGED <<clock, cache, tokens, adminAt>>
  BY DEF Write
<1>3. Continues
  BY <1>2, EndsOrWaits
<1> QED BY <1>1, <1>2, <1>3, SameTokens, WriteStep

-----------------------------------------------------------------------------
(* The surroundings *)

\* A copy of a User reaches the cache.
LEMMA UsersDelivered ==
    ASSUME Kept(cache, rev), Agree(api, cache), Streams(events, api, rev),
           events.users # <<>>,
           cache' = [cache EXCEPT !["users"][Head(events.users).n] = Head(events.users).o],
           events' = [events EXCEPT !["users"] = Tail(events.users)]
    PROVE  Kept(cache', rev) /\ Agree(api, cache') /\ Streams(events', api, rev)
<1> DEFINE e == Head(events.users)
<1>0. /\ events.users \in Seq(UserCopy) /\ Len(events.users) \in Nat /\ Len(events.users) > 0
      /\ e = events.users[1] /\ e \in UserCopy
  BY DEF Streams
<1>1. UserEvent(e, api, rev)
  BY <1>0 DEF Streams
<1>2. Kept(cache', rev) /\ Agree(api, cache')
  <2> HIDE DEF e
  <2>1. cache' = [cache EXCEPT !["users"][e.n] = e.o] /\ e.n \in Users /\ e.o \in User \cup {Absent}
    BY <1>0 DEF e, UserCopy
  <2>2. /\ cache'.users = [cache.users EXCEPT ![e.n] = e.o] /\ cache'.devpods = cache.devpods
        /\ cache' \in Store
    BY <2>1 DEF Kept, Store
  <2>3. \A u \in Users : cache'.users[u] = IF u = e.n THEN e.o ELSE cache.users[u]
    BY <2>2 DEF Kept, Store
  <2>4. Kept(cache', rev)
    BY <1>1, <2>2, <2>3 DEF Kept, UserEvent
  <2>5. Agree(api, cache')
    BY <1>1, <2>2, <2>3 DEF Agree, UserEvent
  <2> QED BY <2>4, <2>5
<1>3. Streams(events', api, rev)
  <2>1. /\ events'.users = Tail(events.users) /\ events'.devpods = events.devpods
        /\ Tail(events.users) \in Seq(UserCopy)
        /\ events' \in [users : Seq(UserCopy), devpods : Seq(DevPodCopy)]
    <3>1. events \in [users : Seq(UserCopy), devpods : Seq(DevPodCopy)]
      BY DEF Streams
    <3>2. Tail(events.users) \in Seq(UserCopy)
      BY <1>0
    <3>3. \A z \in Seq(UserCopy) :
            LET y == [events EXCEPT !["users"] = z]
            IN  /\ y.users = z /\ y.devpods = events.devpods
                /\ y \in [users : Seq(UserCopy), devpods : Seq(DevPodCopy)]
      BY <3>1
    <3> QED BY <3>1, <3>2, <3>3
  <2>2. ASSUME NEW i \in 1 .. Len(events'.users)
        PROVE  UserEvent(events'.users[i], api, rev)
    <3>1. i + 1 \in 1 .. Len(events.users) /\ events'.users[i] = events.users[i + 1]
      BY <1>0, <2>1
    <3> QED BY <3>1 DEF Streams
  <2> QED BY <2>1, <2>2 DEF Streams
<1> QED BY <1>2, <1>3

\* A copy of a DevPod reaches the cache.
LEMMA DevPodsDelivered ==
    ASSUME Kept(cache, rev), Agree(api, cache), Streams(events, api, rev),
           events.devpods # <<>>,
           cache' = [cache EXCEPT !["devpods"][Head(events.devpods).n] = Head(events.devpods).o],
           events' = [events EXCEPT !["devpods"] = Tail(events.devpods)]
    PROVE  Kept(cache', rev) /\ Agree(api, cache') /\ Streams(events', api, rev)
<1> DEFINE e == Head(events.devpods)
<1>0. /\ events.devpods \in Seq(DevPodCopy) /\ Len(events.devpods) \in Nat /\ Len(events.devpods) > 0
      /\ e = events.devpods[1] /\ e \in DevPodCopy
  BY DEF Streams
<1>1. DevPodEvent(e, api, rev)
  <2>1. 1 \in 1 .. Len(events.devpods)
    BY <1>0
  <2> HIDE DEF e
  <2> QED BY <1>0, <2>1 DEF Streams
<1>2. Kept(cache', rev) /\ Agree(api, cache')
  <2> HIDE DEF e
  <2>1. cache' = [cache EXCEPT !["devpods"][e.n] = e.o] /\ e.n \in Names /\ e.o \in DevPod \cup {Absent}
    BY <1>0 DEF e, DevPodCopy
  <2>2. /\ cache'.devpods = [cache.devpods EXCEPT ![e.n] = e.o] /\ cache'.users = cache.users
        /\ cache' \in Store
    BY <2>1 DEF Kept, Store
  <2>3. \A n \in Names : cache'.devpods[n] = IF n = e.n THEN e.o ELSE cache.devpods[n]
    BY <2>2 DEF Kept, Store
  <2>4. Kept(cache', rev)
    BY <1>1, <2>2, <2>3 DEF Kept, DevPodEvent
  <2>5. Agree(api, cache')
    BY <1>1, <2>2, <2>3 DEF Agree, DevPodEvent
  <2> QED BY <2>4, <2>5
<1>3. Streams(events', api, rev)
  <2>1. /\ events'.devpods = Tail(events.devpods) /\ events'.users = events.users
        /\ Tail(events.devpods) \in Seq(DevPodCopy)
        /\ events' \in [users : Seq(UserCopy), devpods : Seq(DevPodCopy)]
    <3>1. events \in [users : Seq(UserCopy), devpods : Seq(DevPodCopy)]
      BY DEF Streams
    <3>2. Tail(events.devpods) \in Seq(DevPodCopy)
      BY <1>0
    <3>3. \A z \in Seq(DevPodCopy) :
            LET y == [events EXCEPT !["devpods"] = z]
            IN  /\ y.devpods = z /\ y.users = events.users
                /\ y \in [users : Seq(UserCopy), devpods : Seq(DevPodCopy)]
      BY <3>1
    <3> QED BY <3>1, <3>2, <3>3
  <2>2. ASSUME NEW i \in 1 .. Len(events'.devpods)
        PROVE  DevPodEvent(events'.devpods[i], api, rev)
    <3>1. i + 1 \in 1 .. Len(events.devpods) /\ events'.devpods[i] = events.devpods[i + 1]
      BY <1>0, <2>1
    <3> QED BY <3>1 DEF Streams
  <2> QED BY <2>1, <2>2 DEF Streams
<1> QED BY <1>2, <1>3

\* The clock, the watch streams, kubectl and the controllers keep the invariant.
LEMMA WorldStep ==
    ASSUME IInv, World
    PROVE  IInv'
<1>0. /\ Kept(api, rev) /\ Kept(cache, rev) /\ Agree(api, cache) /\ rev \in 0 .. MaxWrites
      /\ Streams(events, api, rev)
      /\ rev \in Nat /\ clock \in Nat /\ MaxTime \in Nat /\ TTL \in Nat
      /\ tokens \subseteq Token /\ adminAt \in [Users -> Int]
  BY WebUIAssumption DEF IInv, Tokens
<1>s. ASSUME NEW c, NEW t \in Nat, clock <= t, cache' = c, clock' = t, adminAt' = Seen(c, t),
             UNCHANGED <<tokens, req>>
      PROVE  Tokens' /\ Rights'
  <2>1. /\ adminAt' \in [Users -> Int]
        /\ \A u \in Users : adminAt'[u] = IF adminFor(u)' THEN t ELSE adminAt[u]
    BY <1>0, <1>s DEF Seen, adminFor
  <2>3. ASSUME NEW u \in Users
        PROVE  /\ adminFor(u)' => adminAt'[u] = t
               /\ adminAt'[u] <= t /\ adminAt[u] <= adminAt'[u]
               /\ adminAt[u] \in Int /\ adminAt'[u] \in Int
    BY <1>0, <1>s, <2>1 DEF IInv, Tokens
  <2>4. ASSUME NEW x \in tokens
        PROVE  /\ x.minted <= t /\ x.expiry <= x.minted + TTL
               /\ x.admin => x.asked <= adminAt'[x.user]
    <3>1. x.user \in Users /\ x.minted \in Nat /\ x.asked \in Nat
      BY <1>0 DEF Token
    <3> QED BY <1>0, <1>s, <2>3, <3>1 DEF IInv, Tokens
  <2>5. Rights'
    <3> SUFFICES ASSUME NEW r \in Requests, req[r].pc # "idle", req[r].admin
                 PROVE  req[r].asked <= adminAt'[req[r].user]
      BY <1>s DEF Rights
    <3>1. req[r].user \in Users /\ req[r].asked \in Nat
      BY DEF IInv, Requested, Job
    <3> QED BY <2>3, <3>1 DEF IInv, Rights
  <2> QED BY <1>0, <1>s, <2>1, <2>3, <2>4, <2>5 DEF Tokens
<1>1. CASE Tick
  <2>1. Tokens' /\ Rights' /\ clock' \in 0 .. MaxTime
    BY <1>0, <1>1, <1>s DEF Tick
  <2>2. Requested'
    BY <1>1 DEF Tick, IInv, Requested
  <2> QED BY <1>0, <1>1, <2>1, <2>2 DEF Tick, IInv
<1>2. ASSUME NEW kind \in {"users", "devpods"}, Sync(kind) PROVE IInv'
  <2>1. Kept(cache', rev) /\ Agree(api, cache') /\ Streams(events', api, rev)
    <3>1. CASE kind = "users"
      BY <1>0, <1>2, <3>1, UsersDelivered DEF Sync
    <3>2. CASE kind = "devpods"
      BY <1>0, <1>2, <3>2, DevPodsDelivered DEF Sync
    <3> QED BY <3>1, <3>2
  <2>5. Tokens' /\ Rights'
    <3> DEFINE c == [cache EXCEPT ![kind][Head(events[kind]).n] = Head(events[kind]).o]
    <3>1. /\ cache' = c /\ clock' = clock /\ UNCHANGED <<tokens, req>>
          /\ adminAt' = Seen(c, clock)
      BY <1>2 DEF Sync
    <3> HIDE DEF c
    <3> QED BY <1>0, <3>1, <1>s
  <2>6. Requested'
    BY <1>2 DEF Sync, IInv, Requested
  <2> QED BY <1>2, <2>1, <2>5, <2>6 DEF Sync, IInv
<1>3. ASSUME NEW u \in Edited, Kubectl(u) PROVE IInv'
  <2> DEFINE o == api.users[u]
  <2>0. u \in Users /\ Quotas \subseteq Quota
    BY WorldAssumption
  <2>1. o \in User
    BY <1>0, <1>3, <2>0 DEF Kubectl, Kept, Store
  <2>2. [o EXCEPT !.admin = ~o.admin] \in User
    <3>1. (~o.admin) \in BOOLEAN
      OBVIOUS
    <3> QED BY <2>1, <3>1, Zenon DEF User
  <2>3. \A q \in Quota : [o EXCEPT !.quota = q] \in User
    BY <2>1 DEF User
  <2>4. \E x \in User : Updates("users", x)
    BY <1>3, <2>0, <2>2, <2>3 DEF Kubectl
  <2>5. StoreStep
    BY <1>0, <2>4, UserCalls
  <2>6. UNCHANGED <<clock, cache, tokens, adminAt, req>>
    BY <1>3 DEF Kubectl
  <2> QED BY <2>5, <2>6, SameTokens, EndsOrWaits, WriteStep
<1>4. ASSUME NEW kind \in {"users", "devpods"}, NEW n, Finalized(kind, n),
             n \in IF kind = "users" THEN Users ELSE Names
      PROVE  IInv'
  <2>1. /\ rev < MaxWrites /\ Put(kind, n, Absent)
        /\ UNCHANGED <<clock, cache, tokens, adminAt, req>>
    BY <1>4 DEF Finalized
  <2>2. StoreStep
    <3>1. CASE kind = "users"
      BY <1>0, <1>4, <2>1, <3>1, PutUser
    <3>2. CASE kind = "devpods"
      BY <1>0, <1>4, <2>1, <3>2, PutDevPod
    <3> QED BY <3>1, <3>2
  <2> QED BY <2>1, <2>2, SameTokens, EndsOrWaits, WriteStep
<1> QED BY <1>1, <1>2, <1>3, <1>4 DEF World

-----------------------------------------------------------------------------
(* Theorems *)

\* The invariant holds initially and every step keeps it.
THEOREM Inductive == Spec => []IInv
<1>1. Init => IInv
  <2> SUFFICES ASSUME Init PROVE IInv
    OBVIOUS
  <2>0. MaxTime \in Nat /\ MaxWrites \in Nat /\ TTL \in Nat /\ clock = 0 /\ rev = 0
    BY WebUIAssumption DEF Init
  <2>a. PICK s \in Starts : api = s.store /\ tokens = s.tokens
    BY DEF Init
  <2>b. /\ s.store \in Store /\ s.tokens \subseteq Token
        /\ \A u \in Users : LET x == s.store.users[u]
                           IN  x # Absent => x.name = u /\ x.rv = 0
        /\ \A n \in Names : LET x == s.store.devpods[n]
                           IN  x # Absent => /\ x.name = n /\ x.rv = 0
                                             /\ Valid(x) /\ Metered(x)
    BY WorldAssumption
  <2>c. \A t \in s.tokens : /\ t.asked = 0 /\ t.minted = 0 /\ t.expiry <= TTL
                            /\ t.admin => IsAdmin(s.store, t.user)
    BY WorldAssumption
  <2>1. Kept(api, rev) /\ Kept(cache, rev) /\ Agree(api, cache)
    BY <2>0, <2>a, <2>b DEF Init, Kept, Agree
  <2>s. Streams(events, api, rev)
    <3>1. /\ events.users = <<>> /\ events.devpods = <<>>
          /\ events \in [users : Seq(UserCopy),
                         devpods : Seq(DevPodCopy)]
      BY DEF Init
    <3> QED BY <3>1 DEF Streams
  <2>2. Tokens
    <3>1. \A u \in Users : adminAt[u] = IF adminFor(u) THEN 0 ELSE -TTL
      BY DEF Init, adminFor, IsAdmin
    <3>2. adminAt \in [Users -> Int]
      BY <2>0 DEF Init
    <3>3. ASSUME NEW t \in tokens
          PROVE  /\ t \in Token /\ t.minted <= clock /\ t.expiry <= t.minted + TTL
                 /\ t.admin => t.asked <= adminAt[t.user]
      <4>1. t \in Token /\ t.asked = 0 /\ t.minted = 0 /\ t.expiry <= TTL /\ t.user \in Users
        BY <2>a, <2>b, <2>c DEF Token
      <4>2. t.admin => adminFor(t.user)
        BY <2>a, <2>c DEF Init, adminFor, IsAdmin
      <4> QED BY <2>0, <3>1, <4>1, <4>2 DEF Token
    <3> QED BY <2>0, <3>1, <3>2, <3>3 DEF Tokens
  <2>3. Requested /\ Rights
    BY DEF Init, Requested, Rights, Idle
  <2> QED BY <2>0, <2>1, <2>s, <2>2, <2>3 DEF IInv
<1>2. IInv /\ [Next]_vars => IInv'
  <2> SUFFICES ASSUME IInv, [Next]_vars PROVE IInv'
    OBVIOUS
  <2>1. CASE Login
    BY <2>1, LoginStep DEF Login
  <2>2. CASE Handle
    BY <2>2, HandleStep DEF Handle
  <2>3. CASE Proceed
    BY <2>3, ProvisionStep, CallbackStep, SessionStep, CheckStep, CallStep DEF Proceed
  <2>4. CASE World
    BY <2>4, WorldStep
  <2>5. CASE UNCHANGED vars
    <3>1. UNCHANGED <<clock, api, cache, events, rev, tokens, req, adminAt>>
      BY <2>5 DEF vars
    <3>2. StoreStep
      BY <3>1, NoWrite DEF IInv, NoPut
    <3> QED BY <3>1, <3>2, SameTokens, EndsOrWaits, WriteStep
  <2> QED BY <2>1, <2>2, <2>3, <2>4, <2>5 DEF Next
<1> QED BY <1>1, <1>2, PTL DEF Spec

\* TypeOK: whatever the handlers, kubectl and the controllers write and however
\* far the caches trail, what is stored and cached is valid and bears a version
\* that was given out, and no token outlives one session life.
THEOREM TypeCorrect == Spec => []TypeOK
<1>1. IInv => TypeOK
  <2> SUFFICES ASSUME IInv PROVE TypeOK
    OBVIOUS
  <2>1. ASSUME NEW s, Kept(s, rev)
        PROVE  /\ DOMAIN s.users = Users /\ DOMAIN s.devpods = Names
               /\ \A dp \in Objects(s.devpods) :
                    /\ Valid(dp) /\ dp.rv \in 0 .. rev
                    /\ s.devpods[dp.name] = dp
               /\ \A u \in Objects(s.users) :
                    s.users[u.name] = u /\ u.rv \in 0 .. rev
    <3>0. rev \in Nat
      BY DEF IInv
    <3>1. s \in Store
      BY <2>1 DEF Kept
    <3>2. DOMAIN s.users = Users /\ DOMAIN s.devpods = Names
      BY <3>1 DEF Store
    <3>3. ASSUME NEW dp \in Objects(s.devpods)
          PROVE  Valid(dp) /\ dp.rv \in 0 .. rev /\ s.devpods[dp.name] = dp
      <4>1. PICK n \in Names : dp = s.devpods[n] /\ dp # Absent
        BY <3>2 DEF Objects
      <4>2. dp \in DevPod
        BY <3>1, <4>1 DEF Store
      <4> QED BY <2>1, <3>0, <4>1, <4>2 DEF Kept, DevPod
    <3>4. ASSUME NEW u \in Objects(s.users) PROVE s.users[u.name] = u /\ u.rv \in 0 .. rev
      <4>1. PICK n \in Users : u = s.users[n] /\ u # Absent
        BY <3>2 DEF Objects
      <4>2. u \in User
        BY <3>1, <4>1 DEF Store
      <4> QED BY <2>1, <3>0, <4>1, <4>2 DEF Kept, User
    <3> QED BY <3>2, <3>3, <3>4
  <2>2. \A r \in Requests :
           req[r].pc \in {"idle", "provision", "admin", "mint", "user", "list", "write"}
    BY DEF IInv, Requested, Job, Idle
  <2>3. ASSUME NEW t \in tokens PROVE t.user \in Users /\ t.expiry <= clock + TTL
    <3>1. t \in Token /\ t.minted <= clock /\ t.expiry <= t.minted + TTL
      BY DEF IInv, Tokens
    <3>2. clock \in Nat /\ TTL \in Nat /\ t.minted \in Nat /\ t.expiry \in Nat /\ t.user \in Users
      BY <3>1, WebUIAssumption DEF IInv, Token
    <3> QED BY <3>1, <3>2
  <2> QED BY <2>1, <2>2, <2>3 DEF IInv, TypeOK
<1> QED BY <1>1, Inductive, PTL

\* rejectKore, RequireLimits and ApplyTemplate: no sequence of creations and
\* wake-ups stores a plain user's DevPod that cannot be metered, or that bears
\* annotations of Kore he wrote himself.
THEOREM KoreAlwaysFromTemplates == Spec => []KoreFromTemplates
<1>1. IInv => KoreFromTemplates
  <2> SUFFICES ASSUME IInv, NEW dp \in Objects(api.devpods) PROVE Metered(dp)
    BY DEF KoreFromTemplates
  <2>1. Kept(api, rev)
    BY DEF IInv
  <2>2. PICK n \in Names : dp = api.devpods[n] /\ dp # Absent
    BY <2>1 DEF Objects, Kept, Store
  <2> QED BY <2>1, <2>2 DEF Kept
<1> QED BY <1>1, Inductive, PTL

\* Only a handler starts a request, for the session it came with.
LEMMA Opens ==
    ASSUME Handle
    PROVE  \E r \in Requests, t \in tokens, op \in Ops, pc \in {"user", "write"} : \E obj :
               /\ Arrives(r, t, op)
               /\ req' = [req EXCEPT ![r] = Busy(pc, op, t, obj)]
<1> DEFINE G(r, t, op) ==
               \E pc \in {"user", "write"} : \E obj :
                   /\ Arrives(r, t, op)
                   /\ req' = [req EXCEPT ![r] = Busy(pc, op, t, obj)]
<1>1. ASSUME NEW r \in Requests, NEW t \in tokens, NEW op \in Ops, handleCreateDevPod(r, t, op)
      PROVE  G(r, t, op)
  <2>1. PICK pc \in {"user", "write"} : pc = IF t.admin THEN "write" ELSE "user"
    OBVIOUS
  <2>2. \E obj : req' = [req EXCEPT ![r] = Busy(pc, op, t, obj)]
    BY <1>1, <2>1 DEF handleCreateDevPod
  <2> QED BY <1>1, <2>2 DEF handleCreateDevPod
<1>2. ASSUME NEW r \in Requests, NEW t \in tokens, NEW op \in Ops, handlePatchDevPod(r, t, op)
      PROVE  G(r, t, op)
  <2>1. PICK pc \in {"user", "write"} :
           pc = IF op.running /\ ~t.admin THEN "user" ELSE "write"
    OBVIOUS
  <2>2. \E obj : req' = [req EXCEPT ![r] = Busy(pc, op, t, obj)]
    BY <1>2, <2>1 DEF handlePatchDevPod
  <2> QED BY <1>2, <2>2 DEF handlePatchDevPod
<1>3. ASSUME NEW r \in Requests, NEW t \in tokens, NEW op \in Ops,
             \/ handleDeleteDevPod(r, t, op) \/ handlePutMe(r, t, op)
             \/ handlePatchUser(r, t, op) \/ handleAdminUser(r, t, op)
      PROVE  G(r, t, op)
  <2>1. \E obj : req' = [req EXCEPT ![r] = Busy("write", op, t, obj)]
    BY <1>3 DEF handleDeleteDevPod, handlePutMe, handlePatchUser, handleAdminUser
  <2> QED BY <1>3, <2>1 DEF handleDeleteDevPod, handlePutMe, handlePatchUser, handleAdminUser
<1>4. PICK r \in Requests, t \in tokens, op \in Ops :
         \/ handleCreateDevPod(r, t, op) \/ handlePatchDevPod(r, t, op)
         \/ handleDeleteDevPod(r, t, op) \/ handlePutMe(r, t, op)
         \/ handlePatchUser(r, t, op) \/ handleAdminUser(r, t, op)
  BY DEF Handle
<1> HIDE DEF G
<1>5. G(r, t, op)
  BY <1>1, <1>2, <1>3, <1>4
<1> QED BY <1>5 DEF G

\* The step in which a request ends with a write is its call.
LEMMA OnlyWrite ==
    ASSUME IInv, [Next]_vars, NEW r \in Requests, Writes(r)
    PROVE  Write(r)
<1>0. req \in [Requests -> Job \cup {Idle}] /\ req[r].pc = "write" /\ req'[r].pc = "idle"
  BY DEF IInv, Requested, Writes
<1>1. req' # req
  BY <1>0
<1>2. ASSUME NEW p \in Requests, NEW q, req' = [req EXCEPT ![p] = q] PROVE p = r
  BY <1>0, <1>2
<1>3. ~World /\ ~UNCHANGED vars
  BY <1>1 DEF World, Tick, Sync, Kubectl, Finalized, vars
<1>4. ~Handle /\ ~Login
  BY <1>0, <1>2, Opens DEF Arrives, Login, handlePasswordLogin, HandleCallback
<1>8. ASSUME NEW p \in Requests, ensureUser(p) \/ CallbackAdmin(p) \/ setSession(p) PROVE FALSE
  BY <1>0, <1>2, <1>8 DEF ensureUser, CallbackAdmin, setSession, Done
<1>5. ASSUME NEW p \in Requests, checkQuotaUser(p) PROVE FALSE
  BY <1>0, <1>2, <1>5 DEF checkQuotaUser
<1>6. ASSUME NEW p \in Requests, checkQuotaList(p) PROVE FALSE
  <2>1. p # r
    BY <1>0, <1>6 DEF checkQuotaList
  <2> QED BY <1>0, <1>6, <2>1 DEF checkQuotaList, Done
<1>7. ASSUME NEW p \in Requests, Write(p) PROVE p = r
  BY <1>2, <1>7 DEF Write, Done
<1> QED BY <1>3, <1>4, <1>5, <1>6, <1>7, <1>8 DEF Next, Proceed

\* The object an update reads and the one it replaces are the same: the copy
\* in handlePatchDevPod, handlePutPubkeys, handleChangePassword and
\* handlePatchUser overwrites nothing that was written since it was read.
THEOREM ChangesAlwaysSurvive == Spec => OthersChangesSurvive
<1> DEFINE A(r) ==
             LET op == req[r].op IN
             /\ op.h = "patch" /\ api'.devpods # api.devpods =>
                  api'.devpods[op.name] = [api.devpods[op.name] EXCEPT
                     !.running = op.running, !.rv = rev']
             /\ op.h = "putMe" /\ api'.users # api.users =>
                  api'.users[req[r].user] =
                     [WithOwn(op, api.users[req[r].user]) EXCEPT !.rv = rev']
             /\ op.h = "patchUser" /\ api'.users # api.users =>
                  api'.users[op.user] =
                     [Patched(op, api.users[op.user]) EXCEPT !.rv = rev']
<1>1. ASSUME IInv, [Next]_vars, NEW r \in Requests, Writes(r) PROVE A(r)
  <2> DEFINE q == req[r]
             op == q.op
  <2>0. /\ Write(r) /\ q \in Job /\ Prepared(q, api, rev) /\ op \in Ops /\ q.user \in Users
        /\ api \in Store
    BY <1>1, OnlyWrite DEF IInv, Requested, Job, Writes, Kept
  <2>1. ASSUME op.h = "patch", api'.devpods # api.devpods
        PROVE  api'.devpods[op.name] = [api.devpods[op.name] EXCEPT
                  !.running = op.running, !.rv = rev']
    <3> DEFINE o == api.devpods[op.name]
    <3>1. Wakes(q, api, rev) /\ Updates("devpods", q.obj) /\ op.name \in Names
      BY <2>0, <2>1, OpFields DEF Prepared, Write, Submitted
    <3>2. o # Absent /\ o.rv = q.obj.rv /\ q.obj.name = op.name
      BY <2>1, <3>1 DEF Wakes, Updates, Put, NoPut
    <3>3. /\ api' = [api EXCEPT !["devpods"][op.name] = [q.obj EXCEPT !.rv = rev + 1]]
          /\ rev' = rev + 1
      BY <2>1, <3>1, <3>2 DEF Updates, Put, NoPut
    <3>4. q.obj = [o EXCEPT !.running = op.running] /\ o \in DevPod
      BY <2>0, <3>1, <3>2 DEF Wakes, Turned, Store
    <3>5. api'.devpods[op.name] = [q.obj EXCEPT !.rv = rev']
      BY <2>0, <3>1, <3>3 DEF Store
    <3> HIDE DEF o, op, q
    <3>6. [[o EXCEPT !.running = op.running] EXCEPT !.rv = rev']
            = [o EXCEPT !.running = op.running, !.rv = rev']
      BY <3>4 DEF DevPod
    <3> QED BY <3>4, <3>5, <3>6 DEF o
  <2>2. ASSUME NEW u \in Users, NEW y, q.obj.name = u, Updates("users", q.obj),
               api.users[u] # Absent /\ api.users[u].rv = q.obj.rv => q.obj = y,
               api'.users # api.users
        PROVE  api'.users[u] = [y EXCEPT !.rv = rev']
    <3>1. api.users[u] # Absent /\ api.users[u].rv = q.obj.rv
      BY <2>2 DEF Updates, Put, NoPut
    <3>2. /\ api' = [api EXCEPT !["users"][u] = [q.obj EXCEPT !.rv = rev + 1]]
          /\ rev' = rev + 1 /\ q.obj = y
      BY <2>2, <3>1 DEF Updates, Put, NoPut
    <3> QED BY <2>0, <3>2 DEF Store
  <2>5. ASSUME op.h = "putMe", api'.users # api.users
        PROVE  api'.users[q.user] = [WithOwn(op, api.users[q.user]) EXCEPT !.rv = rev']
    <3> DEFINE y == WithOwn(op, api.users[q.user])
    <3>1. /\ q.obj.name = q.user /\ Updates("users", q.obj)
          /\ api.users[q.user] # Absent /\ api.users[q.user].rv = q.obj.rv => q.obj = y
      BY <2>0, <2>5 DEF Prepared, Edits, Write, Submitted
    <3> HIDE DEF y
    <3>2. api'.users[q.user] = [y EXCEPT !.rv = rev']
      BY <2>0, <2>2, <2>5, <3>1
    <3> QED BY <3>2 DEF y
  <2>6. ASSUME op.h = "patchUser", api'.users # api.users
        PROVE  api'.users[op.user] = [Patched(op, api.users[op.user]) EXCEPT !.rv = rev']
    <3> DEFINE y == Patched(op, api.users[op.user])
    <3>1. /\ q.obj.name = op.user /\ Updates("users", q.obj) /\ op.user \in Users
          /\ api.users[op.user] # Absent /\ api.users[op.user].rv = q.obj.rv => q.obj = y
      BY <2>0, <2>6, OpFields DEF Prepared, Edits, Write, Submitted
    <3> HIDE DEF y
    <3>2. api'.users[op.user] = [y EXCEPT !.rv = rev']
      BY <2>2, <2>6, <3>1
    <3> QED BY <3>2 DEF y
  <2> HIDE DEF q, op
  <2> QED BY <2>1, <2>5, <2>6 DEF q, op
<1> HIDE DEF A
<1>2. IInv /\ [Next]_vars => [\A r \in Requests : Writes(r) => A(r)]_vars
  BY <1>1
<1> QED BY <1>2, Inductive, PTL DEF Spec, OthersChangesSurvive, A

\* adminFor, Mint and Verify: the admin's handlers are open to a user for less
\* than one session life after the caches last showed him as an admin, and the
\* time that his login took from the look at the admin bit to the token.
THEOREM AdminRightsAlwaysExpire == Spec => AdminRightsExpire
<1> DEFINE A(r) ==
             LET q == req'[r]
             IN  req[r].pc = "idle" /\ q.pc \in {"user", "write"} /\ q.admin =>
                   clock - adminAt[q.user] < TTL + (q.minted - q.asked)
<1>1. ASSUME IInv, [Next]_vars, NEW r \in Requests PROVE A(r)
  <2> SUFFICES ASSUME req[r].pc = "idle", req'[r].pc \in {"user", "write"}, req'[r].admin
               PROVE  clock - adminAt[req'[r].user] < TTL + (req'[r].minted - req'[r].asked)
    OBVIOUS
  <2>0. req \in [Requests -> Job \cup {Idle}] /\ req' # req
    BY <1>1 DEF IInv, Requested
  <2>1. ~World /\ ~UNCHANGED vars
    BY <2>0 DEF World, Tick, Sync, Kubectl, Finalized, vars
  <2>p. ASSUME NEW p \in Requests, NEW x, req' = [req EXCEPT ![p] = x] PROVE p = r /\ x = req'[r]
    BY <2>0, <2>p
  <2>2. ~Proceed
    <3>1. ASSUME NEW p \in Requests,
                 \/ ensureUser(p) \/ CallbackAdmin(p) \/ setSession(p)
                 \/ checkQuotaUser(p) \/ Write(p)
          PROVE  FALSE
      <4>1. p # r
        BY <3>1 DEF ensureUser, CallbackAdmin, setSession, checkQuotaUser, Write
      <4> QED BY <2>p, <3>1, <4>1 DEF ensureUser, CallbackAdmin, setSession, checkQuotaUser,
                                      Write, Done
    <3>2. ASSUME NEW p \in Requests, checkQuotaList(p) PROVE FALSE
      <4>1. p # r
        BY <3>2 DEF checkQuotaList
      <4> QED BY <2>0, <3>2, <4>1 DEF checkQuotaList, Done
    <3> QED BY <3>1, <3>2 DEF Proceed
  <2>3. ~Login
    <3>1. ASSUME NEW p \in Requests, NEW op \in Ops,
                 handlePasswordLogin(p, op) \/ HandleCallback(p, op)
          PROVE  FALSE
      <4>1. PICK pc \in {"provision", "mint"} :
               \E o, t : req' = [req EXCEPT ![p] = Busy(pc, op, t, o)]
        BY <3>1 DEF handlePasswordLogin, HandleCallback
      <4>2. PICK o, t : req' = [req EXCEPT ![p] = Busy(pc, op, t, o)]
        BY <4>1
      <4>3. req'[r] = Busy(pc, op, t, o)
        BY <2>p, <4>2
      <4> QED BY <4>3 DEF Busy
    <3> QED BY <3>1 DEF Login
  <2>4. PICK p \in Requests, t \in tokens, op \in Ops, pc \in {"user", "write"} : \E obj :
            /\ Arrives(p, t, op)
            /\ req' = [req EXCEPT ![p] = Busy(pc, op, t, obj)]
    BY <1>1, <2>1, <2>2, <2>3, Opens DEF Next
  <2>5. PICK obj : req' = [req EXCEPT ![p] = Busy(pc, op, t, obj)]
    BY <2>4
  <2>6. req'[r] = Busy(pc, op, t, obj)
    BY <2>p, <2>5
  <2>7. /\ req'[r].user = t.user /\ req'[r].minted = t.minted /\ req'[r].asked = t.asked
        /\ t.admin
    <3>1. PICK b \in BOOLEAN : t.admin = b
      BY <1>1, TokenSession
    <3>2. /\ req'[r].user = t.user /\ req'[r].minted = t.minted /\ req'[r].asked = t.asked
          /\ req'[r].admin = b
      BY <2>6, <3>1 DEF Busy
    <3> QED BY <3>1, <3>2
  <2>8. /\ t.user \in Users /\ t.asked \in Nat /\ t.minted \in Nat /\ t.expiry \in Nat
        /\ t.asked <= adminAt[t.user]
    BY <1>1, <2>7, TokenSession
  <2>9. /\ clock \in Nat /\ TTL \in Nat /\ adminAt[t.user] \in Int
        /\ clock < t.expiry /\ t.expiry <= t.minted + TTL
    BY <1>1, <2>4, <2>8, WebUIAssumption DEF Arrives, Verify, IInv, Tokens
  <2> QED BY <2>7, <2>8, <2>9
<1> HIDE DEF A
<1>2. IInv /\ [Next]_vars => [\A r \in Requests : A(r)]_vars
  BY <1>1
<1> QED BY <1>2, Inductive, PTL DEF Spec, AdminRightsExpire, A
=============================================================================
