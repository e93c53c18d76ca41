------------------------------- MODULE WebUI -------------------------------
(***************************************************************************)
(* The web UI's handlers that write (internal/webui): DevPods with their   *)
(* quota, users and passwords, sessions.  Every request is a process: it   *)
(* reads objects from informer caches that trail the API server, decides,  *)
(* and writes to the API server (external), which refuses an update of an  *)
(* outdated copy and a creation under a name that is taken.                *)
(*                                                                         *)
(* A name with hyphens is the sequence of its parts, as in Gateway.  A pod *)
(* has one container, and the prefix of OAuth's user names is empty.       *)
(***************************************************************************)
EXTENDS Integers, Sequences, FiniteSets, FiniteSetsExt, SequencesExt

CONSTANTS
    Requests,       \* requests that can be under way at the same time
    Users,          \* user names
    Names,          \* DevPod names
    Ops,            \* the requests clients make, see Op
    KoreEnabled,    \* the --kore flag, resolved
    Admins,         \* the --admins flag
    DefaultQuota,   \* the --default-quota-file
    Edited,         \* users whom kubectl edits
    Quotas,         \* quotas that kubectl may give them
    Unset,          \* an optional field that is not set
    Absent,         \* no such object
    TTL,            \* life of a session
    Starts,         \* how it may start: objects, session tokens, login methods
    MaxTime,        \* bound of the clock
    MaxWrites       \* bound: writes to the API server

ASSUME WebUIAssumption ==
    /\ TTL \in Nat \ {0} /\ MaxTime \in Nat /\ MaxWrites \in Nat
    /\ KoreEnabled \in BOOLEAN /\ Admins \subseteq Users

VARIABLES
    conf,           \* the login methods that are enabled
    clock,
    api,            \* the objects at the API server: users and devpods
    cache,          \* the informer caches
    events,         \* watch events not yet delivered, oldest first, per kind
    rev,            \* the last resourceVersion given out
    tokens,         \* the session tokens minted so far
    req,            \* req[r]: the local variables of a handler
    adminAt         \* adminAt[u]: when the cache last showed u as an admin

vars == <<conf, clock, api, cache, events, rev, tokens, req, adminAt>>

-----------------------------------------------------------------------------
(* Objects.  by is for the properties: who had the DevPod created.         *)

Passwords == {"p", "q"}     \* as the admin gave it, and another
Resources == {"cpu", "memory", "gpu"}
Limit == Int \cup {Unset}
Limits == [Resources -> Limit]
Quota == [devpods : Limit, compute : Limits \cup {Unset}, storage : Limit]
PodSpec == [limits : [Resources -> Int], kore : BOOLEAN]
Persistence == [size : Int, found : BOOLEAN]    \* found: its targetContainer
DevPod == [name : Names, owner : Users, running : BOOLEAN,
           pod : PodSpec \cup {Unset}, vm : BOOLEAN, kore : BOOLEAN,
           persistence : Persistence \cup {Unset}, deleting : BOOLEAN,
           by : {"admin", "template", "user"}, rv : Nat]
User == [name : Users, admin : BOOLEAN, pw : Passwords \cup {Unset},
         keys : SUBSET STRING, quota : Quota \cup {Unset},
         deleting : BOOLEAN, rv : Nat]
Store == [users : [Users -> User \cup {Absent}],
          devpods : [Names -> DevPod \cup {Absent}]]
TemplateSpec ==
    [preset : [pod : PodSpec, persistence : Persistence \cup {Unset}] \cup {Unset},
     binding : [valid : BOOLEAN, limits : Limits] \cup {Unset}]

\* A session.  asked and minted are for the properties: when the admin bit was
\* read and when the token was made.
Token == [user : Users, admin : BOOLEAN, expiry : Nat, asked : Nat, minted : Nat]

\* The form in which the admin's page sends a quota: empty entries are Unset.
Form == [devpods : Limit, compute : Limits, storage : Limit]

\* A request: who sends it, the handler and its parameters.
Op == [who : Users, h : {"create"}, dp : DevPod, tpl : TemplateSpec \cup {Unset}]
      \cup [who : Users, h : {"patch"}, name : Names, running : BOOLEAN]
      \cup [who : Users, h : {"delete"}, name : Names]
      \cup [who : Users, h : {"putMe"},
            set : [pw : Passwords] \cup [keys : SUBSET STRING]]
      \cup [who : Users, h : {"patchUser"}, user : Users,
            set : [pw : Passwords] \cup [quota : Form]
                  \cup [pw : Passwords, quota : Form]]
      \cup [who : Users, h : {"createUser", "deleteUser"}, user : Users]
      \cup [who : Users, h : {"login", "callback"}]

-----------------------------------------------------------------------------
(* quota.go.  A quota is [devpods, compute, storage], each Unset where the  *)
(* field is nil; compute gives each resource a limit, or Unset where the    *)
(* list has no entry.  pod is Unset where spec.pod is nil; a limit is 0     *)
(* where the container declares none.                                       *)

EffectiveQuota(u) ==
    IF u = Absent \/ u.quota = Unset THEN DefaultQuota
    ELSE [f \in DOMAIN DefaultQuota |->
             IF u.quota[f] # Unset THEN u.quota[f] ELSE DefaultQuota[f]]

ComputeLimit(q, k) == IF q.compute = Unset THEN Unset ELSE q.compute[k]

PodLimits(dp, k) == IF dp.running /\ dp.pod # Unset THEN dp.pod.limits[k] ELSE 0
Size(dp) == IF dp.persistence = Unset THEN 0 ELSE dp.persistence.size

\* IsZero: a negative limit is one, too.
RequireLimits(dp) == \A k \in {"cpu", "memory"} : dp.pod.limits[k] # 0

Over(total, limit) == limit # Unset /\ total > limit
Compute(S, k) == MapThenSumSet(LAMBDA dp : PodLimits(dp, k), S)
Storage(S) == MapThenSumSet(Size, S)

\* Mutant: the proposed DevPod is not counted.
CheckQuotaExisting(q, existing, proposed) ==
    /\ ~Over(Cardinality(existing), q.devpods)
    /\ proposed.running /\ proposed.pod # Unset =>
         \A k \in Resources :
            ~Over(Compute(existing, k) + PodLimits(proposed, k), ComputeLimit(q, k))
    /\ ~Over(Storage(existing) + Size(proposed), q.storage)

CheckQuota(q, existing, proposed) ==
    /\ ~Over(Cardinality(existing) + 1, q.devpods)
    /\ proposed.running /\ proposed.pod # Unset =>
         \A k \in Resources :
            ~Over(Compute(existing, k) + PodLimits(proposed, k), ComputeLimit(q, k))
    /\ ~Over(Storage(existing) + Size(proposed), q.storage)

\* Objects in a store (api or cache) carry their names.
Objects(f) == {f[n] : n \in DOMAIN f} \ {Absent}
ownedDevPods(store, u) == {dp \in Objects(store.devpods) : dp.owner = u}

-----------------------------------------------------------------------------
(* The API server and the informer caches.                                 *)

\* A write gets the next version and goes to those who watch the kind.
Put(kind, n, o) ==
    /\ api' = [api EXCEPT ![kind][n] = o] /\ rev' = rev + 1
    /\ events' = [events EXCEPT ![kind] = Append(@, [n |-> n, o |-> o])]

NoPut == UNCHANGED <<api, rev, events>>

Creates(kind, o) ==
    /\ rev < MaxWrites
    /\ IF api[kind][o.name] = Absent
       THEN Put(kind, o.name, [o EXCEPT !.rv = rev + 1])
       ELSE NoPut

Updates(kind, o) ==
    /\ rev < MaxWrites
    /\ IF api[kind][o.name] # Absent /\ api[kind][o.name].rv = o.rv
       THEN Put(kind, o.name, [o EXCEPT !.rv = rev + 1])
       ELSE NoPut

\* Both kinds have finalizers: a deletion waits for the controllers.
Deletes(kind, n) ==
    /\ rev < MaxWrites
    /\ IF api[kind][n] # Absent /\ ~api[kind][n].deleting
       THEN Put(kind, n, [api[kind][n] EXCEPT !.deleting = TRUE, !.rv = rev + 1])
       ELSE NoPut

\* The validation rules of the DevPod type.
Valid(dp) == IsStrictPrefix(dp.owner, dp.name) /\ ((dp.pod # Unset) # dp.vm)

-----------------------------------------------------------------------------
(* Requests.  since and fresh are for the properties: rev when the quota   *)
(* was read, and whether the caches were up to date then.                  *)

Idle == [pc |-> "idle"]
Busy(pc, op, sess, obj) ==
    [pc |-> pc, op |-> op, user |-> sess.user, admin |-> sess.admin,
     asked |-> sess.asked, minted |-> sess.minted,
     obj |-> obj, quota |-> DefaultQuota, since |-> rev, fresh |-> FALSE]

Done(r) == req' = [req EXCEPT ![r] = Idle]

unchangedButReq == <<conf, clock, api, cache, events, rev, tokens, adminAt>>

NewUser(u, pw) == [name |-> u, admin |-> FALSE, pw |-> pw, keys |-> {},
                   quota |-> Unset, deleting |-> FALSE, rv |-> 0]

-----------------------------------------------------------------------------
(* Sessions.  Tokens are not recorded anywhere: whoever has one can use it *)
(* until it expires, a logout only makes the browser forget it, and a user *)
(* may hold several.                                                       *)

IsAdmin(store, u) ==
    u \in Admins \/ (store.users[u] # Absent /\ store.users[u].admin)
adminFor(u) == IsAdmin(cache, u)

\* The session of a login that asks now.
Asks(u) == [user |-> u, admin |-> adminFor(u), asked |-> clock, minted |-> clock]

\* Mutant: the life is added twice.
MintTwice(q) == [user |-> q.user, admin |-> q.admin, expiry |-> clock + TTL + TTL,
                 asked |-> q.asked, minted |-> clock]
Mint(q) == [user |-> q.user, admin |-> q.admin, expiry |-> clock + TTL,
            asked |-> q.asked, minted |-> clock]

\* Mutant: a token is good up to and with its last moment.
VerifyLate(t) == clock <= t.expiry
Verify(t) == clock < t.expiry

\* The User is read; the password is right, and it takes its time to tell.
handlePasswordLogin(r, op) ==
    /\ op.h = "login" /\ req[r].pc = "idle" /\ conf.password
    /\ LET me == cache.users[op.who]
       IN  /\ me # Absent /\ me.pw # Unset
           /\ req' = [req EXCEPT ![r] = Busy("mint", op, Asks(op.who), me)]
    /\ UNCHANGED unchangedButReq

\* The identity provider vouches for the user.
HandleCallback(r, op) ==
    /\ op.h = "callback" /\ req[r].pc = "idle" /\ conf.oauth
    /\ req' = [req EXCEPT ![r] = Busy("provision", op, Asks(op.who),
                                      NewUser(op.who, Unset))]
    /\ UNCHANGED unchangedButReq

ensureUser(r) ==
    /\ req[r].pc = "provision"
    /\ Creates("users", NewUser(req[r].user, Unset))
    /\ req' = [req EXCEPT ![r].pc = "admin"]
    /\ UNCHANGED <<conf, clock, cache, tokens, adminAt>>

\* The cache is asked for the admin bit; it need not have the User yet.
CallbackAdmin(r) ==
    /\ req[r].pc = "admin"
    /\ req' = [req EXCEPT ![r] = Busy("mint", @.op, Asks(@.user), @.obj)]
    /\ UNCHANGED unchangedButReq

setSession(r) ==
    /\ req[r].pc = "mint"
    /\ tokens' = tokens \cup {Mint(req[r])}
    /\ Done(r)
    /\ UNCHANGED <<conf, clock, api, cache, events, rev, adminAt>>

-----------------------------------------------------------------------------
(* The handlers, up to the first call that another request can come before. *)

\* sessionFrom; a request without a good session ends here.
Arrives(r, t, op) == req[r].pc = "idle" /\ t.user = op.who /\ Verify(t)

\* Mutant: only the annotations of the DevPod itself are looked at.
KoreAnnotationKeysShallow(dp) == dp.kore
KoreAnnotationKeys(dp) == dp.kore \/ (dp.pod # Unset /\ dp.pod.kore)

\* buildDevPod: for a plain user, the owner is himself and the name starts
\* with his.
buildDevPod(sess, dp) ==
    sess.admin \/ (dp.owner = sess.user /\ IsStrictPrefix(sess.user, dp.name))

rejectKore(sess, dp) == ~sess.admin /\ KoreAnnotationKeys(dp)

\* ApplyTemplate.  A preset is stamped as it is, a binding overrides the
\* limits it declares.
WithPreset(dp, preset) ==
    IF preset = Unset THEN dp
    ELSE [dp EXCEPT !.pod = preset.pod,
                    !.persistence = IF @ = Unset THEN preset.persistence ELSE @]

WithBinding(dp, binding) ==
    IF binding = Unset THEN dp
    ELSE [dp EXCEPT !.pod =
            [limits |-> [k \in Resources |->
                           IF binding.limits[k] # Unset THEN binding.limits[k]
                           ELSE dp.pod.limits[k]],
             kore |-> TRUE]]

ApplyTemplate(dp, t) == WithBinding(WithPreset(dp, t.preset), t.binding)

\* It can fail: a preset wants no pod, a binding wants one, with the container
\* that the persistence names.
TemplateFits(dp, t) ==
    /\ t.preset # Unset \/ t.binding # Unset
    /\ t.preset # Unset => dp.pod = Unset
    /\ t.binding # Unset =>
         LET x == WithPreset(dp, t.preset)
         IN  /\ KoreEnabled /\ t.binding.valid
             /\ x.pod # Unset
             /\ x.persistence # Unset => x.persistence.found

Stamped(op) == IF op.tpl = Unset THEN op.dp ELSE ApplyTemplate(op.dp, op.tpl)

\* What a plain user may create: a pod that can be metered.
Meterable(dp) == ~dp.vm /\ dp.pod # Unset /\ RequireLimits(dp)

handleCreateDevPod(r, t, op) ==
    /\ op.h = "create" /\ Arrives(r, t, op)
    /\ buildDevPod(t, op.dp)
    /\ ~rejectKore(t, op.dp)
    /\ op.tpl # Unset => TemplateFits(op.dp, op.tpl)
    /\ t.admin \/ Meterable(Stamped(op))
    /\ req' = [req EXCEPT ![r] =
         Busy(IF t.admin THEN "write" ELSE "user", op, t,
              [Stamped(op) EXCEPT !.by = IF t.admin THEN "admin"
                                         ELSE IF op.tpl # Unset THEN "template"
                                         ELSE "user"])]
    /\ UNCHANGED unchangedButReq

\* getOwned, for PATCH and DELETE.
Owns(sess, dp) == dp # Absent /\ (dp.owner = sess.user \/ sess.admin)

handlePatchDevPod(r, t, op) ==
    /\ op.h = "patch" /\ Arrives(r, t, op)
    /\ LET dp == cache.devpods[op.name]
       IN  /\ Owns(t, dp) /\ dp.running # op.running
           /\ req' = [req EXCEPT ![r] =
                Busy(IF op.running /\ ~t.admin THEN "user"
                     ELSE "write", op, t,
                     [dp EXCEPT !.running = op.running])]
    /\ UNCHANGED unchangedButReq

handleDeleteDevPod(r, t, op) ==
    /\ op.h = "delete" /\ Arrives(r, t, op)
    /\ Owns(t, cache.devpods[op.name])
    /\ req' = [req EXCEPT ![r] = Busy("write", op, t,
                                      cache.devpods[op.name])]
    /\ UNCHANGED unchangedButReq

\* handlePutPubkeys and handleChangePassword (whose old password is right)
\* replace one field of one's own User.
WithOwn(op, me) ==
    [f \in DOMAIN me |-> IF f \in DOMAIN op.set THEN op.set[f] ELSE me[f]]

handlePutMe(r, t, op) ==
    /\ op.h = "putMe" /\ Arrives(r, t, op)
    /\ LET me == cache.users[t.user]
       IN  /\ me # Absent
           /\ "pw" \in DOMAIN op.set => conf.password /\ me.pw # Unset
           /\ req' = [req EXCEPT ![r] = Busy("write", op, t,
                                             WithOwn(op, me))]
    /\ UNCHANGED unchangedButReq

\* quotaPatch.build: a form without any entry clears the quota, one without
\* any for compute leaves the list nil.
BuildQuota(p) ==
    LET some == \E k \in Resources : p.compute[k] # Unset
    IN  IF p.devpods = Unset /\ ~some /\ p.storage = Unset THEN Unset
        ELSE IF some THEN p ELSE [p EXCEPT !.compute = Unset]

Patched(op, o) ==
    [f \in DOMAIN o |-> IF f \notin DOMAIN op.set THEN o[f]
                        ELSE IF f = "quota" THEN BuildQuota(op.set[f])
                        ELSE op.set[f]]

handlePatchUser(r, t, op) ==
    /\ op.h = "patchUser" /\ Arrives(r, t, op) /\ t.admin
    /\ cache.users[op.user] # Absent
    /\ "pw" \in DOMAIN op.set => conf.password
    /\ req' = [req EXCEPT ![r] = Busy("write", op, t,
                                      Patched(op, cache.users[op.user]))]
    /\ UNCHANGED unchangedButReq

handleAdminUser(r, t, op) ==
    /\ op.h \in {"createUser", "deleteUser"} /\ Arrives(r, t, op)
    /\ t.admin
    /\ op.h = "createUser" => conf.password
    /\ req' = [req EXCEPT ![r] = Busy("write", op, t,
                                      NewUser(op.user, "p"))]
    /\ UNCHANGED unchangedButReq

-----------------------------------------------------------------------------
(* checkQuotaFor.                                                          *)

checkQuotaUser(r) ==
    /\ req[r].pc = "user"
    /\ LET u == req[r].user
       IN  req' = [req EXCEPT ![r] = [@ EXCEPT !.pc = "list",
                    !.quota = EffectiveQuota(cache.users[u]),
                    !.since = rev, !.fresh = cache.users[u] = api.users[u]]]
    /\ UNCHANGED unchangedButReq

\* The DevPod that is woken is left out of the existing ones.
\* Mutant: it is not.
ExistingAll(r, store) == ownedDevPods(store, req[r].user)
Existing(r, store) ==
    {dp \in ownedDevPods(store, req[r].user) :
        req[r].op.h = "patch" => dp.name # req[r].obj.name}

checkQuotaList(r) ==
    /\ req[r].pc = "list"
    /\ IF CheckQuota(req[r].quota, Existing(r, cache), req[r].obj)
       THEN req' = [req EXCEPT ![r].pc = "write",
              ![r].fresh = @ /\ Existing(r, cache) = Existing(r, api)]
       ELSE Done(r)
    /\ UNCHANGED unchangedButReq

\* A copy is sent back with the resourceVersion it was read with.
\* Mutant: with the current one, as a retry on conflict would.
SubmittedAnew(kind, o) ==
    IF api[kind][o.name] = Absent THEN o
    ELSE [o EXCEPT !.rv = api[kind][o.name].rv]
Submitted(kind, o) == o

\* The call of Create, Update or Delete that ends a request.
Write(r) ==
    /\ req[r].pc = "write"
    /\ LET q == req[r]
       IN  CASE q.op.h = "create" ->
                  IF Valid(q.obj) THEN Creates("devpods", q.obj) ELSE NoPut
             [] q.op.h = "patch" -> Updates("devpods", Submitted("devpods", q.obj))
             [] q.op.h = "delete" -> Deletes("devpods", q.obj.name)
             [] q.op.h \in {"putMe", "patchUser"} ->
                  Updates("users", Submitted("users", q.obj))
             [] q.op.h = "createUser" -> Creates("users", q.obj)
             [] OTHER -> Deletes("users", q.obj.name)
    /\ Done(r)
    /\ UNCHANGED <<conf, clock, cache, tokens, adminAt>>

-----------------------------------------------------------------------------
(* The surroundings.                                                       *)

Seen(c, t) == [u \in Users |-> IF IsAdmin(c, u) THEN t ELSE adminAt[u]]

Tick ==
    /\ clock < MaxTime /\ clock' = clock + 1
    /\ adminAt' = Seen(cache, clock + 1)
    /\ UNCHANGED <<conf, api, cache, events, rev, tokens, req>>

\* The next watch event of a kind is delivered.
Sync(kind) ==
    /\ events[kind] # <<>>
    /\ LET e == Head(events[kind])
       IN  cache' = [cache EXCEPT ![kind][e.n] = e.o]
    /\ events' = [events EXCEPT ![kind] = Tail(@)]
    /\ adminAt' = Seen(cache', clock)
    /\ UNCHANGED <<conf, clock, api, rev, tokens, req>>

\* kubectl gives or takes a user's admin bit and edits quotas.
Kubectl(u) ==
    /\ api.users[u] # Absent
    /\ \/ Updates("users", [api.users[u] EXCEPT !.admin = ~@])
       \/ \E q \in Quotas \ {api.users[u].quota} :
            Updates("users", [api.users[u] EXCEPT !.quota = q])
    /\ UNCHANGED <<conf, clock, cache, tokens, req, adminAt>>

\* The controllers let go of an object that is being deleted; a User only
\* once he has no DevPods.
Finalized(kind, n) ==
    /\ rev < MaxWrites
    /\ api[kind][n] # Absent /\ api[kind][n].deleting
    /\ kind = "users" => ownedDevPods(api, n) = {}
    /\ Put(kind, n, Absent)
    /\ UNCHANGED <<conf, clock, cache, tokens, req, adminAt>>

-----------------------------------------------------------------------------

\* What a plain user has created can be metered, and carries annotations of
\* Kore only where a template put them.
Metered(dp) == /\ dp.by = "user" => ~dp.kore /\ ~dp.pod.kore
               /\ dp.by # "admin" => Meterable(dp)

ASSUME WorldAssumption ==
    /\ Ops \subseteq Op /\ Edited \subseteq Users
    /\ DefaultQuota \in Quota /\ Quotas \subseteq Quota
    /\ Starts \subseteq [store : Store, tokens : SUBSET Token,
                          conf : [password : BOOLEAN, oauth : BOOLEAN]]
    /\ \A s \in Starts :
         /\ s.conf.password \/ s.conf.oauth
         /\ \A u \in Users : LET x == s.store.users[u]
                            IN  x # Absent => x.name = u /\ x.rv = 0
         /\ \A n \in Names : LET x == s.store.devpods[n]
                            IN  x # Absent => /\ x.name = n /\ x.rv = 0
                                              /\ Valid(x) /\ Metered(x)
         /\ \A t \in s.tokens :
              /\ t.asked = 0 /\ t.minted = 0 /\ t.expiry <= TTL
              /\ t.admin => IsAdmin(s.store, t.user)

Init ==
    /\ clock = 0 /\ rev = 0
    /\ \E s \in Starts : api = s.store /\ tokens = s.tokens /\ conf = s.conf
    /\ cache = api
    /\ events = [users |-> <<>>, devpods |-> <<>>]
    /\ req = [r \in Requests |-> Idle]
    /\ adminAt = [u \in Users |-> IF IsAdmin(api, u) THEN 0 ELSE -TTL]

Login == \E r \in Requests, op \in Ops :
    handlePasswordLogin(r, op) \/ HandleCallback(r, op)

Handle == \E r \in Requests, t \in tokens, op \in Ops :
    \/ handleCreateDevPod(r, t, op) \/ handlePatchDevPod(r, t, op)
    \/ handleDeleteDevPod(r, t, op) \/ handlePutMe(r, t, op)
    \/ handlePatchUser(r, t, op) \/ handleAdminUser(r, t, op)

Proceed == \E r \in Requests :
    \/ ensureUser(r) \/ CallbackAdmin(r) \/ setSession(r)
    \/ checkQuotaUser(r) \/ checkQuotaList(r) \/ Write(r)

World ==
    \/ Tick
    \/ \E kind \in {"users", "devpods"} : Sync(kind)
    \/ \E u \in Edited : Kubectl(u)
    \/ \E u \in Users : Finalized("users", u)
    \/ \E n \in Names : Finalized("devpods", n)

Next == Login \/ Handle \/ Proceed \/ World

Spec == Init /\ [][Next]_vars

-----------------------------------------------------------------------------

\* Types.  Objects are stored and cached under their names, in versions that
\* were given out, and no token is good for longer than one session life.
TypeOK ==
    /\ clock \in 0 .. MaxTime /\ rev \in 0 .. MaxWrites
    /\ \A s \in {api, cache} :
         /\ DOMAIN s.users = Users /\ DOMAIN s.devpods = Names
         /\ \A dp \in Objects(s.devpods) :
              /\ Valid(dp) /\ dp.rv \in 0 .. rev
              /\ s.devpods[dp.name] = dp
         /\ \A u \in Objects(s.users) :
              s.users[u.name] = u /\ u.rv \in 0 .. rev
    /\ \A t \in tokens : t.user \in Users /\ t.expiry <= clock + TTL
    /\ \A r \in Requests :
         req[r].pc \in
            {"idle", "provision", "admin", "mint", "user", "list", "write"}

\* The step in which request r makes its call.
Writes(r) == req[r].pc = "write" /\ req'[r].pc = "idle"

\* A creation or a wake-up that decided on what was still true when it wrote
\* leaves the owner within his quota, resource by resource, unless it does not
\* raise the use of that resource.
QuotaKept ==
    [][\A r \in Requests :
         LET q == EffectiveQuota(api.users[req[r].user])
             before == ownedDevPods(api, req[r].user)
             after == ownedDevPods(api', req[r].user)
             Kept(F(_), limit) == F(after) > F(before) => ~Over(F(after), limit)
         IN  Writes(r) /\ req[r].fresh /\ req[r].since = rev =>
               /\ Kept(Cardinality, q.devpods)
               /\ \A k \in Resources :
                    Kept(LAMBDA S : Compute(S, k), ComputeLimit(q, k))
               /\ Kept(Storage, q.storage)]_vars

\* A request is refused for quota only if what the caches show together with
\* the request would exceed it; or it creates anew what exists, and could not
\* succeed anyway (the copy that exists is then counted as another one).
RefusalJustified ==
    [][\A r \in Requests :
         req[r].pc = "list" /\ req'[r].pc = "idle" =>
           LET q == req[r].quota
               new == req[r].obj
               after == {dp \in ownedDevPods(cache, req[r].user) :
                            dp.name # new.name} \cup {new}
           IN  \/ req[r].op.h = "create" /\ cache.devpods[new.name] # Absent
               \/ Over(Cardinality(after), q.devpods)
               \/ \E k \in Resources : Over(Compute(after, k), ComputeLimit(q, k))
               \/ Over(Storage(after), q.storage)]_vars

\* The admin's page says of every entry of a quota that it leaves empty: it is
\* the global default.  So a resource that the default limits is limited also
\* for those who have a quota of their own.
EmptyIsDefault ==
    \A r \in Requests, k \in Resources :
        req[r].pc = "list" /\ ComputeLimit(req[r].quota, k) = Unset
        => ComputeLimit(DefaultQuota, k) = Unset

\* An update changes what the request is about and nothing else: whatever
\* kubectl, the controllers or another request wrote in between survives.
OthersChangesSurvive ==
    [][\A r \in Requests : Writes(r) =>
         LET op == req[r].op IN
         /\ op.h = "patch" /\ api'.devpods # api.devpods =>
              api'.devpods[op.name] = [api.devpods[op.name] EXCEPT
                 !.running = op.running, !.rv = rev']
         /\ op.h = "putMe" /\ api'.users # api.users =>
              api'.users[req[r].user] =
                 [WithOwn(op, api.users[req[r].user]) EXCEPT !.rv = rev']
         /\ op.h = "patchUser" /\ api'.users # api.users =>
              api'.users[op.user] =
                 [Patched(op, api.users[op.user]) EXCEPT !.rv = rev']]_vars

\* What a plain user created can be metered, and if it carries annotations of
\* Kore, they come from a template.
KoreFromTemplates ==
    \A dp \in Objects(api.devpods) : Metered(dp)

\* Once the caches show that a user is no admin any more, his sessions open
\* the admin's handlers for less than one session life, and the time that his
\* login took from the look at the admin bit to the token.
AdminRightsExpire ==
    [][\A r \in Requests :
         LET q == req'[r]
         IN  req[r].pc = "idle" /\ q.pc \in {"user", "write"} /\ q.admin =>
               clock - adminAt[q.user] < TTL + (q.minted - q.asked)]_vars
=============================================================================
