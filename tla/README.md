# DevPod: a TLA+ verification project

DevPod runs per-user development environments on Kubernetes. A `DevPod` object
asks for a pod with a home directory; a controller makes it exist, hibernates
and wakes it; an SSH gateway authenticates users and proxies their sessions to
the pod; a supervisor runs inside the pod; a web UI edits the objects.

This directory holds TLA+ modules of the parts whose correctness depends on
interleavings, TLC configurations that check them on small instances, and TLAPS
proofs of what matters most. `PROJECT.json` maps every definition to the source
lines it stands for and lists the runs, mutants, findings, hazards and theorems.

## 1. Inventory

| Component | State | Operations | Interacts with |
|---|---|---|---|
| DevPod controller (`internal/controllers/devpod_controller.go`) | the DevPod it reads, `requeueAfter`; everything else is in the API server | `Reconcile`: add/remove finalizer, `detachPVC`, `cleanupOwnerNetPolIfLast`, `hibernate`, `applyAll` (Secret, PVC, Pod, Service, NetworkPolicies), `handleFailedPod`, `updateStatus` | API server through informer caches; kubelet; garbage collector |
| Snapshot controller (`snapshot_controller.go`) | none of its own | `Reconcile`: `materializePushAuth`, Job creation, `reconcileExistingJob`, status patches | the same; Job and TTL controllers; status of the DevPod |
| User controller (`user_controller.go`) | none of its own | `Reconcile`: finalizer, count of DevPods | User and DevPod watches |
| Renderers (`internal/render`) | none | pure functions from a DevPod to its objects | called by the controllers |
| Gateway LDAP source (`internal/gateway/ldap.go`) | cache, single flight, one connection | `Resolve`, `liveLookup`, `acquireConn`, `resetConn` | directory server, authentication |
| Gateway authentication (`auth.go`, `identity.go`, `login_name.go`) | none | `Authenticate`: login name, DevPod, source chain, access, readiness | DevPod cache, identity sources |
| Gateway connections (`cmd/gateway/main.go`, `dialer.go`, `events.go`, `audit.go`) | listener, context, one `handle` goroutine per connection | accept, handshake, dial, session rows and Events, drain | clients, backends, Kubernetes Events |
| Gateway proxy (`proxy.go`) | goroutines and channels of each session | `Proxy`, `proxyChannel` | client and backend SSH connections |
| Supervisor (`cmd/supervisor`) | children, shutdown flag | start, signal forwarding, `waitForChildren`, reaping | kubelet signals, sshd, user command |
| Web UI (`internal/webui`) | signed sessions; informer cache | DevPod API with quota, users, login, streams | API server |

What is hard here: the controllers decide from caches that trail the API server
by different amounts per kind; every API call may fail and the process may
restart between any two; objects are deleted and created again under the same
name; Update conflicts on a changed object while a status merge patch does not;
most branches return without a requeue and depend on the next watch event. In
the gateway: stale entries, shared lookups and a shared connection in the LDAP
source, objects that change during an authentication, the order in which the
pumps of a channel end, and the drain at shutdown. In the supervisor: a reaping
loop and a forwarding goroutine that race the exits of the children. In the web
UI: decisions on caches, followed by writes. `PROJECT.json` lists the hazards
line by line.

What makes each component correct: a DevPod reaches what its spec asks for; its
host key and its home survive; a published endpoint is covered by a network
policy, and policies do not outlive their owner; failures back off. A snapshot
gets an outcome, success is claimed only after a commit, and its credentials
leave the spec. A User is held by its DevPods and released when they are gone. An
LDAP answer is never older than TTL plus grace; a session is opened only for whom
the DevPod and a key source admit, and its audit rows are complete (Events are
best effort); a session's exit status reaches the client and no pump is left
behind. The supervisor reports the user's exit code, ends with sshd and reaps
everything. The web UI keeps the quota it read, undoes nobody's change and lets
withdrawn rights expire.

## 2. Modules

| Module | Models |
|---|---|
| `ApiServer` | the client of controller-runtime's manager: stores, informer caches, watch streams, work queue (external code) |
| `DevPodController` | the DevPod reconciler with users, kubelet, garbage collector, clock |
| `DevPodControllerProofs` | types, and that policy, host key and home are kept, for any names, owners and lag |
| `SnapshotController` | the DevPodSnapshot reconciler with users, target, Job and TTL controllers |
| `SnapshotControllerProofs` | types, that success is real and that credentials go first, for any names and lag |
| `UserController` | the User reconciler with operators and coming and going DevPods |
| `UserControllerProofs` | types, and `ChangesSurvive` |
| `ProxyChannel` | one SSH channel through the gateway: the goroutines of `proxyChannel` and both peers |
| `ProxyChannelProofs` | its safety properties, for any amount of data |
| `IdentitySource` | abstract: what a remote identity source promises its callers |
| `LdapSource` | `ldapSource`: cache, flights, shared connection; implements `IdentitySource` |
| `LdapSourceProofs` | types, flights, soft failure, and that `LdapSource` implements `IdentitySource` |
| `Gateway` | `run`, `handle` and `Authenticate`, over what `IdentitySource` promises |
| `GatewayProofs` | its safety properties, for any connections, logins and caches |
| `Supervisor` | PID 1 of a DevPod: start, reaping loop, forwarding goroutine, exit code |
| `SupervisorProofs` | types, and `UserCodeWins` |
| `WebUI` | the handlers that write, with the quota gate, logins and sessions |
| `WebUIProofs` | its safety properties but the two about sums, for any requests, users and quotas |
| `MCDevPod`, `MCSnapshot`, `MCUser`, `MCProxy`, `MCLdap`, `MCGateway`, `MCSupervisor`, `MCWebUI` | values of the constants for TLC |

**Caches.** `Put` writes an object at the API server and appends a watch event to
the stream of its kind; `DeliverEvent` moves the oldest event into the cache and
the object's name into the work queue. `Lag[kind]` bounds the undelivered events:
one more delivers the oldest. Streams of different kinds are independent, so a
reader may see a newer Pod beside an older DevPod. A restart lists afresh.

**Reconcile.** One worker (`MaxConcurrentReconciles` is 1) takes a name and reads
the object from the cache; the branch it takes is `FirstStep`. Every API call
after that is one action, with `pc[name]` naming the next call, so that all other
actors interleave. An error return is `Fail` (a conflict, a NotFound, a check)
or `CallFails` (any call, bounded by `MaxFaults`): the name goes back to the
queue. `Update` conflicts unless the stored object equals the copy that was read;
comparing contents instead of resource versions admits a few more successful
updates than the server would, never fewer. A status patch of a DevPod or a
snapshot names the object and
carries only the fields that differ from the copy it was computed from
(`MergePatch`). The User controller writes its status with `Update`, the whole
object, which conflicts like any other.

**DevPod controller.** A pod's uid stands for its IP, a Secret's for its host key,
a PVC's for the data on it. The clock ticks in units of 10 s, the first backoff.
`requeueAfter` becomes `timer`. A pod fails, or it finishes: the user's template
may carry a `restartPolicy` under which containers that exit with status 0 stay
down. `promised` is a history variable: the DevPods that were deleted while the
cache showed their home PVC as it was, and whose persistence was not edited
afterwards. Conditions, messages and references in the status
are left out; no guard reads them. `VMBacked` and `HostNetwork` name the DevPods
with `spec.vm` and `hostNetwork`; the theorems hold for every choice of them, the
runs leave them empty. `cmd/controller/main.go` does not set `isolateNetwork` in
the configuration it builds; the policy run sets it, as the tests do.

**Snapshot controller.** The target is one Boolean, whether the cached DevPod and
Pod pass all the checks; every failing check ends in `setFailed`. `JobExpires` is
`ttlSecondsAfterFinished` (5 minutes), assumed longer than a cache's lag and than
the call that records the Job. `spec.pushAuth` is a number that tells credentials
apart: none, those of the creation, those of an edit, which may come at any time
(`EditAuth`). `bore` and `done` are history: which snapshots bore a name and of
which a Job completed.

**User controller.** `spec.owner` is immutable, so the DevPods of a User are one
set per User, and their events map to the owner as `mapDevPodToUser` does. `held`
is a history variable: the DevPods that were there when the deletion was
requested and still are.

**Gateway channel.** `"l"` is the client's channel, `"r"` the backend's. Per side
there is what the peer sent and the gateway has not taken (`data`, `reqs`, `eof`,
`closed`) and what the gateway wrote (`copied`, `sent`). `fwd` holds the two
request forwarders, `pump` the three copies. A write to a channel that is closed
in either direction fails, as in `golang.org/x/crypto/ssh`. Two requests are told
apart, the one that starts a program and the one that reports its end: they are
the ones the code or a property singles out. The start wants a reply, which every
SSH client asks for; `StartAnswered` is the moment `SendRequest` returns.
Flow control is left out: peers read what they are sent.

**LDAP source.** Every call of `Resolve` is a process whose steps are the places
where another call can come between: reading the clock, the look into the cache
under the read lock, joining the flight, taking the connection, the search,
closing the connection, publishing. `lastErrAt` is kept as the Boolean the code
tests. `Absent` is a nil key list ("no such user"). `MaxCall` stands for the
timeouts of dial, bind and search: the clock does not pass it during a call.
The refinement hides cache, flight and connection: `ImplementsSource` maps
`call[c]` to whether it runs, for whom, and its last answer; the directory, its
history (`left`) and the clock are shared. `IdentitySource` allows an answer that
the directory held within the entry's life before the call, plus the grace when
it is marked stale, plus the duration of one call, because the entry is stamped
with the time at which its lookup began.

**Gateway.** Names are sequences of their hyphen-separated parts, so that joining
owner and pod is concatenation and two logins can lead to one resource. `history`
lists the caches the gateway had; an attempt remembers when it began and ended,
so properties can say "at a moment of that attempt". `cand` is what the SSH
library remembers of the last key it asked about: its verdict and
`Permissions.Extensions`. The directory may give any of `Directory[u]`, which is
how `Gateway` uses `IdentitySource`: it relies on an answer being the
directory's, not on how it was cached. `audit` holds the rows and `events` the
Kubernetes Events (those of a session under `EventName`, the resolved name with
the login's pod segment as its fallback), whose best-effort write is taken to
succeed when the recorder finds the DevPod and the context is live. One
connection is enough: handlers share only the cache and `g.Wait`, and a
connection may offer any number of logins and keys.

**Supervisor.** `proc` is the kernel's view of each process, `sent` the signals
that reached a child. `Wait4(-1)` returns any zombie. `signal.Notify` drops a
signal that finds `sigCh` full. `conf.fatal` says which of the four signals end
which child, so that a user command may ignore some or all. The exits of the
children interleave freely with main and with the goroutine that forwards.

**Web UI.** Each request is a process; the cached reads of `checkQuotaFor` are
steps of their own and the write comes last. Users and DevPods have a watch
stream each, which `Sync` delivers to the cache one event at a time, so that a
reader may be shown any earlier version. An update carries the resourceVersion
it was read with. A quota limits the number of DevPods, storage, and each of cpu,
memory and GPUs; its compute list is one field, which `EffectiveQuota` takes over
or replaces as a whole. Limits and sizes are integers: `RequireLimits` refuses zero
only (`IsZero`), so negative ones pass and lower the sums. A pod has one container.
A template's binding overrides the limits it declares, and fails if the
persistence names a container the pod lacks.

A login is a request too: `handlePasswordLogin` reads the User, the password is
compared while others go on, and `setSession` mints the token; `HandleCallback` is
followed by `ensureUser` at the API server, the cached look at the admin bit
(`CallbackAdmin`) and `setSession`. `tokens` are all tokens ever minted: nothing
revokes one, a user may hold several, and a logout, which makes the browser
forget its token, is therefore no action. The prefix of OAuth's user names is
empty, so that the allowlist, which `oauth.go` keys by the provider's name, is
asked by the same name as everywhere. `conf` says which login methods are enabled;
without password login no password is set or changed and no User created. A
submitted old password is right and request bodies are well formed: the other
cases answer with an error and change nothing. `by` records who created a DevPod, `adminAt` when
the cache last showed a user as an admin, `asked` and `minted` when a token's admin
bit was read and when it was made; they are for the properties.

## 3. Runs

Deadlock is checked for `ldap`, where calls keep coming. Elsewhere it is not: a
system in which everything has settled and every bound is used up may stop.

| Run | Result | Question and bounds |
|---|---|---|
| `devpod_policy` | holds | `EndpointHasPolicy`: two names of one owner (symmetric), DevPod cache trailing by two events, one failing call or restart; enough for a sibling to be created, published and hidden from the list the deletion reads. Nothing is hibernated or woken here; the theorem covers that. |
| `devpod_lifecycle` | hold | `HostKeyStable`, `HomeRetained`, and `Converges` under fairness: one DevPod, created, edited once (hibernated or woken, another template, persistence taken out or put back) and deleted, DevPod, PVC and Secret caches trailing by one, one failing call or restart, no failing pod. A name that is used again is left to the theorems on key and home. |
| `devpod_converge` | hold | `TypeOK`, `Converges` under fairness: no edits, but a pod that fails or finishes, counted up to twice, one failing call or restart, DevPod and Pod caches trailing by one. The clock goes on while a timer runs, so every backoff is waited for. |
| `devpod_backoff` | violated | `RetryResetOnlyWhenRunning`: `updateStatus` clears the retry counter while no pod exists, so the backoff is void. |
| `snapshot` | hold | `TypeOK`, `SuccessIsReal`, `AuthFirst`, `Concludes`: two snapshots after one another under one name, with or without inline credentials, one edit of them, caches of snapshots and Jobs trailing by one, one change of the target, one failing call or restart. Two snapshots are what a patch needs to land on the wrong one. |
| `user` | hold | `TypeOK`, `ChangesSurvive`, `UserReleased`, `CountConverges`: two Users after one another under one name, an edit, three DevPods, caches trailing by two, one failing call or restart. |
| `proxy` | hold | `TypeOK`, `ExitStatusFirst`, `DataFirst`, `NoEarlyEOF`, `AllEnd`: a session or a forwarded connection, one chunk on each of stdin, stdout and stderr, EOF, close and the end of the connection at any time on either side. One chunk suffices to be overtaken by a close. |
| `ldap` | hold | `TypeOK`, `ImplementsSource`, `SoftFail`, `FlightsLed`: two callers and two users (symmetric), so that flights are shared and that lookups of different users share, and close, one connection; one edit of the directory, one outage or dropped connection besides an outage at the start; a life and a grace of one tick each, calls of up to one tick, three moments in time, which is when an entry is fresh, in its grace and beyond. |
| `supervisor` | hold | `TypeOK`, `UserCodeWins`, `SshdDeathExits`, `OrphansReaped`: with and without a user command, one that heeds all signals but SIGHUP or none, both settings of `exitOnUserCommandExit`, one orphan, two exit statuses, two signals of the four kinds; `sigCh` holds one signal instead of four, so that it does overflow. |
| `gateway` | hold | `TypeOK`, `Authorized`, `RejectionJustified`, `AuditPaired`, `DrainWaitsOnlyForPeers`: one connection, the colliding logins `a+b-c` and `a-b+c` and one that does not parse, a user's key, another key and a trusted proxy's, two starting worlds and one change of the cache at any moment, SIGTERM and SIGKILL at any moment, two denied keys instead of the library's six. |
| `gateway_event` | violated | `RejectionRecorded`: the Event of a rejected login is recorded under the bare pod segment and is dropped. |
| `webui` | hold | `TypeOK`, `KoreFromTemplates`, `QuotaKept`, `RefusalJustified`, `OthersChangesSurvive`, `AdminRightsExpire`: two requests at a time (symmetric) out of twelve kinds, one user, one admin and one name nobody bears yet, two DevPod names, limits on cpu and memory, a template, a negative limit and size, quotas with one entry and with none, kubectl editing any user, two writes to the API server, caches that trail by both. Two starts: user and admin are logged in, or nobody is and both login methods are enabled. A session life of one tick and two moments in time: enough for rights to be withdrawn between the look at them and the token, and for a token at its expiry. |

Each violated property quotes a comment, a document or a page of the repository;
the findings give the lines. Every property of a passing run has a mutant: a
changed definition, kept next to the one it changes, under which TLC finds the
property violated.

**Bounds.** `MaxDevPods`, `MaxSnapshots`, `MaxUsers`, `MaxEdits`, `MaxPodFaults`,
`MaxFaults`, `MaxFlips`, `MaxTime`, `MaxData`, `MaxChanges` and `MaxSignals`
bound how often the environment acts; they are guards of the actions they bound,
never of the controller's steps. The exceptions are `MaxRetry`, which bounds how
often a trailing cache may have one failed pod counted, and `MaxWrites` of the
web UI, which bounds all writes: two are a decision and the write that overtakes
it. Two DevPods suffice for the policy because `cleanupOwnerNetPolIfLast` looks
for one sibling; the theorem covers any number.

**Fairness.** The worker's next call is weakly fair, since a call returns. Taking
a name from the queue is strongly fair: the queue is FIFO and one worker serves
it, so a name that stays or keeps coming back is served. Watch events, timers,
clock, the kubelet starting or ending a pod, Job and TTL controllers and the
garbage collector are weakly fair. Nothing is assumed of users, failing pods,
failing calls or restarts. In the gateway each goroutine is weakly fair; a peer
answers a close (the SSH protocol demands it) and the start of a program, and is
assumed to do nothing else. The gateway's own steps are weakly fair (its dial,
its lookups and an `Accept` on a closed listener return); clients and backends
are assumed to do nothing, which is why `DrainWaitsOnlyForPeers` excepts a
connection that waits for one. In the supervisor both goroutines are weakly fair,
and a child that was sent a signal fatal to it ends: for sshd these are SIGTERM,
SIGINT and SIGQUIT, while SIGHUP makes it re-execute itself; for the user's
command any set of signals, the empty one included. No child is assumed to end on
its own. `LdapSource` and `WebUI` are checked for safety only.

## 4. Proofs

Assumptions: `ConstantsOK` for the DevPod controller, `ProxyConstants` for the
gateway channel, `TimesAssumption`, `BoundsAssumption` and `NamesAssumption` for
the LDAP source (types of the constants, and that keys, "absent", "failed" and
"nobody" are told apart), `SnapshotConstants` and `UserConstants` (types; finitely
many DevPods, which are counted), `SignalsAssumption`, `ProcsAssumption` and
`StatusesAssumption` for the supervisor (the four signals it is notified of;
orphans are not its children; a wait status has an exit code or a signal below
128), `GatewayAssumption` and `WorldsAssumption` (types of what the caches may
hold; "absent" and "failed" are no key lists), `WebUIAssumption` and
`WorldAssumption` (types of requests, quotas and the objects at the start, which
are admissible and stored under their names). TLC evaluates all of them on the
runs. Names, owners, users, callers, connections, lags, lives and bounds are
arbitrary.

`TypeCorrect` of `DevPodControllerProofs` (`Spec => []TypeOK`). One lemma per
group of actions. Beyond types it says that a watch stream never exceeds its lag
and that the requeue delay `backoff - elapsed` is a natural number.

`EndpointAlwaysHasPolicy` (`Spec => []EndpointHasPolicy`). The invariant is not
inductive: whether the policy is deleted is decided from cached DevPods. `IInv`
adds

* `Ordered`, `UpToDate`: the cached version, the events under way and the stored
  version of a DevPod form one history; a later version is of a younger DevPod or
  of the same one and keeps its deletionTimestamp;
* `Held`: a version with the finalizer that is not being deleted is of a DevPod
  still stored, with the finalizer, since only the worker removes it and only after
  seeing the deletion;
* `Unique`: uids are handed out once and to one name;
* `EndpointSeen`: a DevPod with an endpoint was reconciled, so every version a
  reader can still be shown is of that DevPod; this is why the list that
  `cleanupOwnerNetPolIfLast` reads cannot miss it, whatever the lag;
* `Deleting`, `Applying`: what the worker's copy means for the stored object;
* `OneWorker`, `PolicyFirst`: one reconcile at a time, and the policy is applied
  before the status step publishes an endpoint.

`Inductive` states `Spec => []IInv`; its lemmas go by kind of write (a DevPod
version is appended, another kind is written, a version is delivered) and then
by action.

`HostKeyAlwaysStable` (`Spec => HostKeyStable`). `SecretStep` lists what a step may
do to a Secret: nothing, create it where there is none, or collect one whose owner
is not the stored DevPod. With types and `Whole("sec")` (an absent Secret has no
owner) that suffices, whatever the cache of Secrets shows: `Create` refuses a name
that is taken.

`HomeAlwaysRetained` (`Spec => HomeRetained`). No lag, edit or fault is excluded: the
property itself speaks of a DevPod that is deleted while the cache shows its PVC
(`promised`), and gives the promise up when persistence is edited. From the
deletion on nothing that trails or fails may lose the home. The strengthening
`Home`, on top of `IInv`, says of every promise

* `Attached`: while the PVC is the DevPod's, that DevPod is stored, deleted, held by
  its finalizer and persistent, and every version of the PVC a reader can be
  shown is one of its own, so `detachPVC` cannot skip it;
* `Persists`: nobody who finds the DevPod deleted finds it without persistence, so
  `detachPVC` does not return early;
* `Detached`: between `detachPVC` and the removal of the finalizer the PVC is not the
  DevPod's any more;
* `Released`: nor will it be again: no reader finds the DevPod alive, so no reconcile
  applies the PVC for it.

`ProxyTypeCorrect`, `ExitStatusAlwaysFirst`, `DataAlwaysFirst` and `EOFNeverEarly`
(`ProxyChannelProofs`), all from one inductive invariant, which adds

* `OneCloser`, `ForwarderLast`: a channel is closed by the forwarder of the
  opposite side only, after that side's peer has closed, its requests are drained
  and its pump has ended;
* `NoneSkipped`: a running pump has lost nothing; one that has ended met EOF with
  everything copied, or its target was closed by the peer. The second case is why
  `DataFirst` alone is not inductive: the close that follows must then be one that
  no longer reaches anybody;
* `Gate`: an open gate on a session means the start was answered, or the backend's
  channel is shut, or the client has closed; and a start that waits was not passed
  on before;
* `NotYet`: nothing moves before the goroutines run.

`LdapTypeCorrect`, `FlightsAlwaysLed`, `LdapFailsSoftly` and `LdapImplementsSource`
(`LdapSourceProofs`), from the inductive invariant `Spec => []IInv`
(`LdapInductive`), which adds to the types

* `Led`: a flight's leader works on the flight's user, a caller at work leads the
  flight of its user, and whoever waits has a flight to wait for. `FlightsLed` is
  its consequence; it is not inductive alone, since `Publish` frees the key of a
  flight and must be the step of that flight's only leader;
* `Brief`: a running call began at most `MaxCall` ago (`Tick` is bounded by the
  timeouts of dial, bind and search);
* `Grounded`: a cached value, and one about to be published, was in the directory
  when the lookup that found it read the clock, or later. It is kept because the
  clock is read before the search; stamping the entry after it breaks this part.

The refinement maps a call to whether it runs, for whom, and its last answer. A
hit in the cache and the end of a flight are `Reply` (of all aboard at once),
`Resolve` is `Ask`, edits and ticks are `World`, and every other step is a stutter.
That an answer is promised follows from `Grounded` and `Brief`: the entry was
young enough at the start of the call, and the call is short.

`SnapshotTypeCorrect`, `SuccessAlwaysReal` and `AuthAlwaysFirst`
(`SnapshotControllerProofs`), without hypotheses on names, lag, edits or faults.
`Seen(k)` is every place an object of kind k is visible in: server, cache,
undelivered events. A write adds one object to it (`PutSeen`); a delivery, a
restart and a failed call add none. So `Typed` and the safety part `SInv` speak
of what is seen and one lemma per kind of write carries them. Status patches and
Jobs go by name, so what is seen under a name may be of any snapshot that bore
it; `SInv` adds to the two properties

* `SnapshotsBorne`, `JobsBorne`: what is seen under a name bore it, and a Job that is
  seen as complete did complete. `SuccessIsReal` needs no more, since
  `reconcileExistingJob` patches for a Job it has seen;
* `WorkerClean`, and `Clean` in the others: credentials of the creation that one
  version of a snapshot lacks are gone from the stored one too, and a worker past
  `materializePushAuth` has read such a version. So the phase that it writes finds
  them gone, unless it patches another snapshot than it read, which takes a name
  that was used before.

`UserTypeCorrect` and `UserChangesSurvive` (`UserControllerProofs`) need little
more than types: `HasUser` (a reconcile under way has a User in its hands). That no
call undoes an edit rests on the conflict check of `Update`, by which the status
is written too, as part of the whole object; the action property is proved action
by action.

`SupervisorTypeCorrect` and `UserCodeAlwaysWins` (`SupervisorProofs`). `TypeOK` says
that there is a child while main waits, and neither that nor `UserCodeWins` is
inductive. `IInv` adds `Spawned` (children are started in their order), `Flagged`
(no signal counts before they are), `Hit` (main decides on a child it has
reaped), `SshdGone` (sshd is reaped and main goes on only in a shutdown that
still waits for the user's command) and `DrainAlone` (the drain after a child's
own exit is not the shutdown of two living).

`GatewayTypeCorrect`, `OnlyAuthorizedSessions`, `RejectionsJustified` and
`AuditAlwaysPaired` (`GatewayProofs`), from `GatewayInductive`. The invariant is
a predicate `ConnInv` of one connection, its rows and the history of the cache: a
step moves one connection (`MoveOne`) and the history only grows (`Grows`), so
that facts about a moment of an attempt last. Its parts:

* `Attempt`: what an authentication under way has established: the DevPod in its
  hands was in the cache since the attempt began, and a source it has passed
  lacked the key;
* `Granted`, `Denied`: what it has established when it ends, kept in the verdict
  that the SSH library remembers and in the row;
* `Paired`: a row is open exactly while the handler is between session_open and
  its deferred close.

`TypeCorrect`, `KoreAlwaysFromTemplates`, `ChangesAlwaysSurvive` and
`AdminRightsAlwaysExpire` (`WebUIProofs`), from `Inductive` of that module.
`IInv` adds

* `Kept`: objects are stored and cached under their names, in versions that were
  given out, and DevPods are valid and `Metered` (`KoreFromTemplates` of one);
* `Agree`, `Streams`: a cached object, or a copy on its way to the cache, and the
  stored object are equal if they bear one resourceVersion. Every write takes a
  version that no copy bears, so `Sync` and writes keep it;
* `Prepared`: what a handler is about to write is, if its version is still the
  stored one, the stored object with the fields of the request. This is what
  `OthersChangesSurvive` needs at the write; the quota gate may take any number of
  steps in between. A created or woken DevPod has also passed the checks that make
  it `Metered`;
* `Tokens`, `Rights`: a token lives at most `TTL` from its minting, and the admin bit
  in it, or in a login under way, was read (`asked`) when the caches still showed
  the rights. Between reading and minting any time may pass, which is why the
  bound of `AdminRightsExpire` has that time in it.

Only model-checked: liveness (the prover has no fairness or ENABLED), and
`QuotaKept` and `RefusalJustified` of the web UI, which are about sums over finite
sets and would need induction over data. The properties of the violated runs have
no theorem, of course.

## 5. Disagreements

Two have a run of their own and a finding that quotes the line: `devpod_backoff`
and `gateway_event`. What follows was found while modelling, too. Definitions that
are named are in the modules, and adding one to the run named (a state predicate as
an INVARIANT, the others as a PROPERTY) makes TLC show how it fails.

* `NoOrphanPolicy` (`devpod_policy`). `cleanupOwnerNetPolIfLast`
  (`devpod_controller.go:258`) keeps the policy for a sibling without finalizer;
  deleted before `AddFinalizer`, that sibling vanishes without cleanup. The
  design says the policy is "deleted with the owner's last DevPod"
  (`docs/superpowers/specs/2026-05-12-devpod-design.md:458`).
* `HomeNeverCollected` (`devpod_lifecycle`). `detachPVC` returns early when
  `spec.persistence` is nil (`devpod_controller.go:212`): if it is taken out of the
  spec and the DevPod deleted, the home goes with it. It is lost without any edit
  too when the PVC cache trails: the `Get` at line 217 does not show a PVC just
  applied, or shows the one an earlier DevPod of the name left with that one's
  owner reference, and `detachPVC` skips it. "Default behavior is **retain** (data
  survives `kubectl delete devpod`)"
  (`docs/superpowers/specs/2026-05-12-devpod-m2-persistence-hibernate.md:119`).
* A pod that finishes without failing (phase Succeeded, under the user's
  `restartPolicy`) is not replaced by any branch of `applyPodWithDriftRecreate`
  (`devpod_controller.go:457-480`), and its DevPod is shown as Pending (line 328) for
  ever. `Converges` counts this as settled.
* The Job of a snapshot is created before `status.jobRef` is patched
  (`snapshot_controller.go:119`); if the patch fails, the TTL removes the Job and a
  second one commits a later state. "retrying makes no semantic sense"
  (`2026-05-22-devpod-snapshot.md:279`).
* A status patch for a snapshot that was deleted lands on the next of its name
  (`snapshot_controller.go:195`), which inherits the outcome: its own container is
  not committed and its credentials may stay. `SuccessIsReal` and `AuthFirst` say
  what is left.
* `AuthCleared` (`snapshot`). `Reconcile` returns for a snapshot with an outcome
  (`snapshot_controller.go:55`) before it looks at `spec.pushAuth`, which stays
  mutable: credentials an edit puts there stay. "Plaintext only exists in etcd for
  the duration of one reconcile cycle" (`devpodsnapshot_types.go:24`).
* `ClearedIsKept` (`snapshot`). `materializePushAuth` ignores that the Secret exists
  (`snapshot_controller.go:243`): credentials edited after its creation are cleared
  from the spec and kept nowhere. "converts them to a dockerconfigjson Secret, sets
  pushSecretRef, and clears this field" (`devpodsnapshot_types.go:56`).
* `DevPodsHoldUser` (`user`). The deletion of a User may be seen before an older
  DevPod (`user_controller.go:50`). "finalizer blocks User delete until DevPod
  removed" (`2026-05-12-devpod-design.md:512`).
* `StderrFirst` (`proxy`). Nobody waits for the copy of stderr (`proxy.go:206`).
* `SshdDeathAlwaysExits` (`supervisor`). Every forwarded signal, SIGHUP too, sets the
  shutdown flag, after which only the end of the user's command counts
  (`cmd/supervisor/main.go:185`). A command that survives the signal keeps the
  supervisor waiting when sshd ends. "sshd's death always exits the supervisor"
  (`cmd/supervisor/main.go:143`).
* `cmd/supervisor/main.go:149` says that a shutdown waits "for all tracked
  children", while it ends once the user's command is reaped.
* The retry of `liveLookup` does not hide every dropped connection: another
  user's `resetConn` may close the connection of both tries (`ldap.go:301`), and
  the lookup fails although the directory was up all the time.
* A negative LDAP entry in its grace is served as "not found"
  (`ldap.go:239`, `auth.go:142`): the row of the rejected login does not show the
  outage that `cmd/gateway/main.go:393` wants surfaced.
* `EmptyIsDefault` (`webui`). A user's compute list replaces the default one as a
  whole (`quota.go:52`): a quota with a limit on cpu alone has none on memory. The
  admin's page, with an input per resource, says "Empty = the global default."
  (`web/src/pages/AdminUsers.tsx:53`).

## 6. What is not modelled

Generated code; rendering details that no guard reads; leader election (the chart
runs one replica, and a deposed leader that keeps writing is not considered); the
pod phase Unknown, deprecated and not set by Kubernetes since 2015. Of the
gateway: start-up, the banner, the PROXY protocol listener, the HTTP proxy (no
state shared with sessions), global requests and channels a backend opens (the
code of `proxyChannel` with the sides swapped), counters. Of the supervisor:
`bootstrap` and `shell.go`, sequential file edits before anything runs. Of the
web UI: handlers that only read, streams and topology, and the OAuth exchange
with the provider. A DevPod deleted by name after a cached check of its owner
(`api_devpods.go:439`) may be a newer one of that name; the name starts with the
owner, so it is usually the same user's, and the model shows no more than that.

## 7. Plan

1. An abstract specification of a DevPod's life (absent, pending, running,
   stopped, deleting) that `DevPodController` implements.
2. `QuotaKept` for any number of DevPods, with the sums as parameters of the proof.
3. Channels that a backend opens, and global requests, through the gateway.
