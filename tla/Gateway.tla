------------------------------ MODULE Gateway ------------------------------
(***************************************************************************)
(* The SSH gateway (cmd/gateway/main.go, internal/gateway/auth.go):        *)
(* accepted connections, the authentication of each offered key against    *)
(* cached objects and a chain of identity sources, the session that        *)
(* follows, its audit rows and Events, and the drain at shutdown.          *)
(*                                                                         *)
(* A name with hyphens is the sequence of its parts: "a-b" is <<"a", "b">>,*)
(* and joining two names with a hyphen is \o.                              *)
(*                                                                         *)
(* The cache is an informer: reads of it never fail.  It changes until the *)
(* context is cancelled and then stays as it is.  The LDAP source answers  *)
(* what IdentitySource promises; here that is any member of Directory.     *)
(***************************************************************************)
EXTENDS Integers, Sequences

CONSTANTS
    Conns,          \* connections
    Logins,         \* login names: [parses : BOOLEAN, user : Seq, pod : Seq]
    Keys,           \* public keys
    ProxyKeys,      \* the keys of GatewayConfig.spec.trustedProxyKeys
    Garbage,        \* a line of spec.pubkeys that does not parse
    Absent,         \* no such object
    Failed,         \* an identity source fails
    Directory,      \* Directory[u]: the answers LDAP may give for u
    Worlds,         \* the cached objects at the start
    DevPodStates,   \* the DevPods an edit may leave behind
    UserLines,      \* the pubkey lines an edit of a User may leave behind
    MaxAuthTries,   \* denied keys after which x/crypto/ssh hangs up
    MaxChanges      \* bound: changes of the cache

ASSUME GatewayAssumption ==
    /\ MaxAuthTries \in Nat \ {0} /\ MaxChanges \in Nat
    /\ ProxyKeys \subseteq Keys /\ Garbage \notin Keys
    /\ Absent \notin DevPodStates /\ Absent # Failed

VARIABLES
    ctx,            \* "live" or "cancelled" (SIGTERM)
    main,           \* "accept", "drain" or "exited"
    listening,      \* the listener is open
    graceful,       \* run returned from g.Wait
    history,        \* the caches the gateway had; the last one is current
    conn,           \* conn[c]: the state of handle
    audit,          \* audit[c]: the number of session_open rows of c, the
                    \* reasons of its session_close rows, and the
                    \* auth_failure row of its last attempt
    events          \* events[c]: Kubernetes Events written for c

vars == <<ctx, main, listening, graceful, history, conn, audit, events>>

Users == {l.user : l \in {m \in Logins : m.parses}}

DevPodResourceName(owner, pod) == owner \o pod

Names == UNION {{DevPodResourceName(l.user, l.pod), l.pod} :
                   l \in {m \in Logins : m.parses}}

Now == Len(history)
World == history[Now]

\* The caches, what the edits and sources may put into them, and that neither
\* "no such object" nor "failed" is taken for a set of keys.
ASSUME WorldsAssumption ==
    /\ \A l \in Logins : l.parses \in BOOLEAN
    /\ Worlds \subseteq [devpod : [Names -> DevPodStates \cup {Absent}],
                         lines : [Users -> UserLines]]
    /\ \A s \in UserLines : s = Absent \/ s \subseteq Keys \cup {Garbage}
    /\ \A s \in SUBSET Keys : s # Absent /\ s # Failed

\* What the SSH library keeps of the last key it asked the callback about:
\* the verdict and, for a granted key, Permissions.Extensions.  since and upto
\* are the moments between which the callback ran.
NoCand == [ok |-> FALSE]

Fresh == [pc |-> "none", login |-> Absent, key |-> Absent, since |-> 0,
          name |-> Absent, dp |-> Absent, i |-> 0, known |-> FALSE,
          err |-> FALSE, cand |-> NoCand, tries |-> 0, reason |-> "none"]

InCallback(c) == conn[c].pc \in {"scoped", "bare", "source"}
InSession(c) == conn[c].pc \in {"dial", "hello", "proxy", "close"}

Init ==
    /\ ctx = "live" /\ main = "accept" /\ listening = TRUE
    /\ graceful = FALSE
    /\ \E w \in Worlds : history = <<w>>
    /\ conn = [c \in Conns |-> Fresh]
    /\ audit = [c \in Conns |-> [open |-> 0, close |-> <<>>, denied |-> {}]]
    /\ events = [c \in Conns |-> {}]

-----------------------------------------------------------------------------
(* EventRecorder: an Event needs the DevPod in the cache and a live        *)
(* context.  The write itself is best effort and is taken to succeed.      *)

record(c, name, reason) ==
    events' = IF ctx = "live" /\ World.devpod[name] # Absent
              THEN [events EXCEPT ![c] = @ \cup {[reason |-> reason,
                                                   name |-> name]}]
              ELSE events

\* The name a session's Events refer to: the resource that Authenticate found,
\* or, should the callback have left none, the pod segment of the login.
EventName(cand) == IF cand.name = <<>> THEN cand.login.pod ELSE cand.name

-----------------------------------------------------------------------------
(* Authenticate, called from PublicKeyCallback.                            *)

Served == <<ctx, main, listening, graceful, history>>

Reject(c, cn, reason) ==
    /\ conn' = [conn EXCEPT ![c] =
         [Fresh EXCEPT !.pc = "idle", !.tries = cn.tries + 1]]
    /\ audit' = [audit EXCEPT ![c].denied = {
         [reason |-> reason, err |-> cn.err, login |-> cn.login,
          key |-> cn.key, name |-> cn.name, since |-> cn.since,
          upto |-> Now]}]
    /\ IF cn.login.parses
       THEN record(c, cn.login.pod, "AuthRejected")
       ELSE UNCHANGED events

\* Mutant: a resource that bears the user's name is taken to be his.
accessByName(name, dp, login) ==
    \/ name = DevPodResourceName(login.user, login.pod)
    \/ dp.owner = login.user \/ login.user \in dp.collaborators

accessAllowed(name, dp, login) ==
    dp.owner = login.user \/ login.user \in dp.collaborators

finalize(c, cn) ==
    IF ~accessAllowed(cn.name, cn.dp, cn.login)
    THEN Reject(c, cn, "access_denied")
    ELSE IF ~(cn.dp.running /\ cn.dp.endpoint)
    THEN Reject(c, cn, "devpod_not_ready")
    ELSE /\ conn' = [conn EXCEPT ![c] =
              [Fresh EXCEPT !.pc = "idle", !.tries = cn.tries, !.cand =
               [ok |-> TRUE, login |-> cn.login, key |-> cn.key,
                name |-> cn.name, since |-> cn.since, upto |-> Now]]]
         /\ UNCHANGED <<audit, events>>

\* Mutant: the error of ParseLoginName is dropped.
ParseFailsNever(login) == FALSE
ParseFails(login) == ~login.parses

\* The client offers a key under a login name; both may differ every time.
Authenticate(c) ==
    /\ main # "exited" /\ conn[c].pc = "idle" /\ conn[c].tries < MaxAuthTries
    /\ \E l \in Logins, k \in Keys :
         LET cn == [conn[c] EXCEPT !.login = l, !.key = k, !.since = Now,
                                   !.name = Absent, !.err = FALSE]
         IN  IF ParseFails(l)
             THEN Reject(c, cn, "bad_login_format")
             ELSE /\ conn' = [conn EXCEPT ![c] = [cn EXCEPT !.pc = "scoped"]]
                  /\ audit' = [audit EXCEPT ![c].denied = {}]
                  /\ UNCHANGED events
    /\ UNCHANGED Served

\* The DevPod is in hand: a trusted proxy's key skips the identity sources.
Fetched(c, name) ==
    LET cn == [conn[c] EXCEPT !.name = name, !.dp = World.devpod[name]]
    IN  IF cn.key \in ProxyKeys
        THEN finalize(c, cn)
        ELSE /\ conn' = [conn EXCEPT ![c] = [cn EXCEPT !.pc = "source",
                                          !.i = 1, !.known = FALSE]]
             /\ UNCHANGED <<audit, events>>

GetScoped(c) ==
    /\ main # "exited" /\ conn[c].pc = "scoped"
    /\ LET name == DevPodResourceName(conn[c].login.user, conn[c].login.pod)
       IN  IF World.devpod[name] # Absent
           THEN Fetched(c, name)
           ELSE /\ conn' = [conn EXCEPT ![c].pc = "bare"]
                /\ UNCHANGED <<audit, events>>
    /\ UNCHANGED Served

\* DevPods from before owner-scoped names are called by the pod alone.
GetBare(c) ==
    /\ main # "exited" /\ conn[c].pc = "bare"
    /\ IF World.devpod[conn[c].login.pod] # Absent
       THEN Fetched(c, conn[c].login.pod)
       ELSE Reject(c, conn[c], "devpod_not_found")
    /\ UNCHANGED Served

\* crdSource: lines that do not parse are dropped.
CrdKeys(w, u) == IF w.lines[u] = Absent THEN Absent ELSE w.lines[u] \ {Garbage}

Sources == <<"crd", "ldap">>

Answers(src, u) ==
    IF src = "crd" THEN {CrdKeys(World, u)} ELSE Directory[u]

IsKeys(a) == a \notin {Absent, Failed}

Verdict(known) == IF known THEN "key_mismatch" ELSE "user_not_found"

\* Mutant: the first source that knows the user ends the loop.
GoesOnUnlessKnown(cn) == cn.i < Len(Sources) /\ ~cn.known
GoesOn(cn) == cn.i < Len(Sources)

\* One round of the loop over the sources.  Neither an unknown user, nor a
\* failure, nor a key that does not match ends the loop.
TrySource(c) ==
    /\ main # "exited" /\ conn[c].pc = "source"
    /\ \E a \in Answers(Sources[conn[c].i], conn[c].login.user) :
         LET cn == [conn[c] EXCEPT !.known = @ \/ IsKeys(a),
                                   !.err = @ \/ a = Failed]
         IN  IF IsKeys(a) /\ cn.key \in a
             THEN finalize(c, cn)
             ELSE IF GoesOn(cn)
             THEN /\ conn' = [conn EXCEPT ![c] = [cn EXCEPT !.i = cn.i + 1]]
                  /\ UNCHANGED <<audit, events>>
             ELSE Reject(c, cn, Verdict(cn.known))
    /\ UNCHANGED Served

-----------------------------------------------------------------------------
(* handle.                                                                 *)

\* The client signs with the key the library remembers as granted.
SessionOpen(c) ==
    /\ main # "exited" /\ conn[c].pc = "idle" /\ conn[c].cand.ok
    /\ conn' = [conn EXCEPT ![c].pc = "dial"]
    /\ audit' = [audit EXCEPT ![c].open = @ + 1]
    /\ UNCHANGED <<Served, events>>

\* The client leaves, or the library gives up on it.
HandshakeFails(c) ==
    /\ main # "exited" /\ conn[c].pc = "idle"
    /\ conn' = [conn EXCEPT ![c].pc = "closed"]
    /\ UNCHANGED <<Served, audit, events>>

DialFailed(c) ==
    /\ conn' = [conn EXCEPT ![c].pc = "close", ![c].reason = "dial_failed"]
    /\ record(c, EventName(conn[c].cand), "DialFailed")
    /\ UNCHANGED <<Served, audit>>

\* The TCP connection is made, or refused, timed out or cancelled.
DialTCP(c) ==
    /\ main # "exited" /\ conn[c].pc = "dial"
    /\ \/ /\ ctx = "live"
          /\ conn' = [conn EXCEPT ![c].pc = "hello"]
          /\ UNCHANGED <<Served, audit, events>>
       \/ DialFailed(c)

\* ssh.NewClientConn has no deadline: it waits for the backend.
BackendAnswers(c) ==
    /\ main # "exited" /\ conn[c].pc = "hello"
    /\ \/ /\ conn' = [conn EXCEPT ![c].pc = "proxy"]
          /\ record(c, EventName(conn[c].cand), "SessionConnected")
          /\ UNCHANGED <<Served, audit>>
       \/ DialFailed(c)

ProxyEnds(c) ==
    /\ main # "exited" /\ conn[c].pc = "proxy"
    /\ \E r \in {"client_disconnect", "proxy_error"} :
         conn' = [conn EXCEPT ![c].pc = "close", ![c].reason = r]
    /\ UNCHANGED <<Served, audit, events>>

\* The deferred calls.
SessionClose(c) ==
    /\ main # "exited" /\ conn[c].pc = "close"
    /\ conn' = [conn EXCEPT ![c].pc = "closed"]
    /\ audit' = [audit EXCEPT ![c].close =
                                         Append(@, conn[c].reason)]
    /\ record(c, EventName(conn[c].cand), "SessionDisconnected")
    /\ UNCHANGED Served

-----------------------------------------------------------------------------
(* run and the end of main.                                                *)

Accept(c) ==
    /\ main = "accept" /\ listening /\ conn[c].pc = "none"
    /\ conn' = [conn EXCEPT ![c].pc = "idle"]
    /\ UNCHANGED <<Served, audit, events>>

\* Accept fails on a closed listener, or for want of a file descriptor.
AcceptFails ==
    /\ main = "accept"
    /\ main' = IF ctx = "cancelled" THEN "drain" ELSE "exited"
    /\ UNCHANGED <<ctx, listening, graceful, history, conn, audit, events>>

\* Mutant: the listener is closed only once Accept has returned.
CloseListenerLate ==
    /\ main = "drain" /\ ctx = "cancelled" /\ listening
    /\ listening' = FALSE
    /\ UNCHANGED <<ctx, main, graceful, history, conn, audit, events>>

CloseListener ==
    /\ main # "exited" /\ ctx = "cancelled" /\ listening
    /\ listening' = FALSE
    /\ UNCHANGED <<ctx, main, graceful, history, conn, audit, events>>

\* Mutant: run returns without g.Wait.
DrainedAtOnce ==
    /\ main = "drain"
    /\ main' = "exited" /\ graceful' = TRUE
    /\ UNCHANGED <<ctx, listening, history, conn, audit, events>>

\* g.Wait returns: main closes the identity sources and returns.
Drained ==
    /\ main = "drain"
    /\ \A c \in Conns : conn[c].pc \in {"none", "closed"}
    /\ main' = "exited" /\ graceful' = TRUE
    /\ UNCHANGED <<ctx, listening, history, conn, audit, events>>

-----------------------------------------------------------------------------
(* The surroundings: SIGTERM, SIGKILL, and edits that reach the cache.     *)

Terminate ==
    /\ main # "exited" /\ ctx = "live" /\ ctx' = "cancelled"
    /\ UNCHANGED <<main, listening, graceful, history, conn, audit, events>>

Kill ==
    /\ main # "exited" /\ ctx = "cancelled" /\ main' = "exited"
    /\ UNCHANGED <<ctx, listening, graceful, history, conn, audit, events>>

CacheChanges ==
    /\ main # "exited" /\ ctx = "live" /\ Now <= MaxChanges
    /\ \/ \E n \in Names : \E d \in (DevPodStates \cup {Absent})
                                       \ {World.devpod[n]} :
            history' = Append(history, [World EXCEPT !.devpod[n] = d])
       \/ \E u \in Users : \E s \in UserLines \ {World.lines[u]} :
            history' = Append(history, [World EXCEPT !.lines[u] = s])
    /\ UNCHANGED <<ctx, main, listening, graceful, conn, audit, events>>

-----------------------------------------------------------------------------

\* What the gateway does on its own, and what it waits for peers to do.
Step(c) == GetScoped(c) \/ GetBare(c) \/ TrySource(c) \/ DialTCP(c)
              \/ SessionClose(c)

PeerStep(c) == Authenticate(c) \/ SessionOpen(c) \/ HandshakeFails(c)
                  \/ BackendAnswers(c) \/ ProxyEnds(c)

Next ==
    \/ \E c \in Conns : Accept(c) \/ Step(c) \/ PeerStep(c)
    \/ AcceptFails \/ CloseListener \/ Drained
    \/ Terminate \/ Kill \/ CacheChanges

Spec == Init /\ [][Next]_vars

\* Go schedules every goroutine, the TCP dial and the LDAP calls have
\* timeouts, and Accept on a closed listener fails.  Nothing is assumed of
\* clients and backends.
FairSpec ==
    /\ Spec
    /\ \A c \in Conns : WF_vars(Step(c))
    /\ WF_vars(CloseListener) /\ WF_vars(~listening /\ AcceptFails)
    /\ WF_vars(Drained)

-----------------------------------------------------------------------------

TypeOK ==
    /\ ctx \in {"live", "cancelled"} /\ main \in {"accept", "drain", "exited"}
    /\ listening \in BOOLEAN /\ graceful \in BOOLEAN
    /\ Now \in 1 .. MaxChanges + 1
    /\ \A c \in Conns :
         /\ conn[c].pc \in {"none", "idle", "scoped", "bare", "source",
                            "dial", "hello", "proxy", "close", "closed"}
         /\ conn[c].tries \in 0 .. MaxAuthTries
         /\ InCallback(c) => conn[c].login \in Logins /\ conn[c].login.parses
         /\ conn[c].pc = "source" =>
              conn[c].dp \in DevPodStates /\ conn[c].i \in 1 .. Len(Sources)
         /\ InSession(c) => conn[c].cand.ok

Grants(dp, u) ==
    /\ dp # Absent
    /\ u \in {dp.owner} \cup dp.collaborators
    /\ dp.running /\ dp.endpoint

\* The cache held, or a source could answer, at a moment of an attempt.
During(a, P(_)) == \E i \in a.since .. a.upto : P(history[i])

\* A session is opened only for a DevPod that, at a moment of that very
\* attempt, ran and was the user's or shared with him, and only with a key
\* that a trusted proxy holds or that a source knew as his: also when the
\* resource names of two logins coincide, objects change during the attempt,
\* or the client offered other keys and logins before.
Authorized ==
    \A c \in Conns : InSession(c) =>
        LET a == conn[c].cand
            u == a.login.user
            Open(w) == Grants(w.devpod[a.name], u)
            Knows(w) == LET ks == CrdKeys(w, u)
                        IN  ks # Absent /\ a.key \in ks
        IN  /\ a.name \in {DevPodResourceName(u, a.login.pod), a.login.pod}
            /\ During(a, Open)
            /\ \/ a.key \in ProxyKeys
               \/ During(a, Knows)
               \/ \E d \in Directory[u] : IsKeys(d) /\ a.key \in d

\* A denial for want of a matching key is right about every source: none of
\* them had to answer with the key.  One that failed or did not know the user
\* or the key never keeps another from being asked, and a source that did
\* answer is never reported as failed.
RejectionJustified ==
    \A c \in Conns : \A r \in audit[c].denied :
        r.reason \in {"user_not_found", "key_mismatch"} =>
        LET u == r.login.user
            Lacks(w) == LET ks == CrdKeys(w, u)
                        IN  ks = Absent \/ r.key \notin ks
            Misses(d) == ~IsKeys(d) \/ r.key \notin d
        IN  /\ r.key \notin ProxyKeys
            /\ During(r, Lacks)
            /\ IF r.err THEN Failed \in Directory[u]
               ELSE \E d \in Directory[u] \ {Failed} : Misses(d)

\* When the gateway exits after its drain, every session_open row has its
\* session_close row: no session is cut off by the exit.
AuditPaired ==
    /\ main = "exited" /\ graceful
    => \A c \in Conns : audit[c].open = Len(audit[c].close)

\* After SIGTERM the gateway exits unless a client or a backend holds it:
\* nothing inside the gateway keeps the drain from ending.
WaitsForPeer(c) == conn[c].pc \in {"idle", "hello", "proxy"}

DrainWaitsOnlyForPeers ==
    ctx = "cancelled" ~> main = "exited" \/ \E c \in Conns : WaitsForPeer(c)

\* A rejected login on a DevPod that exists leaves an Event on that DevPod.
RejectionRecorded ==
    [][\A c \in Conns : \A r \in audit'[c].denied \ audit[c].denied :
         ctx = "live" /\ r.name # Absent /\ World.devpod[r.name] # Absent
         => [reason |-> "AuthRejected", name |-> r.name] \in events'[c]]_vars
=============================================================================
