--------------------------- MODULE GatewayProofs ---------------------------
(***************************************************************************)
(* The gateway for any connections, logins, keys, caches and answers of    *)
(* the directory: who gets a session, why others are turned away, which    *)
(* Events and audit rows are left behind.                                  *)
(*                                                                         *)
(* The invariant is a predicate of one connection, its audit rows, its     *)
(* Events and the history of the cache: no step touches two connections,   *)
(* and the history only grows.                                             *)
(***************************************************************************)
EXTENDS Gateway, SequenceTheorems, TLAPS

Callback == {"scoped", "bare", "source"}
Session == {"dial", "hello", "proxy", "close"}
Reasons == {"none", "dial_failed", "client_disconnect", "proxy_error"}
PCs == {"none", "idle", "closed"} \cup Callback \cup Session

WorldType == [devpod : [Names -> DevPodStates \cup {Absent}],
              lines : [Users -> UserLines]]
Granting == [ok : {TRUE}, login : Logins, key : Keys, name : Names,
             since : Nat, upto : Nat]
Conn == [pc : PCs, login : Logins \cup {Absent}, key : Keys \cup {Absent},
         since : Nat, name : Names \cup {Absent},
         dp : DevPodStates \cup {Absent}, i : Nat, known : BOOLEAN,
         err : BOOLEAN, cand : Granting \cup {NoCand},
         tries : 0 .. MaxAuthTries, reason : Reasons]

\* The names a login may lead to.
NamesOf(l) == {DevPodResourceName(l.user, l.pod), l.pod}

\* In the cache w, the User has the key, or he lacks it.
KnowsIn(w, u, k) == CrdKeys(w, u) # Absent /\ k \in CrdKeys(w, u)
LacksIn(w, u, k) == CrdKeys(w, u) = Absent \/ k \notin CrdKeys(w, u)

\* What Authenticate has established when it returns permissions.
Granted(a, h) ==
    LET u == a.login.user
        span == a.since .. a.upto
    IN  /\ a \in Granting /\ a.login.parses
        /\ a.since >= 1 /\ a.upto <= Len(h)
        /\ a.name \in NamesOf(a.login)
        /\ \E j \in span : Grants(h[j].devpod[a.name], u)
        /\ \/ a.key \in ProxyKeys
           \/ \E j \in span : KnowsIn(h[j], u, a.key)
           \/ \E d \in Directory[u] : IsKeys(d) /\ a.key \in d

\* What it has established when it denies for want of a matching key.
Denied(r, h) ==
    r.reason \in {"user_not_found", "key_mismatch"} =>
        LET u == r.login.user
        IN  /\ r.since \in Nat /\ r.upto \in Nat
            /\ r.since >= 1 /\ r.upto <= Len(h)
            /\ r.key \notin ProxyKeys
            /\ \E j \in r.since .. r.upto : LacksIn(h[j], u, r.key)
            /\ IF r.err THEN Failed \in Directory[u]
               ELSE \E d \in Directory[u] \ {Failed} :
                        ~IsKeys(d) \/ r.key \notin d

\* What it has established on its way: the DevPod it holds was in the cache
\* during this attempt, and a source it has passed did not have the key.
Attempt(x, h) ==
    /\ x.login \in Logins /\ x.login.parses /\ x.key \in Keys
    /\ x.since \in 1 .. Len(h) /\ x.tries < MaxAuthTries /\ ~x.err
    /\ x.pc = "source" =>
         /\ x.key \notin ProxyKeys
         /\ x.name \in NamesOf(x.login) /\ x.dp \in DevPodStates
         /\ \E j \in x.since .. Len(h) : h[j].devpod[x.name] = x.dp
         /\ x.i \in {1, 2}
         /\ x.i = 2 => \E j \in x.since .. Len(h) :
                           LacksIn(h[j], x.login.user, x.key)

\* The rows of a connection.
Paired(x, a) ==
    /\ a = [open |-> a.open, close |-> a.close, denied |-> a.denied]
    /\ a.open \in Nat /\ a.close \in Seq(Reasons)
    /\ a.open = Len(a.close) + IF x.pc \in Session THEN 1 ELSE 0

ConnInv(x, a, h) ==
    /\ x \in Conn
    /\ x.pc \in Callback => Attempt(x, h)
    /\ x.pc \in Session => x.cand # NoCand
    /\ x.cand # NoCand => Granted(x.cand, h)
    /\ \A r \in a.denied : Denied(r, h)
    /\ Paired(x, a)

MainInv ==
    /\ ctx \in {"live", "cancelled"} /\ main \in {"accept", "drain", "exited"}
    /\ listening \in BOOLEAN /\ graceful \in BOOLEAN
    /\ history \in Seq(WorldType) /\ Len(history) \in 1 .. MaxChanges + 1
    /\ conn = [c \in Conns |-> conn[c]] /\ audit = [c \in Conns |-> audit[c]]
    /\ events = [c \in Conns |-> events[c]]
    /\ graceful => main = "exited" /\ \A c \in Conns : conn[c].pc \in {"none", "closed"}

IInv == MainInv /\ \A c \in Conns : ConnInv(conn[c], audit[c], history)

USE GatewayAssumption, WorldsAssumption DEF Callback, Session

-----------------------------------------------------------------------------
(* What the operators of the model return.                                 *)

\* The names and the user of a login that parses.
LEMMA LoginFacts ==
    ASSUME NEW l \in Logins, l.parses
    PROVE  l.user \in Users /\ NamesOf(l) \subseteq Names
  BY DEF Users, Names, NamesOf

\* A verdict is NoCand or a granted one.
LEMMA CandFacts ==
    ASSUME NEW k \in Granting \cup {NoCand}
    PROVE  (k.ok <=> k # NoCand) /\ (k # NoCand => k \in Granting)
<1>1. CASE k \in Granting
  <2>1. k.ok \in {TRUE}
    BY <1>1 DEF Granting
  <2>2. k.ok
    BY <2>1
  <2>3. ~NoCand.ok
    BY DEF NoCand
  <2> QED BY <1>1, <2>2, <2>3
<1>2. CASE k = NoCand
  BY <1>2 DEF NoCand
<1> QED BY <1>1, <1>2

\* The types of the fields of a connection.
LEMMA ConnFields ==
    ASSUME NEW x \in Conn
    PROVE  /\ x.pc \in PCs /\ x.login \in Logins \cup {Absent}
           /\ x.key \in Keys \cup {Absent} /\ x.since \in Nat
           /\ x.name \in Names \cup {Absent}
           /\ x.dp \in DevPodStates \cup {Absent} /\ x.i \in Nat
           /\ x.known \in BOOLEAN /\ x.err \in BOOLEAN
           /\ x.cand \in Granting \cup {NoCand} /\ x.tries \in 0 .. MaxAuthTries
           /\ x.reason \in Reasons
  BY DEF Conn

\* A connection that is not in a callback.
LEMMA FreshOK ==
    Fresh \in Conn /\ Fresh.pc = "none" /\ Fresh.cand = NoCand
<1>1. FALSE \in BOOLEAN /\ 0 \in 0 .. MaxAuthTries /\ 0 \in Nat
      /\ "none" \in PCs /\ "none" \in Reasons /\ Absent \in Logins \cup {Absent}
      /\ Absent \in Keys \cup {Absent} /\ Absent \in Names \cup {Absent}
      /\ Absent \in DevPodStates \cup {Absent}
  BY DEF PCs, Reasons
<1>2. NoCand \in Granting \cup {NoCand}
    OBVIOUS
<1>3. ASSUME NEW P, NEW L, NEW K, NEW N, NEW D, NEW I, NEW B, NEW C, NEW T,
             NEW R, NEW p \in P, NEW l \in L, NEW y \in K, NEW n \in N,
             NEW d \in D, NEW i \in I, NEW b \in B, NEW k \in C, NEW t \in T,
             NEW r \in R
      PROVE  [pc |-> p, login |-> l, key |-> y, since |-> i, name |-> n,
              dp |-> d, i |-> i, known |-> b, err |-> b, cand |-> k,
              tries |-> t, reason |-> r]
             \in [pc : P, login : L, key : K, since : I, name : N, dp : D,
                  i : I, known : B, err : B, cand : C, tries : T, reason : R]
    OBVIOUS
<1>4. Fresh \in Conn
    BY <1>1, <1>2, <1>3, Zenon DEF Fresh, Conn
<1>5. Fresh.pc = "none" /\ Fresh.cand = NoCand
    BY DEF Fresh
<1> QED BY <1>4, <1>5

\* A connection after a denied key.
LEMMA FreshDenied ==
    ASSUME NEW n \in 0 .. MaxAuthTries, NEW x,
           x = [Fresh EXCEPT !.pc = "idle", !.tries = n]
    PROVE  x \in Conn /\ x.pc = "idle" /\ x.cand = NoCand
  BY FreshOK DEF Conn, PCs

\* The User objects in the cache never fail to answer.
LEMMA CrdFacts ==
    ASSUME NEW w \in WorldType, NEW u \in Users
    PROVE  CrdKeys(w, u) # Failed /\ (IsKeys(CrdKeys(w, u)) <=> CrdKeys(w, u) # Absent)
<1>1. w.lines[u] \in UserLines
  BY DEF WorldType
<1>2. CASE w.lines[u] = Absent
  BY <1>2 DEF CrdKeys, IsKeys
<1>3. CASE w.lines[u] # Absent
  <2>1. w.lines[u] \ {Garbage} \in SUBSET Keys
    BY <1>1, <1>3
  <2>2. CrdKeys(w, u) = w.lines[u] \ {Garbage}
    BY <1>3 DEF CrdKeys
  <2> QED BY <2>1, <2>2 DEF IsKeys
<1> QED BY <1>2, <1>3

\* The current cache.
LEMMA WorldFacts ==
    ASSUME MainInv
    PROVE  World \in WorldType /\ Now \in Nat \ {0} /\ World = history[Now]
  BY DEF MainInv, World, Now

\* What was established stays established while the cache changes.
LEMMA Grows ==
    ASSUME NEW h \in Seq(WorldType), NEW w \in WorldType, NEW x, NEW a,
           ConnInv(x, a, h)
    PROVE  ConnInv(x, a, Append(h, w))
<1> DEFINE g == Append(h, w)
<1>1. /\ Len(h) \in Nat /\ Len(g) = Len(h) + 1
      /\ \A j \in 1 .. Len(h) : g[j] = h[j]
  OBVIOUS
<1> HIDE DEF g
<1>2. ASSUME x.pc \in Callback PROVE Attempt(x, g)
  <2>1. Attempt(x, h)
    BY <1>2 DEF ConnInv
  <2> QED BY <1>1, <2>1 DEF Attempt
<1>3. ASSUME x.cand # NoCand PROVE Granted(x.cand, g)
  <2>1. Granted(x.cand, h)
    BY <1>3 DEF ConnInv
  <2>2. x.cand.since \in Nat /\ x.cand.upto \in Nat
    BY <2>1 DEF Granted, Granting
  <2>3. \A j \in x.cand.since .. x.cand.upto : g[j] = h[j]
    BY <1>1, <2>1, <2>2 DEF Granted
  <2> QED BY <1>1, <2>1, <2>2, <2>3 DEF Granted
<1>4. ASSUME NEW r \in a.denied PROVE Denied(r, g)
  <2>1. Denied(r, h)
    BY DEF ConnInv
  <2> QED BY <1>1, <2>1 DEF Denied
<1> QED BY <1>2, <1>3, <1>4 DEF ConnInv, g

\* A step of one connection.
LEMMA MoveOne ==
    ASSUME IInv, NEW c \in Conns, NEW x, NEW a, NEW e, main # "exited",
           conn' = [conn EXCEPT ![c] = x], audit' = [audit EXCEPT ![c] = a],
           events' = [events EXCEPT ![c] = e], UNCHANGED Served,
           ConnInv(x, a, history)
    PROVE  IInv'
<1>1. \A d \in Conns : /\ conn'[d] = IF d = c THEN x ELSE conn[d]
                       /\ audit'[d] = IF d = c THEN a ELSE audit[d]
                       /\ events'[d] = IF d = c THEN e ELSE events[d]
  BY DEF IInv, MainInv
<1>2. MainInv'
  BY DEF IInv, MainInv, Served
<1>3. \A d \in Conns : ConnInv(conn'[d], audit'[d], history)
  BY <1>1 DEF IInv
<1> QED BY <1>2, <1>3 DEF IInv, Served

\* The rest of a connection's audit stays when its last denial changes.
LEMMA AuditFields ==
    ASSUME NEW x, NEW a, Paired(x, a), NEW D
    PROVE  LET b == [a EXCEPT !.denied = D]
           IN  /\ b = [open |-> b.open, close |-> b.close, denied |-> b.denied]
               /\ b.open = a.open /\ b.close = a.close /\ b.denied = D
  BY DEF Paired

\* record touches the Events of its own connection only.
LEMMA RecordFacts ==
    ASSUME IInv, NEW c \in Conns, NEW name, NEW reason, record(c, name, reason)
    PROVE  \E e : events' = [events EXCEPT ![c] = e]
<1>1. CASE ctx = "live" /\ World.devpod[name] # Absent
  BY <1>1 DEF record
<1>2. CASE ~(ctx = "live" /\ World.devpod[name] # Absent)
  <2>1. events' = [events EXCEPT ![c] = events[c]]
    BY <1>2 DEF record, IInv, MainInv
  <2> QED BY <2>1
<1> QED BY <1>1, <1>2

\* The rows and the Events of a connection, seen as an update of them.
LEMMA SameRows ==
    ASSUME IInv, NEW c \in Conns
    PROVE  /\ audit = [audit EXCEPT ![c] = audit[c]]
           /\ events = [events EXCEPT ![c] = events[c]]
           /\ audit[c] = [audit[c] EXCEPT !.denied = audit[c].denied]
<1>1. Paired(conn[c], audit[c])
  BY DEF IInv, ConnInv
<1> QED BY <1>1 DEF IInv, MainInv, Paired

\* A step inside an attempt, or one that ends it.
LEMMA AttemptKeeps ==
    ASSUME IInv, NEW c \in Conns, main # "exited", UNCHANGED Served,
           conn[c].pc \in {"idle"} \cup Callback,
           NEW x \in Conn, x.pc \in {"idle"} \cup Callback,
           x.pc # "idle" => Attempt(x, history),
           x.cand # NoCand => Granted(x.cand, history),
           conn' = [conn EXCEPT ![c] = x],
           NEW D, \A r \in D : Denied(r, history),
           audit' = [audit EXCEPT ![c] = [audit[c] EXCEPT !.denied = D]],
           NEW e, events' = [events EXCEPT ![c] = e]
    PROVE  IInv'
<1> DEFINE b == [audit[c] EXCEPT !.denied = D]
<1>1. ConnInv(conn[c], audit[c], history)
  BY DEF IInv
<1>2. Paired(conn[c], audit[c])
  BY <1>1 DEF ConnInv
<1>3. /\ b = [open |-> b.open, close |-> b.close, denied |-> b.denied]
      /\ b.open = audit[c].open /\ b.close = audit[c].close /\ b.denied = D
  BY <1>2, AuditFields
<1> HIDE DEF b
<1>4. Paired(x, b)
  BY <1>2, <1>3 DEF Paired
<1>5. ConnInv(x, b, history)
  BY <1>3, <1>4 DEF ConnInv
<1> QED BY <1>5, MoveOne DEF b

\* A denial: the next key starts afresh, and what the row says is so.
LEMMA RejectKeeps ==
    ASSUME IInv, NEW c \in Conns, main # "exited", UNCHANGED Served,
           conn[c].pc \in {"idle"} \cup Callback,
           NEW cn, cn.tries \in 0 .. MaxAuthTries, cn.tries < MaxAuthTries,
           NEW reason, Reject(c, cn, reason),
           Denied([reason |-> reason, err |-> cn.err, login |-> cn.login,
                   key |-> cn.key, name |-> cn.name, since |-> cn.since,
                   upto |-> Now], history)
    PROVE  IInv'
<1> DEFINE x == [Fresh EXCEPT !.pc = "idle", !.tries = cn.tries + 1]
           r == [reason |-> reason, err |-> cn.err, login |-> cn.login,
                 key |-> cn.key, name |-> cn.name, since |-> cn.since,
                 upto |-> Now]
<1>1. x \in Conn /\ x.pc = "idle" /\ x.cand = NoCand
  <2>1. cn.tries + 1 \in 0 .. MaxAuthTries
    OBVIOUS
  <2> QED BY <2>1, FreshDenied
<1>2. conn' = [conn EXCEPT ![c] = x]
  BY DEF Reject
<1>3. audit' = [audit EXCEPT ![c] = [audit[c] EXCEPT !.denied = {r}]]
  BY DEF Reject
<1>4. \E e : events' = [events EXCEPT ![c] = e]
  <2>1. CASE cn.login.parses
    <3>1. record(c, cn.login.pod, "AuthRejected")
      BY <2>1 DEF Reject
    <3> QED BY <3>1, RecordFacts
  <2>2. CASE ~cn.login.parses
    <3>1. events' = events
      BY <2>2 DEF Reject
    <3> QED BY <3>1, SameRows
  <2> QED BY <2>1, <2>2
<1> DEFINE D == {r}
<1>5. \A q \in D : Denied(q, history)
  OBVIOUS
<1>6. audit' = [audit EXCEPT ![c] = [audit[c] EXCEPT !.denied = D]]
  BY <1>3
<1>7. x.cand # NoCand => Granted(x.cand, history)
  BY <1>1
<1> HIDE DEF x, r, D
<1>8. PICK e : events' = [events EXCEPT ![c] = e]
  BY <1>4
<1> QED BY <1>1, <1>2, <1>5, <1>6, <1>7, <1>8, AttemptKeeps

\* The end of Authenticate once a key is accepted: denied for want of access or
\* of a running DevPod, or granted on evidence of this attempt.
LEMMA FinalizeKeeps ==
    ASSUME IInv, NEW c \in Conns, main # "exited", UNCHANGED Served,
           conn[c].pc \in {"idle"} \cup Callback,
           NEW cn, cn.tries \in 0 .. MaxAuthTries, cn.tries < MaxAuthTries,
           cn.login \in Logins, cn.login.parses, cn.key \in Keys,
           cn.since \in 1 .. Now, cn.name \in NamesOf(cn.login),
           cn.dp \in DevPodStates,
           \E j \in cn.since .. Now : history[j].devpod[cn.name] = cn.dp,
           \/ cn.key \in ProxyKeys
           \/ KnowsIn(World, cn.login.user, cn.key)
           \/ \E d \in Directory[cn.login.user] : IsKeys(d) /\ cn.key \in d,
           finalize(c, cn)
    PROVE  IInv'
<1>1. CASE ~accessAllowed(cn.name, cn.dp, cn.login)
  <2>1. Reject(c, cn, "access_denied")
    BY <1>1 DEF finalize
  <2> QED BY <2>1, RejectKeeps DEF Denied
<1>2. CASE accessAllowed(cn.name, cn.dp, cn.login)
           /\ ~(cn.dp.running /\ cn.dp.endpoint)
  <2>1. Reject(c, cn, "devpod_not_ready")
    BY <1>2 DEF finalize
  <2> QED BY <2>1, RejectKeeps DEF Denied
<1>3. CASE accessAllowed(cn.name, cn.dp, cn.login)
           /\ cn.dp.running /\ cn.dp.endpoint
  <2> DEFINE k == [ok |-> TRUE, login |-> cn.login, key |-> cn.key,
                   name |-> cn.name, since |-> cn.since, upto |-> Now]
             x == [Fresh EXCEPT !.pc = "idle", !.tries = cn.tries, !.cand = k]
  <2>1. conn' = [conn EXCEPT ![c] = x] /\ audit' = audit /\ events' = events
    BY <1>3 DEF finalize
  <2>2. Now \in Nat \ {0} /\ World = history[Now]
    BY WorldFacts DEF IInv
  <2>3. k \in Granting
    <3>1. cn.name \in Names
      BY LoginFacts
    <3>2. TRUE \in {TRUE} /\ cn.since \in Nat /\ Now \in Nat
      BY <2>2
    <3>3. ASSUME NEW B1, NEW b \in B1
          PROVE  [ok |-> b, login |-> cn.login, key |-> cn.key,
                  name |-> cn.name, since |-> cn.since, upto |-> Now]
                 \in [ok : B1, login : Logins, key : Keys, name : Names,
                      since : Nat, upto : Nat]
      BY <3>1, <3>2
    <3> QED BY <3>2, <3>3, Zenon DEF Granting
  <2>4. /\ k.login = cn.login /\ k.key = cn.key /\ k.name = cn.name
        /\ k.since = cn.since /\ k.upto = Now
    OBVIOUS
  <2> HIDE DEF k
  <2>5. x \in Conn /\ x.pc = "idle" /\ x.cand = k
    <3>1. k \in Granting \cup {NoCand}
      BY <2>3
    <3> QED BY <3>1, FreshOK DEF Conn, PCs
  <2>6. Granted(k, history)
    <3>1. k.login.parses /\ k.since >= 1 /\ k.upto <= Len(history)
          /\ k.name \in NamesOf(k.login)
      BY <2>2, <2>4 DEF Now
    <3>2. \E j \in k.since .. k.upto :
              Grants(history[j].devpod[k.name], k.login.user)
      BY <1>3, <2>4 DEF Grants, accessAllowed
    <3>3. \/ k.key \in ProxyKeys
          \/ \E j \in k.since .. k.upto : KnowsIn(history[j], k.login.user, k.key)
          \/ \E d \in Directory[k.login.user] : IsKeys(d) /\ k.key \in d
      <4>1. Now \in k.since .. k.upto
        BY <2>2, <2>4
      <4> QED BY <2>2, <2>4, <4>1
    <3> QED BY <2>3, <3>1, <3>2, <3>3 DEF Granted
  <2> HIDE DEF x
  <2> DEFINE D == audit[c].denied
  <2>7. audit' = [audit EXCEPT ![c] = [audit[c] EXCEPT !.denied = D]]
    BY <2>1, SameRows
  <2>8. \A r \in D : Denied(r, history)
    BY DEF IInv, ConnInv
  <2>9. events' = [events EXCEPT ![c] = events[c]]
    BY <2>1, SameRows
  <2> HIDE DEF D
  <2>10. x.cand # NoCand => Granted(x.cand, history)
    BY <2>5, <2>6
  <2> QED BY <2>1, <2>5, <2>7, <2>8, <2>9, <2>10, AttemptKeeps
<1> QED BY <1>1, <1>2, <1>3

-----------------------------------------------------------------------------
(* Authenticate, one step at a time.                                       *)

\* A step inside an attempt that leaves no trace.
LEMMA QuietKeeps ==
    ASSUME IInv, NEW c \in Conns, main # "exited", UNCHANGED Served,
           conn[c].pc \in Callback, NEW x \in Conn, x.pc \in Callback,
           Attempt(x, history), x.cand = conn[c].cand,
           conn' = [conn EXCEPT ![c] = x]
    PROVE  UNCHANGED <<audit, events>> => IInv'
<1>0. SUFFICES ASSUME UNCHANGED <<audit, events>> PROVE IInv'
  OBVIOUS
<1> DEFINE D == audit[c].denied
<1>1. x.cand # NoCand => Granted(x.cand, history)
  BY DEF IInv, ConnInv
<1>2. \A r \in D : Denied(r, history)
  BY DEF IInv, ConnInv
<1>3. audit' = [audit EXCEPT ![c] = [audit[c] EXCEPT !.denied = D]]
  BY <1>0, SameRows
<1>4. events' = [events EXCEPT ![c] = events[c]]
  BY <1>0, SameRows
<1>5. /\ conn[c].pc \in {"idle"} \cup Callback /\ x.pc \in {"idle"} \cup Callback
      /\ x.pc # "idle" => Attempt(x, history)
  OBVIOUS
<1> HIDE DEF D
<1> QED BY <1>1, <1>2, <1>3, <1>4, <1>5, AttemptKeeps

\* A key is offered: a login that does not parse is denied at once.
LEMMA AuthenticateKeeps ==
    ASSUME IInv, NEW c \in Conns, Authenticate(c)
    PROVE  IInv'
<1> DEFINE Cn(l, k) == [conn[c] EXCEPT !.login = l, !.key = k, !.since = Now,
                                       !.name = Absent, !.err = FALSE]
<1>1. /\ main # "exited" /\ conn[c].pc = "idle" /\ conn[c].tries < MaxAuthTries
      /\ UNCHANGED Served
  BY DEF Authenticate
<1>2. PICK l \in Logins, k \in Keys :
         IF ParseFails(l)
         THEN Reject(c, Cn(l, k), "bad_login_format")
         ELSE /\ conn' = [conn EXCEPT ![c] = [Cn(l, k) EXCEPT !.pc = "scoped"]]
              /\ audit' = [audit EXCEPT ![c].denied = {}]
              /\ UNCHANGED events
  BY DEF Authenticate
<1>3. conn[c] \in Conn /\ (conn[c].cand # NoCand => Granted(conn[c].cand, history))
  BY DEF IInv, ConnInv
<1>4. conn[c].tries \in 0 .. MaxAuthTries
  BY <1>3, ConnFields
<1>5. CASE ParseFails(l)
  <2>1. Cn(l, k).tries = conn[c].tries
    BY <1>3 DEF Conn
  <2>2. Reject(c, Cn(l, k), "bad_login_format")
    BY <1>2, <1>5
  <2> HIDE DEF Cn
  <2> QED BY <1>1, <1>4, <2>1, <2>2, RejectKeeps DEF Denied
<1>6. CASE ~ParseFails(l)
  <2> DEFINE x == [Cn(l, k) EXCEPT !.pc = "scoped"]
  <2>1. x \in Conn
    <3>1. ASSUME NEW b \in BOOLEAN
          PROVE  [[conn[c] EXCEPT !.login = l, !.key = k, !.since = Now,
                     !.name = Absent, !.err = b] EXCEPT !.pc = "scoped"] \in Conn
      BY <1>3, WorldFacts DEF Conn, PCs, IInv
    <3> QED BY <3>1, Zenon
  <2>2. /\ x.pc = "scoped" /\ x.login = l /\ x.key = k /\ x.since = Now
        /\ x.tries = conn[c].tries /\ x.cand = conn[c].cand
    BY <1>3 DEF Conn
  <2>3. ~x.err
    BY <1>3 DEF Conn
  <2>4. Attempt(x, history)
    <3>1. l.parses
      BY <1>6 DEF ParseFails
    <3>2. Now \in 1 .. Len(history)
      BY WorldFacts DEF IInv, Now
    <3> HIDE DEF x
    <3> QED BY <1>1, <2>2, <2>3, <3>1, <3>2 DEF Attempt
  <2> DEFINE D == {}
  <2>5. conn' = [conn EXCEPT ![c] = x]
    BY <1>2, <1>6
  <2>6. audit' = [audit EXCEPT ![c] = [audit[c] EXCEPT !.denied = D]]
    BY <1>2, <1>6
  <2>7. events' = [events EXCEPT ![c] = events[c]]
    BY <1>2, <1>6, SameRows
  <2>8. \A r \in D : Denied(r, history)
    OBVIOUS
  <2>9. x.cand # NoCand => Granted(x.cand, history)
    BY <1>3, <2>2
  <2> HIDE DEF x, D
  <2> QED BY <1>1, <2>1, <2>2, <2>4, <2>5, <2>6, <2>7, <2>8, <2>9,
             AttemptKeeps
<1> QED BY <1>5, <1>6

\* A connection in a callback.
LEMMA InAttempt ==
    ASSUME IInv, NEW c \in Conns, conn[c].pc \in Callback
    PROVE  /\ conn[c] \in Conn /\ Attempt(conn[c], history)
           /\ conn[c].tries \in 0 .. MaxAuthTries
           /\ conn[c].login.user \in Users /\ NamesOf(conn[c].login) \subseteq Names
<1>1. conn[c] \in Conn /\ Attempt(conn[c], history)
  BY DEF IInv, ConnInv
<1>2. conn[c].login \in Logins /\ conn[c].login.parses
  BY <1>1 DEF Attempt
<1> QED BY <1>1, <1>2, ConnFields, LoginFacts

\* The DevPod is in hand, as it is in the cache at this moment.
LEMMA FetchedKeeps ==
    ASSUME IInv, NEW c \in Conns, main # "exited", UNCHANGED Served,
           conn[c].pc \in {"scoped", "bare"}, NEW name \in NamesOf(conn[c].login),
           World.devpod[name] # Absent, Fetched(c, name)
    PROVE  IInv'
<1> DEFINE cn == [conn[c] EXCEPT !.name = name, !.dp = World.devpod[name]]
<1>1. /\ conn[c] \in Conn /\ Attempt(conn[c], history)
      /\ conn[c].tries \in 0 .. MaxAuthTries
      /\ NamesOf(conn[c].login) \subseteq Names
  BY InAttempt
<1>2. name \in Names /\ World.devpod[name] \in DevPodStates
  <2>1. World \in WorldType
    BY WorldFacts DEF IInv
  <2> QED BY <1>1, <2>1 DEF WorldType
<1>3. /\ cn \in Conn /\ cn.pc = conn[c].pc /\ cn.login = conn[c].login
      /\ cn.key = conn[c].key /\ cn.since = conn[c].since
      /\ cn.tries = conn[c].tries /\ cn.cand = conn[c].cand
      /\ cn.name = name /\ cn.dp = World.devpod[name]
  BY <1>1, <1>2 DEF Conn
<1>4. ~cn.err
  BY <1>1 DEF Conn, Attempt
<1>5. /\ cn.login \in Logins /\ cn.login.parses /\ cn.key \in Keys
      /\ cn.since \in 1 .. Now /\ cn.tries < MaxAuthTries
      /\ cn.tries \in 0 .. MaxAuthTries
      /\ cn.name \in NamesOf(cn.login) /\ cn.dp \in DevPodStates
  BY <1>1, <1>2, <1>3 DEF Attempt, Now
<1>6. \E j \in cn.since .. Now : history[j].devpod[cn.name] = cn.dp
  <2>1. Now \in cn.since .. Now /\ World = history[Now]
    BY <1>5, WorldFacts DEF IInv
  <2> QED BY <1>3, <2>1
<1>7. IF cn.key \in ProxyKeys
      THEN finalize(c, cn)
      ELSE /\ conn' = [conn EXCEPT ![c] = [cn EXCEPT !.pc = "source",
                                          !.i = 1, !.known = FALSE]]
           /\ UNCHANGED <<audit, events>>
  BY DEF Fetched
<1> HIDE DEF cn
<1>8. CASE cn.key \in ProxyKeys
  BY <1>5, <1>6, <1>7, <1>8, FinalizeKeeps
<1>9. CASE cn.key \notin ProxyKeys
  <2> DEFINE x == [cn EXCEPT !.pc = "source", !.i = 1, !.known = FALSE]
  <2>1. x \in Conn
    <3>1. ASSUME NEW b \in BOOLEAN
          PROVE  [cn EXCEPT !.pc = "source", !.i = 1, !.known = b] \in Conn
      BY <1>3 DEF Conn, PCs
    <3> QED BY <3>1, Zenon
  <2>2. /\ x.pc = "source" /\ x.login = cn.login /\ x.key = cn.key /\ x.i = 1
        /\ x.since = cn.since /\ x.tries = cn.tries /\ x.cand = cn.cand
        /\ x.name = cn.name /\ x.dp = cn.dp
    BY <1>3 DEF Conn
  <2>3. ~x.err
    BY <1>3, <1>4 DEF Conn
  <2>4. conn' = [conn EXCEPT ![c] = x] /\ UNCHANGED <<audit, events>>
    BY <1>7, <1>9
  <2> HIDE DEF x
  <2>5. Attempt(x, history)
    BY <1>5, <1>6, <1>9, <2>2, <2>3 DEF Attempt, Now
  <2> QED BY <1>3, <2>1, <2>2, <2>4, <2>5, QuietKeeps
<1> QED BY <1>8, <1>9

\* The lookup under the owner-scoped name.
LEMMA GetScopedKeeps ==
    ASSUME IInv, NEW c \in Conns, GetScoped(c)
    PROVE  IInv'
<1> DEFINE name == DevPodResourceName(conn[c].login.user, conn[c].login.pod)
<1>1. main # "exited" /\ conn[c].pc = "scoped" /\ UNCHANGED Served
  BY DEF GetScoped
<1>2. IF World.devpod[name] # Absent
      THEN Fetched(c, name)
      ELSE /\ conn' = [conn EXCEPT ![c].pc = "bare"]
           /\ UNCHANGED <<audit, events>>
  BY DEF GetScoped
<1>3. name \in NamesOf(conn[c].login)
  BY DEF NamesOf
<1> HIDE DEF name
<1>4. CASE World.devpod[name] # Absent
  BY <1>1, <1>2, <1>3, <1>4, FetchedKeeps
<1>5. CASE World.devpod[name] = Absent
  <2> DEFINE x == [conn[c] EXCEPT !.pc = "bare"]
  <2>1. conn[c] \in Conn /\ Attempt(conn[c], history)
    BY <1>1, InAttempt
  <2>2. /\ x \in Conn /\ x.pc = "bare" /\ x.login = conn[c].login
        /\ x.key = conn[c].key /\ x.since = conn[c].since
        /\ x.tries = conn[c].tries /\ x.cand = conn[c].cand
    BY <2>1 DEF Conn, PCs
  <2>3. ~x.err
    BY <2>1 DEF Conn, Attempt
  <2>4. conn' = [conn EXCEPT ![c] = x] /\ UNCHANGED <<audit, events>>
    BY <1>2, <1>5
  <2> HIDE DEF x
  <2>5. Attempt(x, history)
    BY <2>1, <2>2, <2>3 DEF Attempt
  <2> QED BY <1>1, <2>2, <2>4, <2>5, QuietKeeps
<1> QED BY <1>4, <1>5

\* The lookup under the bare name.
LEMMA GetBareKeeps ==
    ASSUME IInv, NEW c \in Conns, GetBare(c)
    PROVE  IInv'
<1>1. main # "exited" /\ conn[c].pc = "bare" /\ UNCHANGED Served
  BY DEF GetBare
<1>2. CASE World.devpod[conn[c].login.pod] # Absent
  <2>1. Fetched(c, conn[c].login.pod)
    BY <1>2 DEF GetBare
  <2>2. conn[c].login.pod \in NamesOf(conn[c].login)
    BY DEF NamesOf
  <2> QED BY <1>1, <1>2, <2>1, <2>2, FetchedKeeps
<1>3. CASE World.devpod[conn[c].login.pod] = Absent
  <2>1. Reject(c, conn[c], "devpod_not_found")
    BY <1>3 DEF GetBare
  <2>2. conn[c].tries \in 0 .. MaxAuthTries /\ conn[c].tries < MaxAuthTries
    BY <1>1, InAttempt DEF Attempt
  <2> QED BY <1>1, <2>1, <2>2, RejectKeeps DEF Denied
<1> QED BY <1>2, <1>3

\* A round of the loop over the sources: the User objects first, LDAP last.
LEMMA TrySourceKeeps ==
    ASSUME IInv, NEW c \in Conns, TrySource(c)
    PROVE  IInv'
<1> DEFINE u == conn[c].login.user
           Cn(a) == [conn[c] EXCEPT !.known = @ \/ IsKeys(a),
                                    !.err = @ \/ a = Failed]
<1>1. main # "exited" /\ conn[c].pc = "source" /\ UNCHANGED Served
  BY DEF TrySource
<1>2. PICK a \in Answers(Sources[conn[c].i], u) :
         IF IsKeys(a) /\ Cn(a).key \in a
         THEN finalize(c, Cn(a))
         ELSE IF GoesOn(Cn(a))
         THEN /\ conn' = [conn EXCEPT ![c] = [Cn(a) EXCEPT !.i = Cn(a).i + 1]]
              /\ UNCHANGED <<audit, events>>
         ELSE Reject(c, Cn(a), Verdict(Cn(a).known))
  BY DEF TrySource
<1> DEFINE cn == Cn(a)
<1>3. /\ conn[c] \in Conn /\ Attempt(conn[c], history)
      /\ conn[c].tries \in 0 .. MaxAuthTries /\ u \in Users
  BY <1>1, InAttempt
<1>4. /\ cn \in Conn /\ cn.pc = "source" /\ cn.login = conn[c].login
      /\ cn.key = conn[c].key /\ cn.since = conn[c].since
      /\ cn.tries = conn[c].tries /\ cn.cand = conn[c].cand
      /\ cn.name = conn[c].name /\ cn.dp = conn[c].dp /\ cn.i = conn[c].i
  <2>1. ASSUME NEW b \in BOOLEAN, NEW e \in BOOLEAN
        PROVE  [conn[c] EXCEPT !.known = b, !.err = e] \in Conn
    BY <1>3 DEF Conn
  <2>2. /\ (conn[c].known \/ IsKeys(a)) \in BOOLEAN
        /\ (conn[c].err \/ a = Failed) \in BOOLEAN
    OBVIOUS
  <2>3. cn \in Conn
    BY <2>1, <2>2, Zenon
  <2>4. /\ cn.pc = conn[c].pc /\ cn.login = conn[c].login
        /\ cn.key = conn[c].key /\ cn.since = conn[c].since
        /\ cn.tries = conn[c].tries /\ cn.cand = conn[c].cand
        /\ cn.name = conn[c].name /\ cn.dp = conn[c].dp /\ cn.i = conn[c].i
    BY <1>3 DEF Conn
  <2> QED BY <1>1, <2>3, <2>4
<1>5. cn.err <=> a = Failed
  BY <1>3 DEF Conn, Attempt
<1>6. IF IsKeys(a) /\ cn.key \in a
      THEN finalize(c, cn)
      ELSE IF GoesOn(cn)
      THEN /\ conn' = [conn EXCEPT ![c] = [cn EXCEPT !.i = cn.i + 1]]
           /\ UNCHANGED <<audit, events>>
      ELSE Reject(c, cn, Verdict(cn.known))
  BY <1>2
<1> HIDE DEF Cn
<1>7. /\ cn.login \in Logins /\ cn.login.parses /\ cn.key \in Keys
      /\ cn.since \in 1 .. Now /\ cn.tries < MaxAuthTries
      /\ cn.tries \in 0 .. MaxAuthTries
      /\ cn.name \in NamesOf(cn.login) /\ cn.dp \in DevPodStates
      /\ \E j \in cn.since .. Now : history[j].devpod[cn.name] = cn.dp
      /\ cn.key \notin ProxyKeys /\ cn.i \in {1, 2}
      /\ cn.i = 2 => \E j \in cn.since .. Now :
                         LacksIn(history[j], cn.login.user, cn.key)
  BY <1>1, <1>3, <1>4 DEF Attempt, Now
<1>8. /\ cn.i = 1 => a = CrdKeys(World, u)
      /\ cn.i = 2 => a \in Directory[u]
  BY <1>4, <1>7 DEF Answers, Sources
<1>9. /\ Now \in cn.since .. Now /\ World = history[Now]
      /\ World \in WorldType
  BY <1>7, WorldFacts DEF IInv
<1>10. CASE IsKeys(a) /\ cn.key \in a
  <2>1. \/ KnowsIn(World, cn.login.user, cn.key)
        \/ \E d \in Directory[cn.login.user] : IsKeys(d) /\ cn.key \in d
    <3>1. CASE cn.i = 1
      BY <1>4, <1>8, <1>10, <3>1 DEF KnowsIn, IsKeys
    <3>2. CASE cn.i = 2
      BY <1>4, <1>8, <1>10, <3>2
    <3> QED BY <1>7, <3>1, <3>2
  <2>2. finalize(c, cn)
    BY <1>6, <1>10
  <2> HIDE DEF cn
  <2> QED BY <1>1, <1>7, <2>1, <2>2, FinalizeKeeps
<1>11. CASE ~(IsKeys(a) /\ cn.key \in a) /\ cn.i = 1
  <2> DEFINE x == [cn EXCEPT !.i = cn.i + 1]
  <2>1. GoesOn(cn)
    BY <1>11 DEF GoesOn, Sources
  <2>2. conn' = [conn EXCEPT ![c] = x] /\ UNCHANGED <<audit, events>>
    BY <1>6, <1>11, <2>1
  <2>3. /\ CrdKeys(World, u) # Failed
        /\ IsKeys(CrdKeys(World, u)) <=> CrdKeys(World, u) # Absent
    BY <1>3, <1>9, CrdFacts
  <2>4. ~cn.err /\ LacksIn(World, cn.login.user, cn.key)
    BY <1>4, <1>5, <1>8, <1>11, <2>3 DEF LacksIn
  <2> HIDE DEF cn
  <2>5. /\ x \in Conn /\ x.pc = "source" /\ x.login = cn.login
        /\ x.key = cn.key /\ x.since = cn.since
        /\ x.tries = cn.tries /\ x.cand = cn.cand
        /\ x.name = cn.name /\ x.dp = cn.dp /\ x.i = 2
    BY <1>4, <1>11 DEF Conn
  <2>6. ~x.err
    BY <1>4, <2>4 DEF Conn
  <2> HIDE DEF x
  <2>7. Attempt(x, history)
    <3>1. \E j \in x.since .. Len(history) :
              LacksIn(history[j], x.login.user, x.key)
      BY <1>9, <2>4, <2>5 DEF Now
    <3> QED BY <1>7, <2>5, <2>6, <3>1 DEF Attempt, Now
  <2> QED BY <1>1, <1>4, <2>2, <2>5, <2>7, QuietKeeps
<1>12. CASE ~(IsKeys(a) /\ cn.key \in a) /\ cn.i = 2
  <2> DEFINE reason == Verdict(cn.known)
             r == [reason |-> reason, err |-> cn.err, login |-> cn.login,
                   key |-> cn.key, name |-> cn.name, since |-> cn.since,
                   upto |-> Now]
  <2>1. ~GoesOn(cn)
    BY <1>12 DEF GoesOn, Sources
  <2>2. Reject(c, cn, reason)
    BY <1>6, <1>12, <2>1
  <2>3. cn.since \in Nat /\ Now \in Nat
    BY <1>7, WorldFacts DEF IInv
  <2>4. IF cn.err THEN Failed \in Directory[cn.login.user]
        ELSE \E d \in Directory[cn.login.user] \ {Failed} :
                 ~IsKeys(d) \/ cn.key \notin d
    BY <1>4, <1>5, <1>8, <1>12
  <2> HIDE DEF cn, reason
  <2>5. Denied(r, history)
    <3>1. /\ r.err = cn.err /\ r.login = cn.login /\ r.key = cn.key
          /\ r.since = cn.since /\ r.upto = Now
      OBVIOUS
    <3> HIDE DEF r
    <3> QED BY <1>7, <1>12, <2>3, <2>4, <3>1 DEF Denied, Now
  <2> QED BY <1>1, <1>7, <2>2, <2>5, RejectKeeps
<1> QED BY <1>7, <1>10, <1>11, <1>12

-----------------------------------------------------------------------------
(* handle, from the accepted connection to the deferred calls.             *)

\* The other rows stay when a session_open row is added.
LEMMA OpenFields ==
    ASSUME NEW x, NEW a, Paired(x, a), NEW n
    PROVE  LET b == [a EXCEPT !.open = n]
           IN  /\ b = [open |-> b.open, close |-> b.close, denied |-> b.denied]
               /\ b.open = n /\ b.close = a.close /\ b.denied = a.denied
  BY DEF Paired

\* The other rows stay when a session_close row is added.
LEMMA CloseFields ==
    ASSUME NEW x, NEW a, Paired(x, a), NEW q
    PROVE  LET b == [a EXCEPT !.close = q]
           IN  /\ b = [open |-> b.open, close |-> b.close, denied |-> b.denied]
               /\ b.open = a.open /\ b.close = q /\ b.denied = a.denied
  BY DEF Paired

\* A step of handle outside the callback: the verdict stays what it was.
LEMMA HandleKeeps ==
    ASSUME IInv, NEW c \in Conns, main # "exited", UNCHANGED Served,
           NEW x \in Conn, x.pc \notin Callback, x.cand = conn[c].cand,
           x.pc \in Session => x.cand # NoCand,
           conn' = [conn EXCEPT ![c] = x],
           NEW b, b.denied = audit[c].denied, Paired(x, b),
           audit' = [audit EXCEPT ![c] = b],
           NEW e, events' = [events EXCEPT ![c] = e]
    PROVE  IInv'
<1>1. ConnInv(conn[c], audit[c], history)
  BY DEF IInv
<1>2. ConnInv(x, b, history)
  BY <1>1 DEF ConnInv
<1> QED BY <1>2, MoveOne

\* The state of a connection after it moves on.
LEMMA Moved ==
    ASSUME IInv, NEW c \in Conns, NEW p \in PCs
    PROVE  LET x == [conn[c] EXCEPT !.pc = p]
           IN  x \in Conn /\ x.pc = p /\ x.cand = conn[c].cand
<1>1. conn[c] \in Conn
  BY DEF IInv, ConnInv
<1> QED BY <1>1 DEF Conn

\* What the invariant says of one connection and its rows.
LEMMA RowFacts ==
    ASSUME IInv, NEW c \in Conns
    PROVE  Paired(conn[c], audit[c]) /\ conn[c] \in Conn
           /\ (conn[c].pc \in Session => conn[c].cand # NoCand)
  BY DEF IInv, ConnInv

\* A connection is accepted.
LEMMA AcceptKeeps ==
    ASSUME IInv, NEW c \in Conns, Accept(c)
    PROVE  IInv'
<1> DEFINE x == [conn[c] EXCEPT !.pc = "idle"]
<1>1. main # "exited" /\ conn[c].pc = "none" /\ UNCHANGED Served
  BY DEF Accept
<1>2. conn' = [conn EXCEPT ![c] = x]
  BY DEF Accept
<1>3. /\ audit' = [audit EXCEPT ![c] = audit[c]]
      /\ events' = [events EXCEPT ![c] = events[c]]
  BY SameRows DEF Accept
<1>4. x \in Conn /\ x.pc = "idle" /\ x.cand = conn[c].cand
  BY Moved DEF PCs
<1> HIDE DEF x
<1>5. Paired(x, audit[c])
  BY <1>1, <1>4, RowFacts DEF Paired
<1> QED BY <1>1, <1>2, <1>3, <1>4, <1>5, HandleKeeps

\* The handshake succeeds with the key last granted.
LEMMA SessionOpenKeeps ==
    ASSUME IInv, NEW c \in Conns, SessionOpen(c)
    PROVE  IInv'
<1> DEFINE x == [conn[c] EXCEPT !.pc = "dial"]
           b == [audit[c] EXCEPT !.open = audit[c].open + 1]
<1>1. main # "exited" /\ conn[c].pc = "idle" /\ UNCHANGED Served /\ conn[c].cand.ok
  BY DEF SessionOpen
<1>2. conn' = [conn EXCEPT ![c] = x] /\ audit' = [audit EXCEPT ![c] = b]
  BY DEF SessionOpen
<1>3. events' = [events EXCEPT ![c] = events[c]]
  BY SameRows DEF SessionOpen
<1>4. x \in Conn /\ x.pc = "dial" /\ x.cand = conn[c].cand
  BY Moved DEF PCs
<1>5. /\ b = [open |-> b.open, close |-> b.close, denied |-> b.denied]
      /\ b.open = audit[c].open + 1 /\ b.close = audit[c].close
      /\ b.denied = audit[c].denied
  BY RowFacts, OpenFields
<1>6. conn[c].cand # NoCand
  <2>1. conn[c].cand \in Granting \cup {NoCand}
    BY RowFacts, ConnFields
  <2> QED BY <1>1, <2>1, CandFacts
<1> HIDE DEF x, b
<1>7. Paired(x, b)
  <2>1. Paired(conn[c], audit[c])
    BY RowFacts
  <2>2. /\ audit[c].open \in Nat /\ audit[c].close \in Seq(Reasons)
        /\ audit[c].open = Len(audit[c].close)
    BY <1>1, <2>1 DEF Paired
  <2> QED BY <1>4, <1>5, <2>2 DEF Paired
<1> QED BY <1>1, <1>2, <1>3, <1>4, <1>5, <1>6, <1>7, HandleKeeps

\* The handshake fails: no row is opened.
LEMMA HandshakeFailsKeeps ==
    ASSUME IInv, NEW c \in Conns, HandshakeFails(c)
    PROVE  IInv'
<1> DEFINE x == [conn[c] EXCEPT !.pc = "closed"]
<1>1. main # "exited" /\ conn[c].pc = "idle" /\ UNCHANGED Served
  BY DEF HandshakeFails
<1>2. conn' = [conn EXCEPT ![c] = x]
  BY DEF HandshakeFails
<1>3. /\ audit' = [audit EXCEPT ![c] = audit[c]]
      /\ events' = [events EXCEPT ![c] = events[c]]
  BY SameRows DEF HandshakeFails
<1>4. x \in Conn /\ x.pc = "closed" /\ x.cand = conn[c].cand
  BY Moved DEF PCs
<1> HIDE DEF x
<1>5. Paired(x, audit[c])
  BY <1>1, <1>4, RowFacts DEF Paired
<1> QED BY <1>1, <1>2, <1>3, <1>4, <1>5, HandleKeeps

\* The backend is not reached, in the dial or in its handshake.
LEMMA DialFailedKeeps ==
    ASSUME IInv, NEW c \in Conns, main # "exited",
           conn[c].pc \in {"dial", "hello"}, DialFailed(c)
    PROVE  IInv'
<1> DEFINE x == [conn[c] EXCEPT !.pc = "close", !.reason = "dial_failed"]
<1>1. UNCHANGED Served /\ conn' = [conn EXCEPT ![c] = x]
  BY DEF DialFailed
<1>2. audit' = [audit EXCEPT ![c] = audit[c]]
  BY SameRows DEF DialFailed
<1>3. PICK e : events' = [events EXCEPT ![c] = e]
  <2>1. record(c, EventName(conn[c].cand), "DialFailed")
    BY DEF DialFailed
  <2> QED BY <2>1, RecordFacts
<1>4. x \in Conn /\ x.pc = "close" /\ x.cand = conn[c].cand
  <2>1. "close" \in PCs /\ "dial_failed" \in Reasons
    BY DEF PCs, Reasons
  <2>2. conn[c] \in Conn
    BY RowFacts
  <2> QED BY <2>1, <2>2 DEF Conn
<1> HIDE DEF x
<1>5. Paired(x, audit[c])
  BY <1>4, RowFacts DEF Paired
<1> QED BY <1>1, <1>2, <1>3, <1>4, <1>5, RowFacts, HandleKeeps

\* The dial.
LEMMA DialTCPKeeps ==
    ASSUME IInv, NEW c \in Conns, DialTCP(c)
    PROVE  IInv'
<1> DEFINE x == [conn[c] EXCEPT !.pc = "hello"]
<1>1. main # "exited" /\ conn[c].pc = "dial"
  BY DEF DialTCP
<1>2. CASE DialFailed(c)
  BY <1>1, <1>2, DialFailedKeeps
<1>3. CASE conn' = [conn EXCEPT ![c].pc = "hello"]
           /\ UNCHANGED <<Served, audit, events>>
  <2>1. conn' = [conn EXCEPT ![c] = x] /\ UNCHANGED Served
    BY <1>3
  <2>2. /\ audit' = [audit EXCEPT ![c] = audit[c]]
        /\ events' = [events EXCEPT ![c] = events[c]]
    BY <1>3, SameRows
  <2>3. x \in Conn /\ x.pc = "hello" /\ x.cand = conn[c].cand
    BY Moved DEF PCs
  <2> HIDE DEF x
  <2>4. Paired(x, audit[c])
    BY <1>1, <2>3, RowFacts DEF Paired
  <2> QED BY <1>1, <2>1, <2>2, <2>3, <2>4, RowFacts, HandleKeeps
<1> QED BY <1>2, <1>3 DEF DialTCP

\* The handshake with the backend.
LEMMA BackendAnswersKeeps ==
    ASSUME IInv, NEW c \in Conns, BackendAnswers(c)
    PROVE  IInv'
<1> DEFINE x == [conn[c] EXCEPT !.pc = "proxy"]
<1>1. main # "exited" /\ conn[c].pc = "hello"
  BY DEF BackendAnswers
<1>2. CASE DialFailed(c)
  BY <1>1, <1>2, DialFailedKeeps
<1>3. CASE /\ conn' = [conn EXCEPT ![c].pc = "proxy"]
           /\ record(c, EventName(conn[c].cand), "SessionConnected")
           /\ UNCHANGED <<Served, audit>>
  <2>1. conn' = [conn EXCEPT ![c] = x] /\ UNCHANGED Served
    BY <1>3
  <2>2. audit' = [audit EXCEPT ![c] = audit[c]]
    BY <1>3, SameRows
  <2>3. PICK e : events' = [events EXCEPT ![c] = e]
    <3>1. record(c, EventName(conn[c].cand), "SessionConnected")
      BY <1>3
    <3> QED BY <3>1, RecordFacts
  <2>4. x \in Conn /\ x.pc = "proxy" /\ x.cand = conn[c].cand
    BY Moved DEF PCs
  <2> HIDE DEF x
  <2>5. Paired(x, audit[c])
    BY <1>1, <2>4, RowFacts DEF Paired
  <2> QED BY <1>1, <2>1, <2>2, <2>3, <2>4, <2>5, RowFacts, HandleKeeps
<1> QED BY <1>2, <1>3 DEF BackendAnswers

\* The proxied session ends.
LEMMA ProxyEndsKeeps ==
    ASSUME IInv, NEW c \in Conns, ProxyEnds(c)
    PROVE  IInv'
<1>1. main # "exited" /\ conn[c].pc = "proxy" /\ UNCHANGED Served
  BY DEF ProxyEnds
<1>2. PICK r \in {"client_disconnect", "proxy_error"} :
         conn' = [conn EXCEPT ![c].pc = "close", ![c].reason = r]
  BY DEF ProxyEnds
<1> DEFINE x == [conn[c] EXCEPT !.pc = "close", !.reason = r]
<1>3. conn' = [conn EXCEPT ![c] = x]
  BY <1>2
<1>4. /\ audit' = [audit EXCEPT ![c] = audit[c]]
      /\ events' = [events EXCEPT ![c] = events[c]]
  BY SameRows DEF ProxyEnds
<1>5. x \in Conn /\ x.pc = "close" /\ x.cand = conn[c].cand
  <2>1. "close" \in PCs /\ r \in Reasons
    BY DEF PCs, Reasons
  <2>2. conn[c] \in Conn
    BY RowFacts
  <2> QED BY <2>1, <2>2 DEF Conn
<1> HIDE DEF x
<1>6. Paired(x, audit[c])
  BY <1>1, <1>5, RowFacts DEF Paired
<1> QED BY <1>1, <1>3, <1>4, <1>5, <1>6, RowFacts, HandleKeeps

\* The deferred calls add the session_close row and the last Event.
LEMMA SessionCloseKeeps ==
    ASSUME IInv, NEW c \in Conns, SessionClose(c)
    PROVE  IInv'
<1> DEFINE x == [conn[c] EXCEPT !.pc = "closed"]
           b == [audit[c] EXCEPT !.close = Append(audit[c].close, conn[c].reason)]
<1>1. main # "exited" /\ conn[c].pc = "close" /\ UNCHANGED Served
  BY DEF SessionClose
<1>2. conn' = [conn EXCEPT ![c] = x] /\ audit' = [audit EXCEPT ![c] = b]
  BY DEF SessionClose
<1>3. PICK e : events' = [events EXCEPT ![c] = e]
  <2>1. record(c, EventName(conn[c].cand), "SessionDisconnected")
    BY DEF SessionClose
  <2> QED BY <2>1, RecordFacts
<1>4. x \in Conn /\ x.pc = "closed" /\ x.cand = conn[c].cand
  BY Moved DEF PCs
<1>5. /\ b = [open |-> b.open, close |-> b.close, denied |-> b.denied]
      /\ b.open = audit[c].open
      /\ b.close = Append(audit[c].close, conn[c].reason)
      /\ b.denied = audit[c].denied
  BY RowFacts, CloseFields
<1>6. conn[c].reason \in Reasons
  BY RowFacts, ConnFields
<1> HIDE DEF x, b
<1>7. Paired(x, b)
  <2>1. /\ audit[c].open \in Nat /\ audit[c].close \in Seq(Reasons)
        /\ audit[c].open = Len(audit[c].close) + 1
    BY <1>1, RowFacts DEF Paired
  <2>2. b.close \in Seq(Reasons) /\ Len(b.close) = Len(audit[c].close) + 1
    BY <1>5, <1>6, <2>1
  <2> QED BY <1>4, <1>5, <2>1, <2>2 DEF Paired
<1> QED BY <1>1, <1>2, <1>3, <1>4, <1>5, <1>7, HandleKeeps

-----------------------------------------------------------------------------
(* run, the surroundings, and the specification.                           *)

\* main, the listener, the signals and g.Wait: a graceful exit follows a
\* Drained, and after an exit no connection takes a step.
LEMMA MainKeeps ==
    ASSUME IInv, AcceptFails \/ CloseListener \/ Drained \/ Terminate \/ Kill
    PROVE  IInv'
<1>1. UNCHANGED <<history, conn, audit, events>>
  BY DEF AcceptFails, CloseListener, Drained, Terminate, Kill
<1>2. main # "exited"
  BY DEF AcceptFails, CloseListener, Drained, Terminate, Kill
<1>3. graceful = FALSE
  BY <1>2 DEF IInv, MainInv
<1>4. /\ ctx' \in {"live", "cancelled"} /\ main' \in {"accept", "drain", "exited"}
      /\ listening' \in BOOLEAN
  <2>1. /\ ctx \in {"live", "cancelled"} /\ main \in {"accept", "drain", "exited"}
        /\ listening \in BOOLEAN
    BY DEF IInv, MainInv
  <2> QED BY <2>1, Zenon DEF AcceptFails, CloseListener, Drained, Terminate, Kill
<1>5. /\ graceful' \in BOOLEAN
      /\ graceful' => /\ main' = "exited"
                      /\ \A c \in Conns : conn[c].pc \in {"none", "closed"}
  <2>1. CASE Drained
    BY <2>1, Zenon DEF Drained
  <2>2. CASE AcceptFails \/ CloseListener \/ Terminate \/ Kill
    BY <1>3, <2>2, Zenon DEF AcceptFails, CloseListener, Terminate, Kill
  <2> QED BY <2>1, <2>2
<1>6. MainInv'
  BY <1>1, <1>4, <1>5 DEF IInv, MainInv
<1>7. \A c \in Conns : ConnInv(conn[c], audit[c], history)
  BY DEF IInv
<1> QED BY <1>1, <1>6, <1>7 DEF IInv

\* An edit reaches the cache.
LEMMA CacheChangesKeeps ==
    ASSUME IInv, CacheChanges
    PROVE  IInv'
<1>1. /\ UNCHANGED <<ctx, main, listening, graceful, conn, audit, events>>
      /\ Now <= MaxChanges
  BY DEF CacheChanges
<1>2. World \in WorldType /\ Now \in Nat \ {0}
  BY WorldFacts DEF IInv
<1>3. history \in Seq(WorldType)
  BY DEF IInv, MainInv
<1>4. \E w \in WorldType : history' = Append(history, w)
  <2>1. ASSUME NEW n \in Names, NEW d \in (DevPodStates \cup {Absent})
                                              \ {World.devpod[n]},
               history' = Append(history, [World EXCEPT !.devpod[n] = d])
        PROVE  \E w \in WorldType : history' = Append(history, w)
    <3>1. [World EXCEPT !.devpod[n] = d] \in WorldType
      BY <1>2 DEF WorldType
    <3> QED BY <2>1, <3>1
  <2>2. ASSUME NEW u \in Users, NEW z \in UserLines \ {World.lines[u]},
               history' = Append(history, [World EXCEPT !.lines[u] = z])
        PROVE  \E w \in WorldType : history' = Append(history, w)
    <3>1. [World EXCEPT !.lines[u] = z] \in WorldType
      BY <1>2 DEF WorldType
    <3> QED BY <2>2, <3>1
  <2> QED BY <2>1, <2>2 DEF CacheChanges
<1>5. PICK w \in WorldType : history' = Append(history, w)
  BY <1>4
<1>6. \A c \in Conns : ConnInv(conn[c], audit[c], history')
  <2>1. ASSUME NEW c \in Conns
        PROVE  ConnInv(conn[c], audit[c], Append(history, w))
    <3>1. ConnInv(conn[c], audit[c], history)
      BY DEF IInv
    <3> QED BY <1>3, <3>1, Grows
  <2> QED BY <1>5, <2>1
<1>7. MainInv'
  <2>1. history' \in Seq(WorldType) /\ Len(history') = Len(history) + 1
    BY <1>3, <1>5
  <2> QED BY <1>1, <1>2, <2>1 DEF IInv, MainInv, Now
<1> QED BY <1>1, <1>6, <1>7 DEF IInv

\* The invariant holds at the start.
LEMMA InitIInv ==
    ASSUME Init
    PROVE  IInv
<1>1. PICK w \in Worlds : history = <<w>>
  BY DEF Init
<1>2. w \in WorldType
  BY DEF WorldType
<1>3. history \in Seq(WorldType) /\ Len(history) = 1
  BY <1>1, <1>2
<1>4. MainInv
  <2>1. ctx = "live" /\ main = "accept" /\ listening \in BOOLEAN /\ ~graceful
        /\ graceful \in BOOLEAN
    BY Zenon DEF Init
  <2>2. /\ conn = [c \in Conns |-> conn[c]] /\ audit = [c \in Conns |-> audit[c]]
        /\ events = [c \in Conns |-> events[c]]
    BY DEF Init
  <2> QED BY <1>3, <2>1, <2>2 DEF MainInv
<1>5. ASSUME NEW c \in Conns
      PROVE  ConnInv(conn[c], audit[c], history)
  <2> DEFINE a == [open |-> 0, close |-> <<>>, denied |-> {}]
  <2>1. conn[c] = Fresh /\ audit[c] = a /\ events[c] = {}
    BY DEF Init
  <2>2. Paired(Fresh, a)
    BY FreshOK DEF Paired
  <2>3. \A r \in a.denied : Denied(r, history)
    OBVIOUS
  <2> HIDE DEF a
  <2> QED BY <2>1, <2>2, <2>3, FreshOK DEF ConnInv
<1> QED BY <1>4, <1>5 DEF IInv

\* Every step keeps the invariant.
LEMMA NextIInv ==
    ASSUME IInv, [Next]_vars
    PROVE  IInv'
<1>1. CASE UNCHANGED vars
  <2>1. /\ ctx' = ctx /\ main' = main /\ listening' = listening
        /\ graceful' = graceful /\ history' = history /\ conn' = conn
        /\ audit' = audit /\ events' = events
    BY <1>1 DEF vars
  <2> QED BY <2>1 DEF IInv, MainInv
<1>2. ASSUME NEW c \in Conns, Accept(c) \/ Step(c) \/ PeerStep(c)
      PROVE  IInv'
  BY <1>2, AcceptKeeps, GetScopedKeeps, GetBareKeeps, TrySourceKeeps,
     DialTCPKeeps, SessionCloseKeeps, AuthenticateKeeps, SessionOpenKeeps,
     HandshakeFailsKeeps, BackendAnswersKeeps, ProxyEndsKeeps
     DEF Step, PeerStep
<1>3. CASE AcceptFails \/ CloseListener \/ Drained \/ Terminate \/ Kill
  BY <1>3, MainKeeps
<1>4. CASE CacheChanges
  BY <1>4, CacheChangesKeeps
<1> QED BY <1>1, <1>2, <1>3, <1>4 DEF Next

\* The invariant holds in every reachable state.
THEOREM GatewayInductive == Spec => []IInv
<1>1. Init => IInv
  BY InitIInv
<1>2. IInv /\ [Next]_vars => IInv'
  BY NextIInv
<1> QED BY <1>1, <1>2, PTL DEF Spec

-----------------------------------------------------------------------------
(* What the invariant says.                                                *)

\* conn, the history of the cache and the flags of main keep their types; a
\* callback has a login that parses, and a session a verdict.
THEOREM GatewayTypeCorrect == Spec => []TypeOK
<1>1. IInv => TypeOK
  <2> SUFFICES ASSUME IInv PROVE TypeOK
    OBVIOUS
  <2>1. MainInv
    BY DEF IInv
  <2>2. ASSUME NEW c \in Conns
        PROVE  /\ conn[c].pc \in PCs /\ conn[c].tries \in 0 .. MaxAuthTries
               /\ InCallback(c) => conn[c].login \in Logins /\ conn[c].login.parses
               /\ conn[c].pc = "source" =>
                    conn[c].dp \in DevPodStates /\ conn[c].i \in 1 .. Len(Sources)
               /\ InSession(c) => conn[c].cand.ok
    <3>1. ConnInv(conn[c], audit[c], history)
      BY DEF IInv
    <3>2. /\ conn[c].pc \in PCs /\ conn[c].tries \in 0 .. MaxAuthTries
          /\ conn[c].cand \in Granting \cup {NoCand}
      BY <3>1, ConnFields DEF ConnInv
    <3>3. InSession(c) => conn[c].cand.ok
      BY <3>1, <3>2, CandFacts DEF ConnInv, InSession
    <3>4. InCallback(c) => Attempt(conn[c], history)
      BY <3>1 DEF ConnInv, InCallback
    <3>5. conn[c].pc = "source" => Attempt(conn[c], history)
      BY <3>1 DEF ConnInv
    <3> QED BY <3>2, <3>3, <3>4, <3>5 DEF Attempt, Sources
  <2> QED BY <2>1, <2>2 DEF TypeOK, MainInv, PCs, Now
<1> QED BY <1>1, GatewayInductive, PTL

\* No session without a DevPod that ran and was the user's or shared with him,
\* and a key that was trusted or his, at moments of the attempt that the
\* session comes from: for any clients, names, edits and directory.
THEOREM OnlyAuthorizedSessions == Spec => []Authorized
<1>1. IInv => Authorized
  <2> SUFFICES ASSUME IInv, NEW c \in Conns, InSession(c)
               PROVE  LET a == conn[c].cand
                          u == a.login.user
                          Open(w) == Grants(w.devpod[a.name], u)
                          Knows(w) == LET ks == CrdKeys(w, u)
                                      IN  ks # Absent /\ a.key \in ks
                      IN  /\ a.name \in {DevPodResourceName(u, a.login.pod),
                                         a.login.pod}
                          /\ During(a, Open)
                          /\ \/ a.key \in ProxyKeys
                             \/ During(a, Knows)
                             \/ \E d \in Directory[u] : IsKeys(d) /\ a.key \in d
    BY DEF Authorized
  <2>1. ConnInv(conn[c], audit[c], history)
    BY DEF IInv
  <2>2. Granted(conn[c].cand, history)
    BY <2>1 DEF ConnInv, InSession
  <2> QED BY <2>2 DEF Granted, NamesOf, KnowsIn, During
<1> QED BY <1>1, GatewayInductive, PTL

\* A denial for want of a key is right about every source.
THEOREM RejectionsJustified == Spec => []RejectionJustified
<1>1. IInv => RejectionJustified
  <2> SUFFICES ASSUME IInv, NEW c \in Conns, NEW r \in audit[c].denied,
                      r.reason \in {"user_not_found", "key_mismatch"}
               PROVE  LET u == r.login.user
                          Lacks(w) == LET ks == CrdKeys(w, u)
                                      IN  ks = Absent \/ r.key \notin ks
                          Misses(d) == ~IsKeys(d) \/ r.key \notin d
                      IN  /\ r.key \notin ProxyKeys
                          /\ During(r, Lacks)
                          /\ IF r.err THEN Failed \in Directory[u]
                             ELSE \E d \in Directory[u] \ {Failed} : Misses(d)
    BY DEF RejectionJustified
  <2>1. Denied(r, history)
    BY DEF IInv, ConnInv
  <2> QED BY <2>1 DEF Denied, LacksIn, During
<1> QED BY <1>1, GatewayInductive, PTL

\* After a drain that ended, no session lacks its session_close row.
THEOREM AuditAlwaysPaired == Spec => []AuditPaired
<1>1. IInv => AuditPaired
  <2> SUFFICES ASSUME IInv, graceful, NEW c \in Conns
               PROVE  audit[c].open = Len(audit[c].close)
    BY DEF AuditPaired
  <2>1. conn[c].pc \in {"none", "closed"}
    BY DEF IInv, MainInv
  <2>2. Paired(conn[c], audit[c])
    BY DEF IInv, ConnInv
  <2>3. Len(audit[c].close) \in Nat /\ conn[c].pc \notin Session
    BY <2>1, <2>2 DEF Paired
  <2> QED BY <2>2, <2>3 DEF Paired
<1> QED BY <1>1, GatewayInductive, PTL
=============================================================================
