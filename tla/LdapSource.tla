----------------------------- MODULE LdapSource -----------------------------
(***************************************************************************)
(* ldapSource (internal/gateway/ldap.go): a cache with a life and a grace, *)
(* one flight per user name, one connection shared by all lookups.         *)
(*                                                                         *)
(* Each call of Resolve is a process.  It reads the clock, looks into the  *)
(* cache, joins the flight of its user; the winner of the flight performs  *)
(* liveLookup and its outcome is given to all who joined.                  *)
(***************************************************************************)
EXTENDS Integers, FiniteSets

CONSTANTS
    Users, Callers, Keys, Absent, Failed,
    CacheTTL, NegativeCacheTTL, StaleGrace,
    MaxCall,        \* bound: ticks that pass during one call
    MaxTime,        \* bound of the clock
    MaxChanges,     \* bound: edits of the directory
    MaxFaults       \* bound: outages, and connections the server drops

Nobody == "nobody"

ASSUME TimesAssumption ==
    /\ CacheTTL \in Nat \ {0} /\ NegativeCacheTTL \in Nat /\ StaleGrace \in Nat
    /\ MaxCall \in Nat /\ MaxTime \in Nat
ASSUME BoundsAssumption ==
    MaxChanges \in Nat /\ MaxFaults \in Nat
ASSUME NamesAssumption ==
    /\ Absent \notin Keys /\ Failed \notin Keys /\ Absent # Failed
    /\ Nobody \notin Callers

VARIABLES
    clock,
    dir, left,      \* the directory, and when it stopped holding a value
    up,             \* the directory can be reached
    env,            \* how many edits and faults there were
    cache,          \* cache[u]: ldapCacheEntry
    flight,         \* flight[u]: the caller that looks u up, or Nobody
    conn,           \* the shared connection: "none", "good" or "broken"
    call            \* call[c]: the local variables of a call of Resolve

vars == <<clock, dir, left, up, env, cache, flight, conn, call>>
world == <<dir, left, up, env>>

Values == Keys \cup {Absent}
Answers == [val : Values \cup {Failed}, stale : BOOLEAN]

\* failed stands for a lastErrAt that is set: only that it is set matters.
Entry == [known : BOOLEAN, keys : Values, fetchedAt : 0 .. MaxTime,
          failed : BOOLEAN]
NoAnswer == [val |-> Failed, stale |-> FALSE]
NoEntry == [known |-> FALSE, keys |-> Absent, fetchedAt |-> 0,
            failed |-> FALSE]

\* A call that is not running, and the places of a running one.
Resting == {"idle", "done"}
Looking == {"acquire", "search", "reset", "reacquire", "research", "giveup",
            "publish"}
Call == [pc : Resting \cup Looking \cup {"check", "flight", "wait"},
         user : Users, now : 0 .. MaxTime,
         conn : {"none", "held", "closed"},   \* the connection it works with
         got : Values \cup {Failed},          \* what liveLookup returned
         ans : Answers]

Ttl(v) == IF v = Absent THEN NegativeCacheTTL ELSE CacheTTL

\* Returned to the caller: its local variables are gone.
Returned(r, ans) == [r EXCEPT !.pc = "done", !.now = 0, !.conn = "none",
                              !.got = Absent, !.ans = ans]

ResolveResultFromEntry(e, stale) == [val |-> e.keys, stale |-> stale]

-----------------------------------------------------------------------------

Init ==
    /\ clock = 0
    /\ dir \in [Users -> Values]
    /\ left = [u \in Users |-> [v \in Values |-> -1]]
    /\ up \in BOOLEAN
    /\ env = [changes |-> 0, faults |-> 0]
    /\ cache = [u \in Users |-> NoEntry]
    /\ flight = [u \in Users |-> Nobody]
    /\ conn = IF up THEN "good" ELSE "none"     \* pre-warm, best effort
    /\ \E u \in Users :
         call = [c \in Callers |-> [pc |-> "idle", user |-> u, now |-> 0,
                    conn |-> "none", got |-> Absent,
                    ans |-> NoAnswer]]

\* Resolve begins: the clock is read first, before any lock is taken.
Resolve(c, u) ==
    /\ call[c].pc \in Resting
    /\ call' = [call EXCEPT ![c] = [@ EXCEPT !.pc = "check", !.user = u,
                   !.now = clock, !.ans = NoAnswer]]
    /\ UNCHANGED <<clock, world, cache, flight, conn>>

Fresh(e, now) == e.known /\ ~e.failed /\ now - e.fetchedAt < Ttl(e.keys)
InGrace(e, now) == e.known /\ now - e.fetchedAt < Ttl(e.keys) + StaleGrace

\* The look into the cache, under the read lock.
CheckCache(c) ==
    LET e == cache[call[c].user]
        now == call[c].now
    IN  /\ call[c].pc = "check"
        /\ call' = [call EXCEPT ![c] =
             IF Fresh(e, now)
             THEN Returned(@, ResolveResultFromEntry(e, FALSE))
             ELSE IF e.failed /\ InGrace(e, now)
             THEN Returned(@, ResolveResultFromEntry(e, TRUE))
             ELSE [@ EXCEPT !.pc = "flight"]]
        /\ UNCHANGED <<clock, world, cache, flight, conn>>

\* flight.Do: the first caller works, the others wait for its outcome.
Join(c) ==
    LET u == call[c].user
        wins == flight[u] = Nobody
    IN  /\ call[c].pc = "flight"
        /\ flight' = [flight EXCEPT ![u] = IF wins THEN c ELSE @]
        /\ call' = [call EXCEPT ![c].pc = IF wins THEN "acquire" ELSE "wait"]
        /\ UNCHANGED <<clock, world, cache, conn>>

\* acquireConn of the first try and of the retry: the shared connection, or
\* a new one.  A first try that cannot connect fails at once, a retry goes
\* through the reset that ends liveLookup.
AcquireConn(c) ==
    /\ call[c].pc \in {"acquire", "reacquire"}
    /\ IF conn = "none" /\ ~up
       THEN /\ call' = [call EXCEPT ![c] = [@ EXCEPT !.got = Failed,
                  !.pc = IF call[c].pc = "acquire" THEN "publish" ELSE "giveup"]]
            /\ UNCHANGED conn
       ELSE /\ conn' = IF conn = "none" THEN "good" ELSE conn
            /\ call' = [call EXCEPT ![c] = [@ EXCEPT !.conn = "held",
                  !.pc = IF call[c].pc = "acquire" THEN "search" ELSE "research"]]
    /\ UNCHANGED <<clock, world, cache, flight>>

\* conn.Search, outside of connMu.
Search(c) ==
    LET works == call[c].conn = "held" /\ conn = "good" /\ up
    IN  /\ call[c].pc \in {"search", "research"}
        /\ call' = [call EXCEPT ![c] =
             IF works THEN [@ EXCEPT !.pc = "publish", !.got = dir[call[c].user]]
             ELSE [@ EXCEPT !.pc = IF call[c].pc = "search" THEN "reset"
                                                            ELSE "giveup"]]
        /\ UNCHANGED <<clock, world, cache, flight, conn>>

\* resetConn closes the shared connection under whoever works with it.  It
\* precedes the retry and follows its failure.
ResetConn(c) ==
    /\ call[c].pc \in {"reset", "giveup"}
    /\ conn' = "none"
    /\ call' = [d \in Callers |->
         LET r == [call[d] EXCEPT !.conn = IF @ = "held" THEN "closed" ELSE @]
         IN  IF d # c THEN r
             ELSE IF r.pc = "reset" THEN [r EXCEPT !.pc = "reacquire"]
             ELSE [r EXCEPT !.pc = "publish", !.got = Failed]]
    /\ UNCHANGED <<clock, world, cache, flight>>

\* Mutants: the time is read after the lookup; an error is cached.
UpdatedStampedLate(e, got, now) ==
    IF got = Failed THEN [e EXCEPT !.failed = e.known]
    ELSE [known |-> TRUE, keys |-> got, fetchedAt |-> clock, failed |-> FALSE]
UpdatedBlindly(e, got, now) ==
    [known |-> TRUE, keys |-> got, fetchedAt |-> now, failed |-> FALSE]

\* The entry a lookup leaves behind: a new one, or the old one marked.
Updated(e, got, now) ==
    IF got = Failed THEN [e EXCEPT !.failed = e.known]
    ELSE [known |-> TRUE, keys |-> got, fetchedAt |-> now, failed |-> FALSE]

\* Mutant: an error is returned although the old entry may still serve.
OutcomeNoFallback(e, got, now) ==
    [val |-> got, stale |-> FALSE]

\* What the flight returns to its winner and its followers.
Outcome(e, got, now) ==
    IF got # Failed THEN [val |-> got, stale |-> FALSE]
    ELSE IF InGrace(e, now) THEN ResolveResultFromEntry(e, TRUE)
    ELSE [val |-> Failed, stale |-> FALSE]

\* Mutant: a flight that fails is never forgotten.
PublishKeepsFlight(c) ==
    LET r == call[c]
        e == cache[r.user]
    IN  /\ r.pc = "publish"
        /\ cache' = [cache EXCEPT ![r.user] = Updated(e, r.got, r.now)]
        /\ flight' = [flight EXCEPT ![r.user] =
                         IF r.got = Failed THEN @ ELSE Nobody]
        /\ call' = [d \in Callers |->
              IF d = c \/ (call[d].pc = "wait" /\ call[d].user = r.user)
              THEN Returned(call[d], Outcome(e, r.got, r.now)) ELSE call[d]]
        /\ UNCHANGED <<clock, world, conn>>

\* The end of the flight: cache, answer, and the key is free again.
Publish(c) ==
    LET u == call[c].user
        e == cache[u]
        r == call[c]
        aboard == {d \in Callers : d = c \/
                      (call[d].pc = "wait" /\ call[d].user = u)}
    IN  /\ r.pc = "publish"
        /\ cache' = [cache EXCEPT ![u] = Updated(e, r.got, r.now)]
        /\ flight' = [flight EXCEPT ![u] = Nobody]
        /\ call' = [d \in Callers |-> IF d \notin aboard THEN call[d]
                       ELSE Returned(call[d], Outcome(e, r.got, r.now))]
        /\ UNCHANGED <<clock, world, conn>>

-----------------------------------------------------------------------------
(* The surroundings: time, the directory server and its administrator.     *)

Running(c) == call[c].pc \notin Resting

\* No call lasts longer than MaxCall: dial, bind and search have timeouts.
Tick ==
    /\ clock < MaxTime
    /\ \A c \in Callers : Running(c) => clock - call[c].now < MaxCall
    /\ clock' = clock + 1
    /\ UNCHANGED <<world, cache, flight, conn, call>>

Change(u, v) ==
    /\ env.changes < MaxChanges
    /\ v # dir[u]
    /\ env' = [env EXCEPT !.changes = @ + 1]
    /\ dir' = [dir EXCEPT ![u] = v]
    /\ left' = [left EXCEPT ![u][dir[u]] = clock]
    /\ UNCHANGED <<clock, up, cache, flight, conn, call>>

Broken == IF conn = "good" THEN "broken" ELSE conn

GoesDown ==
    /\ up /\ env.faults < MaxFaults
    /\ up' = FALSE
    /\ env' = [env EXCEPT !.faults = @ + 1]
    /\ conn' = Broken
    /\ UNCHANGED <<clock, dir, left, cache, flight, call>>

ComesBack ==
    /\ ~up
    /\ up' = TRUE
    /\ UNCHANGED <<clock, dir, left, env, cache, flight, conn, call>>

\* The server closes a connection that was idle for too long.
ServerDrops ==
    /\ conn = "good" /\ env.faults < MaxFaults
    /\ env' = [env EXCEPT !.faults = @ + 1]
    /\ conn' = "broken"
    /\ UNCHANGED <<clock, dir, left, up, cache, flight, call>>

Step(c) ==
    CheckCache(c) \/ Join(c) \/ AcquireConn(c) \/ Search(c) \/ ResetConn(c)
        \/ Publish(c)

Next ==
    \/ \E c \in Callers : Step(c) \/ \E u \in Users : Resolve(c, u)
    \/ \E u \in Users, v \in Values : Change(u, v)
    \/ Tick \/ GoesDown \/ ComesBack \/ ServerDrops

Spec == Init /\ [][Next]_vars

-----------------------------------------------------------------------------

\* Every variable holds a value of its type: an error is never cached.
TypeOK ==
    /\ clock \in 0 .. MaxTime
    /\ dir \in [Users -> Values]
    /\ left \in [Users -> [Values -> -1 .. MaxTime]]
    /\ up \in BOOLEAN
    /\ env \in [changes : 0 .. MaxChanges, faults : 0 .. MaxFaults]
    /\ cache \in [Users -> Entry]
    /\ flight \in [Users -> Callers \cup {Nobody}]
    /\ conn \in {"none", "good", "broken"}
    /\ call \in [Callers -> Call]

\* What Resolve promises its caller.  The answers are those of IdentitySource:
\* never older than the life of the entry (and the grace, when marked stale)
\* although the lookup is slow, shared by followers that asked later, and
\* stamped with a time read before the caller waited for the flight.
Source == INSTANCE IdentitySource WITH
    call <- [c \in Callers |-> [busy |-> Running(c), user |-> call[c].user,
                                ans |-> call[c].ans]]
ImplementsSource == Source!Spec

\* Soft failure: no caller, winner or follower, is given an error while the
\* cache holds an entry of its user that is within its grace.
SoftFail ==
    [][\A c \in Callers :
          Running(c) /\ call'[c].pc = "done" /\ call'[c].ans.val = Failed
            => ~InGrace(cache'[call[c].user], clock)]_vars

\* Nobody is left behind in a flight: whoever waits, waits for a caller that
\* is at work on the same user and has not published its outcome.
FlightsLed ==
    \A c \in Callers : call[c].pc = "wait" =>
        \E d \in Callers :
            /\ flight[call[c].user] = d
            /\ call[d].user = call[c].user /\ call[d].pc \in Looking
=============================================================================
