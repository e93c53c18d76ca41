-------------------------- MODULE LdapSourceProofs --------------------------
(***************************************************************************)
(* ldapSource for any number of users and callers and any times: types,    *)
(* flights, soft failure, and that it implements IdentitySource.           *)
(***************************************************************************)
EXTENDS LdapSource, TLAPS

\* A flight is led by a caller that works on its user, a caller that works
\* leads the flight of its user, and whoever waits has a flight to wait for.
Led ==
    /\ \A u \in Users : flight[u] # Nobody =>
          call[flight[u]].user = u /\ call[flight[u]].pc \in Looking
    /\ \A c \in Callers : call[c].pc \in Looking => flight[call[c].user] = c
    /\ \A c \in Callers : call[c].pc = "wait" => flight[call[c].user] # Nobody

\* The directory held v for u at time t or later.
HeldSince(u, v, t) == dir[u] = v \/ left[u][v] >= t

\* A call lasts MaxCall at most.
Brief == \A c \in Callers : Running(c) =>
            call[c].now <= clock /\ clock - call[c].now <= MaxCall

\* What is cached, and what a lookup is about to publish, was in the directory
\* when the lookup that found it began, or later.
Grounded ==
    /\ \A u \in Users : /\ cache[u].fetchedAt <= clock
                        /\ cache[u].known =>
                             HeldSince(u, cache[u].keys, cache[u].fetchedAt)
    /\ \A c \in Callers : call[c].pc = "publish" /\ call[c].got # Failed =>
          HeldSince(call[c].user, call[c].got, call[c].now)

IInv == TypeOK /\ Led /\ Brief /\ Grounded

\* The parts of TypeOK.
WorldOK == /\ clock \in 0 .. MaxTime
           /\ dir \in [Users -> Values]
           /\ left \in [Users -> [Values -> -1 .. MaxTime]]
           /\ up \in BOOLEAN
           /\ env \in [changes : 0 .. MaxChanges, faults : 0 .. MaxFaults]
CacheOK == cache \in [Users -> Entry]
FlightOK == flight \in [Users -> Callers \cup {Nobody}]
ConnOK == conn \in {"none", "good", "broken"}
CallOK == call \in [Callers -> Call]

USE TimesAssumption, BoundsAssumption, NamesAssumption DEF Resting, Looking

\* TypeOK is the conjunction of its parts.
LEMMA TypeParts == TypeOK <=> WorldOK /\ CacheOK /\ FlightOK /\ ConnOK /\ CallOK
  BY DEF TypeOK, WorldOK, CacheOK, FlightOK, ConnOK, CallOK

\* The same of the next state.
LEMMA TypePartsNext ==
    TypeOK' <=> WorldOK' /\ CacheOK' /\ FlightOK' /\ ConnOK' /\ CallOK'
  BY DEF TypeOK, WorldOK, CacheOK, FlightOK, ConnOK, CallOK

\* The fields of a call.
LEMMA CallFields ==
    ASSUME NEW r \in Call
    PROVE  /\ r.pc \in Resting \cup Looking \cup {"check", "flight", "wait"}
           /\ r.user \in Users /\ r.now \in 0 .. MaxTime
           /\ r.conn \in {"none", "held", "closed"}
           /\ r.got \in Values \cup {Failed} /\ r.ans \in Answers
  BY DEF Call

\* An entry gives an answer, and never an error.
LEMMA AnswersOK ==
    /\ NoAnswer \in Answers
    /\ \A e \in Entry, b \in BOOLEAN :
          /\ ResolveResultFromEntry(e, b) \in Answers
          /\ ResolveResultFromEntry(e, b).val # Failed
  BY DEF NoAnswer, Answers, Values, Entry, ResolveResultFromEntry

\* What Returned does to a call.
LEMMA ReturnedOK ==
    ASSUME NEW r \in Call, NEW a \in Answers
    PROVE  /\ Returned(r, a) \in Call
           /\ Returned(r, a).pc = "done" /\ Returned(r, a).user = r.user
           /\ Returned(r, a).ans = a
<1>1. Absent \in Values /\ 0 \in 0 .. MaxTime
  BY DEF Values
<1> DEFINE s == [r EXCEPT !.pc = "done", !.now = 0]
<1>2. s \in Call /\ s.pc = "done" /\ s.user = r.user
  BY <1>1 DEF Call
<1> HIDE DEF s
<1> DEFINE t == [s EXCEPT !.conn = "none", !.got = Absent, !.ans = a]
<1>3. t \in Call /\ t.pc = "done" /\ t.user = r.user /\ t.ans = a
  BY <1>1, <1>2 DEF Call
<1>4. Returned(r, a) = t
  BY DEF Returned, s, Call
<1> QED BY <1>3, <1>4

-----------------------------------------------------------------------------

\* NewLDAPSource establishes the invariant.
LEMMA InitIInv == Init => IInv
<1> SUFFICES ASSUME Init PROVE IInv
  OBVIOUS
<1>1. WorldOK
  BY DEF Init, WorldOK, Values
<1>2. CacheOK
  BY DEF Init, CacheOK, Entry, NoEntry, Values
<1>3. FlightOK /\ ConnOK
  BY DEF Init, FlightOK, ConnOK
<1>4. CallOK
  BY AnswersOK DEF Init, CallOK, Call, Values
<1>5. Led /\ Brief /\ Grounded
  BY DEF Init, Led, Brief, Grounded, Running, NoEntry
<1> QED BY <1>1, <1>2, <1>3, <1>4, <1>5, TypeParts DEF IInv

\* The start of Resolve, which reads the clock.
LEMMA ResolveKeeps ==
    ASSUME IInv, NEW c \in Callers, NEW u \in Users, Resolve(c, u)
    PROVE IInv'
<1> DEFINE r == [call[c] EXCEPT !.pc = "check", !.user = u, !.now = clock,
                                !.ans = NoAnswer]
<1>0. call[c] \in Call /\ CallOK /\ WorldOK /\ CacheOK /\ FlightOK /\ ConnOK
  BY TypeParts DEF IInv, CallOK
<1>1. /\ r \in Call /\ r.pc = "check" /\ r.user = u /\ r.now = clock
  BY <1>0, AnswersOK DEF Call, WorldOK
<1>2. /\ call' = [call EXCEPT ![c] = r] /\ call[c].pc \in Resting
      /\ clock' = clock /\ dir' = dir /\ left' = left /\ up' = up /\ env' = env
      /\ cache' = cache /\ flight' = flight /\ conn' = conn
  BY DEF Resolve, world
<1> HIDE DEF r
<1>3. TypeOK'
  BY <1>0, <1>1, <1>2, TypePartsNext
     DEF WorldOK, CacheOK, FlightOK, ConnOK, CallOK
<1>4. Led'
  BY <1>0, <1>1, <1>2 DEF IInv, Led, CallOK, FlightOK
<1>5. Brief' /\ Grounded'
  BY <1>0, <1>1, <1>2
     DEF IInv, Brief, Grounded, HeldSince, Running, CallOK, WorldOK
<1> QED BY <1>3, <1>4, <1>5 DEF IInv

\* A step of one caller that leaves the cache, the flights and the world alone.
LEMMA OneCallMoves ==
    ASSUME IInv, NEW c \in Callers, NEW r \in Call,
           call' = [call EXCEPT ![c] = r],
           clock' = clock, dir' = dir, left' = left, up' = up, env' = env,
           cache' = cache, flight' = flight, ConnOK',
           r.user = call[c].user, r.pc # "wait", Running(c),
           r.pc \in Looking <=> call[c].pc \in Looking,
           r.pc \notin Resting => r.now = call[c].now,
           r.pc = "publish" /\ r.got # Failed => r.got = dir[r.user]
    PROVE  IInv'
<1>0. CallOK /\ WorldOK /\ CacheOK /\ FlightOK /\ ConnOK /\ call[c] \in Call
  BY TypeParts DEF IInv, CallOK
<1>1. TypeOK'
  BY <1>0, TypePartsNext DEF WorldOK, CacheOK, FlightOK, CallOK
<1>2. Led'
  BY <1>0 DEF IInv, Led, CallOK, FlightOK
<1>3. Brief' /\ Grounded'
  BY <1>0 DEF IInv, Brief, Grounded, HeldSince, Running, CallOK
<1> QED BY <1>1, <1>2, <1>3 DEF IInv

\* The look into the cache.
LEMMA CheckCacheKeeps ==
    ASSUME IInv, NEW c \in Callers, CheckCache(c)
    PROVE IInv'
<1> DEFINE e == cache[call[c].user]
<1>0. /\ CallOK /\ CacheOK /\ ConnOK /\ call[c] \in Call
      /\ call[c].user \in Users /\ e \in Entry /\ call[c].pc = "check"
  BY TypeParts, CallFields DEF IInv, CallOK, CacheOK, CheckCache
<1>1. /\ clock' = clock /\ dir' = dir /\ left' = left /\ up' = up /\ env' = env
      /\ cache' = cache /\ flight' = flight /\ conn' = conn
  BY DEF CheckCache, world
<1>2. ASSUME NEW b \in BOOLEAN,
             call' = [call EXCEPT ![c] =
                        Returned(call[c], ResolveResultFromEntry(e, b))]
      PROVE  IInv'
  <2> DEFINE r == Returned(call[c], ResolveResultFromEntry(e, b))
  <2>1. r \in Call /\ r.pc = "done" /\ r.user = call[c].user
    BY <1>0, AnswersOK, ReturnedOK
  <2> QED BY <1>0, <1>1, <1>2, <2>1, OneCallMoves DEF ConnOK, Running
<1>3. ASSUME call' = [call EXCEPT ![c] = [call[c] EXCEPT !.pc = "flight"]]
      PROVE  IInv'
  <2> DEFINE r == [call[c] EXCEPT !.pc = "flight"]
  <2>1. r \in Call /\ r.pc = "flight" /\ r.user = call[c].user /\ r.now = call[c].now
    BY <1>0 DEF Call
  <2> HIDE DEF r
  <2>2. call' = [call EXCEPT ![c] = r]
    BY <1>3 DEF r
  <2> QED BY <1>0, <1>1, <2>1, <2>2, OneCallMoves DEF ConnOK, Running
<1> QED BY <1>2, <1>3 DEF CheckCache

\* acquireConn: a caller at work stays the leader of its flight.
LEMMA AcquireConnKeeps ==
    ASSUME IInv, NEW c \in Callers, AcquireConn(c)
    PROVE IInv'
<1>0. CallOK /\ ConnOK /\ call[c] \in Call
  BY TypeParts DEF IInv, CallOK
<1>1. /\ clock' = clock /\ dir' = dir /\ left' = left /\ up' = up /\ env' = env
      /\ cache' = cache /\ flight' = flight /\ ConnOK'
  BY <1>0 DEF AcquireConn, world, ConnOK
<1>2. call[c].pc \in Looking
  BY DEF AcquireConn
<1>3. CASE conn = "none" /\ ~up
  <2> DEFINE r == [call[c] EXCEPT !.got = Failed, !.pc =
                      IF call[c].pc = "acquire" THEN "publish" ELSE "giveup"]
  <2>1. /\ r \in Call /\ r.user = call[c].user /\ r.now = call[c].now
        /\ r.pc \in Looking /\ r.got = Failed
    BY <1>0 DEF Call
  <2>2. call' = [call EXCEPT ![c] = r]
    BY <1>3 DEF AcquireConn
  <2> QED BY <1>1, <1>2, <2>1, <2>2, OneCallMoves DEF Running
<1>4. CASE ~(conn = "none" /\ ~up)
  <2> DEFINE r == [call[c] EXCEPT !.conn = "held", !.pc =
                      IF call[c].pc = "acquire" THEN "search" ELSE "research"]
  <2>1. /\ r \in Call /\ r.user = call[c].user /\ r.now = call[c].now
        /\ r.pc \in {"search", "research"}
    BY <1>0 DEF Call
  <2>2. call' = [call EXCEPT ![c] = r]
    BY <1>4 DEF AcquireConn
  <2> QED BY <1>1, <1>2, <2>1, <2>2, OneCallMoves DEF Running
<1> QED BY <1>3, <1>4

\* conn.Search: what it finds is in the directory at this moment.
LEMMA SearchKeeps ==
    ASSUME IInv, NEW c \in Callers, Search(c)
    PROVE IInv'
<1>0. CallOK /\ ConnOK /\ WorldOK /\ call[c] \in Call /\ call[c].user \in Users
  BY TypeParts, CallFields DEF IInv, CallOK
<1>1. /\ clock' = clock /\ dir' = dir /\ left' = left /\ up' = up /\ env' = env
      /\ cache' = cache /\ flight' = flight /\ ConnOK'
  BY <1>0 DEF Search, world, ConnOK
<1>2. call[c].pc \in Looking /\ dir[call[c].user] \in Values
  BY <1>0 DEF Search, WorldOK
<1>3. ASSUME call' = [call EXCEPT ![c] = [call[c] EXCEPT
                        !.pc = "publish", !.got = dir[call[c].user]]]
      PROVE  IInv'
  <2> DEFINE r == [call[c] EXCEPT !.pc = "publish", !.got = dir[call[c].user]]
  <2>1. /\ r \in Call /\ r.user = call[c].user /\ r.now = call[c].now
        /\ r.pc = "publish" /\ r.got = dir[r.user]
    BY <1>0, <1>2 DEF Call
  <2> HIDE DEF r
  <2>2. call' = [call EXCEPT ![c] = r]
    BY <1>3 DEF r
  <2> QED BY <1>1, <1>2, <2>1, <2>2, OneCallMoves DEF Running
<1>4. ASSUME call' = [call EXCEPT ![c] = [call[c] EXCEPT
                  !.pc = IF call[c].pc = "search" THEN "reset" ELSE "giveup"]]
      PROVE  IInv'
  <2> DEFINE r == [call[c] EXCEPT
                      !.pc = IF call[c].pc = "search" THEN "reset" ELSE "giveup"]
  <2>1. /\ r \in Call /\ r.user = call[c].user /\ r.now = call[c].now
        /\ r.pc \in {"reset", "giveup"}
    BY <1>0 DEF Call
  <2> HIDE DEF r
  <2>2. call' = [call EXCEPT ![c] = r]
    BY <1>4 DEF r
  <2> QED BY <1>1, <1>2, <2>1, <2>2, OneCallMoves DEF Running
<1> QED BY <1>3, <1>4 DEF Search

\* flight.Do: whoever does not win has a leader to wait for.
LEMMA JoinKeeps ==
    ASSUME IInv, NEW c \in Callers, Join(c)
    PROVE IInv'
<1> DEFINE u == call[c].user
           wins == flight[u] = Nobody
           r == [call[c] EXCEPT !.pc = IF wins THEN "acquire" ELSE "wait"]
<1>0. CallOK /\ WorldOK /\ CacheOK /\ FlightOK /\ ConnOK /\ call[c] \in Call /\ u \in Users
  BY TypeParts, CallFields DEF IInv, CallOK
<1>1. /\ r \in Call /\ r.user = u /\ r.now = call[c].now
      /\ r.pc = IF wins THEN "acquire" ELSE "wait"
  BY <1>0 DEF Call
<1>2. /\ call' = [call EXCEPT ![c] = r] /\ call[c].pc = "flight"
      /\ flight' = [flight EXCEPT ![u] = IF wins THEN c ELSE @]
      /\ clock' = clock /\ dir' = dir /\ left' = left /\ up' = up /\ env' = env
      /\ cache' = cache /\ conn' = conn
  BY DEF Join, world
<1> HIDE DEF r
<1>3. TypeOK'
  BY <1>0, <1>1, <1>2, TypePartsNext
     DEF WorldOK, CacheOK, FlightOK, ConnOK, CallOK
<1>4. Led'
  BY <1>0, <1>1, <1>2 DEF IInv, Led, CallOK, FlightOK
<1>5. Brief' /\ Grounded'
  BY <1>0, <1>1, <1>2 DEF IInv, Brief, Grounded, HeldSince, Running, CallOK
<1> QED BY <1>3, <1>4, <1>5 DEF IInv

\* resetConn touches the connections of others, nothing else of theirs.
LEMMA ResetConnFacts ==
    ASSUME IInv, NEW c \in Callers, ResetConn(c)
    PROVE  /\ call' \in [Callers -> Call]
           /\ \A d \in Callers : /\ call'[d].user = call[d].user
                                 /\ call'[d].now = call[d].now
                                 /\ call'[d].ans = call[d].ans
           /\ \A d \in Callers \ {c} : /\ call'[d].pc = call[d].pc
                                       /\ call'[d].got = call[d].got
           /\ call'[c].pc \in {"reacquire", "publish"}
           /\ call'[c].pc = "publish" => call'[c].got = Failed
<1> DEFINE q(d) == [call[d] EXCEPT !.conn = IF @ = "held" THEN "closed" ELSE @]
<1>0. CallOK
  BY TypeParts DEF IInv
<1>1. \A d \in Callers :
         /\ q(d) \in Call /\ q(d).user = call[d].user /\ q(d).now = call[d].now
         /\ q(d).pc = call[d].pc /\ q(d).got = call[d].got
         /\ q(d).ans = call[d].ans
  BY <1>0 DEF CallOK, Call
<1>2. call' = [d \in Callers |->
         IF d # c THEN q(d)
         ELSE IF q(d).pc = "reset" THEN [q(d) EXCEPT !.pc = "reacquire"]
         ELSE [q(d) EXCEPT !.pc = "publish", !.got = Failed]]
  BY DEF ResetConn
<1> HIDE DEF q
<1>3. \A x \in Call :
         LET y == [x EXCEPT !.pc = "reacquire"]
             z == [x EXCEPT !.pc = "publish", !.got = Failed]
         IN  /\ y \in Call /\ y.pc = "reacquire" /\ y.user = x.user
             /\ y.now = x.now /\ y.ans = x.ans
             /\ z \in Call /\ z.pc = "publish" /\ z.user = x.user
             /\ z.now = x.now /\ z.ans = x.ans /\ z.got = Failed
  BY DEF Call
<1>4. \A d \in Callers \ {c} : call'[d] = q(d)
  BY <1>2
<1>5. \/ call'[c] = [q(c) EXCEPT !.pc = "reacquire"]
      \/ call'[c] = [q(c) EXCEPT !.pc = "publish", !.got = Failed]
  BY <1>2
<1>6. /\ call'[c] \in Call /\ call'[c].user = q(c).user
      /\ call'[c].now = q(c).now /\ call'[c].ans = q(c).ans
      /\ call'[c].pc \in {"reacquire", "publish"}
      /\ call'[c].pc = "publish" => call'[c].got = Failed
  <2>1. q(c) \in Call BY <1>1
  <2> QED BY <1>3, <1>5, <2>1
<1>7. \A d \in Callers : call'[d] \in Call
  BY <1>1, <1>4, <1>6
<1>8. call' \in [Callers -> Call]
  BY <1>2, <1>7
<1> QED BY <1>1, <1>4, <1>6, <1>8

\* resetConn moves no other caller and frees no flight.
LEMMA ResetConnKeeps ==
    ASSUME IInv, NEW c \in Callers, ResetConn(c)
    PROVE IInv'
<1>0. CallOK /\ WorldOK /\ CacheOK /\ FlightOK /\ ConnOK
  BY TypeParts DEF IInv
<1>2. /\ call[c].pc \in {"reset", "giveup"} /\ conn' = "none"
      /\ clock' = clock /\ dir' = dir /\ left' = left /\ up' = up /\ env' = env
      /\ cache' = cache /\ flight' = flight
  BY DEF ResetConn, world
<1>4. /\ call' \in [Callers -> Call]
      /\ \A d \in Callers : call'[d].user = call[d].user /\ call'[d].now = call[d].now
      /\ \A d \in Callers \ {c} : call'[d].pc = call[d].pc /\ call'[d].got = call[d].got
      /\ call'[c].pc \in {"reacquire", "publish"}
      /\ call'[c].pc = "publish" => call'[c].got = Failed
  BY ResetConnFacts
<1>5. TypeOK'
  BY <1>0, <1>2, <1>4, TypePartsNext
     DEF WorldOK, CacheOK, FlightOK, ConnOK, CallOK
<1>6. Led'
  <2>1. \A d \in Callers : /\ call'[d].pc \in Looking <=> call[d].pc \in Looking
                           /\ call'[d].pc = "wait" <=> call[d].pc = "wait"
    <3>1. call[c].pc \in {"reset", "giveup"}
      BY <1>2
    <3> QED BY <3>1, <1>4
  <2>2. \A u \in Users : flight[u] # Nobody => flight[u] \in Callers
    BY <1>0 DEF FlightOK
  <2>3. flight' = flight
    BY <1>2
  <2>4. \A d \in Callers : call'[d].user = call[d].user
    BY <1>4
  <2> QED BY <2>1, <2>2, <2>3, <2>4 DEF IInv, Led
<1>7. Brief' /\ Grounded'
  BY <1>0, <1>2, <1>4 DEF IInv, Brief, Grounded, HeldSince, Running
<1> QED BY <1>5, <1>6, <1>7 DEF IInv

-----------------------------------------------------------------------------

\* What the end of a flight does to its callers, without the records.
LEMMA PublishFacts ==
    ASSUME IInv, NEW c \in Callers, Publish(c)
    PROVE  LET u == call[c].user
               aboard == {d \in Callers : d = c \/
                             (call[d].pc = "wait" /\ call[d].user = u)}
               a == Outcome(cache[u], call[c].got, call[c].now)
           IN  /\ a \in Answers
               /\ call' \in [Callers -> Call]
               /\ \A d \in Callers \ aboard : call'[d] = call[d]
               /\ \A d \in aboard : /\ call'[d].pc = "done"
                                    /\ call'[d].user = u
                                    /\ call'[d].ans = a
<1> DEFINE u == call[c].user
           a == Outcome(cache[u], call[c].got, call[c].now)
<1>1. /\ CallOK /\ u \in Users /\ cache[u] \in Entry
      /\ call[c].got \in Values \cup {Failed}
  BY TypeParts, CallFields DEF IInv, CallOK, CacheOK
<1>2. a \in Answers
  <2>1. \A v \in Values \cup {Failed} : [val |-> v, stale |-> FALSE] \in Answers
    BY DEF Answers
  <2> QED BY <1>1, <2>1, AnswersOK DEF Outcome
<1> HIDE DEF a
<1>3. \A d \in Callers : /\ Returned(call[d], a) \in Call
                         /\ Returned(call[d], a).pc = "done"
                         /\ Returned(call[d], a).user = call[d].user
                         /\ Returned(call[d], a).ans = a
  BY <1>1, <1>2, ReturnedOK DEF CallOK
<1>4. call' = [d \in Callers |->
                  IF d = c \/ (call[d].pc = "wait" /\ call[d].user = u)
                  THEN Returned(call[d], a) ELSE call[d]]
  <2>1. call' = [d \in Callers |->
                   IF d \notin {e \in Callers : e = c \/
                                   (call[e].pc = "wait" /\ call[e].user = u)}
                   THEN call[d] ELSE Returned(call[d], a)]
    BY DEF Publish, a
  <2> QED BY <2>1
<1>5. /\ call' \in [Callers -> Call]
      /\ \A d \in Callers :
            IF d = c \/ (call[d].pc = "wait" /\ call[d].user = u)
            THEN call'[d].pc = "done" /\ call'[d].user = u /\ call'[d].ans = a
            ELSE call'[d] = call[d]
  BY <1>1, <1>3, <1>4 DEF CallOK
<1> QED BY <1>2, <1>5 DEF a

\* What the end of a flight leaves in the cache.
LEMMA UpdatedFacts ==
    ASSUME IInv, NEW c \in Callers, Publish(c)
    PROVE  LET u == call[c].user
               e == cache[u]
               f == cache'[u]
           IN  /\ u \in Users /\ f \in Entry
               /\ cache' = [cache EXCEPT ![u] = f]
               /\ call[c].got = Failed =>
                    f.known = e.known /\ f.keys = e.keys /\ f.fetchedAt = e.fetchedAt
               /\ call[c].got # Failed =>
                    f.keys = call[c].got /\ f.fetchedAt = call[c].now
<1> DEFINE u == call[c].user
           f == Updated(cache[u], call[c].got, call[c].now)
<1>1. /\ CacheOK /\ u \in Users /\ cache[u] \in Entry
      /\ call[c].got \in Values \cup {Failed} /\ call[c].now \in 0 .. MaxTime
  BY TypeParts, CallFields DEF IInv, CallOK, CacheOK
<1>2. cache' = [cache EXCEPT ![u] = f]
  BY DEF Publish
<1>3. CASE call[c].got = Failed
  <2>1. f = [cache[u] EXCEPT !.failed = cache[u].known]
    BY <1>3 DEF Updated
  <2>2. /\ f \in Entry /\ f.known = cache[u].known /\ f.keys = cache[u].keys
        /\ f.fetchedAt = cache[u].fetchedAt
    BY <1>1, <2>1 DEF Entry
  <2> QED BY <1>1, <1>2, <1>3, <2>2 DEF CacheOK
<1>4. CASE call[c].got # Failed
  <2>1. f = [known |-> TRUE, keys |-> call[c].got, fetchedAt |-> call[c].now,
             failed |-> FALSE]
    BY <1>4 DEF Updated
  <2>2. f \in Entry /\ f.keys = call[c].got /\ f.fetchedAt = call[c].now
    BY <1>1, <1>4, <2>1 DEF Entry
  <2> QED BY <1>1, <1>2, <1>4, <2>2 DEF CacheOK
<1> QED BY <1>3, <1>4

\* The end of a flight leaves nobody behind in it.
LEMMA PublishKeeps ==
    ASSUME IInv, NEW c \in Callers, Publish(c)
    PROVE IInv'
<1> DEFINE u == call[c].user
           aboard == {d \in Callers : d = c \/
                         (call[d].pc = "wait" /\ call[d].user = u)}
<1>0. CallOK /\ WorldOK /\ CacheOK /\ FlightOK /\ ConnOK
  BY TypeParts DEF IInv
<1>1. /\ call' \in [Callers -> Call]
      /\ \A d \in Callers \ aboard : call'[d] = call[d]
      /\ \A d \in aboard : call'[d].pc = "done" /\ call'[d].user = u
  BY PublishFacts
<1>2. /\ u \in Users /\ cache'[u] \in Entry
      /\ cache' = [cache EXCEPT ![u] = cache'[u]]
      /\ call[c].got = Failed => /\ cache'[u].known = cache[u].known
                                 /\ cache'[u].keys = cache[u].keys
                                 /\ cache'[u].fetchedAt = cache[u].fetchedAt
      /\ call[c].got # Failed => /\ cache'[u].keys = call[c].got
                                 /\ cache'[u].fetchedAt = call[c].now
  BY UpdatedFacts
<1>3. /\ clock' = clock /\ dir' = dir /\ left' = left /\ up' = up /\ env' = env
      /\ conn' = conn /\ flight' = [flight EXCEPT ![u] = Nobody]
      /\ call[c].pc = "publish"
  BY DEF Publish, world
<1>4. TypeOK'
  BY <1>0, <1>1, <1>2, <1>3, TypePartsNext
     DEF WorldOK, CacheOK, FlightOK, ConnOK, CallOK
<1>5. Led'
  BY <1>0, <1>1, <1>2, <1>3 DEF IInv, Led, FlightOK
<1>6. Brief'
  BY <1>1, <1>3 DEF IInv, Brief, Running
<1>7. Grounded'
  <2>1. /\ cache'[u].fetchedAt <= clock
        /\ cache'[u].known => HeldSince(u, cache'[u].keys, cache'[u].fetchedAt)
    BY <1>2, <1>3 DEF IInv, Grounded, Brief, Running
  <2>2. \A v \in Users : v # u => cache'[v] = cache[v]
    BY <1>0, <1>2 DEF CacheOK
  <2>3. \A d \in Callers : call'[d].pc = "publish" => call'[d] = call[d]
    BY <1>1
  <2> QED BY <2>1, <2>2, <2>3, <1>3 DEF IInv, Grounded, HeldSince
<1> QED BY <1>4, <1>5, <1>6, <1>7 DEF IInv

-----------------------------------------------------------------------------

\* Time passes: the bound on calls and the order of times stay.
LEMMA TickKeeps == ASSUME IInv, Tick PROVE IInv'
<1>0. CallOK /\ WorldOK /\ CacheOK /\ FlightOK /\ ConnOK
  BY TypeParts DEF IInv
<1>1. /\ dir' = dir /\ left' = left /\ up' = up /\ env' = env /\ call' = call
      /\ cache' = cache /\ flight' = flight /\ conn' = conn /\ clock' = clock + 1
      /\ clock < MaxTime
      /\ \A c \in Callers : Running(c) => clock - call[c].now < MaxCall
  BY DEF Tick, world
<1>2. TypeOK'
  BY <1>0, <1>1, TypePartsNext DEF WorldOK, CacheOK, FlightOK, ConnOK, CallOK
<1>3. Led'
  BY <1>1 DEF IInv, Led
<1>4. \A c \in Callers : call[c].now \in 0 .. MaxTime
  BY <1>0, CallFields DEF CallOK
<1>5. Brief'
  BY <1>0, <1>1, <1>4 DEF IInv, Brief, Running, WorldOK
<1>6. \A u \in Users : cache[u].fetchedAt \in 0 .. MaxTime
  BY <1>0 DEF CacheOK, Entry
<1>7. Grounded'
  BY <1>0, <1>1, <1>6 DEF IInv, Grounded, HeldSince, WorldOK
<1> QED BY <1>2, <1>3, <1>5, <1>7 DEF IInv

\* An edit of the directory: what u held until now it held until this moment.
LEMMA ChangeKeeps ==
    ASSUME IInv, NEW u \in Users, NEW v \in Values, Change(u, v)
    PROVE IInv'
<1>0. CallOK /\ WorldOK /\ CacheOK /\ FlightOK /\ ConnOK
  BY TypeParts DEF IInv
<1>1. /\ clock' = clock /\ up' = up /\ call' = call
      /\ cache' = cache /\ flight' = flight /\ conn' = conn
      /\ dir' = [dir EXCEPT ![u] = v] /\ left' = [left EXCEPT ![u][dir[u]] = clock]
  BY DEF Change
<1>2. env' \in [changes : 0 .. MaxChanges, faults : 0 .. MaxFaults]
  BY <1>0 DEF Change, WorldOK
<1>3. WorldOK'
  <2>1. dir' \in [Users -> Values] /\ left' \in [Users -> [Values -> -1 .. MaxTime]]
    BY <1>0, <1>1 DEF WorldOK
  <2> QED BY <1>0, <1>1, <1>2, <2>1 DEF WorldOK
<1>4. TypeOK'
  BY <1>0, <1>1, <1>3, TypePartsNext DEF CacheOK, FlightOK, ConnOK, CallOK
<1>5. Led' /\ Brief'
  BY <1>1 DEF IInv, Led, Brief, Running
<1>6. ASSUME NEW w \in Users, NEW x \in Values, NEW t \in 0 .. MaxTime,
             HeldSince(w, x, t), t <= clock
      PROVE  dir'[w] = x \/ left'[w][x] >= t
  BY <1>0, <1>1, <1>6 DEF HeldSince, WorldOK
<1>7. \A w \in Users : cache[w].keys \in Values /\ cache[w].fetchedAt \in 0 .. MaxTime
  BY <1>0 DEF CacheOK, Entry
<1>8. \A c \in Callers : /\ call[c].user \in Users /\ call[c].now \in 0 .. MaxTime
                         /\ call[c].got # Failed => call[c].got \in Values
                         /\ call[c].pc = "publish" => call[c].now <= clock
  BY <1>0, CallFields DEF CallOK, IInv, Brief, Running
<1>9. Grounded'
  <2>1. ASSUME NEW w \in Users, cache[w].known
        PROVE  dir'[w] = cache[w].keys \/ left'[w][cache[w].keys] >= cache[w].fetchedAt
    <3>1. /\ HeldSince(w, cache[w].keys, cache[w].fetchedAt)
          /\ cache[w].fetchedAt <= clock
      BY <2>1 DEF IInv, Grounded
    <3> QED BY <3>1, <1>6, <1>7
  <2>2. ASSUME NEW c \in Callers, call[c].pc = "publish", call[c].got # Failed
        PROVE  \/ dir'[call[c].user] = call[c].got
               \/ left'[call[c].user][call[c].got] >= call[c].now
    <3>1. HeldSince(call[c].user, call[c].got, call[c].now)
      BY <2>2 DEF IInv, Grounded
    <3> QED BY <2>2, <3>1, <1>6, <1>8
  <2>3. \A w \in Users : cache[w].fetchedAt <= clock
    BY DEF IInv, Grounded
  <2> QED BY <1>1, <2>1, <2>2, <2>3 DEF Grounded, HeldSince
<1> QED BY <1>4, <1>5, <1>9 DEF IInv

\* Outages and dropped connections.
LEMMA ServerKeeps ==
    ASSUME IInv, GoesDown \/ ComesBack \/ ServerDrops
    PROVE IInv'
<1>0. CallOK /\ WorldOK /\ CacheOK /\ FlightOK /\ ConnOK
  BY TypeParts DEF IInv
<1>1. /\ clock' = clock /\ dir' = dir /\ left' = left
      /\ cache' = cache /\ flight' = flight /\ call' = call
  BY DEF GoesDown, ComesBack, ServerDrops
<1>2. up' \in BOOLEAN
  BY <1>0 DEF GoesDown, ComesBack, ServerDrops, WorldOK
<1>3. ConnOK' /\ env' \in [changes : 0 .. MaxChanges, faults : 0 .. MaxFaults]
  BY <1>0 DEF GoesDown, ComesBack, ServerDrops, Broken, WorldOK, ConnOK
<1>4. TypeOK'
  BY <1>0, <1>1, <1>2, <1>3, TypePartsNext DEF WorldOK, CacheOK, FlightOK, CallOK
<1>5. Led' /\ Brief' /\ Grounded'
  BY <1>1 DEF IInv, Led, Brief, Grounded, HeldSince, Running
<1> QED BY <1>4, <1>5 DEF IInv

\* Every step keeps the invariant.
LEMMA NextIInv == IInv /\ [Next]_vars => IInv'
<1> SUFFICES ASSUME IInv, [Next]_vars PROVE IInv'
  OBVIOUS
<1>1. ASSUME NEW c \in Callers, Step(c) PROVE IInv'
  BY <1>1, CheckCacheKeeps, JoinKeeps, AcquireConnKeeps, SearchKeeps,
     ResetConnKeeps, PublishKeeps DEF Step
<1>2. ASSUME NEW c \in Callers, NEW u \in Users, Resolve(c, u) PROVE IInv'
  BY <1>2, ResolveKeeps
<1>3. ASSUME NEW u \in Users, NEW v \in Values, Change(u, v) PROVE IInv'
  BY <1>3, ChangeKeeps
<1>4. CASE Tick \/ GoesDown \/ ComesBack \/ ServerDrops
  BY <1>4, TickKeeps, ServerKeeps
<1>5. CASE UNCHANGED vars
  BY <1>5 DEF vars, IInv, TypeOK, Led, Brief, Grounded, HeldSince, Running
<1> QED BY <1>1, <1>2, <1>3, <1>4, <1>5 DEF Next

\* IInv is an invariant of ldapSource, for any users, callers and times.
THEOREM LdapInductive == Spec => []IInv
  BY InitIInv, NextIInv, PTL DEF Spec

\* Every state of ldapSource is well typed; an error is never cached.
THEOREM LdapTypeCorrect == Spec => []TypeOK
<1>1. IInv => TypeOK BY DEF IInv
<1> QED BY LdapInductive, <1>1, PTL

\* No caller waits in a flight of Resolve that nobody leads.
THEOREM FlightsAlwaysLed == Spec => []FlightsLed
<1>1. IInv => FlightsLed
  <2> SUFFICES ASSUME IInv, NEW c \in Callers, call[c].pc = "wait"
               PROVE  \E d \in Callers :
                         /\ flight[call[c].user] = d
                         /\ call[d].user = call[c].user /\ call[d].pc \in Looking
    BY DEF FlightsLed
  <2>1. call[c].user \in Users /\ FlightOK
    BY TypeParts, CallFields DEF IInv, CallOK
  <2>2. flight[call[c].user] \in Callers /\ flight[call[c].user] # Nobody
    BY <2>1 DEF IInv, Led, FlightOK
  <2> QED BY <2>1, <2>2 DEF IInv, Led
<1> QED BY LdapInductive, <1>1, PTL

-----------------------------------------------------------------------------

\* The steps in the middle of a call ask nothing and answer nobody.
LEMMA QuietFacts ==
    ASSUME IInv, NEW c \in Callers,
           Join(c) \/ AcquireConn(c) \/ Search(c) \/ ResetConn(c)
    PROVE  /\ clock' = clock /\ dir' = dir /\ left' = left
           /\ \A d \in Callers : /\ call'[d].user = call[d].user
                                 /\ call'[d].ans = call[d].ans
                                 /\ call'[d].pc \in Resting <=> call[d].pc \in Resting
<1>0. CallOK /\ call[c] \in Call
  BY TypeParts DEF IInv, CallOK
<1>1. clock' = clock /\ dir' = dir /\ left' = left
  BY DEF Join, AcquireConn, Search, ResetConn, world
<1>2. ASSUME NEW p \in Looking \cup {"wait"}, NEW k, NEW g,
             call' = [call EXCEPT ![c] = [call[c] EXCEPT
                         !.pc = p, !.conn = k, !.got = g]],
             Running(c)
      PROVE  \A d \in Callers : /\ call'[d].user = call[d].user
                                /\ call'[d].ans = call[d].ans
                                /\ call'[d].pc \in Resting <=> call[d].pc \in Resting
  <2> DEFINE r == [call[c] EXCEPT !.pc = p, !.conn = k, !.got = g]
  <2>1. r.user = call[c].user /\ r.ans = call[c].ans /\ r.pc = p
    BY <1>0 DEF Call
  <2> HIDE DEF r
  <2>2. call' = [call EXCEPT ![c] = r]
    BY <1>2 DEF r
  <2>3. \A d \in Callers : d # c => call'[d] = call[d]
    BY <1>0, <2>2 DEF CallOK
  <2>4. call'[c] = r
    BY <1>0, <2>2 DEF CallOK
  <2> QED BY <1>2, <2>1, <2>3, <2>4 DEF Running
<1>3. CASE Join(c)
  <2> DEFINE p == IF flight[call[c].user] = Nobody THEN "acquire" ELSE "wait"
  <2>1. call' = [call EXCEPT ![c] = [call[c] EXCEPT
                    !.pc = p, !.conn = call[c].conn, !.got = call[c].got]]
    <3>1. call' = [call EXCEPT ![c] = [call[c] EXCEPT !.pc = p]]
      BY <1>3 DEF Join
    <3> HIDE DEF p
    <3> QED BY <1>0, <3>1 DEF Call
  <2>2. p \in Looking \cup {"wait"}
    OBVIOUS
  <2>3. Running(c)
    BY <1>3 DEF Join, Running
  <2> QED BY <1>1, <1>2, <2>1, <2>2, <2>3
<1>4. CASE AcquireConn(c)
  <2>0. Running(c)
    BY <1>4 DEF AcquireConn, Running
  <2>1. CASE conn = "none" /\ ~up
    <3> DEFINE p == IF call[c].pc = "acquire" THEN "publish" ELSE "giveup"
    <3>1. call' = [call EXCEPT ![c] = [call[c] EXCEPT !.got = Failed, !.pc = p]]
      BY <1>4, <2>1 DEF AcquireConn
    <3>2. call' = [call EXCEPT ![c] = [call[c] EXCEPT
                      !.pc = p, !.conn = call[c].conn, !.got = Failed]]
      BY <1>0, <3>1 DEF Call
    <3>3. p \in Looking \cup {"wait"}
      OBVIOUS
    <3> QED BY <1>1, <1>2, <2>0, <3>2, <3>3
  <2>2. CASE ~(conn = "none" /\ ~up)
    <3> DEFINE p == IF call[c].pc = "acquire" THEN "search" ELSE "research"
    <3>1. call' = [call EXCEPT ![c] = [call[c] EXCEPT !.conn = "held", !.pc = p]]
      BY <1>4, <2>2 DEF AcquireConn
    <3>2. call' = [call EXCEPT ![c] = [call[c] EXCEPT
                      !.pc = p, !.conn = "held", !.got = call[c].got]]
      BY <1>0, <3>1 DEF Call
    <3>3. p \in Looking \cup {"wait"}
      OBVIOUS
    <3> QED BY <1>1, <1>2, <2>0, <3>2, <3>3
  <2> QED BY <2>1, <2>2
<1>5. CASE Search(c)
  <2>0. Running(c)
    BY <1>5 DEF Search, Running
  <2>1. ASSUME call' = [call EXCEPT ![c] = [call[c] EXCEPT
                           !.pc = "publish", !.got = dir[call[c].user]]]
        PROVE  call' = [call EXCEPT ![c] = [call[c] EXCEPT !.pc = "publish",
                           !.conn = call[c].conn, !.got = dir[call[c].user]]]
    BY <1>0, <2>1 DEF Call
  <2> DEFINE p == IF call[c].pc = "search" THEN "reset" ELSE "giveup"
  <2>2. ASSUME call' = [call EXCEPT ![c] = [call[c] EXCEPT !.pc = p]]
        PROVE  call' = [call EXCEPT ![c] = [call[c] EXCEPT !.pc = p,
                           !.conn = call[c].conn, !.got = call[c].got]]
    BY <1>0, <2>2 DEF Call
  <2>3. \/ call' = [call EXCEPT ![c] = [call[c] EXCEPT
                           !.pc = "publish", !.got = dir[call[c].user]]]
        \/ call' = [call EXCEPT ![c] = [call[c] EXCEPT !.pc = p]]
    BY <1>5 DEF Search
  <2>4. p \in Looking \cup {"wait"} /\ "publish" \in Looking \cup {"wait"}
    OBVIOUS
  <2> HIDE DEF p
  <2>5. CASE call' = [call EXCEPT ![c] = [call[c] EXCEPT
                         !.pc = "publish", !.got = dir[call[c].user]]]
    BY <1>1, <1>2, <2>0, <2>1, <2>4, <2>5
  <2>6. CASE call' = [call EXCEPT ![c] = [call[c] EXCEPT !.pc = p]]
    <3>1. call' = [call EXCEPT ![c] = [call[c] EXCEPT !.pc = p,
                      !.conn = call[c].conn, !.got = call[c].got]]
      BY <2>2, <2>6
    <3> QED BY <1>1, <1>2, <2>0, <2>4, <3>1
  <2> QED BY <2>3, <2>5, <2>6
<1>6. CASE ResetConn(c)
  <2>1. call[c].pc \in {"reset", "giveup"}
    BY <1>6 DEF ResetConn
  <2> QED BY <1>1, <1>6, <2>1, ResetConnFacts
<1> QED BY <1>3, <1>4, <1>5, <1>6

-----------------------------------------------------------------------------
(* Soft failure.                                                           *)

\* The lives and the grace are times.
LEMMA TtlNat == \A v : Ttl(v) \in Nat
  BY DEF Ttl

\* An entry that serves at a time serves at every earlier one.
LEMMA GraceShrinks ==
    ASSUME NEW e \in Entry, NEW s \in 0 .. MaxTime, NEW t \in 0 .. MaxTime,
           s <= t, InGrace(e, t)
    PROVE  InGrace(e, s)
<1>1. e.fetchedAt \in 0 .. MaxTime /\ Ttl(e.keys) \in Nat
  BY TtlNat DEF Entry
<1> QED BY <1>1 DEF InGrace

\* One conjunct of SoftFail.
Softly(c) == Running(c) /\ call'[c].pc = "done" /\ call'[c].ans.val = Failed
                => ~InGrace(cache'[call[c].user], clock)

\* A hit in the cache is never an error.
LEMMA CheckCacheSoftly ==
    ASSUME IInv, NEW b \in Callers, CheckCache(b), NEW c \in Callers
    PROVE  Softly(c)
<1> DEFINE e == cache[call[b].user]
<1>0. /\ CallOK /\ call[b] \in Call /\ call[b].user \in Users /\ e \in Entry
      /\ call[b].pc = "check"
  BY TypeParts, CallFields DEF IInv, CallOK, CacheOK, CheckCache
<1>1. CASE c # b
  <2>1. call'[c] = call[c]
    BY <1>0, <1>1 DEF CheckCache, CallOK
  <2> QED BY <2>1 DEF Softly, Running
<1>2. CASE c = b
  <2>1. ASSUME NEW st \in BOOLEAN,
               call'[c] = Returned(call[c], ResolveResultFromEntry(e, st))
        PROVE  Softly(c)
    <3>1. /\ ResolveResultFromEntry(e, st) \in Answers
          /\ ResolveResultFromEntry(e, st).val # Failed
      BY <1>0, AnswersOK
    <3>2. call'[c].ans = ResolveResultFromEntry(e, st)
      BY <1>0, <1>2, <2>1, <3>1, ReturnedOK
    <3> QED BY <3>1, <3>2 DEF Softly
  <2>2. ASSUME call'[c] = [call[c] EXCEPT !.pc = "flight"] PROVE Softly(c)
    <3>1. call'[c].pc = "flight"
      BY <1>0, <1>2, <2>2 DEF Call
    <3> QED BY <3>1 DEF Softly
  <2>3. \/ \E st \in BOOLEAN :
              call'[c] = Returned(call[c], ResolveResultFromEntry(e, st))
        \/ call'[c] = [call[c] EXCEPT !.pc = "flight"]
    BY <1>0, <1>2 DEF CheckCache, CallOK
  <2> QED BY <2>1, <2>2, <2>3
<1> QED BY <1>1, <1>2

\* The end of a flight: an error goes out only when the entry cannot serve,
\* and the mark it leaves on the entry does not bring its grace back.
LEMMA PublishSoftly ==
    ASSUME IInv, NEW b \in Callers, Publish(b), NEW c \in Callers
    PROVE  Softly(c)
<1> DEFINE u == call[b].user
           e == cache[u]
           f == cache'[u]
           aboard == {d \in Callers : d = b \/
                         (call[d].pc = "wait" /\ call[d].user = u)}
           a == Outcome(e, call[b].got, call[b].now)
<1>0. /\ u \in Users /\ e \in Entry /\ call[b].now \in 0 .. MaxTime
      /\ clock \in 0 .. MaxTime /\ call[b].pc = "publish"
  BY TypeParts, CallFields DEF IInv, CallOK, CacheOK, WorldOK, Publish
<1>1. call[b].now <= clock
  BY <1>0 DEF IInv, Brief, Running
<1>2. CASE c \notin aboard
  <2>1. call'[c] = call[c]
    BY <1>2, PublishFacts
  <2> QED BY <2>1 DEF Softly, Running
<1>3. CASE c \in aboard
  <2> SUFFICES ASSUME call'[c].ans.val = Failed, InGrace(f, clock)
               PROVE  FALSE
    BY <1>3 DEF Softly
  <2>1. call'[c].ans = a
    BY <1>3, PublishFacts
  <2>2. call[b].got = Failed
    <3>1. CASE call[b].got # Failed
      BY <2>1, <3>1 DEF Outcome
    <3> QED BY <3>1
  <2>3. ~InGrace(e, call[b].now)
    <3>1. ResolveResultFromEntry(e, TRUE).val # Failed
      BY <1>0, AnswersOK
    <3> QED BY <2>1, <2>2, <3>1 DEF Outcome
  <2>4. f.known = e.known /\ f.keys = e.keys /\ f.fetchedAt = e.fetchedAt
    BY <2>2, UpdatedFacts
  <2>5. InGrace(e, clock)
    BY <2>4 DEF InGrace
  <2> QED BY <1>0, <1>1, <2>3, <2>5, GraceShrinks
<1> QED BY <1>2, <1>3

\* A step that ends no call.
LEMMA NoEndSoftly ==
    ASSUME NEW c \in Callers, call'[c].pc = "done" => call[c].pc \in Resting
    PROVE  Softly(c)
  BY DEF Softly, Running

\* Every step fails softly.
LEMMA NextSoftly ==
    ASSUME IInv, Next, NEW c \in Callers
    PROVE  Softly(c)
<1>0. CallOK /\ call[c] \in Call
  BY TypeParts DEF IInv, CallOK
<1>1. ASSUME NEW b \in Callers, Step(b) PROVE Softly(c)
  <2>1. CASE CheckCache(b)
    BY <2>1, CheckCacheSoftly
  <2>2. CASE Publish(b)
    BY <2>2, PublishSoftly
  <2>3. CASE Join(b) \/ AcquireConn(b) \/ Search(b) \/ ResetConn(b)
    BY <2>3, QuietFacts, NoEndSoftly
  <2> QED BY <1>1, <2>1, <2>2, <2>3 DEF Step
<1>2. ASSUME NEW b \in Callers, NEW u \in Users, Resolve(b, u) PROVE Softly(c)
  <2>0. call[b] \in Call
    BY <1>0 DEF CallOK
  <2>1. call'[c].pc = "done" => call[c].pc = "done"
    BY <1>0, <1>2, <2>0 DEF Resolve, CallOK, Call
  <2> QED BY <2>1, NoEndSoftly
<1>3. ASSUME call' = call PROVE Softly(c)
  BY <1>3, NoEndSoftly
<1>4. (\E u \in Users, v \in Values : Change(u, v)) => call' = call
  BY DEF Change
<1>5. Tick \/ GoesDown \/ ComesBack \/ ServerDrops => call' = call
  BY DEF Tick, GoesDown, ComesBack, ServerDrops
<1> QED BY <1>1, <1>2, <1>3, <1>4, <1>5 DEF Next

\* No caller of Resolve gets an error while the entry of its user is within
\* its grace, however its call interleaves with flights, edits and outages.
THEOREM LdapFailsSoftly == Spec => SoftFail
<1>1. IInv /\ [Next]_vars =>
        [\A c \in Callers :
           Running(c) /\ call'[c].pc = "done" /\ call'[c].ans.val = Failed
             => ~InGrace(cache'[call[c].user], clock)]_vars
  BY NextSoftly DEF Softly
<1> QED BY LdapInductive, <1>1, PTL DEF Spec, SoftFail

-----------------------------------------------------------------------------
(* ldapSource implements IdentitySource.                                   *)

\* What IdentitySource sees of the calls.
Seen == [c \in Callers |-> [busy |-> Running(c), user |-> call[c].user,
                            ans |-> call[c].ans]]

\* A value the directory held since a time that was within a life of the start
\* of the call is a value it held within that life and the call's duration.
LEMMA HeldIsPromised ==
    ASSUME IInv, NEW u \in Users, NEW v \in Values, NEW st \in BOOLEAN,
           NEW t \in 0 .. MaxTime, HeldSince(u, v, t),
           \/ clock - t <= MaxCall
           \/ clock - t < Ttl(v) + (IF st THEN StaleGrace ELSE 0) + MaxCall
    PROVE  Source!Promised(u, [val |-> v, stale |-> st])
<1>1. /\ clock \in 0 .. MaxTime /\ left[u][v] \in -1 .. MaxTime /\ Ttl(v) \in Nat
  BY TypeParts, TtlNat DEF IInv, WorldOK
<1>2. Source!Ttl(v) = Ttl(v)
  BY DEF Source!Ttl, Ttl
<1> DEFINE n == Ttl(v) + IF st THEN StaleGrace ELSE 0
<1>3. n \in Nat
  BY <1>1
<1>4. Source!HeldWithin(u, v, n)
  BY <1>1, <1>3 DEF HeldSince, Source!HeldWithin
<1> QED BY <1>2, <1>4 DEF Source!Promised

\* An entry that is fresh, or within its grace, at the start of a call.
LEMMA EntryIsPromised ==
    ASSUME IInv, NEW c \in Callers, Running(c), NEW st \in BOOLEAN,
           LET e == cache[call[c].user]
           IN  e.known /\ call[c].now - e.fetchedAt <
                            Ttl(e.keys) + (IF st THEN StaleGrace ELSE 0)
    PROVE  Source!Promised(call[c].user,
               ResolveResultFromEntry(cache[call[c].user], st))
<1> DEFINE u == call[c].user
           e == cache[u]
<1>1. /\ u \in Users /\ call[c].now \in 0 .. MaxTime /\ clock \in 0 .. MaxTime
      /\ e \in Entry
  BY TypeParts, CallFields DEF IInv, CallOK, CacheOK, WorldOK
<1>2. e.keys \in Values /\ e.fetchedAt \in 0 .. MaxTime /\ Ttl(e.keys) \in Nat
  BY <1>1, TtlNat DEF Entry
<1>3. HeldSince(u, e.keys, e.fetchedAt)
  BY <1>1 DEF IInv, Grounded
<1>4. clock - call[c].now <= MaxCall
  BY DEF IInv, Brief
<1>5. clock - e.fetchedAt < Ttl(e.keys) + (IF st THEN StaleGrace ELSE 0) + MaxCall
  BY <1>1, <1>2, <1>4
<1> QED BY <1>1, <1>2, <1>3, <1>5, HeldIsPromised DEF ResolveResultFromEntry

\* Both modules speak of the same values and answers.
LEMMA SourceNames == Source!Answers = Answers /\ Source!Values = Values
                      /\ Source!NoAnswer = NoAnswer
  BY DEF Source!Answers, Source!Values, Source!NoAnswer, Answers, Values, NoAnswer

\* Initial states map to initial states.
LEMMA InitRefines == Init => Source!Init
<1> SUFFICES ASSUME Init PROVE Source!Init
  OBVIOUS
<1>1. \A c \in Callers : ~Running(c)
  BY DEF Init, Running
<1>2. \A c \in Callers : ~Seen[c].busy
  BY <1>1 DEF Seen
<1> QED BY <1>2, SourceNames DEF Init, Source!Init, Seen

\* A step that changes neither time, nor the directory, nor what is asked and
\* answered, is no step of IdentitySource.
LEMMA QuietRefines ==
    ASSUME clock' = clock, dir' = dir, left' = left,
           \A d \in Callers : /\ call'[d].user = call[d].user
                              /\ call'[d].ans = call[d].ans
                              /\ call'[d].pc \in Resting <=> call[d].pc \in Resting
    PROVE  UNCHANGED Source!vars
<1>1. \A d \in Callers : Running(d)' = Running(d)
  BY DEF Running
<1>2. Seen' = Seen
  BY <1>1 DEF Seen
<1> QED BY <1>2 DEF Source!vars, Seen

\* Ticks and edits are the World of IdentitySource.
LEMMA WorldRefines ==
    ASSUME IInv, call' = call,
           \/ /\ clock' \in {clock, clock + 1}
              /\ dir' = dir /\ left' = left
           \/ /\ clock' = clock
              /\ \E u \in Users : \E v \in Values \ {dir[u]} :
                   /\ dir' = [dir EXCEPT ![u] = v]
                   /\ left' = [left EXCEPT ![u][dir[u]] = clock]
    PROVE  Source!World
<1>1. Seen' = Seen
  BY DEF Seen, Running
<1> QED BY <1>1, SourceNames DEF Source!World, Seen

\* The start of Resolve is a question.
LEMMA ResolveRefines ==
    ASSUME IInv, NEW c \in Callers, NEW u \in Users, Resolve(c, u)
    PROVE  Source!Ask(c, u)
<1>0. CallOK /\ call[c] \in Call
  BY TypeParts DEF IInv, CallOK
<1> DEFINE r == [call[c] EXCEPT !.pc = "check", !.user = u, !.now = clock,
                                !.ans = NoAnswer]
<1>1. r.pc = "check" /\ r.user = u /\ r.ans = NoAnswer
  BY <1>0 DEF Call
<1>2. /\ call' = [call EXCEPT ![c] = r] /\ call[c].pc \in Resting
      /\ clock' = clock /\ dir' = dir /\ left' = left
  BY DEF Resolve, world
<1> HIDE DEF r
<1>3. call'[c] = r /\ \A d \in Callers \ {c} : call'[d] = call[d]
  BY <1>0, <1>2 DEF CallOK
<1>4. ~Seen[c].busy
  BY <1>2 DEF Seen, Running
<1>5. Seen' = [Seen EXCEPT ![c] = [busy |-> TRUE, user |-> u, ans |-> NoAnswer]]
  <2>1. Seen'[c] = [busy |-> TRUE, user |-> u, ans |-> NoAnswer]
    BY <1>1, <1>3 DEF Seen, Running
  <2>2. \A d \in Callers \ {c} : Seen'[d] = Seen[d]
    BY <1>3 DEF Seen, Running
  <2>3. Seen = [d \in Callers |-> Seen[d]] /\ Seen' = [d \in Callers |-> Seen'[d]]
    BY DEF Seen
  <2> QED BY <2>1, <2>2, <2>3
<1> QED BY <1>2, <1>4, <1>5, SourceNames DEF Source!Ask, Seen

\* One or several calls end with promised answers.
LEMMA EndRefines ==
    ASSUME NEW S \in SUBSET Callers, S # {}, NEW a \in Answers,
           clock' = clock, dir' = dir, left' = left,
           \A d \in Callers \ S : call'[d] = call[d],
           \A d \in S : /\ call[d].pc \notin Resting /\ call'[d].pc \in Resting
                        /\ call'[d].user = call[d].user /\ call'[d].ans = a
                        /\ Source!Promised(call[d].user, a)
    PROVE  Source!Reply
<1> DEFINE A == [d \in S |-> a]
<1>1. S \in SUBSET {d \in Callers : Seen[d].busy}
  BY DEF Seen, Running
<1>2. A \in [S -> Source!Answers]
  BY SourceNames
<1>3. \A d \in S : Source!Promised(Seen[d].user, A[d])
  BY DEF Seen
<1>4. Seen' = [d \in Callers |-> IF d \in S
                  THEN [Seen[d] EXCEPT !.busy = FALSE, !.ans = A[d]]
                  ELSE Seen[d]]
  <2>1. \A d \in S : Seen'[d] = [Seen[d] EXCEPT !.busy = FALSE, !.ans = A[d]]
    <3> SUFFICES ASSUME NEW d \in S
                 PROVE  Seen'[d] = [Seen[d] EXCEPT !.busy = FALSE, !.ans = A[d]]
      OBVIOUS
    <3>1. Seen'[d] = [busy |-> FALSE, user |-> call[d].user, ans |-> a]
      BY DEF Seen, Running
    <3> DEFINE r == Seen[d]
               w == [r EXCEPT !.busy = FALSE, !.ans = a]
               n == call[d].user
               y == call[d].ans
    <3>2. r = [busy |-> TRUE, user |-> n, ans |-> y]
      BY DEF Seen, Running
    <3> HIDE DEF r, n, y
    <3>3. r \in [busy : BOOLEAN, user : {n}, ans : {y}]
      BY <3>2
    <3>4. w \in [busy : BOOLEAN, user : {n}, ans : {a}] /\ w.busy = FALSE
      BY <3>3
    <3>5. A[d] = a
      OBVIOUS
    <3> HIDE DEF w, A
    <3>6. w = [busy |-> FALSE, user |-> n, ans |-> a]
      BY <3>4
    <3> QED BY <3>1, <3>5, <3>6 DEF w, r, n
  <2>2. \A d \in Callers \ S : Seen'[d] = Seen[d]
    BY DEF Seen, Running
  <2>3. Seen' = [d \in Callers |-> Seen'[d]]
    BY DEF Seen
  <2> QED BY <2>1, <2>2, <2>3
<1> HIDE DEF A
<1> QED BY <1>1, <1>2, <1>3, <1>4 DEF Source!Reply, Seen

\* A hit in the cache is a promised answer, a miss is a stutter.
LEMMA CheckCacheRefines ==
    ASSUME IInv, NEW c \in Callers, CheckCache(c)
    PROVE  Source!Reply \/ UNCHANGED Source!vars
<1> DEFINE e == cache[call[c].user]
           now == call[c].now
<1>0. /\ CallOK /\ call[c] \in Call /\ call[c].user \in Users /\ e \in Entry
      /\ call[c].pc = "check" /\ e.fetchedAt \in 0 .. MaxTime /\ Ttl(e.keys) \in Nat
      /\ now \in 0 .. MaxTime
  BY TypeParts, CallFields, TtlNat DEF IInv, CallOK, CacheOK, CheckCache, Entry
<1>1. clock' = clock /\ dir' = dir /\ left' = left
  BY DEF CheckCache, world
<1>2. Running(c)
  BY <1>0 DEF Running
<1>3. ASSUME NEW st \in BOOLEAN,
             call' = [call EXCEPT ![c] =
                        Returned(call[c], ResolveResultFromEntry(e, st))],
             e.known, now - e.fetchedAt <
                         Ttl(e.keys) + (IF st THEN StaleGrace ELSE 0)
      PROVE  Source!Reply
  <2> DEFINE a == ResolveResultFromEntry(e, st)
             r == Returned(call[c], a)
  <2>1. a \in Answers
    BY <1>0, AnswersOK
  <2>2. Source!Promised(call[c].user, a)
    BY <1>2, <1>3, EntryIsPromised
  <2> HIDE DEF a
  <2>3. r.pc = "done" /\ r.user = call[c].user /\ r.ans = a
    BY <1>0, <2>1, ReturnedOK
  <2>4. call' = [call EXCEPT ![c] = r]
    BY <1>3 DEF a
  <2> HIDE DEF r
  <2>5. call'[c] = r /\ \A d \in Callers \ {c} : call'[d] = call[d]
    BY <1>0, <2>4 DEF CallOK
  <2>6. {c} \in SUBSET Callers /\ {c} # {}
    OBVIOUS
  <2>7. \A d \in {c} : /\ call[d].pc \notin Resting /\ call'[d].pc \in Resting
                       /\ call'[d].user = call[d].user /\ call'[d].ans = a
                       /\ Source!Promised(call[d].user, a)
    BY <1>0, <2>2, <2>3, <2>5
  <2>8. \A d \in Callers \ {c} : call'[d] = call[d]
    BY <2>5
  <2> QED BY <1>1, <2>1, <2>6, <2>7, <2>8, EndRefines
<1>4. ASSUME call' = [call EXCEPT ![c] = [call[c] EXCEPT !.pc = "flight"]]
      PROVE  UNCHANGED Source!vars
  <2> DEFINE r == [call[c] EXCEPT !.pc = "flight"]
  <2>1. r.pc = "flight" /\ r.user = call[c].user /\ r.ans = call[c].ans
    BY <1>0 DEF Call
  <2> HIDE DEF r
  <2>2. call' = [call EXCEPT ![c] = r]
    BY <1>4 DEF r
  <2>3. call'[c] = r /\ \A d \in Callers \ {c} : call'[d] = call[d]
    BY <1>0, <2>2 DEF CallOK
  <2> QED BY <1>0, <1>1, <2>1, <2>3, QuietRefines
<1>5. CASE Fresh(e, now)
  <2>1. call' = [call EXCEPT ![c] =
                   Returned(call[c], ResolveResultFromEntry(e, FALSE))]
    BY <1>5 DEF CheckCache
  <2>2. e.known /\ now - e.fetchedAt < Ttl(e.keys) + 0
    BY <1>0, <1>5 DEF Fresh
  <2> QED BY <1>3, <2>1, <2>2
<1>6. CASE ~Fresh(e, now) /\ e.failed /\ InGrace(e, now)
  <2>1. call' = [call EXCEPT ![c] =
                   Returned(call[c], ResolveResultFromEntry(e, TRUE))]
    BY <1>6 DEF CheckCache
  <2>2. e.known /\ now - e.fetchedAt < Ttl(e.keys) + StaleGrace
    BY <1>6 DEF InGrace
  <2> QED BY <1>3, <2>1, <2>2
<1>7. CASE ~Fresh(e, now) /\ ~(e.failed /\ InGrace(e, now))
  <2>1. call' = [call EXCEPT ![c] = [call[c] EXCEPT !.pc = "flight"]]
    BY <1>7 DEF CheckCache
  <2> QED BY <1>4, <2>1
<1> QED BY <1>5, <1>6, <1>7

\* The end of a flight answers all aboard as promised.
LEMMA PublishRefines ==
    ASSUME IInv, NEW c \in Callers, Publish(c)
    PROVE  Source!Reply
<1> DEFINE u == call[c].user
           e == cache[u]
           got == call[c].got
           now == call[c].now
           a == Outcome(e, got, now)
           aboard == {d \in Callers : d = c \/
                         (call[d].pc = "wait" /\ call[d].user = u)}
<1>0. /\ u \in Users /\ e \in Entry /\ now \in 0 .. MaxTime
      /\ clock \in 0 .. MaxTime /\ got \in Values \cup {Failed}
      /\ call[c].pc = "publish"
  BY TypeParts, CallFields DEF IInv, CallOK, CacheOK, WorldOK, Publish
<1>1. Running(c)
  BY <1>0 DEF Running
<1>2. clock' = clock /\ dir' = dir /\ left' = left
  BY DEF Publish, world
<1>3. Source!Promised(u, a)
  <2>1. CASE got # Failed
    <3>1. a = [val |-> got, stale |-> FALSE]
      BY <2>1 DEF Outcome
    <3>2. HeldSince(u, got, now) /\ clock - now <= MaxCall
      BY <1>0, <1>1, <2>1 DEF IInv, Grounded, Brief
    <3>3. got \in Values
      BY <1>0, <2>1
    <3> QED BY <1>0, <3>1, <3>2, <3>3, HeldIsPromised
  <2>2. CASE got = Failed /\ InGrace(e, now)
    <3>1. a = ResolveResultFromEntry(e, TRUE)
      BY <2>2 DEF Outcome
    <3>2. e.known /\ now - e.fetchedAt < Ttl(e.keys) + StaleGrace
      BY <2>2 DEF InGrace
    <3> QED BY <1>1, <3>1, <3>2, EntryIsPromised
  <2>3. CASE got = Failed /\ ~InGrace(e, now)
    BY <2>3 DEF Outcome, Source!Promised
  <2> QED BY <2>1, <2>2, <2>3
<1>4. /\ a \in Answers
      /\ \A d \in Callers \ aboard : call'[d] = call[d]
      /\ \A d \in aboard : /\ call'[d].pc = "done" /\ call'[d].user = u
                           /\ call'[d].ans = a
  BY PublishFacts
<1> HIDE DEF a
<1>5. aboard \in SUBSET Callers /\ aboard # {}
  OBVIOUS
<1>6. \A d \in aboard : /\ call[d].pc \notin Resting /\ call'[d].pc \in Resting
                        /\ call'[d].user = call[d].user /\ call'[d].ans = a
                        /\ Source!Promised(call[d].user, a)
  BY <1>0, <1>3, <1>4
<1> HIDE DEF aboard
<1> QED BY <1>2, <1>4, <1>5, <1>6, EndRefines

\* Every step maps to a step or a stutter.
LEMMA NextRefines == IInv /\ [Next]_vars => [Source!Next]_(Source!vars)
<1> SUFFICES ASSUME IInv, [Next]_vars
             PROVE  Source!Next \/ UNCHANGED Source!vars
  OBVIOUS
<1>1. ASSUME NEW c \in Callers, Step(c)
      PROVE  Source!Reply \/ UNCHANGED Source!vars
  <2>1. CASE CheckCache(c)
    BY <2>1, CheckCacheRefines
  <2>2. CASE Publish(c)
    BY <2>2, PublishRefines
  <2>3. CASE Join(c) \/ AcquireConn(c) \/ Search(c) \/ ResetConn(c)
    BY <2>3, QuietFacts, QuietRefines
  <2> QED BY <1>1, <2>1, <2>2, <2>3 DEF Step
<1>2. ASSUME NEW c \in Callers, NEW u \in Users, Resolve(c, u)
      PROVE  Source!Ask(c, u)
  BY <1>2, ResolveRefines
<1>3. ASSUME NEW u \in Users, NEW v \in Values, Change(u, v)
      PROVE  Source!World
  <2>1. /\ call' = call /\ clock' = clock
        /\ \E w \in Users : \E x \in Values \ {dir[w]} :
             /\ dir' = [dir EXCEPT ![w] = x]
             /\ left' = [left EXCEPT ![w][dir[w]] = clock]
    BY <1>3 DEF Change
  <2> QED BY <2>1, WorldRefines
<1>4. CASE Tick
  <2>1. /\ call' = call /\ clock' \in {clock, clock + 1}
        /\ dir' = dir /\ left' = left
    BY <1>4 DEF Tick, world
  <2>2. Source!World
    BY <2>1, WorldRefines
  <2> QED BY <2>2 DEF Source!Next
<1>5. CASE GoesDown \/ ComesBack \/ ServerDrops \/ UNCHANGED vars
  <2>1. call' = call /\ clock' = clock /\ dir' = dir /\ left' = left
    BY <1>5 DEF GoesDown, ComesBack, ServerDrops, vars
  <2> QED BY <2>1, QuietRefines
<1> QED BY <1>1, <1>2, <1>3, <1>4, <1>5 DEF Next, Source!Next

\* ldapSource keeps the promise of IdentitySource for any users, callers and
\* times: no answer of Resolve is older than its life, its grace when it is
\* marked stale, and the duration of the call, shared flights included.
THEOREM LdapImplementsSource == Spec => ImplementsSource
  BY LdapInductive, InitRefines, NextRefines, PTL DEF Spec, ImplementsSource, Source!Spec
=============================================================================
