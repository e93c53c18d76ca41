------------------------------ MODULE ApiServer ------------------------------
(***************************************************************************)
(* What the controllers see of a Kubernetes API server through the client  *)
(* of controller-runtime's manager (external code, modelled from how       *)
(* internal/controllers and cmd/controller use it): writes go to the       *)
(* server, reads come from informer caches that trail it by the watch      *)
(* events not yet delivered, and a delivered event puts the name of the    *)
(* object it maps to in the controller's work queue.                       *)
(***************************************************************************)
EXTENDS Integers, Sequences

CONSTANT Lag     \* Lag[kind]: how many watch events the cache may trail by

VARIABLES
    api,         \* the objects at the API server, api[kind][name]
    cache,       \* the informer caches, cache[kind][name]
    events,      \* watch events not yet delivered, oldest first, events[kind]
    queue        \* names in the controller's work queue

\* The API server stores o as the k of name n and emits a watch event, unless
\* nothing changes.  The stream holds at most Lag[k] undelivered events: one
\* more delivers the oldest.  Delivery puts the name in the work queue, here
\* on top of q, the queue the step itself leaves (every kind's handler maps
\* an object to the reconciled object of its name).
Put(k, n, o, q) ==
    LET s == Append(events[k], [n |-> n, o |-> o])
        h == Head(s)
    IN  /\ api' = [api EXCEPT ![k] = [@ EXCEPT ![n] = o]]
        /\ IF o = api[k][n]
           THEN UNCHANGED <<cache, events>> /\ queue' = q
           ELSE IF Len(s) <= Lag[k]
           THEN /\ events' = [events EXCEPT ![k] = s]
                /\ UNCHANGED cache /\ queue' = q
           ELSE /\ events' = [events EXCEPT ![k] = Tail(s)]
                /\ cache' = [cache EXCEPT ![k] = [@ EXCEPT ![h.n] = h.o]]
                /\ queue' = q \cup {h.n}

\* A step that writes no cached kind.
NoPut(q) == UNCHANGED <<api, cache, events>> /\ queue' = q

\* A watch event reaches the informer cache and its handler.
DeliverEvent(k) ==
    /\ events[k] # <<>>
    /\ LET h == Head(events[k])
       IN  /\ cache' = [cache EXCEPT ![k] = [@ EXCEPT ![h.n] = h.o]]
           /\ queue' = queue \cup {h.n}
    /\ events' = [events EXCEPT ![k] = Tail(@)]
    /\ UNCHANGED api
=============================================================================
