--------------------------- MODULE IdentitySource ---------------------------
(***************************************************************************)
(* What a remote identity source promises the authenticator: a question    *)
(* about a user is answered with what the directory said of that user not  *)
(* too long ago, or with an error.  Nothing is said of caches, flights or  *)
(* connections; LdapSource is shown to implement this module.              *)
(***************************************************************************)
EXTENDS Integers

CONSTANTS
    Users,              \* names that are looked up
    Callers,            \* concurrent calls of Resolve
    Keys,               \* the key lists a directory entry can hold
    Absent,             \* the directory has no entry of that name
    Failed,             \* an error instead of an answer
    CacheTTL,           \* life of a cached key list
    NegativeCacheTTL,   \* life of a cached "no such user"
    StaleGrace,         \* how much longer an entry serves during an outage
    MaxCall             \* longest duration of one call

VARIABLES
    clock,              \* current time
    dir,                \* dir[u]: what the directory holds for u now
    left,               \* left[u][v]: when u last stopped holding v, -1: never
    call                \* call[c]: is c waiting, for whom, the last answer

vars == <<clock, dir, left, call>>

Values == Keys \cup {Absent}
Answers == [val : Values \cup {Failed}, stale : BOOLEAN]

NoAnswer == [val |-> Failed, stale |-> FALSE]

\* How long a value may be kept: unknown names have a shorter life.
Ttl(v) == IF v = Absent THEN NegativeCacheTTL ELSE CacheTTL

\* The directory held v for u at some moment of the last n ticks, counted
\* from the start of a call that lasts MaxCall at most.
HeldWithin(u, v, n) ==
    \/ dir[u] = v
    \/ /\ left[u][v] >= 0
       /\ \/ clock - left[u][v] <= MaxCall
          \/ clock - left[u][v] < n + MaxCall

\* An answer that is not marked stale is at most one life old; one that is
\* marked stale may be older by the grace, never more.
Promised(u, a) ==
    \/ a.val = Failed
    \/ HeldWithin(u, a.val, Ttl(a.val) + IF a.stale THEN StaleGrace ELSE 0)

-----------------------------------------------------------------------------

Init ==
    /\ clock = 0
    /\ dir \in [Users -> Values]
    /\ left = [u \in Users |-> [v \in Values |-> -1]]
    /\ \A c \in Callers : ~call[c].busy

\* Time passes and the directory is edited, whatever the callers do.
World ==
    /\ clock' \in {clock, clock + 1}
    /\ \/ UNCHANGED <<dir, left>>
       \/ \E u \in Users : \E v \in Values \ {dir[u]} :
            /\ dir' = [dir EXCEPT ![u] = v]
            /\ left' = [left EXCEPT ![u][dir[u]] = clock]
    /\ UNCHANGED call

Ask(c, u) ==
    /\ ~call[c].busy
    /\ call' = [call EXCEPT ![c] = [busy |-> TRUE, user |-> u,
                                   ans |-> NoAnswer]]
    /\ UNCHANGED <<clock, dir, left>>

\* One or several callers are answered at once.
Reply ==
    /\ \E S \in SUBSET {c \in Callers : call[c].busy} :
         \E a \in [S -> Answers] :
            /\ S # {}
            /\ \A c \in S : Promised(call[c].user, a[c])
            /\ call' = [c \in Callers |-> IF c \in S
                           THEN [call[c] EXCEPT !.busy = FALSE, !.ans = a[c]]
                           ELSE call[c]]
    /\ UNCHANGED <<clock, dir, left>>

Next ==
    \/ World
    \/ \E c \in Callers, u \in Users : Ask(c, u)
    \/ Reply

Spec == Init /\ [][Next]_vars
=============================================================================
