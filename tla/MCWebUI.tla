------------------------------ MODULE MCWebUI ------------------------------
(* Instances of WebUI for TLC. *)
EXTENDS WebUI, TLC

Alice == <<"a">>
Root == <<"r">>
Bob == <<"b">>
ThreeUsers == {Alice, Bob, Root}
X == <<"a", "x">>
Y == <<"a", "y">>

Symmetry == Permutations(Requests)
TwoNames == {X, Y}

\* Limits of cpu and memory, and quotas.
L(c, m) == "cpu" :> c @@ "memory" :> m @@ "gpu" :> Unset
Q(d, c, s) == [devpods |-> d, compute |-> c, storage |-> s]
StartQuota == Q(2, L(1, 2), 2)
OtherQuotas == {Q(1, Unset, Unset)}

Pod(c, m, kore) ==
    [limits |-> "cpu" :> c @@ "memory" :> m @@ "gpu" :> 0, kore |-> kore]
Home(size) == [size |-> size, found |-> TRUE]
DP(n, run, pod, home) ==
    [name |-> n, owner |-> Alice, running |-> run, pod |-> pod,
     vm |-> FALSE, kore |-> FALSE, persistence |-> home, deleting |-> FALSE,
     by |-> "admin", rv |-> 0]

\* A preset that a binding, which declares no memory, overrides.
Template == [preset |-> [pod |-> Pod(0, 1, FALSE), persistence |-> Home(1)],
             binding |-> [valid |-> TRUE, limits |-> L(1, Unset)]]

Create(dp, tpl) == [who |-> Alice, h |-> "create", dp |-> dp, tpl |-> tpl]
SetQuota(q) ==
    [who |-> Root, h |-> "patchUser", user |-> Alice, set |-> [quota |-> q]]
FewOps ==
    {Create(DP(Y, TRUE, Pod(1, 1, TRUE), Home(1)), Unset),
     Create(DP(Y, TRUE, Unset, Unset), Template),
     Create(DP(Y, TRUE, Pod(-1, 2, FALSE), Home(-1)), Unset),
     [who |-> Alice, h |-> "patch", name |-> X, running |-> TRUE],
     [who |-> Alice, h |-> "delete", name |-> X],
     [who |-> Alice, h |-> "putMe", set |-> [pw |-> "q"]],
     SetQuota(Q(Unset, L(Unset, Unset), Unset)),
     SetQuota(Q(Unset, L(1, Unset), Unset)),
     [who |-> Root, h |-> "createUser", user |-> Bob],
     [who |-> Root, h |-> "deleteUser", user |-> Alice]}

\* Logins of an admin and of one who has never been here.
Logins ==
    {[who |-> Root, h |-> "login"], [who |-> Bob, h |-> "callback"]}

AllOps == FewOps \cup Logins

\* Alice and Root are logged in, with nothing but password login; Root has no
\* password.
WorkDay ==
    [store |->
       [users |-> [u \in Users |->
                     IF u = Alice THEN NewUser(u, "p")
                     ELSE IF u = Bob THEN Absent
                     ELSE [NewUser(u, Unset) EXCEPT !.admin = TRUE]],
        devpods |-> [n \in Names |->
                       IF n = X THEN DP(X, FALSE, Pod(1, 1, FALSE), Home(1))
                       ELSE Absent]],
     tokens |-> {[user |-> u, admin |-> u = Root, expiry |-> TTL, asked |-> 0,
                  minted |-> 0] : u \in {Alice, Root}},
     conf |-> [password |-> TRUE, oauth |-> FALSE]]

\* Nobody is logged in, and only Root exists, with a password.
Morning ==
    [store |->
       [users |-> [u \in Users |->
                     IF u = Root THEN [NewUser(u, "p") EXCEPT !.admin = TRUE]
                     ELSE Absent],
        devpods |-> [n \in Names |-> Absent]],
     tokens |-> {},
     conf |-> [password |-> TRUE, oauth |-> TRUE]]

TwoStarts == {WorkDay, Morning}
=============================================================================
