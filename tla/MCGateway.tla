----------------------------- MODULE MCGateway -----------------------------
(* Instances of Gateway for TLC. *)
EXTENDS Gateway, TLC

CONSTANTS k1, k2, kp

\* "a+b-c" and "a-b+c" lead to the same resource name "a-b-c".
AB == <<"a", "b">>
ThreeLogins == {[parses |-> TRUE, user |-> <<"a">>, pod |-> <<"b", "c">>],
                [parses |-> TRUE, user |-> AB, pod |-> <<"c">>],
                [parses |-> FALSE]}

DP(o, cs, r, e) == [owner |-> o, collaborators |-> cs, running |-> r,
                    endpoint |-> e]
Mine == DP(<<"a">>, {}, TRUE, TRUE)
Theirs == DP(AB, {}, TRUE, TRUE)
Shared == DP(AB, {<<"a">>}, TRUE, TRUE)
FewDevPods == {Mine, Theirs, Shared, [Shared EXCEPT !.endpoint = FALSE]}

\* LDAP knows k2 of a; of a-b it knows nothing, or it fails.
TwoAnswers == [u \in Users |-> IF u = AB THEN {Absent, Failed} ELSE {{k2}}]

TwoLines == {{k1, Garbage}, Absent}

W(x, y, z) == [devpod |-> [n \in Names |->
                  IF n = <<"a", "b", "c">> THEN x
                  ELSE IF n = <<"b", "c">> THEN y ELSE z],
               lines |-> [u \in Users |-> {k1, Garbage}]]
StartWorlds == {W(Shared, Mine, Absent), W(Absent, Mine, Theirs)}
=============================================================================
