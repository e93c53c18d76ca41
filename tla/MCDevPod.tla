------------------------------ MODULE MCDevPod ------------------------------
(* Instances of DevPodController for TLC. *)
EXTENDS DevPodController, TLC

\* All DevPods belong to one owner: policies interact only within an owner.
OneOwner == [n \in Names |-> "alice"]

\* No constant or property singles out a name.
Symmetry == Permutations(Names)

NoLag == [k \in Kinds |-> 0]
DevPodLag2 == [NoLag EXCEPT !["dp"] = 2]
PodLag == [k \in Kinds |-> IF k \in {"dp", "pod"} THEN 1 ELSE 0]
ChildLag == [k \in Kinds |-> IF k \in {"dp", "pvc", "sec"} THEN 1 ELSE 0]
=============================================================================
