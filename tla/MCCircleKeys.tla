---------------------------- MODULE MCCircleKeys ----------------------------
(***************************************************************************)
(* Instances of CircleKeys: o owns the circle, m and n may be in it.       *)
(* Each configuration names the people and computers it has.               *)
(***************************************************************************)
EXTENDS CircleKeys

CONSTANTS o, m, n, o1, o2, m1, m2

PersonOfEach == [d \in Device |-> CASE d \in {o1, o2} -> o
                                    [] d \in {m1, m2} -> m]

(* Bounds: how far a state is followed.                                    *)
OneLeak   == ignored = {} /\ \A k, l \in leaked : k = l
OneBeat   == \A d, e \in Device : beat[d].pc # "none" /\ beat[e].pc # "none" => d = e
OneJoiner == \A d \in Device \ {m1} : joining[d].pc = "none" /\ beat[d].pc = "none"

=============================================================================
