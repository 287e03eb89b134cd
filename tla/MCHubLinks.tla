----------------------------- MODULE MCHubLinks -----------------------------
(***************************************************************************)
(* Instances of HubLinks: Meg founded the folder on computer megs; Ned is  *)
(* a member on computer neds, in configurations that have one.             *)
(***************************************************************************)
EXTENDS HubLinks

CONSTANTS Meg, Ned, megs, neds

RowsAtTheStart == {r \in {<<megs, Meg>>, <<neds, Ned>>} :
                     r[1] \in Computer /\ r[2] \in Member}

=============================================================================
