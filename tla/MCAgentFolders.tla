--------------------------- MODULE MCAgentFolders ---------------------------
(* AgentFolders with two names, one of which is the other's second candidate. *)
EXTENDS AgentFolders, TLC

CONSTANTS photos, photos2, p1, p2, p3

\* "photos", "photos 2" and "photos 2 2"
TwoNames == (photos :> <<p1, p2>>) @@ (photos2 :> <<p2, p3>>)

SomeFound == {{p1}, {p1, p2}}

WhileCalm == calm

Alike == Permutations(Circle)
=============================================================================
