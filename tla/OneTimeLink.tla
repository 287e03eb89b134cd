---------------------------- MODULE OneTimeLink -----------------------------
(***************************************************************************)
(* What an invite link promises (docs/adr/0001, 0019): it works once, for  *)
(* one computer, and a link that is closed, used or not, opens nothing.    *)
(***************************************************************************)
CONSTANTS
    Link,
    Computer,
    Nobody       \* no computer: not a member of Computer

VARIABLES
    state,       \* each link: unmade, open, or closed for good
    redeemer,    \* the computer that used it
    letIn        \* the computers that came in by it

vars == <<state, redeemer, letIn>>

TypeOK ==
    /\ state \in [Link -> {"unmade", "open", "closed"}]
    /\ redeemer \in [Link -> Computer \cup {Nobody}]
    /\ letIn \in [Link -> SUBSET Computer]

Init ==
    /\ state = [l \in Link |-> "unmade"]
    /\ redeemer = [l \in Link |-> Nobody]
    /\ letIn = [l \in Link |-> {}]

Make(l) ==
    /\ state[l] = "unmade"
    /\ state' = [state EXCEPT ![l] = "open"]
    /\ UNCHANGED <<redeemer, letIn>>

Redeem(l, c) ==
    /\ state[l] = "open"
    /\ state' = [state EXCEPT ![l] = "closed"]
    /\ redeemer' = [redeemer EXCEPT ![l] = c]
    /\ UNCHANGED letIn

(* Revoked, expired, or deleted with its person: any number at once.       *)
Close(L) ==
    /\ \A l \in L : state[l] = "open"
    /\ state' = [l \in Link |-> IF l \in L THEN "closed" ELSE state[l]]
    /\ UNCHANGED <<redeemer, letIn>>

Enter(l) ==
    /\ redeemer[l] # Nobody
    /\ letIn' = [letIn EXCEPT ![l] = {redeemer[l]}]
    /\ UNCHANGED <<state, redeemer>>

Next == \/ \E l \in Link : Make(l) \/ Enter(l) \/ \E c \in Computer : Redeem(l, c)
        \/ \E L \in SUBSET Link : Close(L)

Spec == Init /\ [][Next]_vars

=============================================================================
