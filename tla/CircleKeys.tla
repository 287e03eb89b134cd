----------------------------- MODULE CircleKeys -----------------------------
(***************************************************************************)
(* The key of one circle: how it is made, how it reaches every computer,   *)
(* and how it is replaced when the owner removes someone.                  *)
(*                                                                         *)
(* The hub (cmd/qp-hub, internal/hubdb) keeps the membership, the current  *)
(* generation, the members' storage credential and the sealed grants.  An  *)
(* agent (internal/agent) keeps one CircleState per circle.  They meet in  *)
(* heartbeats, joins, folder creation, and removal followed by a re-key,   *)
(* each split where another actor can get in between: at the network;      *)
(* inside the hub's handlers, whose statements are not one transaction and *)
(* some of whose errors are ignored; and inside the agent's updates of its *)
(* configuration, which a sync pass may read without their lock.  Sealed   *)
(* boxes are represented by the key they hold.                             *)
(***************************************************************************)
EXTENDS Naturals, FiniteSets

CONSTANTS
    Person,      \* everyone on this hub who may be in the circle
    Device,      \* their enrolled computers
    PersonOf,    \* the person a device belongs to
    Owner,       \* the person who owns the circle
    Elsewhere,   \* people who are also in another circle
    Founders,    \* members at the start; {} when the circle is yet to be made
    Call,        \* removals that may be under way at the same time
    MaxKeys,     \* bound: circle keys ever generated
    MaxLinks     \* bound: invite links open at once

ASSUME DeviceAssumption   == PersonOf \in [Device -> Person]
ASSUME PersonAssumption   == Owner \in Person /\ Elsewhere \subseteq Person
ASSUME FoundersAssumption == Founders \subseteq Person /\ (Founders # {} => Owner \in Founders)
ASSUME OwnerAssumption    == \E d \in Device : PersonOf[d] = Owner
ASSUME BoundAssumption    == MaxKeys \in Nat /\ MaxLinks \in Nat

VARIABLES
    members,     \* membership rows of the circle
    revoked,     \* devices whose row says "revoked"
    gen,         \* circle.generation; 0 while the circle does not exist
    cred,        \* the members' storage credential in the circle's row
    live,        \* the credentials the object store accepts
    credsMade,   \* credentials ever created
    grants,      \* sealed grants stored for each device
    links,       \* keys sealed under links nobody has redeemed yet
    made,        \* circle keys ever generated
    cs,          \* each device's CircleState
    beat,        \* each device's heartbeat in progress
    creating,    \* devices waiting for the hub to create the circle
    joining,     \* each device's join in progress
    call,        \* each removal in progress
    ignored,     \* history: statements of the re-key's handler that failed unnoticed
    leaked,      \* history: replaced credentials whose deletion failed or was cut off
    left         \* history: when each computer's person was last taken out

histVars == <<ignored, leaked, left>>
hubVars  == <<members, revoked, gen, cred, live, credsMade, grants, links, histVars>>
vars     == <<hubVars, made, cs, beat, creating, joining, call>>

-----------------------------------------------------------------------------
(* A circle key is the generation it was sealed for and a fresh secret.    *)

Key   == [gen : Nat, id : Nat]
NoKey == [gen |-> 0, id |-> 0]

CircleState == [known : BOOLEAN, removed : BOOLEAN, gen : Nat, key : Key,
                needsKey : BOOLEAN, cred : Nat]
Unknown     == [known |-> FALSE, removed |-> FALSE, gen |-> 0, key |-> NoKey,
                needsKey |-> FALSE, cred |-> 0]

(* A heartbeat: the hub has read the membership, the circle's row, its      *)
(* credential, the grants; or it answered 403; the agent is taking it in.  *)
Bundle   == [pc : {"none", "member", "row", "credential", "reply", "taking", "revoked"},
             member : BOOLEAN, gen : Nat, cred : Nat, grant : Key]
NoBundle == [pc |-> "none", member |-> FALSE, gen |-> 0, cred |-> 0,
             grant |-> NoKey]

(* A join: the hub puts its answer together like a bundle; the agent takes *)
(* it in, then passes the key on.                                          *)
Join   == [pc : {"none", "joined", "member", "row", "credential", "reply", "taking",
                 "granting", "storing"},
           gen : Nat, cred : Nat, key : Key, others : SUBSET Device]
NoJoin == [pc |-> "none", gen |-> 0, cred |-> 0, key |-> NoKey, others |-> {}]

(* A removal: who is still in, as the hub answered it, and the re-key.     *)
HandlerPc  == {"checked", "made", "stored", "deleted", "switched"}
RotatingPc == {"copying", "granted", "replied"} \cup HandlerPc
Removal    == [pc : {"idle", "removed"} \cup RotatingPc, dev : Device,
               people : SUBSET Device, key : Key, cred : Nat, old : Nat]

DevicesOf(P)   == {d \in Device : PersonOf[d] \in P}
OwnerDevices   == DevicesOf({Owner})
Idle           == [pc |-> "idle", dev |-> CHOOSE d \in OwnerDevices : TRUE,
                   people |-> {}, key |-> NoKey, cred |-> 0, old |-> 0]
Rotating(d)    == \E c \in Call : call[c].dev = d /\ call[c].pc \in RotatingPc

(* An update of d's configuration is under way: it holds the store's lock. *)
Updating(d)    == beat[d].pc = "taking" \/ joining[d].pc = "taking"
Syncable(c)    == c.known /\ ~c.removed /\ ~c.needsKey /\ c.key # NoKey

(* The grant of the circle's current generation, of a device's grants.     *)
CurrentGrant(d) == LET now == {k \in grants[d] : k.gen = gen}
                   IN  IF now = {} THEN NoKey ELSE CHOOSE k \in now : TRUE

-----------------------------------------------------------------------------
Init ==
    /\ members = Founders
    /\ revoked = {}
    /\ gen = IF Founders = {} THEN 0 ELSE 1
    /\ cred = gen /\ credsMade = gen /\ made = gen
    /\ live = IF Founders = {} THEN {} ELSE {1}
    /\ grants = [d \in Device |-> {}]
    /\ links = {}
    /\ cs = [d \in Device |->
                IF PersonOf[d] \in Founders
                THEN [Unknown EXCEPT !.known = TRUE, !.gen = 1, !.cred = 1,
                                     !.key = [gen |-> 1, id |-> 1]]
                ELSE Unknown]
    /\ beat = [d \in Device |-> NoBundle]
    /\ creating = {}
    /\ joining = [d \in Device |-> NoJoin]
    /\ call = [c \in Call |-> Idle]
    /\ ignored = {} /\ leaked = {}
    /\ left = [d \in Device |-> [gen |-> 0, creds |-> {}]]

-----------------------------------------------------------------------------
(* Founding the circle from the owner's computer.                          *)

CreateAtHub(d) ==
    /\ gen = 0 /\ d \in OwnerDevices
    /\ gen' = 1 /\ members' = {Owner}
    /\ credsMade' = credsMade + 1 /\ cred' = credsMade + 1 /\ live' = {credsMade + 1}
    /\ creating' = creating \cup {d}
    /\ UNCHANGED <<revoked, grants, links, histVars, made, cs, beat, joining, call>>

(* The store keeps NeedsKey as it is when a heartbeat got there first.     *)
Founded(e, k) ==
    IF e.known
    THEN [e EXCEPT !.key = k]
    ELSE [known |-> TRUE, removed |-> FALSE, gen |-> 1, key |-> k,
          needsKey |-> FALSE, cred |-> 1]

CreateLocal(d) ==
    /\ d \in creating /\ made < MaxKeys /\ ~Updating(d)
    /\ made' = made + 1
    /\ cs' = [cs EXCEPT ![d] = Founded(@, [gen |-> 1, id |-> made + 1])]
    /\ creating' = creating \ {d}
    /\ UNCHANGED <<hubVars, beat, joining, call>>

(* The reply is lost or the agent stops: no key is ever made.              *)
CreateFails(d) ==
    /\ d \in creating
    /\ creating' = creating \ {d}
    /\ UNCHANGED <<hubVars, made, cs, beat, joining, call>>

-----------------------------------------------------------------------------
(* Heartbeats.                                                             *)

(* The hub reads the membership, ...                                       *)
HeartbeatMember(d) ==
    /\ beat[d].pc = "none"
    /\ beat' = [beat EXCEPT ![d] =
          IF d \in revoked
          THEN [NoBundle EXCEPT !.pc = "revoked"]
          ELSE IF PersonOf[d] \notin members
          THEN [NoBundle EXCEPT !.pc = "reply"]
          ELSE [NoBundle EXCEPT !.pc = "member", !.member = TRUE]]
    /\ UNCHANGED <<hubVars, made, cs, creating, joining, call>>

(* ... the circle's row, ...                                               *)
HeartbeatRow(d) ==
    /\ beat[d].pc = "member"
    /\ beat' = [beat EXCEPT ![d].pc = "row", ![d].gen = gen]
    /\ UNCHANGED <<hubVars, made, cs, creating, joining, call>>

(* ... its credential, ...                                                 *)
HeartbeatCredential(d) ==
    /\ beat[d].pc = "row"
    /\ beat' = [beat EXCEPT ![d].pc = "credential", ![d].cred = cred]
    /\ UNCHANGED <<hubVars, made, cs, creating, joining, call>>

(* ... and the device's grants, after asking the object store for a size.  *)
HeartbeatGrants(d) ==
    /\ beat[d].pc = "credential"
    /\ beat' = [beat EXCEPT ![d].pc = "reply", ![d].grant = CurrentGrant(d)]
    /\ UNCHANGED <<hubVars, made, cs, creating, joining, call>>

HeartbeatFails(d) ==
    /\ beat[d].pc \in {"reply", "revoked"}
    /\ beat' = [beat EXCEPT ![d] = NoBundle]
    /\ UNCHANGED <<hubVars, made, cs, creating, joining, call>>

(* What a bundle's, or a join's, settings make of a CircleState ...        *)
WithSettings(e, r) == [e EXCEPT !.known = TRUE, !.removed = FALSE, !.gen = r.gen, !.cred = r.cred]

(* Mutant: the key is left alone when the bundle carries none.             *)
BundledNoKeyCheck(e, b) == IF b.grant.gen = b.gen THEN [e EXCEPT !.key = b.grant] ELSE e

(* Mutant: a folder marked as needing a key waits for a link.              *)
BundledWaitsForLink(e, b) ==
    CASE e.key.gen = b.gen \/ e.needsKey -> e
      [] e.key.gen # b.gen /\ ~e.needsKey /\ b.grant.gen = b.gen -> [e EXCEPT !.key = b.grant]
      [] OTHER -> [e EXCEPT !.needsKey = TRUE]

(* Mutant: the key is whatever the bundle carries, even nothing.           *)
BundledForgets(e, b) == [e EXCEPT !.key = b.grant, !.needsKey = b.grant = NoKey]

(* ... and its key: that of its generation, when it is missing and a grant *)
(* carries it.                                                             *)
Bundled(e, b) ==
    CASE e.key.gen = b.gen -> e
      [] e.key.gen # b.gen /\ b.grant.gen = b.gen ->
           [e EXCEPT !.key = b.grant, !.needsKey = FALSE]
      [] OTHER -> [e EXCEPT !.needsKey = TRUE]

(* A circle the bundle does not list, or a 403, leaves the folder in place. *)
ApplyRemoval(d) ==
    /\ beat[d].pc \in {"reply", "revoked"} /\ ~beat[d].member /\ ~Updating(d)
    /\ cs' = [cs EXCEPT ![d].removed = cs[d].known]
    /\ beat' = [beat EXCEPT ![d] = NoBundle]
    /\ UNCHANGED <<hubVars, made, creating, joining, call>>

(* applyBundle, under the store's lock: the settings, then the key.        *)
ApplySettings(d) ==
    /\ beat[d].pc = "reply" /\ beat[d].member /\ ~Updating(d)
    /\ cs' = [cs EXCEPT ![d] = WithSettings(@, beat[d])]
    /\ beat' = [beat EXCEPT ![d].pc = "taking"]
    /\ UNCHANGED <<hubVars, made, creating, joining, call>>

ApplyKey(d) ==
    /\ beat[d].pc = "taking"
    /\ cs' = [cs EXCEPT ![d] = Bundled(@, beat[d])]
    /\ beat' = [beat EXCEPT ![d] = NoBundle]
    /\ UNCHANGED <<hubVars, made, creating, joining, call>>

-----------------------------------------------------------------------------
(* Links and joins.                                                        *)

MakeLink(d) ==
    /\ cs[d].known /\ ~cs[d].removed /\ cs[d].key # NoKey
    /\ d \notin revoked /\ PersonOf[d] \in members
    /\ Cardinality(links) < MaxLinks
    /\ links' = links \cup {cs[d].key}
    /\ UNCHANGED <<members, revoked, gen, cred, live, credsMade, grants, histVars,
                   made, cs, beat, creating, joining, call>>

(* The hub redeems the link, makes the person a member, and puts the       *)
(* answer together: a bundle, and the person's other computers.            *)
JoinAtHub(d, k) ==
    /\ joining[d].pc = "none" /\ d \notin revoked
    /\ k \in links
    /\ links' = links \ {k}
    /\ members' = members \cup {PersonOf[d]}
    /\ joining' = [joining EXCEPT ![d] = [NoJoin EXCEPT !.pc = "joined", !.key = k]]
    /\ UNCHANGED <<revoked, gen, cred, live, credsMade, grants, histVars,
                   made, cs, beat, creating, call>>

(* Without a membership by now, the answer lists no folder.                *)
JoinMember(d) ==
    /\ joining[d].pc = "joined"
    /\ joining' = [joining EXCEPT ![d] = IF PersonOf[d] \in members
                                         THEN [@ EXCEPT !.pc = "member"] ELSE NoJoin]
    /\ UNCHANGED <<hubVars, made, cs, beat, creating, call>>

JoinRow(d) ==
    /\ joining[d].pc = "member"
    /\ joining' = [joining EXCEPT ![d].pc = "row", ![d].gen = gen]
    /\ UNCHANGED <<hubVars, made, cs, beat, creating, call>>

JoinCredential(d) ==
    /\ joining[d].pc = "row"
    /\ joining' = [joining EXCEPT ![d].pc = "credential", ![d].cred = cred]
    /\ UNCHANGED <<hubVars, made, cs, beat, creating, call>>

JoinOthers(d) ==
    /\ joining[d].pc = "credential"
    /\ joining' = [joining EXCEPT ![d].pc = "reply",
                       ![d].others = DevicesOf({PersonOf[d]}) \ (revoked \cup {d})]
    /\ UNCHANGED <<hubVars, made, cs, beat, creating, call>>

(* Mutant: NeedsKey is cleared by any key at all.                          *)
JoinedAnyKey(e, j) ==
    LET key == IF e.key = NoKey \/ j.key.gen > e.key.gen THEN j.key ELSE e.key
    IN  [e EXCEPT !.key = key, !.needsKey = key = NoKey]

(* Mutant: the link's key always replaces the one held.                    *)
JoinedAlways(e, j) == [e EXCEPT !.key = j.key, !.needsKey = j.key.gen # j.gen]

(* What a redeemed link makes of a CircleState's key.                      *)
Joined(e, j) ==
    LET key == IF e.key = NoKey \/ j.key.gen > e.key.gen THEN j.key ELSE e.key
    IN  [e EXCEPT !.key = key, !.needsKey = key.gen # j.gen]

(* joinCircles, under the store's lock: the settings, then the key.        *)
JoinSettings(d) ==
    /\ joining[d].pc = "reply" /\ ~Updating(d)
    /\ cs' = [cs EXCEPT ![d] = WithSettings(@, joining[d])]
    /\ joining' = [joining EXCEPT ![d].pc = "taking"]
    /\ UNCHANGED <<hubVars, made, beat, creating, call>>

JoinKey(d) ==
    /\ joining[d].pc = "taking"
    /\ cs' = [cs EXCEPT ![d] = Joined(@, joining[d])]
    /\ joining' = [joining EXCEPT ![d].pc = "granting"]
    /\ UNCHANGED <<hubVars, made, beat, creating, call>>

(* Mutant: a grant is inserted beside an earlier one of its generation.    *)
WithGrantInserted(k, D) == [d \in Device |-> IF d \in D THEN grants[d] \cup {k} ELSE grants[d]]

(* Mutant: a grant already stored for the generation is kept.              *)
WithGrantKept(k, D) ==
    [d \in Device |-> IF d \in D /\ ~\E g \in grants[d] : g.gen = k.gen
                      THEN grants[d] \cup {k} ELSE grants[d]]

(* Storing a key for some devices: one grant per device and generation.    *)
WithGrant(k, D) ==
    [d \in Device |-> IF d \in D THEN {g \in grants[d] : g.gen # k.gen} \cup {k}
                                 ELSE grants[d]]

(* A member's device may store grants for its own person's devices: the    *)
(* hub checks once, ...                                                    *)
CheckOwnGrants(d) ==
    /\ joining[d].pc = "granting"
    /\ joining' = [joining EXCEPT ![d] =
          IF d \notin revoked /\ (PersonOf[d] = Owner \/ PersonOf[d] \in members)
          THEN [@ EXCEPT !.pc = "storing"] ELSE NoJoin]
    /\ UNCHANGED <<hubVars, made, cs, beat, creating, call>>

(* ... then stores them one by one.                                        *)
StoreOwnGrant(d) ==
    /\ joining[d].pc = "storing"
    /\ \E x \in joining[d].others :
          /\ grants' = WithGrant(joining[d].key, {x})
          /\ joining' = [joining EXCEPT ![d].others = @ \ {x}]
    /\ UNCHANGED <<members, revoked, gen, cred, live, credsMade, links, histVars,
                   made, cs, beat, creating, call>>

(* The answer is lost, the agent stops, or all is done; an update of the   *)
(* configuration that began is finished, or was never saved.               *)
JoinEnds(d) ==
    /\ joining[d].pc \notin {"none", "taking"}
    /\ joining' = [joining EXCEPT ![d] = NoJoin]
    /\ UNCHANGED <<hubVars, made, cs, beat, creating, call>>

-----------------------------------------------------------------------------
(* Removal and re-key.                                                     *)

(* Mutant: every computer the hub knows counts as still in.                *)
CirclePeopleAnyone(M, R) == Device \ R

(* The active computers of a circle's members, as the hub answers them.    *)
CirclePeople(M, R) == DevicesOf(M) \ R

(* The hub takes p out, and answers who is still in.                       *)
RemoveAtHub(c, d, p) ==
    LET out == DevicesOf({p})
    IN  /\ call[c].pc = "idle"
        /\ d \in OwnerDevices /\ cs[d].known /\ p # Owner
        /\ members' = members \ {p}
        /\ grants' = [x \in Device |-> IF x \in out THEN {} ELSE grants[x]]
        /\ revoked' = IF p \in Elsewhere THEN revoked ELSE revoked \cup out
        /\ call' = [call EXCEPT ![c] =
              [pc |-> "removed", dev |-> d, people |-> CirclePeople(members', revoked'),
               key |-> NoKey, cred |-> 0, old |-> 0]]
        /\ left' = [x \in Device |->
              IF x \in out /\ p \in members
              THEN [gen |-> gen, creds |-> {cs[x].cred, beat[x].cred, joining[x].cred}]
              ELSE left[x]]
        /\ UNCHANGED <<gen, cred, live, credsMade, links, ignored, leaked,
                       made, cs, beat, creating, joining>>

(* rotate, under syncMu: the hub's generation, and a key for the next one. *)
StartRotate(c) ==
    /\ call[c].pc = "removed" /\ ~Rotating(call[c].dev)
    /\ cs[call[c].dev].key # NoKey /\ made < MaxKeys
    /\ made' = made + 1
    /\ call' = [call EXCEPT ![c].pc = "copying",
                            ![c].key = [gen |-> gen + 1, id |-> made + 1]]
    /\ UNCHANGED <<hubVars, cs, beat, creating, joining>>

(* The hub stores the grants one by one, ...                               *)
PostGrant(c) ==
    /\ call[c].pc = "copying"
    /\ \E x \in call[c].people :
          /\ grants' = WithGrant(call[c].key, {x})
          /\ call' = [call EXCEPT ![c].people = @ \ {x}]
    /\ UNCHANGED <<members, revoked, gen, cred, live, credsMade, links, histVars,
                   made, cs, beat, creating, joining>>

(* ... and answers when there is none left.                                *)
GrantsPosted(c) ==
    /\ call[c].pc = "copying" /\ call[c].people = {}
    /\ call' = [call EXCEPT ![c].pc = "granted"]
    /\ UNCHANGED <<hubVars, made, cs, beat, creating, joining>>

(* The hub's generation handler, statement by statement.  From the moment  *)
(* the object store has made a credential, every error is ignored.         *)
CheckGeneration(c) ==
    /\ call[c].pc = "granted" /\ call[c].key.gen > gen
    /\ call' = [call EXCEPT ![c].pc = "checked"]
    /\ UNCHANGED <<hubVars, made, cs, beat, creating, joining>>

KeyCreate(c) ==
    /\ call[c].pc = "checked"
    /\ credsMade' = credsMade + 1
    /\ live' = live \cup {credsMade + 1}
    /\ call' = [call EXCEPT ![c].pc = "made", ![c].old = cred, ![c].cred = credsMade + 1]
    /\ UNCHANGED <<members, revoked, gen, cred, grants, links, histVars,
                   made, cs, beat, creating, joining>>

CircleSetS3(c) ==
    /\ call[c].pc = "made"
    /\ \/ cred' = call[c].cred /\ ignored' = ignored
       \/ cred' = cred /\ ignored' = ignored \cup {"CircleSetS3"}
    /\ call' = [call EXCEPT ![c].pc = "stored"]
    /\ UNCHANGED <<members, revoked, gen, live, credsMade, grants, links, leaked, left,
                   made, cs, beat, creating, joining>>

(* Mutant: nothing is deleted.                                             *)
KeyDeleteNothing(c) ==
    /\ call[c].pc = "stored"
    /\ call' = [call EXCEPT ![c].pc = "deleted"]
    /\ UNCHANGED <<hubVars, made, cs, beat, creating, joining>>

(* Mutant: the new credential is deleted in place of the old one.          *)
KeyDeleteNew(c) ==
    /\ call[c].pc = "stored"
    /\ live' = live \ {call[c].cred}
    /\ call' = [call EXCEPT ![c].pc = "deleted"]
    /\ UNCHANGED <<members, revoked, gen, cred, credsMade, grants, links, histVars,
                   made, cs, beat, creating, joining>>

KeyDelete(c) ==
    /\ call[c].pc = "stored"
    /\ \/ live' = live \ {call[c].old} /\ leaked' = leaked
       \/ live' = live /\ leaked' = leaked \cup {call[c].old}
    /\ call' = [call EXCEPT ![c].pc = "deleted"]
    /\ UNCHANGED <<members, revoked, gen, cred, credsMade, grants, links, ignored, left,
                   made, cs, beat, creating, joining>>

SwitchGeneration(c) ==
    /\ call[c].pc = "deleted"
    /\ \/ gen' = call[c].key.gen /\ ignored' = ignored
       \/ gen' = gen /\ ignored' = ignored \cup {"CircleSetGeneration"}
    /\ call' = [call EXCEPT ![c].pc = "switched"]
    /\ UNCHANGED <<members, revoked, cred, live, credsMade, grants, links, leaked, left,
                   made, cs, beat, creating, joining>>

(* The old grants may stay: no bundle carries them, whatever came before.  *)
DropOldGrants(c) ==
    /\ call[c].pc = "switched"
    /\ \/ grants' = [d \in Device |-> {k \in grants[d] : k.gen >= call[c].key.gen}]
       \/ grants' = grants
    /\ call' = [call EXCEPT ![c].pc = "replied"]
    /\ UNCHANGED <<members, revoked, gen, cred, live, credsMade, links, histVars,
                   made, cs, beat, creating, joining>>

Rekeyed(e, k) == [e EXCEPT !.key = k, !.gen = k.gen, !.needsKey = FALSE]

(* Mutant: the owner's computer switches once its grants are stored.       *)
LocalSwitchEarly(c) ==
    /\ call[c].pc \in {"granted", "replied"} /\ ~Updating(call[c].dev)
    /\ cs' = [cs EXCEPT ![call[c].dev] = Rekeyed(@, call[c].key)]
    /\ call' = [call EXCEPT ![c] = Idle]
    /\ UNCHANGED <<hubVars, made, beat, creating, joining>>

(* The owner's computer switches when the hub has answered.                *)
LocalSwitch(c) ==
    /\ call[c].pc = "replied" /\ ~Updating(call[c].dev)
    /\ cs' = [cs EXCEPT ![call[c].dev] = Rekeyed(@, call[c].key)]
    /\ call' = [call EXCEPT ![c] = Idle]
    /\ UNCHANGED <<hubVars, made, beat, creating, joining>>

(* A step fails, its answer is lost, the hub stops inside its handler, or  *)
(* the agent stops: what was done stays done, and nothing tries again.     *)
RemovalFails(c) ==
    /\ call[c].pc # "idle"
    /\ call' = [call EXCEPT ![c] = Idle]
    /\ leaked' = IF call[c].pc = "stored" THEN leaked \cup {call[c].old} ELSE leaked
    /\ UNCHANGED <<members, revoked, gen, cred, live, credsMade, grants, links, ignored, left,
                   made, cs, beat, creating, joining>>

-----------------------------------------------------------------------------
Create(d)    == CreateAtHub(d) \/ CreateLocal(d) \/ CreateFails(d)
Bundling(d)  == \/ HeartbeatMember(d) \/ HeartbeatRow(d)
                \/ HeartbeatCredential(d) \/ HeartbeatGrants(d)
Heartbeat(d) == \/ Bundling(d) \/ HeartbeatFails(d)
                \/ ApplyRemoval(d) \/ ApplySettings(d) \/ ApplyKey(d)
Answering(d) == JoinMember(d) \/ JoinRow(d) \/ JoinCredential(d) \/ JoinOthers(d)
Invite(d)    == \/ MakeLink(d)
                \/ \E k \in links : JoinAtHub(d, k)
                \/ Answering(d) \/ JoinSettings(d) \/ JoinKey(d)
                \/ CheckOwnGrants(d) \/ StoreOwnGrant(d) \/ JoinEnds(d)
Switch(c)    == \/ CheckGeneration(c) \/ KeyCreate(c) \/ CircleSetS3(c) \/ KeyDelete(c)
                \/ SwitchGeneration(c) \/ DropOldGrants(c)
Remove(c)    == \/ \E d \in Device, p \in Person : RemoveAtHub(c, d, p)
                \/ StartRotate(c) \/ PostGrant(c) \/ GrantsPosted(c)
                \/ Switch(c) \/ LocalSwitch(c) \/ RemovalFails(c)

Next == \/ \E d \in Device : Create(d) \/ Heartbeat(d) \/ Invite(d)
        \/ \E c \in Call : Remove(c)

Spec == Init /\ [][Next]_vars

(* An agent heartbeats every 5 minutes for as long as it runs, the hub      *)
(* answers it, and a network that is sometimes up lets some answers in.     *)
Fairness == \A d \in Device : /\ WF_vars(Bundling(d))
                              /\ SF_vars(ApplyRemoval(d) \/ ApplySettings(d))
                              /\ WF_vars(ApplyKey(d)) /\ WF_vars(JoinKey(d))

FairSpec == Spec /\ Fairness

-----------------------------------------------------------------------------
(* Types, and the unique index of key_grant: one grant per device and       *)
(* generation.                                                              *)
TypeOK ==
    /\ members \subseteq Person
    /\ revoked \subseteq Device
    /\ gen \in Nat /\ cred \in Nat /\ credsMade \in Nat /\ made \in Nat
    /\ live \subseteq Nat
    /\ grants \in [Device -> SUBSET Key]
    /\ \A d \in Device : \A k, l \in grants[d] : k.gen = l.gen => k = l
    /\ links \subseteq Key
    /\ cs \in [Device -> CircleState]
    /\ beat \in [Device -> Bundle]
    /\ creating \subseteq Device
    /\ joining \in [Device -> Join]
    /\ call \in [Call -> Removal]
    /\ ignored \subseteq {"CircleSetS3", "CircleSetGeneration"} /\ leaked \subseteq Nat
    /\ left \in [Device -> [gen : Nat, creds : SUBSET Nat]]

(* A computer that may sync holds the key of exactly the generation whose   *)
(* tree it would sync: rclone is pointed at g<Generation> with the key at   *)
(* hand (rclone.go env), so a key of another generation would fill one tree *)
(* with files encrypted for another.                                        *)
SyncsWithTheTreesKey ==
    \A d \in Device : Syncable(cs[d]) => cs[d].key.gen = cs[d].gen

(* So it is whenever no update of its configuration is half done: in what a *)
(* pass reads then, in what is saved, and after a restart.  A pass that     *)
(* copies its entries in the middle of an update reads otherwise (README,   *)
(* section 4).                                                              *)
SavedWithTheTreesKey ==
    \A d \in Device : ~Updating(d) /\ Syncable(cs[d]) => cs[d].key.gen = cs[d].gen

(* The hub's row got every generation that a re-key switched to.            *)
GenerationsStored == "CircleSetGeneration" \notin ignored

(* No computer, and no link, ever holds a key of a generation the hub has   *)
(* not switched to: a re-key in progress is not visible before the switch.  *)
KeysNeverAheadOfTheHub ==
    GenerationsStored =>
        /\ \A d \in Device : cs[d].key.gen <= gen /\ cs[d].gen <= gen
        /\ \A k \in links : k.gen <= gen

(* Every computer that holds a key of a generation holds the same key of    *)
(* it, whatever attempts to re-key failed half way before it.               *)
OneKeyPerGeneration ==
    GenerationsStored =>
        \A d, e \in Device : (cs[d].key.gen = cs[e].key.gen) => cs[d].key = cs[e].key

(* A computer marked as needing a key has none for its generation           *)
(* (config.go: "no key for the current generation").  No run checks it: the *)
(* code does not keep it when a heartbeat reports a folder that its         *)
(* founder's computer is still making (README, section 4).                  *)
NeedsKeyMeansNoKey ==
    \A d \in Device : cs[d].known /\ cs[d].needsKey => cs[d].key.gen # cs[d].gen

(* The credential the hub hands out is one the object store accepts, while  *)
(* a switch is between its statements, after one that stopped there, and    *)
(* whatever deletions failed, unless the row did not take a new one.        *)
TheRowsCredentialLives ==
    gen > 0 /\ "CircleSetS3" \notin ignored => cred \in live

(* The computers of someone who was taken out never come to hold, and are   *)
(* never granted, a key made after that (rotate.go: "grants for everyone    *)
(* still in"), whatever answers and grants were on their way.               *)
OutsidersGetNoNewKey ==
    GenerationsStored =>
        \A d \in Device : PersonOf[d] \notin members =>
            \A k \in {cs[d].key} \cup grants[d] : k.gen <= left[d].gen

(* Once a removal's switch is made, every storage credential a removed      *)
(* computer had, or was being sent, at its removal is dead, except one      *)
(* whose deletion failed or was cut off.                                    *)
TheSwitchLocksTheRemovedOut ==
    [][\A d \in Device : gen' > gen /\ PersonOf[d] \notin members
                             => left[d].creds \cap live' \subseteq leaked]_vars

(* A computer never loses the key it holds to anything but another key: the *)
(* founder's is the only copy there is, and a heartbeat may land just after  *)
(* it is made.                                                              *)
KeysAreNeverLost ==
    [][\A d \in Device : cs[d].key # NoKey => cs'[d].key # NoKey]_vars

(* A join never puts an older key in the place of the one a computer holds. *)
JoinsNeverDowngrade ==
    [][\A d \in Device : joining[d].pc = "taking" /\ joining'[d].pc = "granting"
                            => cs'[d].key.gen >= cs[d].key.gen]_vars

(* A grant of the current generation does not wait for ever for a computer  *)
(* that stays in the folder, while the generation stays: again and again    *)
(* there is none that waits.                                                *)
Waits(d) == /\ CurrentGrant(d) # NoKey /\ cs[d].key.gen # gen
            /\ PersonOf[d] \in members /\ d \notin revoked

GrantsArrive == []<>(\A d \in Device : ~Waits(d))

=============================================================================
