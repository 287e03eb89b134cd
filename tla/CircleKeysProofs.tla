-------------------------- MODULE CircleKeysProofs --------------------------
(***************************************************************************)
(* Proofs about CircleKeys, for any people, computers, removals and        *)
(* bounds: the state stays well typed; what a computer may sync with, when *)
(* no update of its configuration is half done, is the key of the          *)
(* generation whose tree it syncs; keys are not lost nor replaced by older *)
(* ones in a join; the credential the hub hands out works.                 *)
(***************************************************************************)
EXTENDS CircleKeys, TLAPS

-----------------------------------------------------------------------------
(* What the helpers of the model return.                                   *)

LEMMA NoKeyType == NoKey \in Key
BY DEF NoKey, Key

LEMMA IdleType == Idle \in Removal /\ Idle.pc = "idle" /\ Idle.dev \in OwnerDevices
<1>1. PICK d \in Device : PersonOf[d] = Owner
  BY OwnerAssumption
<1>2. \E x \in OwnerDevices : TRUE
  BY <1>1 DEF OwnerDevices, DevicesOf
<1>3. (CHOOSE x \in OwnerDevices : TRUE) \in OwnerDevices
  BY <1>2
<1>4. OwnerDevices \subseteq Device
  BY DEF OwnerDevices, DevicesOf
<1>5. QED
  BY <1>3, <1>4, NoKeyType DEF Idle, Removal

LEMMA WithSettingsType ==
  ASSUME NEW e \in CircleState, NEW r, r.gen \in Nat, r.cred \in Nat
  PROVE  WithSettings(e, r) \in CircleState
BY DEF WithSettings, CircleState

LEMMA BundledType ==
  ASSUME NEW e \in CircleState, NEW b \in Bundle
  PROVE  Bundled(e, b) \in CircleState
BY DEF Bundled, CircleState, Bundle, Key

LEMMA JoinedType ==
  ASSUME NEW e \in CircleState, NEW j \in Join
  PROVE  Joined(e, j) \in CircleState
BY DEF Joined, CircleState, Join, Key

LEMMA FoundedType ==
  ASSUME NEW e \in CircleState, NEW k \in Key
  PROVE  Founded(e, k) \in CircleState
BY DEF Founded, CircleState

LEMMA RekeyedType ==
  ASSUME NEW e \in CircleState, NEW k \in Key
  PROVE  Rekeyed(e, k) \in CircleState
BY DEF Rekeyed, CircleState, Key

(* What each of them keeps or takes over.                                  *)
LEMMA WithSettingsFields ==
  ASSUME NEW e \in CircleState, NEW r
  PROVE  /\ WithSettings(e, r).known /\ WithSettings(e, r).gen = r.gen
         /\ WithSettings(e, r).cred = r.cred /\ WithSettings(e, r).key = e.key
BY DEF WithSettings, CircleState

LEMMA BundledFields ==
  ASSUME NEW e \in CircleState, NEW b \in Bundle
  PROVE  /\ Bundled(e, b).known = e.known /\ Bundled(e, b).gen = e.gen
         /\ Bundled(e, b).cred = e.cred
         /\ \/ Bundled(e, b).key = e.key
            \/ Bundled(e, b).key = b.grant /\ b.grant.gen = b.gen
BY DEF Bundled, CircleState, Bundle, Key

LEMMA JoinedFields ==
  ASSUME NEW e \in CircleState, NEW j \in Join
  PROVE  /\ Joined(e, j).known = e.known /\ Joined(e, j).gen = e.gen
         /\ Joined(e, j).cred = e.cred
         /\ \/ Joined(e, j).key = e.key
            \/ Joined(e, j).key = j.key /\ (e.key = NoKey \/ j.key.gen > e.key.gen)
BY DEF Joined, CircleState, Join, Key

LEMMA FoundedFields ==
  ASSUME NEW e \in CircleState, NEW k \in Key
  PROVE  /\ Founded(e, k).known /\ Founded(e, k).key = k
         /\ \/ e.known /\ Founded(e, k).gen = e.gen /\ Founded(e, k).cred = e.cred
            \/ ~e.known /\ Founded(e, k).gen = 1 /\ Founded(e, k).cred = 1
BY DEF Founded, CircleState

LEMMA RekeyedFields ==
  ASSUME NEW e \in CircleState, NEW k \in Key
  PROVE  /\ Rekeyed(e, k).known = e.known /\ Rekeyed(e, k).gen = k.gen
         /\ Rekeyed(e, k).cred = e.cred /\ Rekeyed(e, k).key = k
BY DEF Rekeyed, CircleState

LEMMA RotatingPcs ==
  /\ \A pc \in {"copying", "granted", "checked", "made", "stored", "deleted", "switched",
                "replied"} : pc \in RotatingPc
  /\ "idle" \notin RotatingPc /\ "removed" \notin RotatingPc
BY DEF RotatingPc, HandlerPc

LEMMA RemovalType ==
  ASSUME NEW r \in Removal, NEW pc \in RotatingPc
  PROVE  [r EXCEPT !.pc = pc] \in Removal
BY DEF Removal

LEMMA KeyedRemovalType ==
  ASSUME NEW r \in Removal, NEW pc \in RotatingPc, NEW k \in Key
  PROVE  [r EXCEPT !.pc = pc, !.key = k] \in Removal
BY DEF Removal

LEMMA CredentialRemovalType ==
  ASSUME NEW r \in Removal, NEW pc \in RotatingPc, NEW new \in Nat, NEW old \in Nat
  PROVE  [r EXCEPT !.pc = pc, !.old = old, !.cred = new] \in Removal
BY DEF Removal

(* One grant per device and generation: the unique index of key_grant.     *)
OneGrantEach(G) == \A d \in Device : \A k, l \in G[d] : k.gen = l.gen => k = l

LEMMA WithGrantType ==
  ASSUME NEW k \in Key, NEW D \in SUBSET Device,
         grants \in [Device -> SUBSET Key], OneGrantEach(grants)
  PROVE  /\ WithGrant(k, D) \in [Device -> SUBSET Key]
         /\ OneGrantEach(WithGrant(k, D))
<1>1. WithGrant(k, D) \in [Device -> SUBSET Key]
  BY DEF WithGrant
<1>2. ASSUME NEW d \in Device,
             NEW x \in WithGrant(k, D)[d], NEW y \in WithGrant(k, D)[d],
             x.gen = y.gen
      PROVE  x = y
  <2>1. CASE d \in D
    <3>1. WithGrant(k, D)[d] = {g \in grants[d] : g.gen # k.gen} \cup {k}
      BY <2>1 DEF WithGrant
    <3>2. QED
      BY <1>2, <3>1 DEF OneGrantEach
  <2>2. CASE d \notin D
    <3>1. WithGrant(k, D)[d] = grants[d]
      BY <2>2 DEF WithGrant
    <3>2. QED
      BY <1>2, <3>1 DEF OneGrantEach
  <2>3. QED
    BY <2>1, <2>2
<1>3. QED
  BY <1>1, <1>2 DEF OneGrantEach

LEMMA CurrentGrantType ==
  ASSUME NEW d \in Device, grants \in [Device -> SUBSET Key]
  PROVE  CurrentGrant(d) \in Key
BY NoKeyType DEF CurrentGrant

-----------------------------------------------------------------------------
(* What each kind of action leaves alone.  These lemmas stand for the      *)
(* actions wherever it matters only whose variable is touched.             *)

LEMMA CreateFrame ==
  ASSUME NEW d \in Device, Create(d)
  PROVE  /\ UNCHANGED <<revoked, grants, links, histVars, beat, joining, call>>
         /\ CreateAtHub(d) \/ UNCHANGED <<hubVars>>
BY DEF Create, CreateAtHub, CreateLocal, CreateFails, hubVars, histVars

LEMMA HeartbeatFrame ==
  ASSUME TypeOK, NEW d \in Device, Heartbeat(d)
  PROVE  /\ UNCHANGED <<hubVars, made, creating, joining, call>>
         /\ \A x \in Device \ {d} : beat'[x] = beat[x] /\ cs'[x] = cs[x]
BY DEF Heartbeat, Bundling, HeartbeatMember, HeartbeatRow, HeartbeatCredential, HeartbeatGrants,
       HeartbeatFails, ApplyRemoval, ApplySettings, ApplyKey, TypeOK

LEMMA InviteFrame ==
  ASSUME TypeOK, NEW d \in Device, Invite(d)
  PROVE  /\ UNCHANGED <<revoked, gen, cred, live, credsMade, histVars, made, beat, creating, call>>
         /\ members \subseteq members' /\ (links = {} => members' = members)
         /\ \A x \in Device \ {d} : joining'[x] = joining[x] /\ cs'[x] = cs[x]
<1>1. CASE MakeLink(d)
  BY <1>1 DEF MakeLink
<1>2. CASE \E k \in links : JoinAtHub(d, k)
  BY <1>2 DEF JoinAtHub, TypeOK
<1>3. CASE Answering(d)
  BY <1>3 DEF Answering, JoinMember, JoinRow, JoinCredential, JoinOthers, hubVars, TypeOK
<1>4. CASE JoinSettings(d) \/ JoinKey(d) \/ CheckOwnGrants(d) \/ JoinEnds(d)
  BY <1>4 DEF JoinSettings, JoinKey, CheckOwnGrants, JoinEnds, hubVars, TypeOK
<1>5. CASE StoreOwnGrant(d)
  BY <1>5 DEF StoreOwnGrant, TypeOK
<1>6. QED
  BY <1>1, <1>2, <1>3, <1>4, <1>5 DEF Invite

LEMMA RemoveFrame ==
  ASSUME TypeOK, NEW c \in Call, Remove(c)
  PROVE  /\ UNCHANGED <<links, beat, creating, joining>>
         /\ members' \subseteq members
         /\ SwitchGeneration(c) \/ gen' = gen
         /\ LocalSwitch(c) \/ cs' = cs
         /\ \A o \in Call \ {c} : call'[o] = call[o]
<1>1. CASE \E d \in Device, p \in Person : RemoveAtHub(c, d, p)
  BY <1>1 DEF RemoveAtHub, TypeOK
<1>2. CASE StartRotate(c) \/ PostGrant(c) \/ GrantsPosted(c) \/ LocalSwitch(c) \/ RemovalFails(c)
  BY <1>2 DEF StartRotate, PostGrant, GrantsPosted, LocalSwitch, RemovalFails, hubVars, TypeOK
<1>3. CASE Switch(c)
  BY <1>3 DEF Switch, CheckGeneration, KeyCreate, CircleSetS3, KeyDelete, SwitchGeneration,
              DropOldGrants, hubVars, TypeOK
<1>4. QED
  BY <1>1, <1>2, <1>3 DEF Remove

-----------------------------------------------------------------------------
(* Type correctness, one step per action.                                  *)

LEMMA InitTypeOK == Init => TypeOK
<1>1. SUFFICES ASSUME Init PROVE TypeOK
  OBVIOUS
<1>2. gen \in {0, 1} /\ cred = gen /\ credsMade = gen /\ made = gen /\ live \subseteq Nat
  BY <1>1 DEF Init
<1>3. cs \in [Device -> CircleState]
  BY <1>1 DEF Init, CircleState, Unknown, NoKey, Key
<1>4. beat \in [Device -> Bundle]
  BY <1>1, NoKeyType DEF Init, Bundle, NoBundle
<1>5. joining \in [Device -> Join]
  BY <1>1, NoKeyType DEF Init, Join, NoJoin
<1>6. call \in [Call -> Removal]
  BY <1>1, IdleType DEF Init
<1>7. left \in [Device -> [gen : Nat, creds : SUBSET Nat]]
  BY <1>1 DEF Init
<1>8. QED
  BY <1>1, <1>2, <1>3, <1>4, <1>5, <1>6, <1>7, FoundersAssumption DEF Init, TypeOK

LEMMA CreateTypeOK ==
  ASSUME TypeOK, NEW d \in Device, Create(d)
  PROVE  TypeOK'
<1>1. CASE CreateAtHub(d)
  BY <1>1, PersonAssumption DEF TypeOK, CreateAtHub, histVars
<1>2. CASE CreateLocal(d)
  <2>1. [gen |-> 1, id |-> made + 1] \in Key
    BY DEF TypeOK, Key
  <2>2. Founded(cs[d], [gen |-> 1, id |-> made + 1]) \in CircleState
    BY <2>1, FoundedType DEF TypeOK
  <2>3. cs' \in [Device -> CircleState]
    BY <1>2, <2>2 DEF TypeOK, CreateLocal
  <2>4. QED
    BY <1>2, <2>3 DEF TypeOK, CreateLocal, hubVars, histVars
<1>3. CASE CreateFails(d)
  BY <1>3 DEF TypeOK, CreateFails, hubVars, histVars
<1>4. QED
  BY <1>1, <1>2, <1>3 DEF Create

LEMMA HeartbeatTypeOK ==
  ASSUME TypeOK, NEW d \in Device, Heartbeat(d)
  PROVE  TypeOK'
<1>0. NoBundle \in Bundle /\ beat[d] \in Bundle /\ cs[d] \in CircleState
  BY NoKeyType DEF Bundle, NoBundle, TypeOK
<1>1. CASE Bundling(d)
  <2>1. CurrentGrant(d) \in Key
    BY CurrentGrantType DEF TypeOK
  <2>2. beat'[d] \in Bundle /\ cs' = cs
    <3>1. CASE HeartbeatMember(d)
      BY <1>0, <3>1 DEF TypeOK, HeartbeatMember, Bundle
    <3>2. CASE HeartbeatRow(d) \/ HeartbeatCredential(d) \/ HeartbeatGrants(d)
      BY <1>0, <2>1, <3>2 DEF TypeOK, HeartbeatRow, HeartbeatCredential, HeartbeatGrants, Bundle
    <3>3. QED
      BY <1>1, <3>1, <3>2 DEF Bundling
  <2>3. beat' = [beat EXCEPT ![d] = beat'[d]]
    BY <1>1 DEF Bundling, HeartbeatMember, HeartbeatRow, HeartbeatCredential, HeartbeatGrants, TypeOK
  <2>4. QED
    BY <2>2, <2>3, HeartbeatFrame DEF TypeOK, hubVars, histVars
<1>2. CASE HeartbeatFails(d)
  <2>1. beat' \in [Device -> Bundle]
    BY <1>0, <1>2 DEF TypeOK, HeartbeatFails
  <2>2. QED
    BY <1>2, <2>1 DEF TypeOK, HeartbeatFails, hubVars, histVars
<1>3. CASE ApplyRemoval(d)
  <2>1. cs' \in [Device -> CircleState] /\ beat' \in [Device -> Bundle]
    BY <1>0, <1>3 DEF TypeOK, ApplyRemoval, CircleState
  <2>2. QED
    BY <1>3, <2>1 DEF TypeOK, ApplyRemoval, hubVars, histVars
<1>4. CASE ApplySettings(d)
  <2>1. WithSettings(cs[d], beat[d]) \in CircleState
    BY <1>0, WithSettingsType DEF Bundle
  <2>2. cs' \in [Device -> CircleState] /\ beat' \in [Device -> Bundle]
    BY <1>0, <1>4, <2>1 DEF TypeOK, ApplySettings, Bundle
  <2>3. QED
    BY <1>4, <2>2 DEF TypeOK, ApplySettings, hubVars, histVars
<1>5. CASE ApplyKey(d)
  <2>1. Bundled(cs[d], beat[d]) \in CircleState
    BY <1>0, BundledType
  <2>2. cs' \in [Device -> CircleState] /\ beat' \in [Device -> Bundle]
    BY <1>0, <1>5, <2>1 DEF TypeOK, ApplyKey
  <2>3. QED
    BY <1>5, <2>2 DEF TypeOK, ApplyKey, hubVars, histVars
<1>6. QED
  BY <1>1, <1>2, <1>3, <1>4, <1>5 DEF Heartbeat

LEMMA InviteTypeOK ==
  ASSUME TypeOK, NEW d \in Device, Invite(d)
  PROVE  TypeOK'
<1>0. NoJoin \in Join /\ joining[d] \in Join /\ cs[d] \in CircleState
  BY NoKeyType DEF Join, NoJoin, TypeOK
<1>1. CASE MakeLink(d)
  BY <1>1 DEF TypeOK, MakeLink, CircleState, histVars
<1>2. ASSUME NEW k \in links, JoinAtHub(d, k)
      PROVE  TypeOK'
  <2>1. joining' \in [Device -> Join]
    BY <1>0, <1>2 DEF TypeOK, JoinAtHub, Join, NoJoin
  <2>2. members' \subseteq Person
    BY <1>2, DeviceAssumption DEF TypeOK, JoinAtHub
  <2>3. QED
    BY <1>2, <2>1, <2>2 DEF TypeOK, JoinAtHub, histVars
<1>3. CASE Answering(d)
  <2>1. DevicesOf({PersonOf[d]}) \ (revoked \cup {d}) \in SUBSET Device
    BY DEF DevicesOf
  <2>2. joining' \in [Device -> Join]
    <3>1. CASE JoinMember(d)
      <4>1. [joining[d] EXCEPT !.pc = "member"] \in Join
        BY <1>0 DEF Join
      <4>2. QED
        BY <1>0, <3>1, <4>1 DEF TypeOK, JoinMember
    <3>2. CASE JoinRow(d)
      BY <1>0, <3>2 DEF TypeOK, JoinRow, Join
    <3>3. CASE JoinCredential(d)
      BY <1>0, <3>3 DEF TypeOK, JoinCredential, Join
    <3>4. CASE JoinOthers(d)
      BY <1>0, <2>1, <3>4 DEF TypeOK, JoinOthers, Join
    <3>5. QED
      BY <1>3, <3>1, <3>2, <3>3, <3>4 DEF Answering
  <2>3. QED
    BY <1>3, <2>2 DEF TypeOK, Answering, JoinMember, JoinRow, JoinCredential, JoinOthers,
                      hubVars, histVars
<1>4. CASE JoinSettings(d)
  <2>1. WithSettings(cs[d], joining[d]) \in CircleState
    BY <1>0, WithSettingsType DEF Join
  <2>2. cs' \in [Device -> CircleState] /\ joining' \in [Device -> Join]
    BY <1>0, <1>4, <2>1 DEF TypeOK, JoinSettings, Join
  <2>3. QED
    BY <1>4, <2>2 DEF TypeOK, JoinSettings, hubVars, histVars
<1>5. CASE JoinKey(d)
  <2>1. Joined(cs[d], joining[d]) \in CircleState
    BY <1>0, JoinedType
  <2>2. cs' \in [Device -> CircleState] /\ joining' \in [Device -> Join]
    BY <1>0, <1>5, <2>1 DEF TypeOK, JoinKey, Join
  <2>3. QED
    BY <1>5, <2>2 DEF TypeOK, JoinKey, hubVars, histVars
<1>6. CASE CheckOwnGrants(d) \/ JoinEnds(d)
  <2>0. [joining[d] EXCEPT !.pc = "storing"] \in Join
    BY <1>0 DEF Join
  <2>1. joining' \in [Device -> Join]
    BY <1>0, <1>6, <2>0 DEF TypeOK, CheckOwnGrants, JoinEnds
  <2>2. QED
    BY <1>6, <2>1 DEF TypeOK, CheckOwnGrants, JoinEnds, hubVars, histVars
<1>7. CASE StoreOwnGrant(d)
  <2>1. PICK x \in joining[d].others :
          /\ grants' = WithGrant(joining[d].key, {x})
          /\ joining' = [joining EXCEPT ![d].others = @ \ {x}]
    BY <1>7 DEF StoreOwnGrant
  <2>2. joining[d].key \in Key /\ {x} \in SUBSET Device
    BY <1>0 DEF Join
  <2>3. grants' \in [Device -> SUBSET Key] /\ OneGrantEach(grants')
    BY <2>1, <2>2, WithGrantType DEF TypeOK, OneGrantEach
  <2>4. joining' \in [Device -> Join]
    BY <1>0, <2>1 DEF TypeOK, Join
  <2>5. QED
    BY <1>7, <2>3, <2>4 DEF TypeOK, StoreOwnGrant, OneGrantEach, histVars
<1>8. QED
  BY <1>1, <1>2, <1>3, <1>4, <1>5, <1>6, <1>7 DEF Invite

LEMMA SwitchTypeOK ==
  ASSUME TypeOK, NEW c \in Call, Switch(c)
  PROVE  TypeOK'
<1>0. call[c] \in Removal /\ call[c].old \in Nat /\ call[c].cred \in Nat /\ call[c].key.gen \in Nat
  BY DEF TypeOK, Removal, Key
<1>1. CASE CheckGeneration(c)
  <2>1. call' \in [Call -> Removal]
    BY <1>0, <1>1, RemovalType, RotatingPcs DEF TypeOK, CheckGeneration
  <2>2. QED
    BY <1>1, <2>1 DEF TypeOK, CheckGeneration, hubVars, histVars
<1>2. CASE KeyCreate(c)
  <2>1. credsMade + 1 \in Nat /\ cred \in Nat
    BY DEF TypeOK
  <2>2. [call[c] EXCEPT !.pc = "made", !.old = cred, !.cred = credsMade + 1] \in Removal
    BY <1>0, <2>1, CredentialRemovalType, RotatingPcs
  <2>3. call' \in [Call -> Removal]
    BY <1>2, <2>2 DEF TypeOK, KeyCreate
  <2>4. QED
    BY <1>2, <2>1, <2>3 DEF TypeOK, KeyCreate, histVars
<1>3. CASE CircleSetS3(c)
  <2>1. call' \in [Call -> Removal]
    BY <1>0, <1>3, RemovalType, RotatingPcs DEF TypeOK, CircleSetS3
  <2>2. QED
    BY <1>0, <1>3, <2>1 DEF TypeOK, CircleSetS3
<1>4. CASE KeyDelete(c)
  <2>1. call' \in [Call -> Removal]
    BY <1>0, <1>4, RemovalType, RotatingPcs DEF TypeOK, KeyDelete
  <2>2. QED
    BY <1>0, <1>4, <2>1 DEF TypeOK, KeyDelete
<1>5. CASE SwitchGeneration(c)
  <2>1. call' \in [Call -> Removal]
    BY <1>0, <1>5, RemovalType, RotatingPcs DEF TypeOK, SwitchGeneration
  <2>2. QED
    BY <1>0, <1>5, <2>1 DEF TypeOK, SwitchGeneration
<1>6. CASE DropOldGrants(c)
  <2>1. call' \in [Call -> Removal]
    BY <1>0, <1>6, RemovalType, RotatingPcs DEF TypeOK, DropOldGrants
  <2>2. grants' \in [Device -> SUBSET Key] /\ OneGrantEach(grants')
    BY <1>6 DEF TypeOK, DropOldGrants, OneGrantEach
  <2>3. QED
    BY <1>6, <2>1, <2>2 DEF TypeOK, DropOldGrants, OneGrantEach, histVars
<1>7. QED
  BY <1>1, <1>2, <1>3, <1>4, <1>5, <1>6 DEF Switch

LEMMA RemoveTypeOK ==
  ASSUME TypeOK, NEW c \in Call, Remove(c)
  PROVE  TypeOK'
<1>0. call[c] \in Removal /\ call[c].old \in Nat
  BY DEF TypeOK, Removal
<1>1. ASSUME NEW d \in Device, NEW p \in Person, RemoveAtHub(c, d, p)
      PROVE  TypeOK'
  <2>1. revoked' \subseteq Device
    BY <1>1 DEF TypeOK, RemoveAtHub, DevicesOf
  <2>2. members' \subseteq Person
    BY <1>1 DEF TypeOK, RemoveAtHub
  <2>3. grants' \in [Device -> SUBSET Key] /\ OneGrantEach(grants')
    BY <1>1 DEF TypeOK, RemoveAtHub, OneGrantEach
  <2>4. CirclePeople(members', revoked') \subseteq Device
    BY DEF CirclePeople, DevicesOf
  <2>5. call' \in [Call -> Removal]
    BY <1>1, <2>4, NoKeyType DEF TypeOK, RemoveAtHub, Removal
  <2>6. \A x \in Device : {cs[x].cred, beat[x].cred, joining[x].cred} \in SUBSET Nat
    BY DEF TypeOK, CircleState, Bundle, Join
  <2>7. left' \in [Device -> [gen : Nat, creds : SUBSET Nat]]
    BY <1>1, <2>6 DEF TypeOK, RemoveAtHub
  <2>8. QED
    BY <1>1, <2>1, <2>2, <2>3, <2>5, <2>7 DEF TypeOK, RemoveAtHub, OneGrantEach
<1>2. CASE StartRotate(c)
  <2>1. [gen |-> gen + 1, id |-> made + 1] \in Key
    BY DEF TypeOK, Key
  <2>2. [call[c] EXCEPT !.pc = "copying",
                        !.key = [gen |-> gen + 1, id |-> made + 1]] \in Removal
    BY <2>1, KeyedRemovalType, RotatingPcs DEF TypeOK
  <2>3. call' = [call EXCEPT ![c] = [call[c] EXCEPT !.pc = "copying",
                    !.key = [gen |-> gen + 1, id |-> made + 1]]]
    BY <1>2 DEF StartRotate, TypeOK
  <2>4. call' \in [Call -> Removal]
    BY <2>2, <2>3 DEF TypeOK
  <2>5. QED
    BY <1>2, <2>4 DEF TypeOK, StartRotate, hubVars, histVars
<1>3. CASE PostGrant(c)
  <2>1. PICK x \in call[c].people :
          /\ grants' = WithGrant(call[c].key, {x})
          /\ call' = [call EXCEPT ![c].people = @ \ {x}]
    BY <1>3 DEF PostGrant
  <2>2. call[c].key \in Key /\ {x} \in SUBSET Device
    BY <1>0 DEF Removal
  <2>3. grants' \in [Device -> SUBSET Key] /\ OneGrantEach(grants')
    BY <2>1, <2>2, WithGrantType DEF TypeOK, OneGrantEach
  <2>4. call' \in [Call -> Removal]
    BY <1>0, <2>1 DEF TypeOK, Removal
  <2>5. QED
    BY <1>3, <2>3, <2>4 DEF TypeOK, PostGrant, OneGrantEach, histVars
<1>4. CASE GrantsPosted(c)
  <2>1. call' \in [Call -> Removal]
    BY <1>0, <1>4, RemovalType, RotatingPcs DEF TypeOK, GrantsPosted
  <2>2. QED
    BY <1>4, <2>1 DEF TypeOK, GrantsPosted, hubVars, histVars
<1>5. CASE Switch(c)
  BY <1>5, SwitchTypeOK
<1>6. CASE LocalSwitch(c)
  <2>1. call[c].dev \in Device /\ call[c].key \in Key
    BY DEF TypeOK, Removal
  <2>2. Rekeyed(cs[call[c].dev], call[c].key) \in CircleState
    BY <2>1, RekeyedType DEF TypeOK
  <2>3. cs' \in [Device -> CircleState] /\ call' \in [Call -> Removal]
    BY IdleType, <1>6, <2>1, <2>2 DEF TypeOK, LocalSwitch
  <2>4. QED
    BY <1>6, <2>3 DEF TypeOK, LocalSwitch, hubVars, histVars
<1>7. CASE RemovalFails(c)
  <2>1. call' \in [Call -> Removal]
    BY IdleType, <1>7 DEF TypeOK, RemovalFails
  <2>2. QED
    BY <1>0, <1>7, <2>1 DEF TypeOK, RemovalFails
<1>8. QED
  BY <1>1, <1>2, <1>3, <1>4, <1>5, <1>6, <1>7 DEF Remove

LEMMA NextTypeOK == TypeOK /\ [Next]_vars => TypeOK'
<1>1. ASSUME TypeOK, Next PROVE TypeOK'
  BY <1>1, CreateTypeOK, HeartbeatTypeOK, InviteTypeOK, RemoveTypeOK DEF Next
<1>2. ASSUME TypeOK, UNCHANGED vars PROVE TypeOK'
  BY <1>2 DEF TypeOK, vars, hubVars, histVars
<1>3. QED
  BY <1>1, <1>2

(* The state stays well typed, and no two grants of one generation are ever *)
(* stored for one computer, through every heartbeat, join and re-key.       *)
THEOREM TypeCorrect == Spec => []TypeOK
BY InitTypeOK, NextTypeOK, PTL DEF Spec

-----------------------------------------------------------------------------
(* What a step of a removal makes of the removal: it is over, it begins,   *)
(* its re-key begins, or its re-key goes on, with the same key.            *)
LEMMA CallStep ==
  ASSUME TypeOK, NEW c \in Call, Remove(c)
  PROVE  \/ call'[c].pc = "idle" /\ call'[c] = Idle
         \/ /\ \E d \in Device, p \in Person : RemoveAtHub(c, d, p)
            /\ call'[c].pc = "removed" /\ call'[c].dev \in OwnerDevices
            /\ call'[c].people = CirclePeople(members', revoked')
         \/ /\ StartRotate(c) /\ call[c].pc = "removed" /\ call'[c].pc = "copying"
            /\ call'[c].key = [gen |-> gen + 1, id |-> made + 1]
            /\ call'[c].dev = call[c].dev /\ call'[c].people = call[c].people
         \/ /\ PostGrant(c) \/ GrantsPosted(c) \/ Switch(c)
            /\ call[c].pc \in RotatingPc /\ call'[c].pc \in RotatingPc
            /\ call'[c].key = call[c].key /\ call'[c].dev = call[c].dev
<1>0. call \in [Call -> Removal] /\ call[c] \in Removal
  BY DEF TypeOK
<1>1. ASSUME NEW d \in Device, NEW p \in Person, RemoveAtHub(c, d, p)
      PROVE  /\ call'[c].pc = "removed" /\ call'[c].dev \in OwnerDevices
             /\ call'[c].people = CirclePeople(members', revoked')
  BY <1>0, <1>1 DEF RemoveAtHub
<1>2. CASE LocalSwitch(c)
  BY <1>0, <1>2, IdleType DEF LocalSwitch
<1>3. CASE RemovalFails(c)
  BY <1>0, <1>3, IdleType DEF RemovalFails
<1>4. CASE StartRotate(c)
  BY <1>0, <1>4 DEF StartRotate, Removal
<1>5. CASE PostGrant(c)
  <2>1. PICK x \in call[c].people : call' = [call EXCEPT ![c].people = @ \ {x}]
    BY <1>5 DEF PostGrant
  <2>2. /\ call[c].pc = "copying" /\ call'[c].pc = call[c].pc /\ call'[c].key = call[c].key
        /\ call'[c].dev = call[c].dev
    BY <1>0, <1>5, <2>1 DEF PostGrant, Removal
  <2>3. QED
    BY <1>5, <2>2, RotatingPcs
<1>6. CASE GrantsPosted(c)
  BY <1>0, <1>6, RotatingPcs DEF GrantsPosted, Removal
<1>7. CASE Switch(c)
  <2>1. CASE CheckGeneration(c)
    BY <1>0, <1>7, <2>1, RotatingPcs DEF CheckGeneration, Removal
  <2>2. CASE KeyCreate(c)
    BY <1>0, <1>7, <2>2, RotatingPcs DEF KeyCreate, Removal
  <2>3. CASE CircleSetS3(c)
    BY <1>0, <1>7, <2>3, RotatingPcs DEF CircleSetS3, Removal
  <2>4. CASE KeyDelete(c)
    BY <1>0, <1>7, <2>4, RotatingPcs DEF KeyDelete, Removal
  <2>5. CASE SwitchGeneration(c)
    BY <1>0, <1>7, <2>5, RotatingPcs DEF SwitchGeneration, Removal
  <2>6. CASE DropOldGrants(c)
    BY <1>0, <1>7, <2>6, RotatingPcs DEF DropOldGrants, Removal
  <2>7. QED
    BY <1>7, <2>1, <2>2, <2>3, <2>4, <2>5, <2>6 DEF Switch
<1>8. QED
  BY <1>1, <1>2, <1>3, <1>4, <1>5, <1>6, <1>7 DEF Remove

-----------------------------------------------------------------------------
(* What a step makes of a CircleState: one of the updates of the model, by *)
(* an action of its own computer or at the end of its own re-key.          *)

LEMMA StateStep ==
  ASSUME TypeOK, Next, NEW x \in Device, cs'[x] # cs[x]
  PROVE  \/ CreateLocal(x) /\ cs'[x] = Founded(cs[x], [gen |-> 1, id |-> made + 1])
         \/ ApplyRemoval(x) /\ cs'[x] = [cs[x] EXCEPT !.removed = cs[x].known]
         \/ ApplySettings(x) /\ cs'[x] = WithSettings(cs[x], beat[x])
         \/ ApplyKey(x) /\ cs'[x] = Bundled(cs[x], beat[x])
         \/ JoinSettings(x) /\ cs'[x] = WithSettings(cs[x], joining[x])
         \/ JoinKey(x) /\ cs'[x] = Joined(cs[x], joining[x])
         \/ \E c \in Call : /\ LocalSwitch(c) /\ call[c].dev = x
                            /\ cs'[x] = Rekeyed(cs[x], call[c].key)
<1>0. cs \in [Device -> CircleState]
  BY DEF TypeOK
<1>1. ASSUME NEW d \in Device, Create(d)
      PROVE  CreateLocal(x) /\ cs'[x] = Founded(cs[x], [gen |-> 1, id |-> made + 1])
  <2>1. CASE CreateLocal(d)
    <3>1. d = x
      BY <1>0, <2>1 DEF CreateLocal
    <3>2. QED
      BY <1>0, <2>1, <3>1 DEF CreateLocal
  <2>2. CASE CreateAtHub(d) \/ CreateFails(d)
    BY <2>2 DEF CreateAtHub, CreateFails
  <2>3. QED
    BY <1>1, <2>1, <2>2 DEF Create
<1>2. ASSUME NEW d \in Device, Heartbeat(d)
      PROVE  \/ ApplyRemoval(x) /\ cs'[x] = [cs[x] EXCEPT !.removed = cs[x].known]
             \/ ApplySettings(x) /\ cs'[x] = WithSettings(cs[x], beat[x])
             \/ ApplyKey(x) /\ cs'[x] = Bundled(cs[x], beat[x])
  <2>1. d = x
    BY <1>2, HeartbeatFrame
  <2>2. CASE Bundling(d) \/ HeartbeatFails(d)
    BY <2>2 DEF Bundling, HeartbeatMember, HeartbeatRow, HeartbeatCredential, HeartbeatGrants,
                HeartbeatFails
  <2>3. CASE ApplyRemoval(d) \/ ApplySettings(d) \/ ApplyKey(d)
    BY <1>0, <2>1, <2>3 DEF ApplyRemoval, ApplySettings, ApplyKey
  <2>4. QED
    BY <1>2, <2>2, <2>3 DEF Heartbeat
<1>3. ASSUME NEW d \in Device, Invite(d)
      PROVE  \/ JoinSettings(x) /\ cs'[x] = WithSettings(cs[x], joining[x])
             \/ JoinKey(x) /\ cs'[x] = Joined(cs[x], joining[x])
  <2>1. d = x
    BY <1>3, InviteFrame
  <2>2. CASE JoinSettings(d) \/ JoinKey(d)
    BY <1>0, <2>1, <2>2 DEF JoinSettings, JoinKey
  <2>3. CASE ~JoinSettings(d) /\ ~JoinKey(d)
    BY <1>3, <2>3 DEF Invite, MakeLink, JoinAtHub, Answering, JoinMember, JoinRow, JoinCredential,
         JoinOthers, CheckOwnGrants, StoreOwnGrant, JoinEnds
  <2>4. QED
    BY <2>2, <2>3
<1>4. ASSUME NEW c \in Call, Remove(c)
      PROVE  LocalSwitch(c) /\ call[c].dev = x /\ cs'[x] = Rekeyed(cs[x], call[c].key)
  <2>1. LocalSwitch(c)
    BY <1>4, RemoveFrame
  <2>2. call[c].dev = x
    BY <1>0, <2>1 DEF LocalSwitch
  <2>3. QED
    BY <1>0, <2>1, <2>2 DEF LocalSwitch
<1>5. QED
  BY <1>1, <1>2, <1>3, <1>4 DEF Next

-----------------------------------------------------------------------------
(* The key of the tree that is synced.  SavedWithTheTreesKey is not        *)
(* inductive: createCircle stores a key over an entry a heartbeat may have  *)
(* made, without looking at the entry's generation.  It is sound because    *)
(* no key exists anywhere until it does, so that entry needs a key.  And    *)
(* the second half of an update works on what its first half stored.        *)

(* Nothing holds a key, and nothing that carries one is under way.          *)
Keyless ==
    /\ \A d \in Device : /\ cs[d].key = NoKey /\ grants[d] = {}
                         /\ beat[d].grant = NoKey /\ joining[d].pc = "none"
    /\ links = {}
    /\ \A c \in Call : call[c].pc \notin RotatingPc

(* While a computer waits for its circle, it is the only one, and there is  *)
(* no key; nor is there one, or a member, before the circle exists.         *)
FoundingInv ==
    /\ gen = 0 => /\ creating = {} /\ members = {}
                  /\ \A d \in Device : ~beat[d].member
    /\ \A d, e \in creating : d = e
    /\ gen = 0 \/ creating # {} => Keyless

(* Every generation that is stored or on its way is one the circle had.     *)
AnsweredPc == {"row", "credential", "reply", "taking", "granting", "storing"}
PositiveInv ==
    /\ \A d \in Device :
          /\ cs[d].known => cs[d].gen > 0
          /\ beat[d].member /\ beat[d].pc \in AnsweredPc => beat[d].gen > 0
          /\ joining[d].pc \in AnsweredPc => joining[d].gen > 0
    /\ \A c \in Call : call[c].pc \in RotatingPc => call[c].key.gen > 0

(* A key a computer may use is of the generation it stores.                 *)
InStep(e) == e.known /\ ~e.needsKey => e.key.gen = e.gen

(* One update at a time, and its second half finds what its first stored.   *)
UpdateInv ==
    \A d \in Device :
       /\ beat[d].pc = "taking" => /\ joining[d].pc # "taking" /\ beat[d].member
                                   /\ cs[d].known /\ cs[d].gen = beat[d].gen
       /\ joining[d].pc = "taking" => cs[d].known /\ cs[d].gen = joining[d].gen
       /\ ~Updating(d) => InStep(cs[d])

SyncInv == FoundingInv /\ PositiveInv /\ UpdateInv

LEMMA InitSyncInv == Init => SyncInv
<1>1. SUFFICES ASSUME Init PROVE SyncInv
  OBVIOUS
<1>2. \A d \in Device : beat[d] = NoBundle /\ joining[d] = NoJoin /\ grants[d] = {}
  BY <1>1 DEF Init
<1>3. \A c \in Call : call[c].pc \notin RotatingPc
  BY <1>1, IdleType, RotatingPcs DEF Init
<1>4. FoundingInv
  <2>1. CASE Founders = {}
    <3>1. Keyless
      BY <1>1, <1>2, <1>3, <2>1 DEF Init, Keyless, Unknown, NoBundle, NoJoin
    <3>2. QED
      BY <1>1, <1>2, <2>1, <3>1 DEF Init, FoundingInv, NoBundle
  <2>2. CASE Founders # {}
    BY <1>1, <2>2 DEF Init, FoundingInv
  <2>3. QED
    BY <2>1, <2>2
<1>5. \A d \in Device : InStep(cs[d]) /\ (cs[d].known => cs[d].gen > 0)
  BY <1>1 DEF Init, InStep, Unknown, NoKey
<1>6. QED
  BY <1>2, <1>3, <1>4, <1>5 DEF SyncInv, PositiveInv, UpdateInv, NoBundle, NoJoin, AnsweredPc

(* No key appears anywhere except on the founder's computer.               *)
LEMMA KeylessStays ==
  ASSUME TypeOK, Keyless, Next, \A d \in Device : ~CreateLocal(d)
  PROVE  Keyless'
<1>1. ASSUME NEW d \in Device, Create(d)
      PROVE  Keyless'
  BY <1>1 DEF Create, CreateAtHub, CreateFails, Keyless, hubVars
<1>2. ASSUME NEW d \in Device, Heartbeat(d)
      PROVE  Keyless'
  <2>0. cs[d] \in CircleState /\ beat[d] \in Bundle /\ cs[d].key = NoKey /\ beat[d].grant = NoKey
    BY DEF TypeOK, Keyless
  <2>1. /\ UNCHANGED <<hubVars, creating, joining, call>>
        /\ \A x \in Device \ {d} : beat'[x] = beat[x] /\ cs'[x] = cs[x]
    BY <1>2, HeartbeatFrame
  <2>2. beat'[d].grant = NoKey
    <3>1. CurrentGrant(d) = NoKey
      BY DEF CurrentGrant, Keyless
    <3>2. CASE Bundling(d)
      <4>1. CASE HeartbeatMember(d)
        BY <4>1 DEF HeartbeatMember, TypeOK, NoBundle
      <4>2. CASE HeartbeatRow(d) \/ HeartbeatCredential(d) \/ HeartbeatGrants(d)
        BY <2>0, <3>1, <4>2 DEF HeartbeatRow, HeartbeatCredential, HeartbeatGrants, TypeOK, Bundle
      <4>3. QED
        BY <3>2, <4>1, <4>2 DEF Bundling
    <3>3. CASE HeartbeatFails(d) \/ ApplyRemoval(d) \/ ApplySettings(d) \/ ApplyKey(d)
      BY <2>0, <3>3 DEF HeartbeatFails, ApplyRemoval, ApplySettings, ApplyKey, TypeOK, Bundle, NoBundle
    <3>4. QED
      BY <1>2, <3>2, <3>3 DEF Heartbeat
  <2>3. cs'[d].key = NoKey
    <3>1. /\ Bundled(cs[d], beat[d]).key = NoKey /\ WithSettings(cs[d], beat[d]).key = NoKey
          /\ [cs[d] EXCEPT !.removed = cs[d].known].key = NoKey
      BY <2>0 DEF Bundled, WithSettings, CircleState, Bundle
    <3>2. \A c \in Call : ~LocalSwitch(c)
      BY RotatingPcs DEF LocalSwitch, Keyless
    <3>3. ~JoinSettings(d) /\ ~JoinKey(d) /\ ~CreateLocal(d)
      BY DEF JoinSettings, JoinKey, Keyless
    <3>4. QED
      BY <2>0, <3>1, <3>2, <3>3, StateStep
  <2>4. QED
    BY <2>1, <2>2, <2>3 DEF Keyless, hubVars
<1>3. ASSUME NEW d \in Device, Invite(d)
      PROVE  Keyless'
  BY <1>3 DEF Invite, MakeLink, JoinAtHub, Answering, JoinMember, JoinRow, JoinCredential, JoinOthers,
       JoinSettings, JoinKey, CheckOwnGrants, StoreOwnGrant, JoinEnds, Keyless
<1>4. ASSUME NEW c \in Call, Remove(c)
      PROVE  Keyless'
  <2>1. call[c].pc \notin RotatingPc /\ call \in [Call -> Removal]
    BY DEF Keyless, TypeOK
  <2>2. ASSUME NEW d \in Device, NEW p \in Person, RemoveAtHub(c, d, p)
        PROVE  Keyless'
    BY <2>1, <2>2, RotatingPcs DEF RemoveAtHub, Keyless
  <2>3. CASE RemovalFails(c)
    BY <2>1, <2>3, IdleType, RotatingPcs DEF RemovalFails, Keyless
  <2>4. ~StartRotate(c)
    <3>1. call[c].dev \in Device
      BY <2>1 DEF Removal
    <3>2. QED
      BY <3>1 DEF StartRotate, Keyless
  <2>5. QED
    BY <1>4, <2>1, <2>2, <2>3, <2>4, RotatingPcs DEF Remove, PostGrant, GrantsPosted, Switch,
         CheckGeneration, KeyCreate, CircleSetS3, KeyDelete, SwitchGeneration, DropOldGrants, LocalSwitch
<1>5. QED
  BY <1>1, <1>2, <1>3, <1>4 DEF Next

LEMMA FoundingStep ==
  ASSUME TypeOK, FoundingInv, PositiveInv, Next
  PROVE  FoundingInv'
<1>1. ASSUME NEW d \in Device, CreateAtHub(d)
      PROVE  FoundingInv'
  <2>1. \A x \in Device : ~CreateLocal(x)
    BY <1>1 DEF FoundingInv, CreateAtHub, CreateLocal
  <2>2. Keyless'
    BY <1>1, <2>1, KeylessStays DEF FoundingInv, CreateAtHub
  <2>3. QED
    BY <1>1, <2>2 DEF FoundingInv, CreateAtHub
<1>2. ASSUME NEW d \in Device, CreateLocal(d)
      PROVE  FoundingInv'
  <2>1. gen' # 0 /\ creating' = {}
    BY <1>2 DEF FoundingInv, CreateLocal, hubVars
  <2>2. QED
    BY <2>1 DEF FoundingInv
<1>3. ASSUME \A d \in Device : ~CreateAtHub(d) /\ ~CreateLocal(d)
      PROVE  FoundingInv'
  <2>1. /\ creating' \subseteq creating
        /\ gen' = 0 => gen = 0
        /\ gen' = 0 => members' = {} /\ \A d \in Device : ~beat'[d].member
    <3>1. ASSUME NEW d \in Device, Create(d)
          PROVE  creating' \subseteq creating /\ UNCHANGED <<gen, members, beat>>
      BY <1>3, <3>1 DEF Create, CreateFails, hubVars
    <3>2. ASSUME NEW d \in Device, Heartbeat(d)
          PROVE  /\ UNCHANGED <<creating, gen, members>>
                 /\ gen = 0 => \A x \in Device : ~beat'[x].member
      <4>1. /\ UNCHANGED <<creating, gen, members>>
            /\ \A x \in Device \ {d} : beat'[x] = beat[x]
        BY <3>2, HeartbeatFrame DEF hubVars
      <4>2. gen = 0 => ~beat'[d].member
        <5>1. CASE HeartbeatMember(d)
          BY <5>1 DEF HeartbeatMember, TypeOK, FoundingInv, NoBundle
        <5>2. CASE HeartbeatRow(d) \/ HeartbeatCredential(d) \/ HeartbeatGrants(d) \/ ApplySettings(d)
          BY <5>2 DEF HeartbeatRow, HeartbeatCredential, HeartbeatGrants, ApplySettings, TypeOK,
                      Bundle, FoundingInv
        <5>3. CASE HeartbeatFails(d) \/ ApplyRemoval(d) \/ ApplyKey(d)
          BY <5>3 DEF HeartbeatFails, ApplyRemoval, ApplyKey, TypeOK, NoBundle
        <5>4. QED
          BY <3>2, <5>1, <5>2, <5>3 DEF Heartbeat, Bundling
      <4>3. QED
        BY <4>1, <4>2 DEF FoundingInv
    <3>3. ASSUME NEW d \in Device, Invite(d)
          PROVE  UNCHANGED <<creating, gen, beat>> /\ (gen = 0 => members' = members)
      BY <3>3, InviteFrame DEF FoundingInv, Keyless
    <3>4. ASSUME NEW c \in Call, Remove(c)
          PROVE  UNCHANGED <<creating, beat>> /\ (gen' = gen \/ gen' > 0) /\ members' \subseteq members
      BY <3>4, RemoveFrame, RotatingPcs DEF SwitchGeneration, PositiveInv
    <3>5. QED
      BY <3>1, <3>2, <3>3, <3>4 DEF Next, FoundingInv
  <2>2. gen' = 0 \/ creating' # {} => Keyless'
    BY <1>3, <2>1, KeylessStays DEF FoundingInv
  <2>3. QED
    BY <2>1, <2>2 DEF FoundingInv
<1>4. QED
  BY <1>1, <1>2, <1>3

LEMMA PositiveStep ==
  ASSUME TypeOK, SyncInv, Next
  PROVE  PositiveInv'
<1>0. /\ gen \in Nat /\ call \in [Call -> Removal]
      /\ \A d \in Device : cs[d] \in CircleState /\ beat[d] \in Bundle /\ joining[d] \in Join
  BY DEF TypeOK
<1>1. ASSUME NEW x \in Device, cs'[x].known
      PROVE  cs'[x].gen > 0
  <2>1. CASE cs'[x] = cs[x]
    BY <1>1, <2>1 DEF SyncInv, PositiveInv
  <2>2. CASE CreateLocal(x) /\ cs'[x] = Founded(cs[x], [gen |-> 1, id |-> made + 1])
    BY <1>0, <2>2 DEF Founded, CircleState, SyncInv, PositiveInv
  <2>3. CASE ApplyRemoval(x) /\ cs'[x] = [cs[x] EXCEPT !.removed = cs[x].known]
    BY <1>0, <1>1, <2>3 DEF CircleState, SyncInv, PositiveInv
  <2>4. CASE ApplySettings(x) /\ cs'[x] = WithSettings(cs[x], beat[x])
    <3>1. cs'[x].gen = beat[x].gen
      BY <1>0, <2>4, WithSettingsFields
    <3>2. beat[x].member /\ beat[x].pc \in AnsweredPc
      BY <2>4 DEF ApplySettings, AnsweredPc
    <3>3. QED
      BY <3>1, <3>2 DEF SyncInv, PositiveInv
  <2>5. CASE ApplyKey(x) /\ cs'[x] = Bundled(cs[x], beat[x])
    BY <1>0, <1>1, <2>5, BundledFields DEF SyncInv, PositiveInv
  <2>6. CASE JoinSettings(x) /\ cs'[x] = WithSettings(cs[x], joining[x])
    <3>1. cs'[x].gen = joining[x].gen
      BY <1>0, <2>6, WithSettingsFields
    <3>2. joining[x].pc \in AnsweredPc
      BY <2>6 DEF JoinSettings, AnsweredPc
    <3>3. QED
      BY <3>1, <3>2 DEF SyncInv, PositiveInv
  <2>7. CASE JoinKey(x) /\ cs'[x] = Joined(cs[x], joining[x])
    BY <1>0, <1>1, <2>7, JoinedFields DEF SyncInv, PositiveInv
  <2>8. ASSUME NEW c \in Call, LocalSwitch(c), cs'[x] = Rekeyed(cs[x], call[c].key)
        PROVE  cs'[x].gen > 0
    <3>1. call[c].key \in Key /\ call[c].pc \in RotatingPc
      BY <1>0, <2>8, RotatingPcs DEF Removal, LocalSwitch
    <3>2. cs'[x].gen = call[c].key.gen
      BY <1>0, <2>8, <3>1, RekeyedFields
    <3>3. QED
      BY <3>1, <3>2 DEF SyncInv, PositiveInv
  <2>9. QED
    BY <2>1, <2>2, <2>3, <2>4, <2>5, <2>6, <2>7, <2>8, StateStep
<1>2. ASSUME NEW d \in Device, Create(d)
      PROVE  UNCHANGED <<beat, joining, call>>
  BY <1>2, CreateFrame
<1>3. ASSUME NEW d \in Device, Heartbeat(d)
      PROVE  /\ UNCHANGED <<joining, call>>
             /\ \A x \in Device : beat'[x].member /\ beat'[x].pc \in AnsweredPc => beat'[x].gen > 0
  <2>1. UNCHANGED <<joining, call>> /\ \A x \in Device \ {d} : beat'[x] = beat[x]
    BY <1>3, HeartbeatFrame
  <2>2. beat'[d].member /\ beat'[d].pc \in AnsweredPc => beat'[d].gen > 0
    <3>1. CASE HeartbeatMember(d)
      BY <3>1 DEF HeartbeatMember, TypeOK, NoBundle, AnsweredPc
    <3>2. CASE HeartbeatRow(d)
      BY <1>0, <3>2 DEF HeartbeatRow, TypeOK, Bundle, SyncInv, FoundingInv
    <3>3. CASE HeartbeatCredential(d) \/ HeartbeatGrants(d) \/ ApplySettings(d)
      <4>1. /\ beat'[d].gen = beat[d].gen /\ beat'[d].member = beat[d].member
            /\ beat[d].pc \in {"row", "credential", "reply"}
        BY <1>0, <3>3 DEF HeartbeatCredential, HeartbeatGrants, ApplySettings, TypeOK, Bundle
      <4>2. QED
        BY <4>1 DEF SyncInv, PositiveInv, AnsweredPc
    <3>4. CASE HeartbeatFails(d) \/ ApplyRemoval(d) \/ ApplyKey(d)
      BY <3>4 DEF HeartbeatFails, ApplyRemoval, ApplyKey, TypeOK, NoBundle
    <3>5. QED
      BY <1>3, <3>1, <3>2, <3>3, <3>4 DEF Heartbeat, Bundling
  <2>3. QED
    BY <2>1, <2>2 DEF SyncInv, PositiveInv
<1>4. ASSUME NEW d \in Device, Invite(d)
      PROVE  /\ UNCHANGED <<beat, call>>
             /\ \A x \in Device : joining'[x].pc \in AnsweredPc => joining'[x].gen > 0
  <2>1. UNCHANGED <<beat, call>> /\ \A x \in Device \ {d} : joining'[x] = joining[x]
    BY <1>4, InviteFrame
  <2>2. joining'[d].pc \in AnsweredPc => joining'[d].gen > 0
    <3>1. CASE MakeLink(d)
      BY <3>1 DEF MakeLink, SyncInv, PositiveInv
    <3>2. CASE \E k \in links : JoinAtHub(d, k)
      BY <3>2 DEF JoinAtHub, TypeOK, NoJoin, AnsweredPc
    <3>3. CASE JoinMember(d)
      BY <1>0, <3>3 DEF JoinMember, TypeOK, Join, NoJoin, AnsweredPc
    <3>4. CASE JoinRow(d)
      <4>1. gen > 0
        BY <1>0, <3>4 DEF JoinRow, SyncInv, FoundingInv, Keyless
      <4>2. QED
        BY <1>0, <3>4, <4>1 DEF JoinRow, TypeOK, Join
    <3>5. CASE JoinCredential(d) \/ JoinOthers(d) \/ JoinSettings(d) \/ JoinKey(d) \/ StoreOwnGrant(d)
      <4>1. joining[d].pc \in AnsweredPc
        BY <3>5 DEF JoinCredential, JoinOthers, JoinSettings, JoinKey, StoreOwnGrant, AnsweredPc
      <4>2. joining'[d].gen = joining[d].gen
        <5>1. CASE JoinCredential(d) \/ JoinOthers(d)
          BY <1>0, <5>1 DEF JoinCredential, JoinOthers, TypeOK, Join
        <5>2. CASE JoinSettings(d) \/ JoinKey(d)
          BY <1>0, <5>2 DEF JoinSettings, JoinKey, TypeOK, Join
        <5>3. CASE StoreOwnGrant(d)
          BY <1>0, <5>3 DEF StoreOwnGrant, TypeOK, Join
        <5>4. QED
          BY <3>5, <5>1, <5>2, <5>3
      <4>3. QED
        BY <4>1, <4>2 DEF SyncInv, PositiveInv
    <3>6. CASE CheckOwnGrants(d)
      <4>1. \/ joining'[d] = NoJoin
            \/ joining[d].pc \in AnsweredPc /\ joining'[d].gen = joining[d].gen
        BY <1>0, <3>6 DEF CheckOwnGrants, TypeOK, Join, AnsweredPc
      <4>2. QED
        BY <4>1 DEF SyncInv, PositiveInv, NoJoin, AnsweredPc
    <3>7. CASE JoinEnds(d)
      BY <3>7 DEF JoinEnds, TypeOK, NoJoin, AnsweredPc
    <3>8. QED
      BY <1>4, <3>1, <3>2, <3>3, <3>4, <3>5, <3>6, <3>7 DEF Invite, Answering
  <2>3. QED
    BY <2>1, <2>2 DEF SyncInv, PositiveInv
<1>5. ASSUME NEW c \in Call, Remove(c)
      PROVE  /\ UNCHANGED <<beat, joining>>
             /\ \A o \in Call : call'[o].pc \in RotatingPc => call'[o].key.gen > 0
  <2>1. UNCHANGED <<beat, joining>> /\ \A o \in Call \ {c} : call'[o] = call[o]
    BY <1>5, RemoveFrame
  <2>2. call'[c].pc \in RotatingPc => call'[c].key.gen > 0
    <3>1. call'[c].key.gen = gen + 1 => call'[c].key.gen > 0
      BY <1>0
    <3>2. QED
      BY <1>5, <3>1, CallStep, RotatingPcs DEF SyncInv, PositiveInv
  <2>3. QED
    BY <2>1, <2>2 DEF SyncInv, PositiveInv
<1>6. QED
  BY <1>1, <1>2, <1>3, <1>4, <1>5 DEF Next, SyncInv, PositiveInv

(* What each handler makes of a CircleState stays in step.                  *)
LEMMA BundledInStep ==
  ASSUME NEW e \in CircleState, NEW b \in Bundle, e.gen = b.gen
  PROVE  InStep(Bundled(e, b))
BY DEF InStep, Bundled, CircleState, Bundle, Key

LEMMA JoinedInStep ==
  ASSUME NEW e \in CircleState, NEW j \in Join, e.gen = j.gen
  PROVE  InStep(Joined(e, j))
BY DEF InStep, Joined, CircleState, Join, Key

LEMMA RekeyedInStep ==
  ASSUME NEW e \in CircleState, NEW k \in Key
  PROVE  InStep(Rekeyed(e, k))
BY DEF InStep, Rekeyed, CircleState, Key

(* A founder's entry made by a heartbeat has no key, so it needs one.       *)
LEMMA FoundedInStep ==
  ASSUME NEW e \in CircleState, NEW k \in Key, k.gen = 1,
         InStep(e), e.known => e.gen > 0, e.key = NoKey
  PROVE  InStep(Founded(e, k))
BY DEF InStep, Founded, CircleState, Key, NoKey

(* Which phase of an update a computer is in changes with its own state.    *)
LEMMA UpdateStep ==
  ASSUME TypeOK, SyncInv, Next
  PROVE  UpdateInv'
<1>0. \A d \in Device : cs[d] \in CircleState /\ beat[d] \in Bundle /\ joining[d] \in Join
  BY DEF TypeOK
<1>1. SUFFICES ASSUME NEW x \in Device
               PROVE  /\ beat'[x].pc = "taking" => /\ joining'[x].pc # "taking" /\ beat'[x].member
                                                   /\ cs'[x].known /\ cs'[x].gen = beat'[x].gen
                      /\ joining'[x].pc = "taking" => cs'[x].known /\ cs'[x].gen = joining'[x].gen
                      /\ ~Updating(x)' => InStep(cs'[x])
  BY DEF UpdateInv
<1>2. CASE UNCHANGED <<cs[x], beat[x], joining[x]>>
  BY <1>2 DEF SyncInv, UpdateInv, Updating
<1>3. ASSUME NEW d \in Device, Create(d)
      PROVE  beat' = beat /\ joining' = joining /\ (cs'[x] # cs[x] => InStep(cs'[x]) /\ ~Updating(x))
  <2>1. beat' = beat /\ joining' = joining
    BY <1>3, CreateFrame
  <2>2. ASSUME CreateLocal(x), cs'[x] = Founded(cs[x], [gen |-> 1, id |-> made + 1])
        PROVE  InStep(cs'[x]) /\ ~Updating(x)
    <3>1. ~Updating(x) /\ cs[x].key = NoKey
      BY <2>2 DEF CreateLocal, SyncInv, FoundingInv, Keyless
    <3>2. InStep(cs[x]) /\ (cs[x].known => cs[x].gen > 0)
      BY <3>1 DEF SyncInv, UpdateInv, PositiveInv
    <3>3. [gen |-> 1, id |-> made + 1] \in Key
      BY DEF TypeOK, Key
    <3>4. QED
      BY <1>0, <2>2, <3>1, <3>2, <3>3, FoundedInStep
  <2>3. CASE CreateLocal(d)
    <3>1. cs'[x] # cs[x] => x = d
      BY <2>3 DEF CreateLocal, TypeOK
    <3>2. x = d => cs'[x] = Founded(cs[x], [gen |-> 1, id |-> made + 1])
      BY <2>3 DEF CreateLocal, TypeOK
    <3>3. QED
      BY <2>1, <2>2, <2>3, <3>1, <3>2
  <2>4. CASE ~CreateLocal(d)
    BY <1>3, <2>1, <2>4 DEF Create, CreateAtHub, CreateFails
  <2>5. QED
    BY <2>3, <2>4
<1>4. CASE Heartbeat(x)
  <2>0. joining' = joining
    BY <1>4, HeartbeatFrame
  <2>1. CASE Bundling(x) \/ HeartbeatFails(x)
    <3>1. cs' = cs /\ beat[x].pc # "taking" /\ beat'[x].pc # "taking"
      <4>1. CASE HeartbeatMember(x)
        BY <4>1 DEF HeartbeatMember, TypeOK, NoBundle
      <4>2. CASE HeartbeatRow(x) \/ HeartbeatCredential(x) \/ HeartbeatGrants(x) \/ HeartbeatFails(x)
        BY <1>0, <4>2 DEF HeartbeatRow, HeartbeatCredential, HeartbeatGrants, HeartbeatFails,
                          TypeOK, Bundle, NoBundle
      <4>3. QED
        BY <2>1, <4>1, <4>2 DEF Bundling
    <3>2. QED
      BY <2>0, <3>1 DEF SyncInv, UpdateInv, Updating
  <2>2. CASE ApplyRemoval(x)
    <3>1. /\ ~Updating(x) /\ beat'[x] = NoBundle
          /\ cs'[x] = [cs[x] EXCEPT !.removed = cs[x].known]
      BY <2>2 DEF ApplyRemoval, TypeOK
    <3>2. InStep(cs'[x])
      BY <1>0, <3>1 DEF SyncInv, UpdateInv, InStep, CircleState
    <3>3. QED
      BY <2>0, <3>1, <3>2 DEF Updating, NoBundle
  <2>3. CASE ApplySettings(x)
    <3>1. /\ ~Updating(x) /\ beat'[x] = [beat[x] EXCEPT !.pc = "taking"] /\ beat[x].member
          /\ cs'[x] = WithSettings(cs[x], beat[x])
      BY <2>3 DEF ApplySettings, TypeOK
    <3>2. /\ cs'[x].known /\ cs'[x].gen = beat[x].gen
          /\ beat'[x].pc = "taking" /\ beat'[x].gen = beat[x].gen /\ beat'[x].member
      BY <1>0, <3>1, WithSettingsFields DEF Bundle
    <3>3. QED
      BY <2>0, <3>1, <3>2 DEF Updating
  <2>4. CASE ApplyKey(x)
    <3>1. beat'[x] = NoBundle /\ cs'[x] = Bundled(cs[x], beat[x]) /\ beat[x].pc = "taking"
      BY <2>4 DEF ApplyKey, TypeOK
    <3>2. InStep(cs'[x]) /\ joining[x].pc # "taking"
      BY <1>0, <3>1, BundledInStep DEF SyncInv, UpdateInv
    <3>3. QED
      BY <2>0, <3>1, <3>2 DEF Updating, NoBundle
  <2>5. QED
    BY <1>4, <2>1, <2>2, <2>3, <2>4 DEF Heartbeat
<1>5. CASE Invite(x)
  <2>0. beat' = beat
    BY <1>5, InviteFrame
  <2>1. CASE JoinSettings(x)
    <3>1. /\ ~Updating(x) /\ joining'[x] = [joining[x] EXCEPT !.pc = "taking"]
          /\ cs'[x] = WithSettings(cs[x], joining[x])
      BY <2>1 DEF JoinSettings, TypeOK
    <3>2. /\ cs'[x].known /\ cs'[x].gen = joining[x].gen
          /\ joining'[x].pc = "taking" /\ joining'[x].gen = joining[x].gen
      BY <1>0, <3>1, WithSettingsFields DEF Join
    <3>3. QED
      BY <2>0, <3>1, <3>2 DEF Updating
  <2>2. CASE JoinKey(x)
    <3>1. /\ joining'[x] = [joining[x] EXCEPT !.pc = "granting"]
          /\ cs'[x] = Joined(cs[x], joining[x]) /\ joining[x].pc = "taking"
      BY <2>2 DEF JoinKey, TypeOK
    <3>2. InStep(cs'[x]) /\ joining'[x].pc = "granting" /\ beat[x].pc # "taking"
      BY <1>0, <3>1, JoinedInStep DEF SyncInv, UpdateInv, Join
    <3>3. QED
      BY <2>0, <3>2 DEF Updating
  <2>3. CASE ~JoinSettings(x) /\ ~JoinKey(x)
    <3>1. cs' = cs
      BY <1>5, <2>3 DEF Invite, MakeLink, JoinAtHub, Answering, JoinMember, JoinRow, JoinCredential,
           JoinOthers, CheckOwnGrants, StoreOwnGrant, JoinEnds
    <3>2. joining'[x] = joining[x] \/ (joining[x].pc # "taking" /\ joining'[x].pc # "taking")
      <4>1. CASE MakeLink(x)
        BY <4>1 DEF MakeLink
      <4>2. CASE JoinEnds(x)
        BY <4>2 DEF JoinEnds, TypeOK, NoJoin
      <4>3. CASE JoinMember(x)
        BY <1>0, <4>3 DEF JoinMember, TypeOK, Join, NoJoin
      <4>4. CASE CheckOwnGrants(x)
        BY <1>0, <4>4 DEF CheckOwnGrants, TypeOK, Join, NoJoin
      <4>5. CASE JoinRow(x)
        BY <1>0, <4>5 DEF JoinRow, TypeOK, Join
      <4>6. CASE JoinCredential(x)
        BY <1>0, <4>6 DEF JoinCredential, TypeOK, Join
      <4>7. CASE JoinOthers(x)
        BY <1>0, <4>7 DEF JoinOthers, TypeOK, Join
      <4>8. CASE StoreOwnGrant(x)
        BY <1>0, <4>8 DEF StoreOwnGrant, TypeOK, Join
      <4>9. ASSUME NEW k \in links, JoinAtHub(x, k)
            PROVE  joining[x].pc = "none" /\ joining'[x].pc = "joined"
        BY <4>9 DEF JoinAtHub, TypeOK, NoJoin
      <4>10. QED
        BY <1>5, <2>3, <4>1, <4>2, <4>3, <4>4, <4>5, <4>6, <4>7, <4>8, <4>9 DEF Invite, Answering
    <3>3. QED
      BY <2>0, <3>1, <3>2 DEF SyncInv, UpdateInv, Updating
  <2>4. QED
    BY <2>1, <2>2, <2>3
<1>6. ASSUME NEW d \in Device, d # x, Heartbeat(d) \/ Invite(d)
      PROVE  UNCHANGED <<cs[x], beat[x], joining[x]>>
  BY <1>6, HeartbeatFrame, InviteFrame
<1>7. ASSUME NEW c \in Call, Remove(c)
      PROVE  beat' = beat /\ joining' = joining /\ (cs'[x] # cs[x] => InStep(cs'[x]) /\ ~Updating(x))
  <2>1. beat' = beat /\ joining' = joining
    BY <1>7, RemoveFrame
  <2>2. call[c].dev \in Device /\ call[c].key \in Key
    BY DEF TypeOK, Removal
  <2>3. CASE LocalSwitch(c)
    <3>1. cs'[x] # cs[x] => x = call[c].dev /\ cs'[x] = Rekeyed(cs[x], call[c].key) /\ ~Updating(x)
      BY <2>3 DEF LocalSwitch, TypeOK
    <3>2. QED
      BY <1>0, <2>1, <2>2, <3>1, RekeyedInStep
  <2>4. CASE ~LocalSwitch(c)
    BY <1>7, <2>1, <2>4, RemoveFrame
  <2>5. QED
    BY <2>3, <2>4
<1>8. CASE beat' = beat /\ joining' = joining /\ (cs'[x] # cs[x] => InStep(cs'[x]) /\ ~Updating(x))
  BY <1>2, <1>8 DEF Updating
<1>9. QED
  BY <1>2, <1>3, <1>4, <1>5, <1>6, <1>7, <1>8 DEF Next

LEMMA NextSyncInv == TypeOK /\ SyncInv /\ [Next]_vars => SyncInv'
<1>1. ASSUME TypeOK, SyncInv, Next PROVE SyncInv'
  BY <1>1, FoundingStep, PositiveStep, UpdateStep DEF SyncInv
<1>2. ASSUME SyncInv, UNCHANGED vars PROVE SyncInv'
  BY <1>2 DEF SyncInv, FoundingInv, PositiveInv, UpdateInv, Updating, Keyless, vars, hubVars
<1>3. QED
  BY <1>1, <1>2

(* Every computer that may sync holds the key of exactly the generation     *)
(* whose tree it syncs, whatever heartbeats, joins, failed and concurrent   *)
(* re-keys happen, for any number of people, computers and removals: in     *)
(* all that is saved, and in what a pass reads that does not read in the    *)
(* middle of an update.                                                     *)
THEOREM SavedWithTheTreesKeyAlways == Spec => []SavedWithTheTreesKey
<1>1. SyncInv => SavedWithTheTreesKey
  BY DEF SyncInv, UpdateInv, InStep, SavedWithTheTreesKey, Syncable
<1>2. QED
  BY <1>1, InitSyncInv, NextSyncInv, TypeCorrect, PTL DEF Spec

-----------------------------------------------------------------------------
(* What a step may not do to a computer's key.                              *)

(* Whatever bundles, links and re-keys bring is a key.                      *)
LEMMA KeysStay ==
  ASSUME TypeOK, SyncInv, Next, NEW x \in Device, cs[x].key # NoKey
  PROVE  cs'[x].key # NoKey
<1>0. cs[x] \in CircleState /\ beat[x] \in Bundle /\ joining[x] \in Join /\ NoKey.gen = 0
  BY DEF TypeOK, NoKey
<1>1. CASE cs'[x] = cs[x]
  BY <1>1
<1>2. CASE CreateLocal(x) /\ cs'[x] = Founded(cs[x], [gen |-> 1, id |-> made + 1])
  BY <1>2 DEF CreateLocal, SyncInv, FoundingInv, Keyless
<1>3. CASE ApplyRemoval(x) /\ cs'[x] = [cs[x] EXCEPT !.removed = cs[x].known]
  BY <1>0, <1>3 DEF CircleState
<1>4. CASE ApplySettings(x) /\ cs'[x] = WithSettings(cs[x], beat[x])
  BY <1>0, <1>4, WithSettingsFields
<1>5. CASE ApplyKey(x) /\ cs'[x] = Bundled(cs[x], beat[x])
  <2>1. beat[x].gen > 0
    BY <1>5 DEF ApplyKey, SyncInv, UpdateInv, PositiveInv, AnsweredPc
  <2>2. QED
    BY <1>0, <1>5, <2>1, BundledFields
<1>6. CASE JoinSettings(x) /\ cs'[x] = WithSettings(cs[x], joining[x])
  BY <1>0, <1>6, WithSettingsFields
<1>7. CASE JoinKey(x) /\ cs'[x] = Joined(cs[x], joining[x])
  <2>1. cs[x].key.gen \in Nat
    BY <1>0 DEF CircleState, Key
  <2>2. QED
    BY <1>0, <1>7, <2>1, JoinedFields
<1>8. ASSUME NEW c \in Call, LocalSwitch(c), cs'[x] = Rekeyed(cs[x], call[c].key)
      PROVE  cs'[x].key # NoKey
  <2>1. call[c].key \in Key /\ call[c].key.gen > 0
    BY <1>8, RotatingPcs DEF LocalSwitch, SyncInv, PositiveInv, TypeOK, Removal
  <2>2. cs'[x].key = call[c].key
    BY <1>0, <1>8, <2>1, RekeyedFields
  <2>3. QED
    BY <1>0, <2>1, <2>2
<1>9. QED
  BY <1>1, <1>2, <1>3, <1>4, <1>5, <1>6, <1>7, <1>8, StateStep

(* A computer never loses the key it holds to anything but another key:     *)
(* whatever bundles, links and re-keys bring is a key of a generation the   *)
(* circle had, for any number of them at once.                              *)
THEOREM KeysAreNeverLostEver == Spec => KeysAreNeverLost
<1>1. TypeOK /\ SyncInv /\ [Next]_vars =>
        [\A d \in Device : cs[d].key # NoKey => cs'[d].key # NoKey]_vars
  BY KeysStay
<1>2. QED
  BY <1>1, InitSyncInv, NextSyncInv, TypeCorrect, PTL DEF Spec, KeysAreNeverLost

(* A join's key is taken in by one action, on its own computer.             *)
LEMMA JoinedStep ==
  ASSUME TypeOK, Next, NEW x \in Device,
         joining[x].pc = "taking", joining'[x].pc = "granting"
  PROVE  cs'[x].key.gen >= cs[x].key.gen
<1>0. cs[x] \in CircleState /\ joining[x] \in Join
  BY DEF TypeOK
<1>1. JoinKey(x)
  <2>1. ASSUME NEW d \in Device, Create(d) \/ Heartbeat(d) PROVE FALSE
    BY <2>1, CreateFrame, HeartbeatFrame
  <2>2. ASSUME NEW c \in Call, Remove(c) PROVE FALSE
    BY <2>2, RemoveFrame
  <2>3. ASSUME NEW d \in Device, Invite(d) PROVE JoinKey(x)
    <3>1. d = x
      BY <2>3, InviteFrame
    <3>2. QED
      BY <2>3, <3>1 DEF Invite, MakeLink, JoinAtHub, Answering, JoinMember, JoinRow, JoinCredential,
           JoinOthers, JoinSettings, CheckOwnGrants, StoreOwnGrant, JoinEnds
  <2>4. QED
    BY <2>1, <2>2, <2>3 DEF Next
<1>2. cs'[x] = Joined(cs[x], joining[x])
  BY <1>1 DEF JoinKey, TypeOK
<1>3. QED
  BY <1>0, <1>2 DEF Joined, CircleState, Join, Key, NoKey

(* A join never puts an older key in the place of the one a computer holds, *)
(* however long its link, or its answer, was on the way.                    *)
THEOREM JoinsNeverDowngradeEver == Spec => JoinsNeverDowngrade
<1>1. TypeOK /\ [Next]_vars =>
        [\A d \in Device : joining[d].pc = "taking" /\ joining'[d].pc = "granting"
                               => cs'[d].key.gen >= cs[d].key.gen]_vars
  BY JoinedStep
<1>2. QED
  BY <1>1, TypeCorrect, PTL DEF Spec, JoinsNeverDowngrade

-----------------------------------------------------------------------------
(* The members' storage credential.  A switch deletes the credential it     *)
(* found, so it matters that none in progress found one that another is     *)
(* about to store: those are fresh.                                         *)

(* A generation handler has a credential it found, and maybe one to store. *)
Found(c)   == call[c].pc \in {"made", "stored"}
Storing(c) == call[c].pc = "made"

FreshKeysInv ==
    /\ cred <= credsMade
    /\ \A c \in Call : Found(c) => call[c].old <= credsMade
    /\ \A c \in Call : Storing(c) =>
          /\ call[c].cred \in live /\ call[c].cred # cred /\ call[c].cred <= credsMade
          /\ \A o \in Call : /\ Found(o) => call[o].old # call[c].cred
                             /\ Storing(o) /\ o # c => call[o].cred # call[c].cred

CredentialInv ==
    /\ FreshKeysInv
    /\ "CircleSetS3" \notin ignored =>
          /\ gen > 0 => cred \in live
          /\ \A c \in Call : call[c].pc = "stored" => call[c].old # cred

(* Only the generation handlers, and the circle's creation, touch it.       *)
LEMMA CredentialElsewhere ==
  ASSUME TypeOK, CredentialInv, gen > 0 \/ gen' = 0, UNCHANGED <<cred, live, credsMade>>,
         ignored \subseteq ignored',
         \A c \in Call : call'[c].pc \in {"made", "stored"} => call'[c] = call[c]
  PROVE  CredentialInv'
<1>1. FreshKeysInv'
  BY DEF CredentialInv, FreshKeysInv, Found, Storing
<1>2. "CircleSetS3" \notin ignored' => "CircleSetS3" \notin ignored
  OBVIOUS
<1>3. gen' > 0 => gen > 0
  BY DEF TypeOK
<1>4. QED
  BY <1>1, <1>2, <1>3 DEF CredentialInv

LEMMA CredentialStep ==
  ASSUME TypeOK, SyncInv, CredentialInv, Next
  PROVE  CredentialInv'
<1>0. /\ \A c \in Call : call[c].pc \in RotatingPc => gen > 0
      /\ cred \in Nat /\ credsMade \in Nat /\ live \subseteq Nat /\ call \in [Call -> Removal]
      /\ \A o \in Call : call[o].cred \in Nat /\ call[o].old \in Nat /\ call[o] \in Removal
  BY DEF SyncInv, FoundingInv, Keyless, TypeOK, Removal
<1>1. ASSUME NEW d \in Device, CreateAtHub(d)
      PROVE  CredentialInv'
  <2>1. \A c \in Call : call'[c].pc \notin {"made", "stored"}
    BY <1>0, <1>1, RotatingPcs DEF CreateAtHub
  <2>2. cred' \in live' /\ cred' = credsMade' /\ credsMade' \in Nat
    BY <1>0, <1>1 DEF CreateAtHub
  <2>3. QED
    BY <2>1, <2>2 DEF CredentialInv, FreshKeysInv, Found, Storing
<1>2. ASSUME NEW d \in Device, Create(d) \/ Heartbeat(d) \/ Invite(d), ~CreateAtHub(d)
      PROVE  CredentialInv'
  <2>1. UNCHANGED <<gen, cred, live, credsMade, call, ignored>>
    BY <1>2, CreateFrame, HeartbeatFrame, InviteFrame DEF hubVars, histVars
  <2>2. QED
    BY <2>1 DEF CredentialInv, FreshKeysInv, Found, Storing
<1>3. ASSUME NEW c \in Call, KeyCreate(c)
      PROVE  CredentialInv'
  <2>1. /\ credsMade' = credsMade + 1 /\ live' = live \cup {credsMade + 1}
        /\ cred' = cred /\ gen' = gen /\ ignored' = ignored
        /\ \A o \in Call \ {c} : call'[o] = call[o]
        /\ call'[c].cred = credsMade + 1 /\ call'[c].old = cred /\ call'[c].pc = "made"
    BY <1>0, <1>3 DEF KeyCreate, Removal, histVars
  <2>2. FreshKeysInv'
    BY <1>0, <2>1 DEF CredentialInv, FreshKeysInv, Found, Storing
  <2>3. QED
    BY <2>1, <2>2 DEF CredentialInv
<1>4. ASSUME NEW c \in Call, CircleSetS3(c)
      PROVE  CredentialInv'
  <2>1. /\ UNCHANGED <<credsMade, live, gen>> /\ call[c].pc = "made"
        /\ \A o \in Call \ {c} : call'[o] = call[o]
        /\ call'[c].pc = "stored" /\ call'[c].old = call[c].old
        /\ \/ cred' = call[c].cred /\ ignored' = ignored
           \/ cred' = cred /\ "CircleSetS3" \in ignored'
    BY <1>0, <1>4 DEF CircleSetS3, Removal
  <2>2. cred' <= credsMade /\ \A o \in Call \ {c} : Storing(o) => call[o].cred # cred'
    BY <2>1 DEF CredentialInv, FreshKeysInv, Storing
  <2>3. FreshKeysInv'
    BY <2>1, <2>2 DEF CredentialInv, FreshKeysInv, Found, Storing
  <2>4. ASSUME cred' = call[c].cred
        PROVE  cred' \in live' /\ \A o \in Call : call'[o].pc = "stored" => call'[o].old # cred'
    BY <2>1, <2>4 DEF CredentialInv, FreshKeysInv, Found, Storing
  <2>5. QED
    BY <2>1, <2>3, <2>4 DEF CredentialInv
<1>5. ASSUME NEW c \in Call, KeyDelete(c)
      PROVE  CredentialInv'
  <2>1. /\ UNCHANGED <<credsMade, cred, gen, ignored>> /\ call[c].pc = "stored"
        /\ \A o \in Call \ {c} : call'[o] = call[o]
        /\ call'[c].pc = "deleted"
        /\ live \ {call[c].old} \subseteq live'
    BY <1>0, <1>5 DEF KeyDelete
  <2>2. FreshKeysInv'
    BY <2>1 DEF CredentialInv, FreshKeysInv, Found, Storing
  <2>3. QED
    BY <2>1, <2>2 DEF CredentialInv
<1>6. ASSUME NEW c \in Call, Remove(c), ~KeyCreate(c), ~CircleSetS3(c), ~KeyDelete(c)
      PROVE  CredentialInv'
  <2>1. UNCHANGED <<cred, live, credsMade>> /\ ignored \subseteq ignored'
    BY <1>6 DEF Remove, RemoveAtHub, StartRotate, PostGrant, GrantsPosted, Switch, CheckGeneration,
         SwitchGeneration, DropOldGrants, LocalSwitch, RemovalFails, hubVars, histVars
  <2>2. call'[c].pc \notin {"made", "stored"}
    <3>1. CASE \/ \E d \in Device, p \in Person : RemoveAtHub(c, d, p)
               \/ LocalSwitch(c) \/ RemovalFails(c)
      <4>1. ASSUME NEW d \in Device, NEW p \in Person, RemoveAtHub(c, d, p)
            PROVE  call'[c].pc = "removed"
        BY <1>0, <4>1 DEF RemoveAtHub
      <4>2. CASE LocalSwitch(c) \/ RemovalFails(c)
        BY <1>0, <4>2, IdleType DEF LocalSwitch, RemovalFails
      <4>3. QED
        BY <3>1, <4>1, <4>2
    <3>2. CASE PostGrant(c)
      BY <1>0, <3>2 DEF PostGrant, Removal
    <3>3. CASE \/ StartRotate(c) \/ GrantsPosted(c) \/ CheckGeneration(c)
               \/ SwitchGeneration(c) \/ DropOldGrants(c)
      BY <1>0, <3>3 DEF StartRotate, GrantsPosted, CheckGeneration, SwitchGeneration, DropOldGrants,
           Removal
    <3>4. QED
      BY <1>6, <3>1, <3>2, <3>3 DEF Remove, Switch
  <2>3. gen > 0 \/ gen' = 0
    BY <1>0, <1>6, RemoveFrame, RotatingPcs DEF SwitchGeneration, TypeOK
  <2>4. \A o \in Call : call'[o].pc \in {"made", "stored"} => call'[o] = call[o]
    BY <1>6, <2>2, RemoveFrame
  <2>5. QED
    BY <2>1, <2>3, <2>4, CredentialElsewhere
<1>7. QED
  BY <1>1, <1>2, <1>3, <1>4, <1>5, <1>6 DEF Next, Create

LEMMA InitCredentialInv == Init => CredentialInv
BY IdleType DEF Init, CredentialInv, FreshKeysInv, Found, Storing

LEMMA NextCredentialInv == TypeOK /\ SyncInv /\ CredentialInv /\ [Next]_vars => CredentialInv'
<1>1. CredentialInv /\ UNCHANGED vars => CredentialInv'
  BY DEF CredentialInv, FreshKeysInv, Found, Storing, vars, hubVars, histVars
<1>2. QED
  BY <1>1, CredentialStep

(* The credential the hub hands out is one the object store accepts, with   *)
(* any number of re-keys between their statements, or stopped there, and    *)
(* with deletions and switches that fail, as long as the row took every new *)
(* credential.                                                              *)
THEOREM TheRowsCredentialLivesAlways == Spec => []TheRowsCredentialLives
<1>1. CredentialInv => TheRowsCredentialLives
  BY DEF CredentialInv, TheRowsCredentialLives
<1>2. QED
  BY <1>1, InitCredentialInv, NextCredentialInv, InitSyncInv, NextSyncInv, TypeCorrect, PTL DEF Spec

=============================================================================
