------------------------ MODULE CircleKeysRekeyProofs ------------------------
(***************************************************************************)
(* More proofs about CircleKeys: what holds when re-keys do not overlap.   *)
(* Two re-keys that interleave their statements at the hub can set the     *)
(* generation back and store grants for someone the other removal took     *)
(* out; the theorems below therefore name what they need of the removals   *)
(* under way at once, and hold for any people, computers and bounds.       *)
(***************************************************************************)
EXTENDS CircleKeysProofs

(* At most one removal, with the re-key that follows it, is under way.     *)
OneRemoval == \A c, o \in Call : c = o

(* The owner has one computer: an agent's syncMu keeps its re-keys apart,  *)
(* whatever removals wait for it.                                          *)
OneOwnerComputer == \A d, e \in OwnerDevices : d = e

-----------------------------------------------------------------------------
(* What a step may put into an answer on its way, a computer's state, a    *)
(* grant or a link, whoever takes it.                                      *)

(* What a computer does by itself leaves the hub's history alone.          *)
LEMMA OwnSteps ==
  ASSUME TypeOK, NEW d \in Device, Create(d) \/ Heartbeat(d) \/ Invite(d), ~CreateAtHub(d)
  PROVE  /\ UNCHANGED <<gen, cred, live, credsMade, call, revoked, ignored, leaked, left>>
         /\ members \subseteq members' /\ creating' \subseteq creating
<1>1. CASE Create(d)
  BY <1>1, CreateFrame DEF Create, CreateLocal, CreateFails, hubVars, histVars
<1>2. CASE Heartbeat(d) \/ Invite(d)
  BY <1>2, HeartbeatFrame, InviteFrame DEF hubVars, histVars
<1>3. QED
  BY <1>1, <1>2

LEMMA CurrentGrantIsGranted ==
  ASSUME NEW d \in Device
  PROVE  \/ CurrentGrant(d) = NoKey
         \/ CurrentGrant(d) \in grants[d] /\ CurrentGrant(d).gen = gen
BY DEF CurrentGrant

(* A bundle holds what the hub read for it, or nothing.                    *)
LEMMA BeatStep ==
  ASSUME TypeOK, Next, NEW x \in Device
  PROVE  /\ beat'[x].grant \in {beat[x].grant, NoKey, CurrentGrant(x)}
         /\ beat'[x].gen \in {beat[x].gen, 0, gen}
         /\ beat'[x].cred \in {beat[x].cred, 0, cred}
<1>0. beat[x] \in Bundle
  BY DEF TypeOK
<1>1. CASE HeartbeatMember(x)
  BY <1>1 DEF HeartbeatMember, TypeOK, NoBundle
<1>2. CASE HeartbeatRow(x)
  BY <1>0, <1>2 DEF HeartbeatRow, TypeOK, Bundle
<1>3. CASE HeartbeatCredential(x)
  BY <1>0, <1>3 DEF HeartbeatCredential, TypeOK, Bundle
<1>4. CASE HeartbeatGrants(x)
  BY <1>0, <1>4 DEF HeartbeatGrants, TypeOK, Bundle
<1>5. CASE ApplySettings(x)
  BY <1>0, <1>5 DEF ApplySettings, TypeOK, Bundle
<1>6. CASE HeartbeatFails(x) \/ ApplyRemoval(x) \/ ApplyKey(x)
  BY <1>6 DEF HeartbeatFails, ApplyRemoval, ApplyKey, TypeOK, NoBundle
<1>7. ASSUME NEW d \in Device, d # x, Heartbeat(d) PROVE beat'[x] = beat[x]
  BY <1>7, HeartbeatFrame
<1>8. ASSUME NEW d \in Device, Create(d) \/ Invite(d) PROVE beat' = beat
  BY <1>8, CreateFrame, InviteFrame
<1>9. ASSUME NEW c \in Call, Remove(c) PROVE beat' = beat
  BY <1>9, RemoveFrame
<1>10. QED
  BY <1>1, <1>2, <1>3, <1>4, <1>5, <1>6, <1>7, <1>8, <1>9 DEF Next, Heartbeat, Bundling

(* So does a join; its key is its link's, and it is passed on within the   *)
(* person's own computers.                                                 *)
LEMMA JoiningStep ==
  ASSUME TypeOK, Next, NEW x \in Device
  PROVE  /\ \/ joining'[x].key \in {joining[x].key, NoKey}
            \/ joining'[x].key \in links /\ PersonOf[x] \in members'
         /\ joining'[x].gen \in {joining[x].gen, 0, gen}
         /\ joining'[x].cred \in {joining[x].cred, 0, cred}
         /\ joining'[x].others \subseteq joining[x].others \cup DevicesOf({PersonOf[x]})
<1>0. joining[x] \in Join
  BY DEF TypeOK
<1>1. ASSUME NEW k \in links, JoinAtHub(x, k)
      PROVE  /\ joining'[x].key = k /\ PersonOf[x] \in members'
             /\ joining'[x].gen = 0 /\ joining'[x].cred = 0 /\ joining'[x].others = {}
  BY <1>1 DEF JoinAtHub, TypeOK, NoJoin
<1>2. CASE JoinMember(x) \/ CheckOwnGrants(x)
  <2>1. joining'[x] = NoJoin \/ \E pc \in {"member", "storing"} : joining'[x] = [joining[x] EXCEPT !.pc = pc]
    BY <1>2 DEF JoinMember, CheckOwnGrants, TypeOK
  <2>2. QED
    BY <1>0, <2>1 DEF Join, NoJoin
<1>3. CASE JoinRow(x)
  BY <1>0, <1>3 DEF JoinRow, TypeOK, Join
<1>4. CASE JoinCredential(x)
  BY <1>0, <1>4 DEF JoinCredential, TypeOK, Join
<1>5. CASE JoinOthers(x)
  BY <1>0, <1>5 DEF JoinOthers, TypeOK, Join
<1>6. CASE JoinSettings(x)
  BY <1>0, <1>6 DEF JoinSettings, TypeOK, Join
<1>7. CASE JoinKey(x)
  BY <1>0, <1>7 DEF JoinKey, TypeOK, Join
<1>8. CASE StoreOwnGrant(x)
  BY <1>0, <1>8 DEF StoreOwnGrant, TypeOK, Join
<1>9. CASE JoinEnds(x)
  BY <1>9 DEF JoinEnds, TypeOK, NoJoin
<1>10. CASE MakeLink(x)
  BY <1>10 DEF MakeLink
<1>11. ASSUME NEW d \in Device, d # x, Invite(d) PROVE joining'[x] = joining[x]
  BY <1>11, InviteFrame
<1>12. ASSUME NEW d \in Device, Create(d) \/ Heartbeat(d) PROVE joining' = joining
  BY <1>12, CreateFrame, HeartbeatFrame
<1>13. ASSUME NEW c \in Call, Remove(c) PROVE joining' = joining
  BY <1>13, RemoveFrame
<1>14. CASE joining'[x] = joining[x]
  BY <1>14
<1>15. QED
  BY <1>1, <1>2, <1>3, <1>4, <1>5, <1>6, <1>7, <1>8, <1>9, <1>10, <1>11, <1>12, <1>13, <1>14
  DEF Next, Invite, Answering

(* A computer's state holds what it was answered, what it founded, or what *)
(* it re-keyed with.                                                       *)
LEMMA StateFields ==
  ASSUME TypeOK, Next, NEW x \in Device
  PROVE  /\ \/ cs'[x].key \in {cs[x].key, beat[x].grant, joining[x].key}
            \/ CreateLocal(x) /\ cs'[x].key = [gen |-> 1, id |-> made + 1]
            \/ \E c \in Call : LocalSwitch(c) /\ call[c].dev = x /\ cs'[x].key = call[c].key
         /\ \/ cs'[x].gen \in {cs[x].gen, beat[x].gen, joining[x].gen}
            \/ CreateLocal(x) /\ cs'[x].gen = 1
            \/ \E c \in Call : LocalSwitch(c) /\ cs'[x].gen = call[c].key.gen
         /\ \/ cs'[x].cred \in {cs[x].cred, beat[x].cred, joining[x].cred}
            \/ CreateLocal(x) /\ cs'[x].cred = 1
<1>0. cs[x] \in CircleState /\ beat[x] \in Bundle /\ joining[x] \in Join
  BY DEF TypeOK
<1>1. CASE cs'[x] = cs[x]
  BY <1>1
<1>2. CASE CreateLocal(x) /\ cs'[x] = Founded(cs[x], [gen |-> 1, id |-> made + 1])
  <2>1. [gen |-> 1, id |-> made + 1] \in Key
    BY DEF TypeOK, Key
  <2>2. QED
    BY <1>0, <1>2, <2>1, FoundedFields
<1>3. CASE ApplyRemoval(x) /\ cs'[x] = [cs[x] EXCEPT !.removed = cs[x].known]
  BY <1>0, <1>3 DEF CircleState
<1>4. CASE ApplySettings(x) /\ cs'[x] = WithSettings(cs[x], beat[x])
  BY <1>0, <1>4, WithSettingsFields
<1>5. CASE ApplyKey(x) /\ cs'[x] = Bundled(cs[x], beat[x])
  BY <1>0, <1>5, BundledFields
<1>6. CASE JoinSettings(x) /\ cs'[x] = WithSettings(cs[x], joining[x])
  BY <1>0, <1>6, WithSettingsFields
<1>7. CASE JoinKey(x) /\ cs'[x] = Joined(cs[x], joining[x])
  BY <1>0, <1>7, JoinedFields
<1>8. ASSUME NEW c \in Call, LocalSwitch(c), call[c].dev = x, cs'[x] = Rekeyed(cs[x], call[c].key)
      PROVE  /\ cs'[x].key = call[c].key /\ cs'[x].gen = call[c].key.gen
             /\ cs'[x].cred = cs[x].cred
  <2>1. call[c].key \in Key
    BY DEF TypeOK, Removal
  <2>2. QED
    BY <1>0, <1>8, <2>1, RekeyedFields
<1>9. QED
  BY <1>1, <1>2, <1>3, <1>4, <1>5, <1>6, <1>7, <1>8, StateStep

(* A grant that is new was passed on within one person's computers, or     *)
(* posted by a re-key.                                                     *)
LEMMA GrantsStep ==
  ASSUME TypeOK, Next, NEW x \in Device, NEW k \in grants'[x]
  PROVE  \/ k \in grants[x]
         \/ \E d \in Device : StoreOwnGrant(d) /\ x \in joining[d].others /\ k = joining[d].key
         \/ \E c \in Call : PostGrant(c) /\ x \in call[c].people /\ k = call[c].key
<1>0. grants \in [Device -> SUBSET Key]
  BY DEF TypeOK
<1>1. ASSUME NEW d \in Device, Create(d) \/ Heartbeat(d) PROVE grants' = grants
  BY <1>1, CreateFrame, HeartbeatFrame DEF hubVars
<1>2. ASSUME NEW d \in Device, StoreOwnGrant(d), k \notin grants[x]
      PROVE  x \in joining[d].others /\ k = joining[d].key
  <2>1. PICK e \in joining[d].others : grants' = WithGrant(joining[d].key, {e})
    BY <1>2 DEF StoreOwnGrant
  <2>2. QED
    BY <1>0, <1>2, <2>1 DEF WithGrant
<1>3. ASSUME NEW d \in Device, Invite(d), ~StoreOwnGrant(d) PROVE grants' = grants
  BY <1>3 DEF Invite, MakeLink, JoinAtHub, Answering, JoinMember, JoinRow, JoinCredential, JoinOthers,
       JoinSettings, JoinKey, CheckOwnGrants, JoinEnds, hubVars
<1>4. ASSUME NEW c \in Call, PostGrant(c), k \notin grants[x]
      PROVE  x \in call[c].people /\ k = call[c].key
  <2>1. PICK e \in call[c].people : grants' = WithGrant(call[c].key, {e})
    BY <1>4 DEF PostGrant
  <2>2. QED
    BY <1>0, <1>4, <2>1 DEF WithGrant
<1>5. ASSUME NEW c \in Call, NEW d \in Device, NEW p \in Person, RemoveAtHub(c, d, p)
      PROVE  k \in grants[x]
  BY <1>0, <1>5 DEF RemoveAtHub
<1>6. ASSUME NEW c \in Call, DropOldGrants(c)
      PROVE  k \in grants[x]
  BY <1>0, <1>6 DEF DropOldGrants
<1>7. ASSUME NEW c \in Call, StartRotate(c) \/ GrantsPosted(c) \/ CheckGeneration(c) \/ KeyCreate(c)
               \/ CircleSetS3(c) \/ KeyDelete(c) \/ SwitchGeneration(c) \/ LocalSwitch(c) \/ RemovalFails(c)
      PROVE  grants' = grants
  BY <1>7 DEF StartRotate, GrantsPosted, CheckGeneration, KeyCreate, CircleSetS3, KeyDelete,
       SwitchGeneration, LocalSwitch, RemovalFails, hubVars
<1>8. ASSUME NEW c \in Call, Remove(c), k \notin grants[x]
      PROVE  PostGrant(c) /\ x \in call[c].people /\ k = call[c].key
  BY <1>4, <1>5, <1>6, <1>7, <1>8 DEF Remove, Switch
<1>9. QED
  BY <1>1, <1>2, <1>3, <1>8 DEF Next

(* A link seals the key of the computer that made it.                      *)
LEMMA LinksStep ==
  ASSUME TypeOK, Next, NEW k \in links'
  PROVE  k \in links \/ \E d \in Device : k = cs[d].key
<1>1. ASSUME NEW d \in Device, Create(d) \/ Heartbeat(d) PROVE links' = links
  BY <1>1, CreateFrame, HeartbeatFrame DEF hubVars
<1>2. ASSUME NEW c \in Call, Remove(c) PROVE links' = links
  BY <1>2, RemoveFrame
<1>3. ASSUME NEW d \in Device, MakeLink(d) PROVE k \in links \/ k = cs[d].key
  BY <1>3 DEF MakeLink
<1>4. ASSUME NEW d \in Device, Invite(d), ~MakeLink(d) PROVE links' \subseteq links
  BY <1>4 DEF Invite, JoinAtHub, Answering, JoinMember, JoinRow, JoinCredential, JoinOthers,
       JoinSettings, JoinKey, CheckOwnGrants, StoreOwnGrant, JoinEnds, hubVars
<1>5. QED
  BY <1>1, <1>2, <1>3, <1>4 DEF Next

-----------------------------------------------------------------------------
(* Keys under way are of generations the hub has switched to, as long as    *)
(* its row took every generation a re-key switched to.                      *)

(* The keys a computer holds or may still come to hold: stored, sealed     *)
(* under a link, in an answer on its way, or granted for a generation the  *)
(* hub has switched to.                                                    *)
Around(k) ==
    \/ k = NoKey \/ k \in links
    \/ \E d \in Device : \/ k = cs[d].key \/ k = beat[d].grant \/ k = joining[d].key
                         \/ k \in grants[d] /\ k.gen <= gen

PostingPc  == {"removed", "copying"}
GrantedPc  == {"granted", "checked", "made", "stored", "deleted"}
SwitchedPc == {"switched", "replied"}

(* A re-key is for the generation after the hub's, until the hub is there. *)
PhaseInv ==
    /\ \A c \in Call : /\ call[c].dev \in OwnerDevices
                       /\ call[c].pc \in GrantedPc \cup {"copying"}
                             => call[c].key.gen = gen + 1
                       /\ call[c].pc \in SwitchedPc => call[c].key.gen = gen
    /\ \A c, o \in Call :
          call[c].pc \in RotatingPc /\ call[o].pc \in RotatingPc => c = o

BehindInv ==
    /\ \A k \in Key : Around(k) => k.gen <= gen
    /\ \A d \in Device : cs[d].gen <= gen /\ beat[d].gen <= gen /\ joining[d].gen <= gen

Apart    == OneRemoval \/ OneOwnerComputer
RekeyInv == PhaseInv /\ BehindInv

(* The hub's generation follows a re-key, and so far always did.           *)
LEMMA StoredSoFar ==
  ASSUME TypeOK, Next, GenerationsStored'
  PROVE  /\ GenerationsStored
         /\ \A c \in Call : SwitchGeneration(c) => gen' = call[c].key.gen
<1>1. ASSUME NEW d \in Device, Create(d) \/ Heartbeat(d) \/ Invite(d) PROVE ignored' = ignored
  BY <1>1, CreateFrame, HeartbeatFrame, InviteFrame DEF hubVars, histVars
<1>2. ASSUME NEW c \in Call, Remove(c) PROVE ignored \subseteq ignored'
  BY <1>2 DEF Remove, RemoveAtHub, StartRotate, PostGrant, GrantsPosted, Switch, CheckGeneration,
       KeyCreate, CircleSetS3, KeyDelete, SwitchGeneration, DropOldGrants, LocalSwitch, RemovalFails,
       hubVars, histVars
<1>3. GenerationsStored
  BY <1>1, <1>2 DEF Next, GenerationsStored
<1>4. ASSUME NEW c \in Call, SwitchGeneration(c) PROVE gen' = call[c].key.gen
  BY <1>4 DEF SwitchGeneration, GenerationsStored
<1>5. QED
  BY <1>3, <1>4

(* An agent that starts a re-key is alone with it: its own computer runs   *)
(* no other, and no other computer can.                                    *)
LEMMA StartsAlone ==
  ASSUME TypeOK, Apart, PhaseInv, NEW c \in Call, StartRotate(c)
  PROVE  \A o \in Call : call[o].pc \notin RotatingPc
<1>1. SUFFICES ASSUME NEW o \in Call, call[o].pc \in RotatingPc PROVE FALSE
  OBVIOUS
<1>2. call[c].pc \notin RotatingPc
  BY RotatingPcs DEF StartRotate
<1>3. OneOwnerComputer
  BY <1>1, <1>2 DEF Apart, OneRemoval
<1>4. call[o].dev = call[c].dev
  BY <1>3 DEF PhaseInv, OneOwnerComputer
<1>5. QED
  BY <1>1, <1>4 DEF StartRotate, Rotating

(* Which phase a step of a re-key leads to.                                *)
LEMMA PhaseMoves ==
  ASSUME TypeOK, NEW c \in Call
  PROVE  /\ PostGrant(c) => call[c].pc = "copying" /\ call'[c].pc = "copying"
         /\ GrantsPosted(c) => call[c].pc = "copying" /\ call'[c].pc = "granted"
         /\ CheckGeneration(c) \/ KeyCreate(c) \/ CircleSetS3(c) \/ KeyDelete(c)
              => call[c].pc \in GrantedPc /\ call'[c].pc \in GrantedPc
         /\ SwitchGeneration(c) => call[c].pc = "deleted" /\ call'[c].pc = "switched"
         /\ DropOldGrants(c) => call[c].pc = "switched" /\ call'[c].pc = "replied"
<1>0. call \in [Call -> Removal] /\ call[c] \in Removal
  BY DEF TypeOK
<1>1. CASE PostGrant(c)
  <2>1. PICK x \in call[c].people : call' = [call EXCEPT ![c].people = @ \ {x}]
    BY <1>1 DEF PostGrant
  <2>2. call[c].pc = "copying" /\ call'[c].pc = "copying"
    BY <1>0, <1>1, <2>1 DEF PostGrant, Removal
  <2>3. QED
    BY <2>2 DEF GrantsPosted, CheckGeneration, KeyCreate, CircleSetS3, KeyDelete, SwitchGeneration,
                DropOldGrants
<1>2. GrantsPosted(c) => call[c].pc = "copying" /\ call'[c].pc = "granted"
  BY <1>0 DEF GrantsPosted, Removal
<1>3. CheckGeneration(c) => call[c].pc \in GrantedPc /\ call'[c].pc \in GrantedPc
  BY <1>0 DEF CheckGeneration, Removal, GrantedPc
<1>4. KeyCreate(c) => call[c].pc \in GrantedPc /\ call'[c].pc \in GrantedPc
  BY <1>0 DEF KeyCreate, Removal, GrantedPc
<1>5. CircleSetS3(c) => call[c].pc \in GrantedPc /\ call'[c].pc \in GrantedPc
  BY <1>0 DEF CircleSetS3, Removal, GrantedPc
<1>6. KeyDelete(c) => call[c].pc \in GrantedPc /\ call'[c].pc \in GrantedPc
  BY <1>0 DEF KeyDelete, Removal, GrantedPc
<1>7. SwitchGeneration(c) => call[c].pc = "deleted" /\ call'[c].pc = "switched"
  BY <1>0 DEF SwitchGeneration, Removal
<1>8. DropOldGrants(c) => call[c].pc = "switched" /\ call'[c].pc = "replied"
  BY <1>0 DEF DropOldGrants, Removal
<1>9. QED
  BY <1>1, <1>2, <1>3, <1>4, <1>5, <1>6, <1>7, <1>8

LEMMA PhaseStep ==
  ASSUME TypeOK, SyncInv, Apart, PhaseInv, Next, GenerationsStored'
  PROVE  PhaseInv' /\ gen <= gen'
<1>0. /\ gen \in Nat /\ call \in [Call -> Removal]
      /\ \A o \in Call : call[o].key.gen \in Nat
      /\ GrantedPc \cup {"copying"} \subseteq RotatingPc /\ SwitchedPc \subseteq RotatingPc
      /\ (GrantedPc \cup {"copying"}) \cap SwitchedPc = {}
      /\ "deleted" \in GrantedPc /\ "granted" \in GrantedPc
      /\ "switched" \in SwitchedPc /\ "replied" \in SwitchedPc
  BY RotatingPcs DEF TypeOK, Removal, Key, GrantedPc, SwitchedPc
<1>1. ASSUME NEW d \in Device, CreateAtHub(d)
      PROVE  PhaseInv' /\ gen <= gen'
  <2>1. \A c \in Call : call[c].pc \notin RotatingPc
    BY <1>1 DEF CreateAtHub, SyncInv, FoundingInv, Keyless
  <2>2. gen' = 1 /\ gen = 0 /\ call' = call
    BY <1>1 DEF CreateAtHub
  <2>3. QED
    BY <1>0, <2>1, <2>2 DEF PhaseInv
<1>2. ASSUME NEW d \in Device, Create(d) \/ Heartbeat(d) \/ Invite(d), ~CreateAtHub(d)
      PROVE  PhaseInv' /\ gen <= gen'
  <2>1. gen' = gen /\ call' = call
    BY <1>2, OwnSteps
  <2>2. QED
    BY <1>0, <2>1 DEF PhaseInv
<1>3. ASSUME NEW c \in Call, Remove(c)
      PROVE  PhaseInv' /\ gen <= gen'
  <2>0. /\ \A o \in Call \ {c} : call'[o] = call[o]
        /\ SwitchGeneration(c) \/ gen' = gen
        /\ SwitchGeneration(c) => gen' = call[c].key.gen
        /\ call[c].dev \in OwnerDevices
    BY <1>3, RemoveFrame, StoredSoFar DEF PhaseInv
  <2>1. ASSUME call'[c].pc \notin RotatingPc, call'[c].dev \in OwnerDevices, gen' = gen
        PROVE  PhaseInv' /\ gen <= gen'
    BY <1>0, <2>0, <2>1 DEF PhaseInv
  <2>2. ASSUME \A o \in Call \ {c} : call[o].pc \notin RotatingPc,
               call'[c].dev \in OwnerDevices, gen <= gen',
               call'[c].pc \in GrantedPc \cup {"copying"} => call'[c].key.gen = gen' + 1,
               call'[c].pc \in SwitchedPc => call'[c].key.gen = gen'
        PROVE  PhaseInv' /\ gen <= gen'
    BY <1>0, <2>0, <2>2 DEF PhaseInv
  <2>3. CASE call'[c].pc = "idle" /\ call'[c] = Idle
    <3>1. ~SwitchGeneration(c)
      BY <2>3, PhaseMoves
    <3>2. QED
      BY <2>0, <2>1, <2>3, <3>1, IdleType, RotatingPcs
  <2>4. ASSUME NEW d \in Device, NEW p \in Person, RemoveAtHub(c, d, p), call'[c].pc = "removed",
               call'[c].dev \in OwnerDevices
        PROVE  PhaseInv' /\ gen <= gen'
    <3>1. gen' = gen
      BY <2>4 DEF RemoveAtHub
    <3>2. QED
      BY <2>1, <2>4, <3>1, RotatingPcs
  <2>5. CASE /\ StartRotate(c) /\ call'[c].pc = "copying"
             /\ call'[c].key = [gen |-> gen + 1, id |-> made + 1] /\ call'[c].dev = call[c].dev
    <3>1. gen' = gen /\ call'[c].key.gen = gen + 1
      BY <2>5 DEF StartRotate, hubVars
    <3>2. QED
      BY <1>0, <2>0, <2>2, <2>5, <3>1, StartsAlone
  <2>6. CASE /\ PostGrant(c) \/ GrantsPosted(c) \/ Switch(c)
             /\ call[c].pc \in RotatingPc /\ call'[c].pc \in RotatingPc
             /\ call'[c].key = call[c].key /\ call'[c].dev = call[c].dev
    <3>1. \A o \in Call \ {c} : call[o].pc \notin RotatingPc
      BY <2>6 DEF PhaseInv
    <3>2. CASE \/ PostGrant(c) \/ GrantsPosted(c)
               \/ CheckGeneration(c) \/ KeyCreate(c) \/ CircleSetS3(c) \/ KeyDelete(c)
      <4>1. /\ call[c].pc \in GrantedPc \cup {"copying"} /\ call'[c].pc \in GrantedPc \cup {"copying"}
            /\ ~SwitchGeneration(c)
        BY <1>0, <3>2, PhaseMoves DEF GrantedPc
      <4>2. gen' = gen /\ call[c].key.gen = gen + 1
        BY <2>0, <4>1 DEF PhaseInv
      <4>3. QED
        BY <1>0, <2>0, <2>2, <2>6, <3>1, <4>1, <4>2
    <3>3. CASE SwitchGeneration(c)
      <4>1. call[c].key.gen = gen + 1 /\ gen' = call[c].key.gen /\ call'[c].pc \in SwitchedPc
        BY <1>0, <2>0, <3>3, PhaseMoves DEF PhaseInv
      <4>2. QED
        BY <1>0, <2>0, <2>2, <2>6, <3>1, <4>1
    <3>4. CASE DropOldGrants(c)
      <4>1. call[c].pc \in SwitchedPc /\ call'[c].pc \in SwitchedPc /\ ~SwitchGeneration(c)
        BY <1>0, <3>4, PhaseMoves
      <4>2. gen' = gen /\ call[c].key.gen = gen
        BY <2>0, <4>1 DEF PhaseInv
      <4>3. QED
        BY <1>0, <2>0, <2>2, <2>6, <3>1, <4>1, <4>2
    <3>5. QED
      BY <2>6, <3>2, <3>3, <3>4 DEF Switch
  <2>7. QED
    BY <1>3, <2>3, <2>4, <2>5, <2>6, CallStep
<1>4. QED
  BY <1>1, <1>2, <1>3 DEF Next

(* What may come to be around in one step: a founder's key, the key of the *)
(* re-key that ends, and what was granted for the generation that begins.  *)
LEMMA AroundStep ==
  ASSUME TypeOK, SyncInv, PhaseInv, Next, GenerationsStored', NEW k \in Key, Around(k)', ~Around(k)
  PROVE  \/ \E d \in Device : CreateLocal(d) /\ k = [gen |-> 1, id |-> made + 1]
         \/ \E c \in Call : LocalSwitch(c) /\ k = call[c].key
         \/ \E c \in Call, d \in Device :
               SwitchGeneration(c) /\ k \in grants[d] /\ k.gen = call[c].key.gen
<1>0. gen \in Nat /\ k.gen \in Nat /\ gen' \in Nat /\ gen <= gen
  BY NextTypeOK DEF TypeOK, Key
<1>1. k # NoKey /\ k \notin links
      /\ \A d \in Device : /\ k # cs[d].key /\ k # beat[d].grant /\ k # joining[d].key
                           /\ ~(k \in grants[d] /\ k.gen <= gen)
  BY DEF Around
<1>2. k \notin links'
  BY <1>1, LinksStep
<1>3. ASSUME NEW d \in Device, k = cs'[d].key
      PROVE  \/ CreateLocal(d) /\ k = [gen |-> 1, id |-> made + 1]
             \/ \E c \in Call : LocalSwitch(c) /\ k = call[c].key
  BY <1>1, <1>3, StateFields
<1>4. ASSUME NEW d \in Device PROVE k # beat'[d].grant
  BY <1>0, <1>1, BeatStep, CurrentGrantIsGranted
<1>5. ASSUME NEW d \in Device PROVE k # joining'[d].key
  BY <1>1, JoiningStep
<1>6. ASSUME NEW d \in Device, k \in grants'[d], k.gen <= gen'
      PROVE  \E c \in Call : SwitchGeneration(c) /\ k \in grants[d] /\ k.gen = call[c].key.gen
  <2>1. CASE k \in grants[d]
    <3>1. gen' # gen /\ k.gen > gen
      BY <1>0, <1>1, <1>6, <2>1
    <3>2. ASSUME NEW x \in Device, CreateAtHub(x) PROVE FALSE
      BY <2>1, <3>2 DEF CreateAtHub, SyncInv, FoundingInv, Keyless
    <3>3. ASSUME NEW x \in Device, Create(x) \/ Heartbeat(x) \/ Invite(x) PROVE FALSE
      BY <3>1, <3>2, <3>3, OwnSteps
    <3>4. PICK c \in Call : SwitchGeneration(c)
      BY <3>1, <3>3, RemoveFrame DEF Next
    <3>5. gen' = call[c].key.gen /\ call[c].key.gen = gen + 1
      BY <3>4, StoredSoFar DEF SwitchGeneration, PhaseInv, GrantedPc
    <3>6. k.gen = call[c].key.gen
      BY <1>0, <1>6, <3>1, <3>5
    <3>7. QED
      BY <2>1, <3>4, <3>6
  <2>2. ASSUME NEW c \in Call, PostGrant(c), k = call[c].key
        PROVE  FALSE
    <3>1. gen' = gen /\ k.gen = gen + 1
      BY <2>2 DEF PostGrant, PhaseInv
    <3>2. QED
      BY <1>0, <1>6, <3>1
  <2>3. QED
    BY <1>1, <1>6, <2>1, <2>2, GrantsStep
<1>7. QED
  BY <1>1, <1>2, <1>3, <1>4, <1>5, <1>6 DEF Around

LEMMA RekeyStep ==
  ASSUME TypeOK, SyncInv, Apart, RekeyInv, Next, GenerationsStored'
  PROVE  RekeyInv'
<1>0. gen \in Nat /\ gen' \in Nat /\ gen <= gen' /\ PhaseInv'
  BY PhaseStep, NextTypeOK DEF TypeOK, RekeyInv
<1>1. ASSUME NEW d \in Device, CreateLocal(d) PROVE 1 <= gen'
  BY <1>0, <1>1 DEF CreateLocal, SyncInv, FoundingInv
<1>2. ASSUME NEW c \in Call, LocalSwitch(c) PROVE call[c].key.gen <= gen'
  <2>1. call[c].key.gen = gen
    BY <1>2 DEF LocalSwitch, RekeyInv, PhaseInv, SwitchedPc
  <2>2. QED
    BY <1>0, <2>1
<1>3. ASSUME NEW k \in Key, Around(k)'
      PROVE  k.gen <= gen'
  <2>0. k.gen \in Nat
    BY DEF Key
  <2>1. CASE Around(k)
    BY <1>0, <2>0, <2>1 DEF RekeyInv, BehindInv
  <2>2. ASSUME NEW d \in Device, CreateLocal(d), k = [gen |-> 1, id |-> made + 1]
        PROVE  k.gen <= gen'
    BY <1>1, <2>2
  <2>3. ASSUME NEW c \in Call, SwitchGeneration(c), k.gen = call[c].key.gen
        PROVE  k.gen <= gen'
    BY <1>0, <2>3, StoredSoFar
  <2>4. QED
    BY <1>2, <1>3, <2>1, <2>2, <2>3, AroundStep DEF RekeyInv
<1>4. ASSUME NEW d \in Device
      PROVE  cs'[d].gen <= gen' /\ beat'[d].gen <= gen' /\ joining'[d].gen <= gen'
  <2>1. /\ cs[d].gen \in Nat /\ beat[d].gen \in Nat /\ joining[d].gen \in Nat
        /\ cs[d].gen <= gen /\ beat[d].gen <= gen /\ joining[d].gen <= gen
    BY DEF TypeOK, RekeyInv, BehindInv, CircleState, Bundle, Join
  <2>2. \/ cs'[d].gen \in {cs[d].gen, beat[d].gen, joining[d].gen}
        \/ CreateLocal(d) /\ cs'[d].gen = 1
        \/ \E c \in Call : LocalSwitch(c) /\ cs'[d].gen = call[c].key.gen
    BY StateFields
  <2>3. /\ beat'[d].gen \in {beat[d].gen, 0, gen}
        /\ joining'[d].gen \in {joining[d].gen, 0, gen}
    BY BeatStep, JoiningStep
  <2>4. QED
    BY <1>0, <1>1, <1>2, <2>1, <2>2, <2>3
<1>5. QED
  BY <1>0, <1>3, <1>4 DEF RekeyInv, BehindInv

LEMMA InitRekeyInv == Init => RekeyInv
<1>1. SUFFICES ASSUME Init PROVE PhaseInv /\ BehindInv
  BY DEF RekeyInv
<1>2. \A c \in Call : call[c].dev \in OwnerDevices /\ call[c].pc = "idle"
  BY <1>1, IdleType DEF Init
<1>3. PhaseInv
  BY <1>2, RotatingPcs DEF PhaseInv, GrantedPc, SwitchedPc
<1>4. gen \in {0, 1}
  BY <1>1 DEF Init
<1>5. \A d \in Device : /\ beat[d].grant = NoKey /\ joining[d].key = NoKey /\ grants[d] = {}
                        /\ beat[d].gen = 0 /\ joining[d].gen = 0
                        /\ \/ cs[d].key = NoKey /\ cs[d].gen = 0
                           \/ cs[d].key.gen = 1 /\ cs[d].gen = 1 /\ gen = 1
  BY <1>1 DEF Init, NoBundle, NoJoin, Unknown
<1>6. links = {} /\ NoKey.gen = 0
  BY <1>1 DEF Init, NoKey
<1>7. ASSUME NEW k \in Key, Around(k)
      PROVE  k.gen <= gen
  BY <1>4, <1>5, <1>6, <1>7 DEF Around
<1>8. QED
  BY <1>3, <1>4, <1>5, <1>7 DEF BehindInv

LEMMA NextRekeyInv ==
  TypeOK /\ SyncInv /\ Apart /\ (GenerationsStored => RekeyInv) /\ [Next]_vars
    => (GenerationsStored => RekeyInv)'
<1>1. ASSUME GenerationsStored => RekeyInv, UNCHANGED vars PROVE (GenerationsStored => RekeyInv)'
  <2>1. GenerationsStored' = GenerationsStored
    BY <1>1 DEF GenerationsStored, vars, hubVars, histVars
  <2>2. \A k \in Key : Around(k)' => Around(k)
    BY <1>1 DEF Around, vars, hubVars
  <2>3. QED
    BY <1>1, <2>1, <2>2 DEF RekeyInv, PhaseInv, BehindInv, vars, hubVars
<1>2. QED
  BY <1>1, RekeyStep, StoredSoFar

(* No computer and no link holds a key of a generation the hub has not     *)
(* switched to, whatever heartbeats, joins and failed re-keys happen, when *)
(* removals come one at a time, or come all from one computer, whose       *)
(* syncMu keeps its re-keys apart.                                         *)
THEOREM KeysNeverAheadOfTheHubAlways ==
  (OneRemoval \/ OneOwnerComputer) /\ Spec => []KeysNeverAheadOfTheHub
<1>1. TypeOK /\ (GenerationsStored => RekeyInv) => KeysNeverAheadOfTheHub
  BY DEF TypeOK, RekeyInv, BehindInv, Around, KeysNeverAheadOfTheHub, CircleState
<1>2. Apart /\ Init => (GenerationsStored => RekeyInv)
  BY InitRekeyInv
<1>3. Apart => Apart'
  BY DEF Apart, OneRemoval, OneOwnerComputer
<1>4. QED
  BY <1>1, <1>2, <1>3, NextRekeyInv, InitSyncInv, NextSyncInv, TypeCorrect, PTL DEF Spec, Apart

-----------------------------------------------------------------------------
(* Who a re-key grants its key to, when removals come one at a time: the   *)
(* answer it works from stays a part of the circle, which only a removal   *)
(* makes smaller; and what an earlier re-key left behind is replaced.      *)

PeopleInv ==
    /\ \A c \in Call : call[c].pc \in PostingPc =>
          call[c].people \subseteq CirclePeople(members, revoked)
    /\ \A d \in Device : \A k \in grants[d] : k.gen > gen =>
          /\ d \in CirclePeople(members, revoked) /\ k.gen = gen + 1
          /\ \A c \in Call : call[c].pc \in PostingPc =>
                d \in call[c].people \/ (call[c].pc = "copying" /\ k = call[c].key)

LEMMA InitPeopleInv == Init => PeopleInv
<1>1. SUFFICES ASSUME Init PROVE PeopleInv
  OBVIOUS
<1>2. \A c \in Call : call[c].pc = "idle"
  BY <1>1, IdleType DEF Init
<1>3. \A d \in Device : grants[d] = {}
  BY <1>1 DEF Init
<1>4. QED
  BY <1>2, <1>3 DEF PeopleInv, PostingPc

LEMMA CirclePeopleGrow ==
  ASSUME NEW M, NEW N, NEW R, M \subseteq N
  PROVE  CirclePeople(M, R) \subseteq CirclePeople(N, R)
BY DEF CirclePeople, DevicesOf

(* The membership changes at the hub's removal only, and only PostGrant     *)
(* adds a grant.                                                           *)
LEMMA RemoveSteps ==
  ASSUME TypeOK, NEW c \in Call, Remove(c), ~\E d \in Device, p \in Person : RemoveAtHub(c, d, p)
  PROVE  /\ UNCHANGED <<members, revoked, left>>
         /\ PostGrant(c) \/ \A x \in Device : grants'[x] \subseteq grants[x]
<1>1. CASE StartRotate(c) \/ GrantsPosted(c) \/ LocalSwitch(c) \/ RemovalFails(c)
  BY <1>1 DEF StartRotate, GrantsPosted, LocalSwitch, RemovalFails, hubVars, histVars
<1>2. CASE PostGrant(c)
  BY <1>2 DEF PostGrant, histVars
<1>3. CASE CheckGeneration(c) \/ KeyCreate(c) \/ CircleSetS3(c) \/ KeyDelete(c) \/ SwitchGeneration(c)
  BY <1>3 DEF CheckGeneration, KeyCreate, CircleSetS3, KeyDelete, SwitchGeneration, hubVars, histVars
<1>4. CASE DropOldGrants(c)
  BY <1>4 DEF DropOldGrants, TypeOK, histVars
<1>5. QED
  BY <1>1, <1>2, <1>3, <1>4 DEF Remove, Switch

(* What a removal's posting makes of its people and of the grants.         *)
LEMMA PostGrantStep ==
  ASSUME TypeOK, NEW c \in Call, PostGrant(c)
  PROVE  \E x \in call[c].people :
           /\ grants' = WithGrant(call[c].key, {x})
           /\ call'[c].people = call[c].people \ {x} /\ call'[c].key = call[c].key
           /\ call[c].pc = "copying" /\ call'[c].pc = "copying"
<1>0. call \in [Call -> Removal] /\ call[c] \in Removal
  BY DEF TypeOK
<1>1. PICK x \in call[c].people : /\ grants' = WithGrant(call[c].key, {x})
                                  /\ call' = [call EXCEPT ![c].people = @ \ {x}]
  BY DEF PostGrant
<1>2. /\ call'[c].people = call[c].people \ {x} /\ call'[c].key = call[c].key
      /\ call'[c].pc = call[c].pc
  BY <1>0, <1>1 DEF Removal
<1>3. QED
  BY <1>1, <1>2 DEF PostGrant

LEMMA PeopleElsewhere ==
  ASSUME TypeOK, SyncInv, RekeyInv, PeopleInv, Next,
         NEW d \in Device, Create(d) \/ Heartbeat(d) \/ Invite(d)
  PROVE  PeopleInv'
<1>0. /\ gen \in Nat /\ grants \in [Device -> SUBSET Key] /\ joining \in [Device -> Join]
      /\ grants' \in [Device -> SUBSET Key]
      /\ \A x \in Device : \A k \in grants'[x] : k.gen \in Nat
  BY NextTypeOK DEF TypeOK, Key
<1>1. CASE CreateAtHub(d)
  <2>1. members = {} /\ \A x \in Device : grants[x] = {}
    BY <1>1 DEF CreateAtHub, SyncInv, FoundingInv, Keyless
  <2>2. UNCHANGED <<grants, call, revoked>> /\ members \subseteq members'
    BY <1>1, <2>1 DEF CreateAtHub
  <2>3. CirclePeople(members, revoked) \subseteq CirclePeople(members', revoked')
    BY <2>2, CirclePeopleGrow
  <2>4. QED
    BY <2>1, <2>2, <2>3 DEF PeopleInv
<1>2. CASE ~CreateAtHub(d)
  <2>1. UNCHANGED <<gen, revoked, call>> /\ members \subseteq members'
    BY <1>2, OwnSteps
  <2>2. CirclePeople(members, revoked) \subseteq CirclePeople(members', revoked')
    BY <2>1, CirclePeopleGrow
  <2>3. \A e \in Device : joining[e].key.gen <= gen
    BY <1>0 DEF RekeyInv, BehindInv, Around, Join
  <2>4. \A c \in Call : ~PostGrant(c)
    BY <2>1, PostGrantStep
  <2>5. ASSUME NEW x \in Device, NEW k \in grants'[x], k.gen > gen
        PROVE  k \in grants[x]
    BY <1>0, <2>3, <2>4, <2>5, GrantsStep DEF TypeOK, Join, Key
  <2>6. QED
    BY <1>0, <2>1, <2>2, <2>5 DEF PeopleInv
<1>3. QED
  BY <1>1, <1>2

LEMMA PeopleRemoval ==
  ASSUME TypeOK, SyncInv, OneRemoval, RekeyInv, PeopleInv, Next, GenerationsStored',
         NEW c \in Call, Remove(c)
  PROVE  PeopleInv'
<1>0. /\ gen \in Nat /\ gen' \in Nat /\ gen <= gen' /\ grants \in [Device -> SUBSET Key]
      /\ grants' \in [Device -> SUBSET Key] /\ call \in [Call -> Removal]
      /\ \A x \in Device : \A k \in grants'[x] : k.gen \in Nat
      /\ \A x \in Device : \A k \in grants[x] : k.gen \in Nat
  BY NextTypeOK, PhaseStep DEF TypeOK, Key, RekeyInv, Apart
<1>1. \A o \in Call : o = c
  BY DEF OneRemoval
<1>2. ASSUME NEW d \in Device, NEW p \in Person, RemoveAtHub(c, d, p)
      PROVE  PeopleInv'
  <2>1. /\ call'[c].people = CirclePeople(members', revoked') /\ gen' = gen
        /\ members' = members \ {p} /\ revoked' \subseteq revoked \cup DevicesOf({p})
        /\ grants' = [x \in Device |-> IF x \in DevicesOf({p}) THEN {} ELSE grants[x]]
    BY <1>0, <1>2 DEF RemoveAtHub
  <2>2. ASSUME NEW x \in Device, NEW k \in grants'[x], k.gen > gen'
        PROVE  x \in CirclePeople(members', revoked') /\ k.gen = gen' + 1
    <3>1. x \notin DevicesOf({p}) /\ k \in grants[x]
      BY <2>1, <2>2
    <3>2. x \in CirclePeople(members, revoked) /\ k.gen = gen + 1
      BY <2>1, <2>2, <3>1 DEF PeopleInv
    <3>3. QED
      BY <2>1, <3>1, <3>2 DEF CirclePeople, DevicesOf
  <2>3. \A x \in Device : \A k \in grants'[x] : k.gen > gen' => x \in call'[c].people
    BY <2>1, <2>2
  <2>4. \A o \in Call : call'[o].people \subseteq CirclePeople(members', revoked')
    BY <1>1, <2>1
  <2>5. QED
    BY <1>1, <2>2, <2>3, <2>4 DEF PeopleInv
<1>3. ASSUME ~\E d \in Device, p \in Person : RemoveAtHub(c, d, p)
      PROVE  PeopleInv'
  <2>0. CirclePeople(members', revoked') = CirclePeople(members, revoked)
    BY <1>3, RemoveSteps
  <2>1. CASE StartRotate(c)
    <3>1. /\ call[c].pc = "removed" /\ call'[c].people = call[c].people
          /\ UNCHANGED <<gen, grants>>
      BY <1>0, <2>1 DEF StartRotate, Removal, hubVars
    <3>2. QED
      BY <1>0, <1>1, <2>0, <3>1 DEF PeopleInv, PostingPc
  <2>2. CASE PostGrant(c)
    <3>1. PICK x \in call[c].people :
             /\ grants' = WithGrant(call[c].key, {x})
             /\ call'[c].people = call[c].people \ {x} /\ call'[c].key = call[c].key
             /\ call[c].pc = "copying" /\ call'[c].pc = "copying"
      BY <2>2, PostGrantStep
    <3>2. gen' = gen /\ call[c].key.gen = gen + 1
      BY <2>2 DEF PostGrant, RekeyInv, PhaseInv
    <3>3. x \in CirclePeople(members, revoked)
      BY <3>1 DEF PeopleInv, PostingPc
    <3>4. ASSUME NEW y \in Device, NEW k \in grants'[y], k.gen > gen
          PROVE  /\ y \in CirclePeople(members, revoked) /\ k.gen = gen + 1
                 /\ y \in call'[c].people \/ k = call[c].key
      <4>1. CASE y = x
        <5>1. k = call[c].key \/ (k \in grants[y] /\ k.gen # call[c].key.gen)
          BY <1>0, <3>1, <4>1 DEF WithGrant
        <5>2. QED
          BY <3>2, <3>3, <3>4, <4>1, <5>1 DEF PeopleInv
      <4>2. CASE y # x
        <5>1. k \in grants[y]
          BY <1>0, <3>1, <4>2 DEF WithGrant
        <5>2. QED
          BY <3>1, <3>4, <4>2, <5>1 DEF PeopleInv, PostingPc
      <4>3. QED
        BY <4>1, <4>2
    <3>5. QED
      BY <1>1, <2>0, <3>1, <3>2, <3>4 DEF PeopleInv, PostingPc
  <2>3. CASE ~StartRotate(c) /\ ~PostGrant(c)
    <3>1. call'[c].pc \notin PostingPc
      BY <1>3, <2>3, CallStep, PhaseMoves DEF PostingPc, GrantedPc, Switch
    <3>2. \A x \in Device : grants'[x] \subseteq grants[x]
      BY <1>3, <2>3, RemoveSteps
    <3>3. ASSUME NEW x \in Device, NEW k \in grants'[x], k.gen > gen'
          PROVE  x \in CirclePeople(members, revoked) /\ k.gen = gen' + 1
      <4>1. k \in grants[x] /\ k.gen > gen
        BY <1>0, <3>2, <3>3
      <4>2. QED
        BY <1>0, <3>3, <4>1 DEF PeopleInv
    <3>4. QED
      BY <1>1, <2>0, <3>1, <3>3 DEF PeopleInv
  <2>4. QED
    BY <2>1, <2>2, <2>3
<1>4. QED
  BY <1>2, <1>3

(* A computer that joined passes its key on to its own person's computers, *)
(* and one that is not joining holds nothing of a join.                    *)
OwnInv == \A d \in Device : /\ joining[d].others \subseteq DevicesOf({PersonOf[d]})
                            /\ joining[d].pc = "none" => joining[d].key = NoKey

LEMMA NextOwnInv == TypeOK /\ OwnInv /\ [Next]_vars => OwnInv'
<1>1. ASSUME TypeOK, OwnInv, Next, NEW d \in Device, joining'[d].pc = "none"
      PROVE  joining'[d].key = NoKey
  <2>0. joining[d] \in Join /\ joining \in [Device -> Join]
    BY <1>1 DEF TypeOK
  <2>1. CASE joining'[d] = joining[d]
    BY <1>1, <2>1 DEF OwnInv
  <2>2. ASSUME NEW k \in links, JoinAtHub(d, k) PROVE FALSE
    BY <1>1, <2>0, <2>2 DEF JoinAtHub, NoJoin
  <2>3. CASE JoinMember(d) \/ CheckOwnGrants(d)
    <3>1. joining'[d] = NoJoin \/ \E pc \in {"member", "storing"} : joining'[d] = [joining[d] EXCEPT !.pc = pc]
      BY <2>0, <2>3 DEF JoinMember, CheckOwnGrants
    <3>2. QED
      BY <1>1, <2>0, <3>1 DEF Join, NoJoin
  <2>4. CASE JoinRow(d) \/ JoinCredential(d)
    BY <1>1, <2>0, <2>4 DEF JoinRow, JoinCredential, Join
  <2>5. CASE JoinOthers(d)
    BY <1>1, <2>0, <2>5 DEF JoinOthers, Join
  <2>6. CASE JoinSettings(d) \/ JoinKey(d)
    BY <1>1, <2>0, <2>6 DEF JoinSettings, JoinKey, Join
  <2>7. CASE StoreOwnGrant(d)
    BY <1>1, <2>0, <2>7 DEF StoreOwnGrant, Join
  <2>8. CASE JoinEnds(d)
    BY <1>1, <2>0, <2>8 DEF JoinEnds, NoJoin
  <2>9. CASE MakeLink(d)
    BY <1>1, <2>9 DEF MakeLink, OwnInv
  <2>10. ASSUME NEW x \in Device, x # d, Invite(x) PROVE joining'[d] = joining[d]
    BY <1>1, <2>10, InviteFrame
  <2>11. ASSUME NEW x \in Device, Create(x) \/ Heartbeat(x) PROVE joining' = joining
    BY <1>1, <2>11, CreateFrame, HeartbeatFrame
  <2>12. ASSUME NEW c \in Call, Remove(c) PROVE joining' = joining
    BY <1>1, <2>12, RemoveFrame
  <2>13. QED
    BY <1>1, <2>1, <2>2, <2>3, <2>4, <2>5, <2>6, <2>7, <2>8, <2>9, <2>10, <2>11, <2>12
    DEF Next, Invite, Answering
<1>2. ASSUME TypeOK, OwnInv, Next, NEW d \in Device
      PROVE  joining'[d].others \subseteq DevicesOf({PersonOf[d]})
  BY <1>2, JoiningStep DEF OwnInv
<1>3. ASSUME OwnInv, UNCHANGED vars PROVE OwnInv'
  BY <1>3 DEF OwnInv, vars
<1>4. ASSUME TypeOK, OwnInv, Next PROVE OwnInv'
  BY <1>1, <1>2, <1>4 DEF OwnInv
<1>5. QED
  BY <1>3, <1>4

-----------------------------------------------------------------------------
(* One key per generation.  A re-key that failed left grants of the        *)
(* generation the next one makes another key for; PeopleInv says the next  *)
(* one replaces each of them before its switch shows them to anyone.       *)

OneKeyInv ==
    /\ \A k, l \in Key : Around(k) /\ Around(l) /\ k.gen = l.gen => k = l
    /\ \A c \in Call : call[c].pc \in SwitchedPc =>
          \A k \in Key : Around(k) /\ k.gen = gen => k = call[c].key
    /\ \A c \in Call : call[c].pc \in GrantedPc =>
          \A d \in Device : \A k \in grants[d] : k.gen = gen + 1 => k = call[c].key

LEMMA InitOneKeyInv == Init => OneKeyInv
<1>1. SUFFICES ASSUME Init PROVE OneKeyInv
  OBVIOUS
<1>2. \A c \in Call : call[c].pc = "idle"
  BY <1>1, IdleType DEF Init
<1>3. \A d \in Device : /\ beat[d].grant = NoKey /\ joining[d].key = NoKey /\ grants[d] = {}
                        /\ cs[d].key = NoKey \/ cs[d].key = [gen |-> 1, id |-> 1]
  BY <1>1 DEF Init, NoBundle, NoJoin, Unknown
<1>4. \A k \in Key : Around(k) => k = NoKey \/ k = [gen |-> 1, id |-> 1]
  BY <1>1, <1>3 DEF Init, Around
<1>5. NoKey.gen = 0 /\ [gen |-> 1, id |-> 1].gen = 1
  BY DEF NoKey
<1>6. \A k, l \in Key : Around(k) /\ Around(l) /\ k.gen = l.gen => k = l
  BY <1>4, <1>5
<1>7. QED
  BY <1>2, <1>6 DEF OneKeyInv, GrantedPc, SwitchedPc

LEMMA KeylessAround ==
  ASSUME Keyless, OwnInv, NEW k \in Key, Around(k)
  PROVE  k = NoKey
<1>1. \A d \in Device : /\ cs[d].key = NoKey /\ grants[d] = {} /\ beat[d].grant = NoKey
                        /\ joining[d].key = NoKey
  BY DEF Keyless, OwnInv
<1>2. links = {}
  BY DEF Keyless
<1>3. QED
  BY <1>1, <1>2 DEF Around

(* What may come to be around is of a generation nothing around is of, or  *)
(* is the key of it already.                                               *)
LEMMA FreshOrKnown ==
  ASSUME TypeOK, SyncInv, OneRemoval, RekeyInv, OneKeyInv, OwnInv, Next, GenerationsStored',
         NEW k \in Key, NEW l \in Key, Around(k)', Around(l)', k.gen = l.gen
  PROVE  k = l
<1>1. CASE Around(k) /\ Around(l)
  BY <1>1 DEF OneKeyInv
<1>2. ASSUME NEW x \in Key, NEW y \in Key, Around(x)', Around(y)', x.gen = y.gen, ~Around(x)
      PROVE  x = y
  <2>0. /\ \/ \E d \in Device : CreateLocal(d) /\ x = [gen |-> 1, id |-> made + 1]
           \/ \E c \in Call : LocalSwitch(c) /\ x = call[c].key
           \/ \E c \in Call, d \in Device :
                 SwitchGeneration(c) /\ x \in grants[d] /\ x.gen = call[c].key.gen
        /\ \/ Around(y)
           \/ \E d \in Device : CreateLocal(d) /\ y = [gen |-> 1, id |-> made + 1]
           \/ \E c \in Call : LocalSwitch(c) /\ y = call[c].key
           \/ \E c \in Call, d \in Device :
                 SwitchGeneration(c) /\ y \in grants[d] /\ y.gen = call[c].key.gen
    BY <1>2, AroundStep DEF RekeyInv
  <2>1. ASSUME NEW d \in Device, CreateLocal(d), x = [gen |-> 1, id |-> made + 1]
        PROVE  x = y
    <3>1. Keyless
      BY <2>1 DEF CreateLocal, SyncInv, FoundingInv
    <3>2. \A c \in Call : ~LocalSwitch(c) /\ ~SwitchGeneration(c)
      BY <3>1, RotatingPcs DEF Keyless, LocalSwitch, SwitchGeneration
    <3>3. ~Around(y)
      BY <1>2, <2>1, <3>1, KeylessAround DEF NoKey
    <3>4. QED
      BY <2>0, <2>1, <3>2, <3>3
  <2>2. ASSUME NEW c \in Call, LocalSwitch(c), x = call[c].key
        PROVE  x = y
    <3>1. \A d \in Device : ~CreateLocal(d)
      BY <2>2, RotatingPcs DEF LocalSwitch, CreateLocal, SyncInv, FoundingInv, Keyless
    <3>2. \A o \in Call : o = c /\ ~SwitchGeneration(o)
      BY <2>2 DEF LocalSwitch, SwitchGeneration, OneRemoval
    <3>3. call[c].pc \in SwitchedPc /\ call[c].key.gen = gen
      BY <2>2 DEF LocalSwitch, SwitchedPc, RekeyInv, PhaseInv
    <3>4. Around(y) => y = call[c].key
      BY <1>2, <2>2, <3>3 DEF OneKeyInv
    <3>5. QED
      BY <2>0, <2>2, <3>1, <3>2, <3>4
  <2>3. ASSUME NEW c \in Call, NEW d \in Device,
               SwitchGeneration(c), x \in grants[d], x.gen = call[c].key.gen
        PROVE  x = y
    <3>1. \A e \in Device : ~CreateLocal(e)
      BY <2>3, RotatingPcs DEF SwitchGeneration, CreateLocal, SyncInv, FoundingInv, Keyless
    <3>2. \A o \in Call : o = c /\ ~LocalSwitch(o)
      BY <2>3 DEF LocalSwitch, SwitchGeneration, OneRemoval
    <3>3. call[c].pc \in GrantedPc /\ call[c].key.gen = gen + 1
      BY <2>3 DEF SwitchGeneration, GrantedPc, RekeyInv, PhaseInv
    <3>4. \A e \in Device : \A g \in grants[e] : g.gen = gen + 1 => g = call[c].key
      BY <3>3 DEF OneKeyInv
    <3>5. gen \in Nat /\ y.gen = gen + 1
      BY <1>2, <2>3, <3>3 DEF TypeOK
    <3>6. ~Around(y)
      BY <3>5 DEF RekeyInv, BehindInv
    <3>7. QED
      BY <2>0, <2>3, <3>1, <3>2, <3>3, <3>4, <3>5, <3>6
  <2>4. QED
    BY <2>0, <2>1, <2>2, <2>3
<1>3. QED
  BY <1>1, <1>2

LEMMA OneKeyElsewhere ==
  ASSUME TypeOK, SyncInv, RekeyInv, OneKeyInv, Next, GenerationsStored',
         NEW d \in Device, Create(d) \/ Heartbeat(d) \/ Invite(d), NEW c \in Call
  PROVE  /\ call'[c].pc \in SwitchedPc =>
               \A k \in Key : Around(k)' /\ k.gen = gen' => k = call'[c].key
         /\ call'[c].pc \in GrantedPc =>
               \A x \in Device : \A k \in grants'[x] : k.gen = gen' + 1 => k = call'[c].key
<1>0. call' = call
  BY CreateFrame, HeartbeatFrame, InviteFrame
<1>1. SUFFICES ASSUME call[c].pc \in SwitchedPc \cup GrantedPc
      PROVE  /\ call[c].pc \in SwitchedPc =>
                   \A k \in Key : Around(k)' /\ k.gen = gen' => k = call[c].key
             /\ call[c].pc \in GrantedPc =>
                   \A x \in Device : \A k \in grants'[x] : k.gen = gen' + 1 => k = call[c].key
  BY <1>0
<1>2. ~Keyless
  BY <1>1, RotatingPcs DEF Keyless, SwitchedPc, GrantedPc
<1>3. /\ \A e \in Device : ~CreateLocal(e) /\ ~CreateAtHub(e)
      /\ gen' = gen
  BY <1>2, OwnSteps DEF SyncInv, FoundingInv, CreateLocal, CreateAtHub
<1>4. \A o \in Call : ~LocalSwitch(o) /\ ~SwitchGeneration(o) /\ ~PostGrant(o)
  <2>1. ASSUME NEW o \in Call, LocalSwitch(o) PROVE FALSE
    BY <1>0, <2>1, IdleType DEF LocalSwitch, TypeOK
  <2>2. ASSUME NEW o \in Call, SwitchGeneration(o) PROVE FALSE
    BY <1>0, <2>2, PhaseMoves
  <2>3. ASSUME NEW o \in Call, PostGrant(o) PROVE FALSE
    BY <1>0, <2>3, PostGrantStep
  <2>4. QED
    BY <2>1, <2>2, <2>3
<1>5. \A k \in Key : Around(k)' => Around(k)
  BY <1>3, <1>4, AroundStep DEF RekeyInv
<1>6. ASSUME NEW x \in Device, NEW k \in grants'[x], k.gen = gen + 1
      PROVE  k \in grants[x]
  <2>1. \A e \in Device : joining[e].key \in Key /\ joining[e].key.gen <= gen
    BY DEF RekeyInv, BehindInv, Around, TypeOK, Join
  <2>2. gen \in Nat /\ ~(gen + 1 <= gen)
    BY DEF TypeOK
  <2>3. QED
    BY <1>4, <1>6, <2>1, <2>2, GrantsStep
<1>7. QED
  BY <1>3, <1>5, <1>6 DEF OneKeyInv

LEMMA OneKeyRemoval ==
  ASSUME TypeOK, SyncInv, OneRemoval, RekeyInv, PeopleInv, OneKeyInv, Next, GenerationsStored',
         NEW c \in Call, Remove(c)
  PROVE  /\ call'[c].pc \in SwitchedPc =>
               \A k \in Key : Around(k)' /\ k.gen = gen' => k = call'[c].key
         /\ call'[c].pc \in GrantedPc =>
               \A x \in Device : \A k \in grants'[x] : k.gen = gen' + 1 => k = call'[c].key
<1>0. gen \in Nat /\ call \in [Call -> Removal] /\ call[c] \in Removal /\ \A o \in Call : o = c
  BY DEF TypeOK, OneRemoval
<1>1. CASE call'[c].pc \notin SwitchedPc /\ call'[c].pc \notin GrantedPc
  BY <1>1
<1>2. CASE GrantsPosted(c)
  <2>1. /\ call[c].pc = "copying" /\ call[c].people = {} /\ UNCHANGED <<gen, grants>>
        /\ call'[c].key = call[c].key /\ call'[c].pc = "granted"
    BY <1>0, <1>2 DEF GrantsPosted, Removal, hubVars
  <2>2. \A x \in Device : \A k \in grants[x] : k.gen = gen + 1 => k = call[c].key
    BY <1>0, <2>1 DEF PeopleInv, PostingPc
  <2>3. QED
    BY <2>1, <2>2 DEF SwitchedPc
<1>3. CASE CheckGeneration(c) \/ KeyCreate(c) \/ CircleSetS3(c) \/ KeyDelete(c)
  <2>1. UNCHANGED <<gen, grants>>
    BY <1>3 DEF CheckGeneration, KeyCreate, CircleSetS3, KeyDelete, hubVars
  <2>2. call[c].pc \in GrantedPc /\ call'[c].pc \in GrantedPc
    BY <1>3, PhaseMoves
  <2>3. call'[c].pc \notin SwitchedPc /\ call'[c].pc \notin {"idle", "removed", "copying"}
    BY <2>2 DEF GrantedPc, SwitchedPc
  <2>4. call'[c].key = call[c].key
    BY <2>3, CallStep
  <2>5. QED
    BY <2>1, <2>2, <2>3, <2>4 DEF OneKeyInv
<1>4. CASE SwitchGeneration(c)
  <2>1. /\ call[c].pc \in GrantedPc /\ call'[c].pc = "switched" /\ call[c].key.gen = gen + 1
        /\ gen' = gen + 1
    BY <1>4, PhaseMoves, StoredSoFar DEF GrantedPc, RekeyInv, PhaseInv
  <2>2. call'[c].key = call[c].key
    BY <2>1, CallStep
  <2>3. /\ \A o \in Call : ~LocalSwitch(o)
        /\ \A d \in Device : ~CreateLocal(d)
    <3>1. ~LocalSwitch(c)
      BY <1>4 DEF LocalSwitch, SwitchGeneration
    <3>2. ~Keyless
      BY <1>4, RotatingPcs DEF SwitchGeneration, Keyless
    <3>3. QED
      BY <1>0, <3>1, <3>2 DEF CreateLocal, SyncInv, FoundingInv
  <2>4. ASSUME NEW k \in Key, Around(k)', k.gen = gen + 1
        PROVE  k = call[c].key
    <3>1. ~Around(k)
      BY <1>0, <2>4 DEF RekeyInv, BehindInv
    <3>2. PICK d \in Device : k \in grants[d]
      BY <2>3, <2>4, <3>1, AroundStep DEF RekeyInv
    <3>3. QED
      BY <2>1, <2>4, <3>2 DEF OneKeyInv
  <2>5. QED
    BY <2>1, <2>2, <2>4 DEF GrantedPc
<1>5. CASE DropOldGrants(c)
  <2>1. call[c].pc \in SwitchedPc /\ call'[c].pc = "replied" /\ gen' = gen
    BY <1>5, PhaseMoves DEF DropOldGrants, SwitchedPc
  <2>2. call'[c].key = call[c].key
    BY <2>1, CallStep
  <2>3. \A o \in Call : ~LocalSwitch(o) /\ ~SwitchGeneration(o)
    BY <1>0, <1>5 DEF DropOldGrants, LocalSwitch, SwitchGeneration
  <2>4. \A d \in Device : ~CreateLocal(d)
    BY <1>5, RotatingPcs DEF DropOldGrants, CreateLocal, SyncInv, FoundingInv, Keyless
  <2>5. \A k \in Key : Around(k)' => Around(k)
    BY <2>3, <2>4, AroundStep DEF RekeyInv
  <2>6. QED
    BY <2>1, <2>2, <2>5 DEF OneKeyInv, GrantedPc
<1>6. CASE PostGrant(c)
  BY <1>1, <1>6, PhaseMoves DEF SwitchedPc, GrantedPc
<1>7. QED
  BY <1>1, <1>2, <1>3, <1>4, <1>5, <1>6, CallStep DEF Switch, SwitchedPc, GrantedPc

LEMMA OneKeyStep ==
  ASSUME TypeOK, SyncInv, OneRemoval, RekeyInv, PeopleInv, OwnInv, OneKeyInv, Next,
         GenerationsStored'
  PROVE  OneKeyInv'
<1>1. \A k, l \in Key : Around(k)' /\ Around(l)' /\ k.gen = l.gen => k = l
  BY FreshOrKnown
<1>2. CASE \E d \in Device : Create(d) \/ Heartbeat(d) \/ Invite(d)
  BY <1>1, <1>2, OneKeyElsewhere DEF OneKeyInv
<1>3. ASSUME NEW c \in Call, Remove(c)
      PROVE  OneKeyInv'
  <2>1. \A x \in Call : x = c
    BY DEF OneRemoval
  <2>2. QED
    BY <1>1, <1>3, <2>1, OneKeyRemoval DEF OneKeyInv
<1>4. QED
  BY <1>2, <1>3 DEF Next

LEMMA PeopleStep ==
  ASSUME TypeOK, SyncInv, OneRemoval, RekeyInv, PeopleInv, Next, GenerationsStored'
  PROVE  PeopleInv'
BY PeopleElsewhere, PeopleRemoval DEF Next

(* What holds while removals come one at a time and the row follows them.  *)
AloneInv == OwnInv /\ (GenerationsStored => RekeyInv /\ PeopleInv /\ OneKeyInv)

LEMMA InitAloneInv == Init => AloneInv
BY InitPeopleInv, InitRekeyInv, InitOneKeyInv DEF Init, AloneInv, OwnInv, NoJoin

LEMMA NextAloneInv == TypeOK /\ SyncInv /\ OneRemoval /\ AloneInv /\ [Next]_vars => AloneInv'
<1>1. ASSUME AloneInv, UNCHANGED vars, TypeOK PROVE AloneInv'
  <2>1. GenerationsStored' = GenerationsStored
    BY <1>1 DEF GenerationsStored, vars, hubVars, histVars
  <2>2. \A k \in Key : Around(k)' => Around(k)
    BY <1>1 DEF Around, vars, hubVars
  <2>3. OwnInv'
    BY <1>1, NextOwnInv DEF AloneInv
  <2>4. RekeyInv => RekeyInv'
    BY <1>1, <2>2 DEF RekeyInv, PhaseInv, BehindInv, vars, hubVars
  <2>5. PeopleInv => PeopleInv'
    BY <1>1 DEF PeopleInv, CirclePeople, vars, hubVars
  <2>6. OneKeyInv => OneKeyInv'
    BY <1>1, <2>2 DEF OneKeyInv, vars, hubVars
  <2>7. QED
    BY <1>1, <2>1, <2>3, <2>4, <2>5, <2>6 DEF AloneInv
<1>2. ASSUME TypeOK, SyncInv, OneRemoval, AloneInv, Next PROVE AloneInv'
  <2>1. OwnInv'
    BY <1>2, NextOwnInv DEF AloneInv
  <2>2. ASSUME GenerationsStored'
        PROVE  RekeyInv' /\ PeopleInv' /\ OneKeyInv'
    BY <1>2, <2>2, StoredSoFar, RekeyStep, PeopleStep, OneKeyStep DEF AloneInv, Apart
  <2>3. QED
    BY <2>1, <2>2 DEF AloneInv
<1>3. QED
  BY <1>1, <1>2

(* When removals come one at a time, every computer that holds a key of a  *)
(* generation holds the same key of it, whatever attempts to re-key failed *)
(* half way before, and whoever joined by a link in between.               *)
THEOREM OneKeyPerGenerationAlways == OneRemoval /\ Spec => []OneKeyPerGeneration
<1>1. OneRemoval => OneRemoval'
  BY DEF OneRemoval
<1>2. TypeOK /\ AloneInv => OneKeyPerGeneration
  BY DEF TypeOK, CircleState, Around, AloneInv, OneKeyInv, OneKeyPerGeneration
<1>3. QED
  BY <1>1, <1>2, InitAloneInv, NextAloneInv, InitSyncInv, NextSyncInv, TypeCorrect, PTL DEF Spec

-----------------------------------------------------------------------------
(* Someone who was taken out.  What their computers hold, were answered,    *)
(* or are granted, was made before: a re-key posts to members only, a       *)
(* computer passes a key on within its own person's, and the owner, whose   *)
(* computers make the keys, is never taken out.                             *)

OutInv ==
    /\ gen > 0 => Owner \in members
    /\ creating \subseteq OwnerDevices
    /\ \A d, e \in Device : PersonOf[d] = PersonOf[e] => left[d].gen = left[e].gen
    /\ \A d \in Device : PersonOf[d] \notin members =>
          /\ cs[d].key.gen <= left[d].gen /\ beat[d].grant.gen <= left[d].gen
          /\ joining[d].key.gen <= left[d].gen
          /\ \A k \in grants[d] : k.gen <= left[d].gen

LEMMA InitOutInv == Init => OutInv
<1>1. SUFFICES ASSUME Init PROVE OutInv
  OBVIOUS
<1>2. gen > 0 => Owner \in members
  BY <1>1, FoundersAssumption DEF Init
<1>3. ASSUME NEW d \in Device, PersonOf[d] \notin members
      PROVE  /\ cs[d].key = NoKey /\ beat[d].grant = NoKey /\ joining[d].key = NoKey
             /\ grants[d] = {} /\ left[d].gen = 0
  BY <1>1, <1>3 DEF Init, Unknown, NoBundle, NoJoin
<1>4. NoKey.gen = 0
  BY DEF NoKey
<1>5. \A d \in Device : left[d].gen = 0
  BY <1>1 DEF Init
<1>6. QED
  BY <1>1, <1>2, <1>3, <1>4, <1>5 DEF OutInv, Init

(* Only a removal at the hub changes left, and for the person it takes out. *)
LEMMA LeftStep ==
  ASSUME TypeOK, SyncInv, Next, NEW d \in Device
  PROVE  \/ left'[d] = left[d] /\ (PersonOf[d] \in members => PersonOf[d] \in members')
         \/ \E c \in Call, e \in Device :
              /\ RemoveAtHub(c, e, PersonOf[d]) /\ PersonOf[d] \in members /\ PersonOf[d] # Owner
              /\ PersonOf[d] \notin members' /\ grants'[d] = {} /\ gen' = gen
              /\ UNCHANGED <<cs, beat, joining, creating>>
              /\ left'[d] = [gen |-> gen, creds |-> {cs[d].cred, beat[d].cred, joining[d].cred}]
<1>1. ASSUME NEW x \in Device, Create(x) \/ Heartbeat(x) \/ Invite(x), ~CreateAtHub(x)
      PROVE  left' = left /\ members \subseteq members'
  BY <1>1, OwnSteps
<1>2. ASSUME NEW x \in Device, CreateAtHub(x)
      PROVE  left' = left /\ (PersonOf[d] \in members => PersonOf[d] \in members')
  <2>1. Create(x)
    BY <1>2 DEF Create
  <2>2. QED
    BY <1>2, <2>1, CreateFrame DEF CreateAtHub, SyncInv, FoundingInv, histVars
<1>3. ASSUME NEW c \in Call, Remove(c), ~\E e \in Device, p \in Person : RemoveAtHub(c, e, p)
      PROVE  left' = left /\ members' = members
  BY <1>3, RemoveSteps
<1>4. ASSUME NEW c \in Call, NEW e \in Device, NEW p \in Person, RemoveAtHub(c, e, p),
             p = PersonOf[d], p \in members
      PROVE  /\ p # Owner /\ p \notin members' /\ grants'[d] = {} /\ gen' = gen
             /\ UNCHANGED <<cs, beat, joining, creating>>
             /\ left'[d] = [gen |-> gen, creds |-> {cs[d].cred, beat[d].cred, joining[d].cred}]
  BY <1>4 DEF RemoveAtHub, DevicesOf
<1>5. ASSUME NEW c \in Call, NEW e \in Device, NEW p \in Person, RemoveAtHub(c, e, p),
             p # PersonOf[d] \/ p \notin members
      PROVE  left'[d] = left[d] /\ (PersonOf[d] \in members => PersonOf[d] \in members')
  BY <1>5 DEF RemoveAtHub, DevicesOf, TypeOK
<1>6. QED
  BY <1>1, <1>2, <1>3, <1>4, <1>5 DEF Next, Remove

LEMMA Leaves ==
  ASSUME TypeOK, SyncInv, Next, NEW d \in Device, PersonOf[d] \in members, PersonOf[d] \notin members'
  PROVE  /\ grants'[d] = {} /\ gen' = gen /\ left'[d].gen = gen
         /\ cs' = cs /\ beat' = beat /\ joining' = joining
<1>1. PICK c \in Call, e \in Device :
         /\ grants'[d] = {} /\ gen' = gen
         /\ UNCHANGED <<cs, beat, joining, creating>>
         /\ left'[d] = [gen |-> gen, creds |-> {cs[d].cred, beat[d].cred, joining[d].cred}]
  BY LeftStep
<1>2. left'[d].gen = gen
  BY <1>1
<1>3. QED
  BY <1>1, <1>2

LEMMA Stays ==
  ASSUME TypeOK, SyncInv, Next, NEW d \in Device, PersonOf[d] \in members => PersonOf[d] \in members'
  PROVE  left'[d] = left[d]
<1>1. \/ left'[d] = left[d]
      \/ PersonOf[d] \in members /\ PersonOf[d] \notin members'
  BY LeftStep
<1>2. QED
  BY <1>1

LEMMA OutStep ==
  ASSUME TypeOK, SyncInv, OneRemoval, RekeyInv, PeopleInv, OwnInv, OutInv, Next,
         GenerationsStored'
  PROVE  OutInv'
<1>0. /\ gen \in Nat /\ gen' \in Nat /\ gen <= gen' /\ NoKey.gen = 0
      /\ \A d \in Device : left[d].gen \in Nat
  BY NextTypeOK, PhaseStep DEF TypeOK, RekeyInv, Apart, NoKey
<1>1. gen' > 0 => Owner \in members'
  <2>1. ASSUME NEW d \in Device, CreateAtHub(d) PROVE Owner \in members'
    BY <2>1 DEF CreateAtHub
  <2>2. ASSUME NEW d \in Device, Create(d) \/ Heartbeat(d) \/ Invite(d), ~CreateAtHub(d)
        PROVE  gen' = gen /\ members \subseteq members'
    BY <2>2, OwnSteps
  <2>3. ASSUME NEW c \in Call, Remove(c)
        PROVE  (gen' > 0 => gen > 0) /\ (Owner \in members => Owner \in members')
    <3>1. ASSUME NEW e \in Device, NEW p \in Person, RemoveAtHub(c, e, p)
          PROVE  Owner \in members => Owner \in members'
      BY <3>1 DEF RemoveAtHub
    <3>2. Owner \in members => Owner \in members'
      BY <2>3, <3>1, RemoveSteps
    <3>3. SwitchGeneration(c) => gen # 0
      BY RotatingPcs DEF SwitchGeneration, SyncInv, FoundingInv, Keyless
    <3>4. QED
      BY <1>0, <2>3, <3>2, <3>3, RemoveFrame
  <2>4. QED
    BY <2>1, <2>2, <2>3 DEF Next, OutInv
<1>2. creating' \subseteq OwnerDevices
  <2>1. ASSUME NEW d \in Device, CreateAtHub(d) PROVE creating' \subseteq OwnerDevices
    BY <2>1 DEF CreateAtHub, OutInv
  <2>2. ASSUME NEW d \in Device, Create(d) \/ Heartbeat(d) \/ Invite(d), ~CreateAtHub(d)
        PROVE  creating' \subseteq creating
    BY <2>2, OwnSteps
  <2>3. ASSUME NEW c \in Call, Remove(c) PROVE creating' = creating
    BY <2>3, RemoveFrame
  <2>4. QED
    BY <2>1, <2>2, <2>3 DEF Next, OutInv
<1>3. ASSUME NEW d \in Device, NEW e \in Device, PersonOf[d] = PersonOf[e]
      PROVE  left'[d].gen = left'[e].gen
  <2>1. CASE PersonOf[d] \in members => PersonOf[d] \in members'
    BY <1>3, <2>1, Stays DEF OutInv
  <2>2. CASE PersonOf[d] \in members /\ PersonOf[d] \notin members'
    BY <1>3, <2>2, Leaves
  <2>3. QED
    BY <2>1, <2>2
<1>4. ASSUME NEW d \in Device, PersonOf[d] \notin members'
      PROVE  /\ cs'[d].key.gen <= left'[d].gen /\ beat'[d].grant.gen <= left'[d].gen
             /\ joining'[d].key.gen <= left'[d].gen
             /\ \A k \in grants'[d] : k.gen <= left'[d].gen
  <2>1. CASE PersonOf[d] \in members
    <3>1. /\ grants'[d] = {} /\ UNCHANGED <<cs, beat, joining>>
          /\ left'[d].gen = gen
      BY <1>4, <2>1, Leaves
    <3>2. cs[d].key.gen <= gen /\ beat[d].grant.gen <= gen /\ joining[d].key.gen <= gen
      BY DEF RekeyInv, BehindInv, Around, TypeOK, CircleState, Bundle, Join
    <3>3. QED
      BY <3>1, <3>2
  <2>2. CASE PersonOf[d] \notin members
    <3>0. /\ left'[d] = left[d]
          /\ cs[d].key.gen <= left[d].gen /\ beat[d].grant.gen <= left[d].gen
          /\ joining[d].key.gen <= left[d].gen
          /\ \A k \in grants[d] : k.gen <= left[d].gen
      BY <2>2, Stays DEF OutInv
    <3>1. ASSUME d \in OwnerDevices, gen > 0 PROVE FALSE
      BY <2>2, <3>1 DEF OutInv, OwnerDevices, DevicesOf
    <3>2. ~CreateLocal(d)
      BY <1>0, <3>1 DEF CreateLocal, OutInv, SyncInv, FoundingInv
    <3>3. ASSUME NEW c \in Call, LocalSwitch(c), call[c].dev = d PROVE FALSE
      BY <1>0, <3>1, <3>3, RotatingPcs DEF LocalSwitch, RekeyInv, PhaseInv, SyncInv, FoundingInv, Keyless
    <3>4. cs'[d].key \in {cs[d].key, beat[d].grant, joining[d].key}
      BY <3>2, <3>3, StateFields
    <3>5. beat'[d].grant.gen <= left[d].gen
      BY <1>0, <3>0, BeatStep, CurrentGrantIsGranted
    <3>6. joining'[d].key \in {joining[d].key, NoKey}
      BY <1>4, JoiningStep
    <3>7. ASSUME NEW k \in grants'[d] PROVE k.gen <= left[d].gen
      <4>1. ASSUME NEW e \in Device, d \in joining[e].others, k = joining[e].key
            PROVE  k.gen <= left[d].gen
        <5>1. PersonOf[e] = PersonOf[d]
          BY <4>1 DEF OwnInv, DevicesOf
        <5>2. QED
          BY <2>2, <4>1, <5>1 DEF OutInv
      <4>2. ASSUME NEW c \in Call, PostGrant(c), d \in call[c].people PROVE FALSE
        BY <2>2, <4>2 DEF PostGrant, PeopleInv, PostingPc, CirclePeople, DevicesOf
      <4>3. QED
        BY <3>0, <3>7, <4>1, <4>2, GrantsStep
    <3>8. QED
      BY <1>0, <3>0, <3>4, <3>5, <3>6, <3>7
  <2>3. QED
    BY <2>1, <2>2
<1>5. QED
  BY <1>1, <1>2, <1>3, <1>4 DEF OutInv

LEMMA NextOutInv ==
  /\ TypeOK /\ SyncInv /\ OneRemoval /\ AloneInv /\ (GenerationsStored => OutInv)
  /\ [Next]_vars
  => (GenerationsStored => OutInv)'
<1>1. ASSUME GenerationsStored => OutInv, UNCHANGED vars PROVE (GenerationsStored => OutInv)'
  BY <1>1 DEF GenerationsStored, OutInv, vars, hubVars, histVars
<1>2. QED
  BY <1>1, OutStep, StoredSoFar DEF AloneInv

(* When removals come one at a time, nobody who was taken out ever comes   *)
(* to hold, or is granted, a key made after that, whatever heartbeats,     *)
(* joins and grants of theirs were under way: the re-key posts to people   *)
(* who are still in, and a joining computer grants only to its own          *)
(* person's others.                                                        *)
THEOREM OutsidersGetNoNewKeyAlways == OneRemoval /\ Spec => []OutsidersGetNoNewKey
<1>1. OneRemoval => OneRemoval'
  BY DEF OneRemoval
<1>2. (GenerationsStored => OutInv) => OutsidersGetNoNewKey
  BY DEF OutInv, OutsidersGetNoNewKey
<1>3. Init => (GenerationsStored => OutInv)
  BY InitOutInv
<1>4. QED
  BY <1>1, <1>2, <1>3, InitAloneInv, NextAloneInv, NextOutInv, InitSyncInv, NextSyncInv, TypeCorrect,
     PTL DEF Spec

-----------------------------------------------------------------------------
(* Who holds which storage credential.  Of the credentials that were ever  *)
(* handed out, only the row's works, and the one a re-key has replaced and *)
(* is about to delete; and nobody who left has been given the new one,     *)
(* because nobody leaves in between.                                       *)

(* The credential a computer stores, was answered, or had when it left.    *)
Handed(d, x) == \/ x = cs[d].cred \/ x = beat[d].cred \/ x = joining[d].cred
                \/ x \in left[d].creds

FreshInv ==
    /\ 0 \notin live
    /\ gen = 0 => credsMade = 0
    /\ creating # {} => cred = 1
    /\ \A c \in Call : call[c].pc = "made" => call[c].old = cred

HandedInv ==
    \A d \in Device, x \in Nat : Handed(d, x) =>
       /\ x <= credsMade
       /\ x \in live \ leaked => \/ x = cred
                                 \/ \E c \in Call : call[c].pc = "stored" /\ call[c].old = x
       /\ \A c \in Call : call[c].pc = "made" => x # call[c].cred

LeftInv ==
    \A d \in Device, c \in Call : \A x \in left[d].creds \cap (live \ leaked) :
       /\ call[c].pc = "stored" => x = call[c].old
       /\ call[c].pc # "deleted"

LockInv == FreshInv /\ HandedInv /\ LeftInv

LEMMA InitLockInv == Init => LockInv
<1>1. SUFFICES ASSUME Init PROVE LockInv
  OBVIOUS
<1>2. \A c \in Call : call[c].pc = "idle"
  BY <1>1, IdleType DEF Init
<1>3. /\ gen \in {0, 1} /\ cred = gen /\ credsMade = gen
      /\ creating = {}
      /\ \/ gen = 0 /\ live = {}
         \/ gen = 1 /\ live = {1}
  BY <1>1 DEF Init
<1>4. \A d \in Device, x \in Nat : Handed(d, x) => x = 0 \/ (x = 1 /\ gen = 1)
  BY <1>1 DEF Init, Handed, NoBundle, NoJoin, Unknown
<1>5. \A d \in Device : left[d].creds = {}
  BY <1>1 DEF Init
<1>6. QED
  BY <1>2, <1>3, <1>4, <1>5 DEF LockInv, FreshInv, HandedInv, LeftInv

(* What a step may hand a computer: the row's credential, or what its       *)
(* founder knows it to be; who leaves had it already.                      *)
LEMMA HandedOut ==
  ASSUME TypeOK, SyncInv, FreshInv, Next, NEW d \in Device, NEW x \in Nat, Handed(d, x)'
  PROVE  Handed(d, x) \/ x = 0 \/ x = cred
<1>1. ASSUME CreateLocal(d) PROVE cred = 1
  BY <1>1 DEF CreateLocal, FreshInv
<1>2. x = cs'[d].cred => x \in {cs[d].cred, beat[d].cred, joining[d].cred, cred}
  BY <1>1, StateFields
<1>3. x = beat'[d].cred => x \in {beat[d].cred, 0, cred}
  BY BeatStep
<1>4. x = joining'[d].cred => x \in {joining[d].cred, 0, cred}
  BY JoiningStep
<1>5. x \in left'[d].creds => x \in left[d].creds \cup {cs[d].cred, beat[d].cred, joining[d].cred}
  <2>1. CASE left'[d] = left[d]
    BY <2>1
  <2>2. CASE left'[d] = [gen |-> gen, creds |-> {cs[d].cred, beat[d].cred, joining[d].cred}]
    BY <2>2
  <2>3. QED
    BY <2>1, <2>2, LeftStep
<1>6. QED
  BY <1>2, <1>3, <1>4, <1>5 DEF Handed


LEMMA LockElsewhere ==
  ASSUME TypeOK, SyncInv, CredentialInv, LockInv, Next,
         NEW d \in Device, Create(d) \/ Heartbeat(d) \/ Invite(d)
  PROVE  LockInv'
<1>0. gen \in Nat /\ cred \in Nat /\ credsMade \in Nat
  BY DEF TypeOK
<1>1. CASE CreateAtHub(d)
  <2>1. /\ \A c \in Call : call[c].pc \notin {"made", "stored", "deleted"}
        /\ credsMade = 0
    BY <1>1, RotatingPcs DEF CreateAtHub, SyncInv, FoundingInv, Keyless, LockInv, FreshInv
  <2>2. /\ gen' = 1 /\ cred' = 1 /\ credsMade' = 1 /\ live' = {1}
        /\ UNCHANGED <<call, cs, beat, joining, left>>
    BY <1>1, <2>1 DEF CreateAtHub, histVars
  <2>3. \A x \in Device, n \in Nat : Handed(x, n)' => n = 0
    BY <1>0, <2>1, <2>2 DEF Handed, HandedInv, LockInv
  <2>4. QED
    BY <2>1, <2>2, <2>3 DEF LockInv, FreshInv, HandedInv, LeftInv
<1>2. CASE ~CreateAtHub(d)
  <2>1. /\ UNCHANGED <<gen, cred, live, credsMade, call, leaked, left>>
        /\ creating' \subseteq creating
    BY <1>2, OwnSteps
  <2>2. FreshInv' /\ LeftInv'
    BY <2>1 DEF FreshInv, LeftInv, LockInv
  <2>3. ASSUME NEW x \in Device, NEW n \in Nat, Handed(x, n)'
        PROVE  /\ n <= credsMade
               /\ n \in live \ leaked => \/ n = cred
                                         \/ \E c \in Call : call[c].pc = "stored" /\ call[c].old = n
               /\ \A c \in Call : call[c].pc = "made" => n # call[c].cred
    <3>1. CASE Handed(x, n)
      BY <3>1 DEF HandedInv, LockInv
    <3>2. CASE n = 0
      BY <1>0, <3>2 DEF LockInv, FreshInv, CredentialInv, FreshKeysInv, Storing
    <3>3. CASE n = cred
      BY <1>0, <3>3 DEF CredentialInv, FreshKeysInv, Storing
    <3>4. QED
      BY <2>3, <3>1, <3>2, <3>3, HandedOut DEF LockInv
  <2>4. HandedInv'
    BY <2>1, <2>3 DEF HandedInv
  <2>5. QED
    BY <2>2, <2>4 DEF LockInv
<1>3. QED
  BY <1>1, <1>2

(* The steps of a re-key that touch credentials.                           *)
LEMMA LockRekey ==
  ASSUME TypeOK, SyncInv, OneRemoval, CredentialInv, LockInv, Next,
         NEW c \in Call, KeyCreate(c) \/ CircleSetS3(c) \/ KeyDelete(c)
  PROVE  LockInv'
<1>0. /\ gen \in Nat /\ cred \in Nat /\ credsMade \in Nat /\ live \subseteq Nat
      /\ call \in [Call -> Removal] /\ call[c] \in Removal /\ call[c].cred \in Nat
      /\ \A o \in Call : o = c
  BY DEF TypeOK, Removal, OneRemoval
<1>1. gen > 0 /\ creating = {}
  BY <1>0, RotatingPcs DEF SyncInv, FoundingInv, Keyless, KeyCreate, CircleSetS3, KeyDelete
<1>2. UNCHANGED <<gen, creating, cs, beat, joining, left>>
  BY DEF KeyCreate, CircleSetS3, KeyDelete, histVars
<1>3. \A x \in Device, n \in Nat : Handed(x, n)' = Handed(x, n)
  BY <1>2 DEF Handed
<1>4. CASE KeyCreate(c)
  <2>1. /\ credsMade' = credsMade + 1 /\ live' = live \cup {credsMade + 1} /\ cred' = cred
        /\ call'[c].pc = "made" /\ call'[c].cred = credsMade + 1 /\ call'[c].old = cred
        /\ leaked' = leaked /\ call[c].pc = "checked"
    BY <1>0, <1>4 DEF KeyCreate, Removal, histVars
  <2>2. FreshInv'
    BY <1>0, <1>1, <1>2, <2>1 DEF LockInv, FreshInv
  <2>3. ASSUME NEW x \in Device, NEW n \in Nat, Handed(x, n)
        PROVE  n <= credsMade + 1 /\ (n \in live' \ leaked => n = cred) /\ n # credsMade + 1
    BY <1>0, <2>1, <2>3 DEF LockInv, HandedInv
  <2>4. HandedInv'
    BY <1>0, <1>3, <2>1, <2>3 DEF HandedInv
  <2>5. LeftInv'
    BY <1>0, <2>1 DEF LeftInv
  <2>6. QED
    BY <2>2, <2>4, <2>5 DEF LockInv
<1>5. CASE CircleSetS3(c)
  <2>1. /\ UNCHANGED <<credsMade, live, leaked>> /\ (cred' = call[c].cred \/ cred' = cred)
        /\ call[c].pc = "made" /\ call'[c].pc = "stored" /\ call'[c].old = call[c].old
        /\ call[c].old = cred
    BY <1>0, <1>5 DEF CircleSetS3, Removal, LockInv, FreshInv
  <2>2. FreshInv'
    BY <1>0, <1>1, <1>2, <2>1 DEF LockInv, FreshInv
  <2>3. ASSUME NEW x \in Device, NEW n \in Nat, Handed(x, n)
        PROVE  n <= credsMade /\ (n \in live \ leaked => n = cred)
    BY <1>0, <2>1, <2>3 DEF LockInv, HandedInv
  <2>4. HandedInv'
    BY <1>0, <1>3, <2>1, <2>3 DEF HandedInv
  <2>5. \A d \in Device : left[d].creds \subseteq Nat
    BY DEF TypeOK
  <2>6. ASSUME NEW d \in Device, NEW x \in left[d].creds, x \in live \ leaked
        PROVE  x = cred
    BY <2>3, <2>5, <2>6 DEF Handed
  <2>7. LeftInv'
    BY <1>0, <1>2, <2>1, <2>6 DEF LeftInv
  <2>8. QED
    BY <2>2, <2>4, <2>7 DEF LockInv
<1>6. CASE KeyDelete(c)
  <2>1. /\ UNCHANGED <<credsMade, cred>> /\ call[c].pc = "stored" /\ call'[c].pc = "deleted"
        /\ live' \ leaked' = (live \ leaked) \ {call[c].old} /\ live' \subseteq live
    BY <1>0, <1>6 DEF KeyDelete, Removal
  <2>2. FreshInv'
    BY <1>0, <1>1, <1>2, <2>1 DEF LockInv, FreshInv
  <2>3. ASSUME NEW x \in Device, NEW n \in Nat, Handed(x, n)
        PROVE  n <= credsMade /\ (n \in live' \ leaked' => n = cred)
    BY <1>0, <2>1, <2>3 DEF LockInv, HandedInv
  <2>4. HandedInv'
    BY <1>0, <1>3, <2>1, <2>3 DEF HandedInv
  <2>5. \A d \in Device : left[d].creds \cap (live' \ leaked') = {}
    BY <2>1 DEF LockInv, LeftInv
  <2>6. LeftInv'
    BY <1>2, <2>5 DEF LeftInv
  <2>7. QED
    BY <2>2, <2>4, <2>6 DEF LockInv
<1>7. QED
  BY <1>4, <1>5, <1>6

(* The other steps of a removal.                                           *)
LEMMA LockRemoval ==
  ASSUME TypeOK, SyncInv, OneRemoval, CredentialInv, LockInv, Next,
         NEW c \in Call, Remove(c), ~KeyCreate(c), ~CircleSetS3(c), ~KeyDelete(c)
  PROVE  LockInv'
<1>0. /\ gen \in Nat /\ cred \in Nat /\ credsMade \in Nat /\ live \subseteq Nat
      /\ \A o \in Call : o = c
  BY DEF TypeOK, OneRemoval
<1>1. UNCHANGED <<cred, live, credsMade, creating>>
  BY DEF Remove, RemoveAtHub, StartRotate, PostGrant, GrantsPosted, Switch, CheckGeneration,
         SwitchGeneration, DropOldGrants, LocalSwitch, RemovalFails, hubVars
<1>2. /\ leaked \subseteq leaked'
      /\ call[c].pc = "stored" => call[c].old \in leaked'
  <2>1. CASE RemovalFails(c)
    BY <2>1 DEF RemovalFails
  <2>2. CASE ~RemovalFails(c)
    <3>1. call[c].pc # "stored"
      BY <2>2 DEF Remove, RemoveAtHub, StartRotate, PostGrant, GrantsPosted, Switch, CheckGeneration,
         SwitchGeneration, DropOldGrants, LocalSwitch
    <3>2. leaked' = leaked
      BY <2>2 DEF Remove, RemoveAtHub, StartRotate, PostGrant, GrantsPosted, Switch, CheckGeneration,
         SwitchGeneration, DropOldGrants, LocalSwitch, hubVars, histVars
    <3>3. QED
      BY <3>1, <3>2
  <2>3. QED
    BY <2>1, <2>2
<1>3. call'[c].pc \notin {"made", "stored", "deleted"}
  <2>1. ASSUME CheckGeneration(c) PROVE call'[c].pc = "checked"
    BY <2>1 DEF CheckGeneration, TypeOK, Removal
  <2>2. PostGrant(c) \/ GrantsPosted(c) \/ SwitchGeneration(c) \/ DropOldGrants(c)
           => call'[c].pc \in {"copying", "granted", "switched", "replied"}
    BY PhaseMoves
  <2>3. Switch(c) => CheckGeneration(c) \/ SwitchGeneration(c) \/ DropOldGrants(c)
    BY DEF Switch
  <2>4. QED
    BY <2>1, <2>2, <2>3, CallStep
<1>4. gen' = 0 => gen = 0
  <2>1. SwitchGeneration(c) => call[c].key.gen > 0 /\ gen' \in {gen, call[c].key.gen}
    BY RotatingPcs DEF SwitchGeneration, SyncInv, PositiveInv
  <2>2. QED
    BY <1>0, <2>1, RemoveFrame
<1>5. FreshInv'
  BY <1>0, <1>1, <1>3, <1>4 DEF LockInv, FreshInv
<1>6. \A x \in Device, n \in Nat : Handed(x, n)' => Handed(x, n) \/ n = 0 \/ n = cred
  BY HandedOut DEF LockInv
<1>7. ASSUME NEW x \in Device, NEW n \in Nat, Handed(x, n)
      PROVE  n <= credsMade /\ (n \in live \ leaked' => n = cred)
  BY <1>0, <1>2, <1>7 DEF LockInv, HandedInv
<1>8. cred <= credsMade /\ 0 \notin live
  BY DEF LockInv, FreshInv, CredentialInv, FreshKeysInv
<1>9. HandedInv'
  BY <1>0, <1>1, <1>3, <1>6, <1>7, <1>8 DEF HandedInv
<1>10. LeftInv'
  <2>1. CASE call'[c].pc \notin {"stored", "deleted"}
    BY <1>0, <2>1 DEF LeftInv
  <2>2. QED
    BY <1>3, <2>1
<1>11. QED
  BY <1>5, <1>9, <1>10 DEF LockInv

LEMMA NextLockInv ==
  TypeOK /\ SyncInv /\ OneRemoval /\ CredentialInv /\ LockInv /\ [Next]_vars => LockInv'
<1>1. ASSUME LockInv, UNCHANGED vars PROVE LockInv'
  BY <1>1 DEF LockInv, FreshInv, HandedInv, LeftInv, Handed, vars, hubVars, histVars
<1>2. ASSUME TypeOK, SyncInv, OneRemoval, CredentialInv, LockInv, Next PROVE LockInv'
  BY <1>2, LockElsewhere, LockRekey, LockRemoval DEF Next
<1>3. QED
  BY <1>1, <1>2

LEMMA LockedOutStep ==
  ASSUME TypeOK, SyncInv, LockInv, Next, NEW d \in Device, gen' > gen
  PROVE  left[d].creds \cap live' \subseteq leaked
<1>0. left[d].creds \subseteq Nat /\ gen \in Nat
  BY DEF TypeOK
<1>1. ASSUME NEW x \in Device, CreateAtHub(x)
      PROVE  left[d].creds \cap live' \subseteq leaked
  <2>1. credsMade = 0 /\ live' = {1}
    BY <1>1 DEF CreateAtHub, LockInv, FreshInv
  <2>2. \A n \in left[d].creds : n <= 0
    BY <1>0, <2>1 DEF LockInv, HandedInv, Handed
  <2>3. QED
    BY <1>0, <2>1, <2>2
<1>2. ASSUME NEW c \in Call, SwitchGeneration(c)
      PROVE  left[d].creds \cap live' \subseteq leaked
  <2>1. call[c].pc = "deleted" /\ live' = live
    BY <1>2 DEF SwitchGeneration
  <2>2. QED
    BY <2>1 DEF LockInv, LeftInv
<1>3. ASSUME NEW x \in Device, Create(x) \/ Heartbeat(x) \/ Invite(x), ~CreateAtHub(x)
      PROVE  FALSE
  BY <1>0, <1>3, OwnSteps
<1>4. ASSUME NEW c \in Call, Remove(c), ~SwitchGeneration(c)
      PROVE  FALSE
  BY <1>0, <1>4, RemoveFrame
<1>5. QED
  BY <1>1, <1>2, <1>3, <1>4 DEF Next

(* When removals come one at a time, every storage credential a removed    *)
(* computer had, or was being sent, is dead once a switch of the           *)
(* generation follows its removal, whatever re-keys before it stopped      *)
(* between their statements, except one whose own deletion failed or was   *)
(* cut off.                                                                *)
THEOREM TheSwitchLocksTheRemovedOutEver ==
  OneRemoval /\ Spec => TheSwitchLocksTheRemovedOut
<1>1. OneRemoval => OneRemoval'
  BY DEF OneRemoval
<1>2. TypeOK /\ SyncInv /\ LockInv /\ [Next]_vars =>
        [\A d \in Device : gen' > gen /\ PersonOf[d] \notin members
                             => left[d].creds \cap live' \subseteq leaked]_vars
  BY LockedOutStep
<1>3. QED
  BY <1>1, <1>2, InitLockInv, NextLockInv, InitCredentialInv, NextCredentialInv, InitSyncInv,
     NextSyncInv, TypeCorrect, PTL DEF Spec, TheSwitchLocksTheRemovedOut

=============================================================================
