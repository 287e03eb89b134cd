---------------------------- MODULE OperatorKeys ----------------------------
(***************************************************************************)
(* The operator's side of one circle: qpctl with its keystore              *)
(* (cmd/qpctl/circle.go, ops.go, keys.go, keystore.go) and the hub's       *)
(* operator API (cmd/qp-hub/api_operator.go).  The circle is made, its key *)
(* is handed out by links and grants, renewed by rotate-key and offboard,  *)
(* backed up and brought back; the computers of the members enrol, take    *)
(* keys and write files meanwhile.                                         *)
(*                                                                         *)
(* A qpctl command is a shell with a program counter.  It reads the        *)
(* keystore file when it starts and works with that copy; each request to  *)
(* the hub is an action, and the command may end in an error, or be        *)
(* killed, between any two.  A person has one computer.  Credentials of    *)
(* the object store are left out (CircleKeys has them).                    *)
(***************************************************************************)
EXTENDS Naturals, Sequences, FiniteSets

CONSTANTS
    Computer,    \* the people's computers
    Nobody,      \* none of them
    Canary,      \* the object that keys verify decrypts
    Shell,       \* terminals in which the operator runs qpctl
    May,         \* the commands run in each
    MaxGen,      \* bound: generations
    MaxKeys      \* bound: circle keys ever made

Generation == 1..MaxGen
Key        == 1..MaxKeys
Item       == Computer \cup {Canary}    \* what a computer wrote, and the canary
Command    == {"create", "canary", "invite", "add", "remove", "revoke", "rotate",
               "offboard", "export", "verify", "live", "recover"}

ASSUME ComputerAssumption == Nobody \notin Computer /\ Canary \notin Computer
ASSUME MayAssumption      == May \in [Shell -> SUBSET Command]
ASSUME BoundAssumption    == MaxGen \in Nat \ {0} /\ MaxKeys \in Nat \ {0}

VARIABLES
    shell,       \* the command each terminal runs
    disk,        \* the keystore file
    bundle,      \* the last exported bundle
    verified,    \* the generation at which keys verify last found the bundle good
    lost,        \* the operator's machine was lost once
    born,        \* the generation of each circle key ever made
    gen,         \* the circle's generation on the hub, 0 without a circle
    members,     \* membership rows
    person,      \* status of each computer's person
    device,      \* status of each computer's row
    grants,      \* the key of each computer's grant of a generation, or 0
    link,        \* the operator's link for each person
    tree,        \* what lies under g<n>/, and under which key
    enrolling,   \* computers whose enrolment was checked and not yet stored
    key,         \* the key each computer syncs with
    at,          \* and the generation it has it for
    settled,     \* history: what the store held when a re-encryption began
    stayed,      \* history: members, with a computer, since a rotation began
    got,         \* history: the keys each computer could open
    outAt       \* history: the generation when someone was offboarded

operator == <<shell, disk, bundle, verified, lost, born>>
rows     == <<gen, members, person, device, grants, link>>
agents   == <<enrolling, key, at>>
history  == <<settled, stayed, got, outAt>>
vars     == <<operator, rows, tree, agents, history>>

-----------------------------------------------------------------------------
(* A keystore has, for each generation, the keys added, oldest first.      *)
Keystore  == [Generation -> Seq(Key)]
EmptyKeys == [g \in Generation |-> <<>>]
KeysOf(ks, g) == {ks[g][i] : i \in 1..Len(ks[g])}

Add(ks, g, k) == [ks EXCEPT ![g] = Append(@, k)]
HasGen(ks, g) == ks[g] # <<>>
Gen(ks, g)    == Head(ks[g])                \* the first of that generation
Newest(ks, g) == ks[g][Len(ks[g])]          \* the one keys verify takes

(* Mutant: the newest generation is all that is needed.                    *)
ImportNewest(ks, b) ==
    [g \in Generation |->
        IF ~HasGen(ks, g) /\ HasGen(b, g) /\ \A f \in Generation : f > g => ~HasGen(b, f)
        THEN <<Gen(b, g)>> ELSE ks[g]]

(* keys recover: only generations the keystore has no key of, and of those *)
(* only the first key, for then it has one.                                *)
Import(ks, b) ==
    [g \in Generation |-> IF ~HasGen(ks, g) /\ HasGen(b, g) THEN <<Gen(b, g)>> ELSE ks[g]]

Idle == [cmd |-> "none", pc |-> "idle", mem |-> EmptyKeys, gen |-> 0,
         people |-> {}, new |-> 0, todo |-> {}, who |-> Nobody]

Run(cmd, pc)  == [Idle EXCEPT !.cmd = cmd, !.pc = pc, !.mem = disk]
Free(s, cmd)  == shell[s].pc = "idle" /\ cmd \in May[s]
At(s, pc)     == shell[s].pc = pc
Goto(s, pc)   == shell' = [shell EXCEPT ![s].pc = pc]
Done(s)       == shell' = [shell EXCEPT ![s] = Idle]

NoLink == [state |-> "none", gen |-> 0, key |-> 0]

(* A computer whose bundle lists the circle.                               *)
Served(d) == gen > 0 /\ device[d] = "active" /\ person[d] = "active" /\ d \in members

(* grantToDevices: the key is the keystore's of the generation it is told. *)
GrantToDevices(ks, g, D) ==
    [d \in Computer |-> IF d \in D THEN [grants[d] EXCEPT ![g] = Gen(ks, g)] ELSE grants[d]]

(* Mutant: the row goes with its grants.                                   *)
NoGrantRows(gs, D) == [d \in Computer \ D |-> gs[d]]

NoGrants(gs, D) == [d \in Computer |-> IF d \in D THEN [g \in Generation |-> 0] ELSE gs[d]]

Init ==
    /\ shell = [s \in Shell |-> Idle]
    /\ disk = EmptyKeys /\ bundle = EmptyKeys /\ verified = 0 /\ lost = FALSE /\ born = <<>>
    /\ gen = 0 /\ members = {}
    /\ person = [d \in Computer |-> "active"]
    /\ device = [d \in Computer |-> "none"]
    /\ grants = [d \in Computer |-> [g \in Generation |-> 0]]
    /\ link = [d \in Computer |-> NoLink]
    /\ tree = [g \in Generation |-> {}]
    /\ enrolling = {}
    /\ key = [d \in Computer |-> 0] /\ at = [d \in Computer |-> 0]
    /\ settled = {} /\ stayed = {} /\ got = [d \in Computer |-> {}]
    /\ outAt = [d \in Computer |-> MaxGen]

-----------------------------------------------------------------------------
(* circle create, circle canary: the hub's row first, then the key, born   *)
(* here and saved, then the canary.                                        *)

CircleCreate(s) ==
    /\ Free(s, "create") /\ gen = 0
    /\ gen' = 1
    /\ shell' = [shell EXCEPT ![s] = [Run("create", "row") EXCEPT !.gen = 1]]
    /\ UNCHANGED <<disk, bundle, verified, lost, born, members, person, device, grants, link,
                   tree, agents, history>>

FirstKey(s) ==
    /\ At(s, "row") /\ Len(born) < MaxKeys
    /\ born' = Append(born, 1)
    /\ disk' = Add(shell[s].mem, 1, Len(born'))
    /\ shell' = [shell EXCEPT ![s].pc = "canary", ![s].mem = disk', ![s].new = Len(born')]
    /\ UNCHANGED <<bundle, verified, lost, rows, tree, agents, history>>

CanaryAgain(s) ==
    /\ Free(s, "canary") /\ gen > 0 /\ HasGen(disk, gen)
    /\ shell' = [shell EXCEPT ![s] =
          [Run("canary", "canary") EXCEPT !.gen = gen, !.new = Gen(disk, gen)]]
    /\ UNCHANGED <<disk, bundle, verified, lost, born, rows, tree, agents, history>>

WriteCanary(s) ==
    LET h == shell[s]
    IN  /\ At(s, "canary")
        /\ tree' = [tree EXCEPT ![h.gen] = @ \cup {<<h.new, Canary>>}]
        /\ Done(s)
        /\ UNCHANGED <<disk, bundle, verified, lost, born, rows, agents, history>>

-----------------------------------------------------------------------------
(* People: links, memberships, computers.                                  *)

InviteSeal(s, d) ==
    /\ Free(s, "invite") /\ gen > 0 /\ HasGen(disk, gen) /\ link[d] = NoLink
    /\ shell' = [shell EXCEPT ![s] =
          [Run("invite", "sealed") EXCEPT !.gen = gen, !.new = Gen(disk, gen), !.who = d]]
    /\ UNCHANGED <<disk, bundle, verified, lost, born, rows, tree, agents, history>>

(* The membership first; the link, unless the mesh refuses its key.        *)
InvitePost(s) ==
    LET h == shell[s]
    IN  /\ At(s, "sealed")
        /\ \/ /\ person[h.who] = "active"
              /\ members' = members \cup {h.who}
              /\ \/ UNCHANGED link
                 \/ link' = [link EXCEPT ![h.who] =
                                [state |-> "open", gen |-> h.gen, key |-> h.new]]
           \/ /\ person[h.who] # "active"
              /\ UNCHANGED <<members, link>>
        /\ Done(s)
        /\ UNCHANGED <<disk, bundle, verified, lost, born, gen, person, device, grants,
                       tree, agents, history>>

AddMember(s, d) ==
    /\ Free(s, "add") /\ gen > 0
    /\ members' = members \cup {d}
    /\ shell' = [shell EXCEPT ![s] =
          [Run("add", "adding") EXCEPT !.gen = gen, !.who = d,
               !.people = {c \in {d} : device[c] = "active"}]]
    /\ outAt' = [outAt EXCEPT ![d] = MaxGen]
    /\ UNCHANGED <<disk, bundle, verified, lost, born, gen, person, device, grants, link,
                   tree, agents, settled, stayed, got>>

PostGrant(s) ==
    LET h == shell[s]
    IN  /\ At(s, "adding")
        /\ grants' = IF HasGen(h.mem, h.gen) THEN GrantToDevices(h.mem, h.gen, h.people)
                     ELSE grants
        /\ Done(s)
        /\ UNCHANGED <<disk, bundle, verified, lost, born, gen, members, person, device, link,
                       tree, agents, history>>

RemoveMember(s, d) ==
    /\ Free(s, "remove") /\ d \in members
    /\ members' = members \ {d}
    /\ grants' = NoGrants(grants, {d})
    /\ stayed' = stayed \ {d}
    /\ UNCHANGED <<operator, gen, person, device, link, tree, agents, settled, got, outAt>>

DeviceRevoke(s, d) ==
    /\ Free(s, "revoke") /\ device[d] = "active"
    /\ device' = [device EXCEPT ![d] = "revoked"]
    /\ grants' = NoGrants(grants, {d})
    /\ stayed' = stayed \ {d}
    /\ UNCHANGED <<operator, gen, members, person, link, tree, agents, settled, got, outAt>>

-----------------------------------------------------------------------------
(* offboard: the hub's part in its order, then a rotation.                 *)

OffboardDevice(s, d) ==
    /\ Free(s, "offboard") /\ person[d] = "active"
    /\ device' = [device EXCEPT ![d] = IF @ = "active" THEN "revoked" ELSE @]
    /\ grants' = NoGrants(grants, {d})
    /\ stayed' = stayed \ {d}
    /\ shell' = [shell EXCEPT ![s] = [Run("offboard", "memberships") EXCEPT !.who = d]]
    /\ UNCHANGED <<disk, bundle, verified, lost, born, gen, members, person, link, tree,
                   agents, settled, got, outAt>>

OffboardMembership(s) ==
    LET h == shell[s]
    IN  /\ At(s, "memberships")
        /\ members' = members \ {h.who}
        /\ shell' = [shell EXCEPT ![s].pc = "links", ![s].people = members \cap {h.who}]
        /\ UNCHANGED <<disk, bundle, verified, lost, born, gen, person, device, grants, link,
                       tree, agents, history>>

(* Open links are revoked; the answer names the circles to rotate.         *)
OffboardPerson(s) ==
    LET h == shell[s]
    IN  /\ At(s, "links")
        /\ link' = [link EXCEPT ![h.who] = IF @.state = "open" THEN NoLink ELSE @]
        /\ person' = [person EXCEPT ![h.who] = "offboarded"]
        /\ outAt' = [outAt EXCEPT ![h.who] = IF h.who \in members THEN MaxGen ELSE gen]
        /\ shell' = [shell EXCEPT ![s] = IF h.people = {} THEN Idle
                                         ELSE [h EXCEPT !.pc = "rotate"]]
        /\ UNCHANGED <<disk, bundle, verified, lost, born, gen, members, device, grants,
                       tree, agents, settled, stayed, got>>

-----------------------------------------------------------------------------
(* rotateKey.                                                              *)

(* The circle with its people, and a key that opens the old tree.          *)
RotateRead(s) ==
    LET h == IF At(s, "rotate") THEN shell[s] ELSE Run("rotate", "rotate")
    IN  /\ At(s, "rotate") \/ Free(s, "rotate")
        /\ gen > 0 /\ HasGen(h.mem, gen)
        /\ shell' = [shell EXCEPT ![s] = [h EXCEPT !.pc = "asked", !.gen = gen,
                                                   !.people = members]]
        /\ stayed' = {d \in members : device[d] = "active"}
        /\ UNCHANGED <<disk, bundle, verified, lost, born, rows, tree, agents,
                       settled, got, outAt>>

(* The new key is saved before anything is encrypted with it.              *)
RotateSave(s) ==
    LET h == shell[s]
    IN  /\ At(s, "asked") /\ Len(born) < MaxKeys /\ h.gen < MaxGen
        /\ born' = Append(born, h.gen + 1)
        /\ disk' = Add(h.mem, h.gen + 1, Len(born'))
        /\ shell' = [shell EXCEPT ![s] =
              [h EXCEPT !.pc = "copying", !.mem = disk', !.new = Len(born'),
                        !.todo = {x[2] : x \in tree[h.gen]}]]
        /\ settled' = {x[2] : x \in tree[h.gen]}
        /\ UNCHANGED <<bundle, verified, lost, rows, tree, agents, stayed, got, outAt>>

(* rclone copy old: new:, object by object; names that the old key does    *)
(* not open are passed over.                                               *)
Opened(h) == {i \in Item : <<Gen(h.mem, h.gen), i>> \in tree[h.gen]}
Copied(h) == {i \in Item : <<h.new, i>> \in tree[h.gen + 1]}

CopyItem(s, i) ==
    LET h == shell[s]
    IN  /\ At(s, "copying") /\ i \in Opened(h) \ Copied(h)
        /\ tree' = [tree EXCEPT ![h.gen + 1] = @ \cup {<<h.new, i>>}]
        /\ UNCHANGED <<operator, rows, agents, history>>

(* Mutant: the copy's exit code is not looked at.                          *)
CopyEnds(s) ==
    /\ At(s, "copying")
    /\ Goto(s, "copied")
    /\ UNCHANGED <<disk, bundle, verified, lost, born, rows, tree, agents, history>>

CopyDone(s) ==
    LET h == shell[s]
    IN  /\ At(s, "copying") /\ Opened(h) \cap h.todo \subseteq Copied(h)
        /\ Goto(s, "copied")
        /\ UNCHANGED <<disk, bundle, verified, lost, born, rows, tree, agents, history>>

(* Mutant: whoever has a computer.                                         *)
EligibleActive(h) == {d \in Computer : device[d] = "active"}

(* Members as they were, computers as they are.                            *)
Eligible(h) == {d \in h.people : device[d] = "active"}

ReadDevices(s) ==
    /\ At(s, "copied")
    /\ shell' = [shell EXCEPT ![s].pc = "granting", ![s].people = Eligible(shell[s])]
    /\ UNCHANGED <<disk, bundle, verified, lost, born, rows, tree, agents, history>>

(* Mutant: an error half way through is not one.                           *)
PostSomeGrants(s) ==
    LET h == shell[s]
    IN  /\ At(s, "granting")
        /\ \E D \in SUBSET h.people : grants' = GrantToDevices(h.mem, h.gen + 1, D)
        /\ Goto(s, "granted")
        /\ UNCHANGED <<disk, bundle, verified, lost, born, gen, members, person, device, link,
                       tree, agents, history>>

(* One request, stored row by row.                                         *)
PostGrants(s) ==
    LET h == shell[s]
    IN  /\ At(s, "granting")
        /\ \E D \in SUBSET h.people :
              /\ grants' = GrantToDevices(h.mem, h.gen + 1, D)
              /\ IF D = h.people THEN Goto(s, "granted") ELSE Done(s)
        /\ UNCHANGED <<disk, bundle, verified, lost, born, gen, members, person, device, link,
                       tree, agents, history>>

SetGeneration(s) ==
    LET h == shell[s]
    IN  /\ At(s, "granted")
        /\ IF gen < h.gen + 1 THEN gen' = h.gen + 1 /\ Goto(s, "switched")
           ELSE Done(s) /\ UNCHANGED gen
        /\ UNCHANGED <<disk, bundle, verified, lost, born, members, person, device, grants,
                       link, tree, agents, history>>

DropOldGrants(s) ==
    LET h == shell[s]
    IN  /\ At(s, "switched")
        /\ grants' = [d \in Computer |-> [g \in Generation |->
                         IF g < h.gen + 1 THEN 0 ELSE grants[d][g]]]
        /\ Goto(s, "purging")
        /\ UNCHANGED <<disk, bundle, verified, lost, born, gen, members, person, device, link,
                       tree, agents, history>>

(* A purge that fails is only a warning.                                   *)
Purge(s) ==
    LET h == shell[s]
    IN  /\ At(s, "purging")
        /\ \/ tree' = [tree EXCEPT ![h.gen] = {}]
           \/ UNCHANGED tree
        /\ Done(s)
        /\ UNCHANGED <<disk, bundle, verified, lost, born, rows, agents, history>>

-----------------------------------------------------------------------------
(* keys export and split, verify, recover.  Export and verify save the     *)
(* keystore as they read it, for the date they put in it.                  *)

ExportRead(s) ==
    /\ Free(s, "export")
    /\ shell' = [shell EXCEPT ![s] = Run("export", "export")]
    /\ UNCHANGED <<disk, bundle, verified, lost, born, rows, tree, agents, history>>

ExportWrite(s) ==
    /\ At(s, "export")
    /\ bundle' = shell[s].mem /\ verified' = 0
    /\ disk' = shell[s].mem
    /\ Done(s)
    /\ UNCHANGED <<lost, born, rows, tree, agents, history>>

VerifyRead(s) ==
    \E cmd \in {"verify", "live"} :
        LET keys == IF cmd = "verify" THEN bundle ELSE disk
        IN  /\ Free(s, cmd) /\ gen > 0 /\ HasGen(keys, gen)
            /\ shell' = [shell EXCEPT ![s] =
                  [Run(cmd, "verify") EXCEPT !.gen = gen, !.new = Newest(keys, gen)]]
            /\ UNCHANGED <<disk, bundle, verified, lost, born, rows, tree, agents, history>>

CanaryOpens(h) == <<h.new, Canary>> \in tree[h.gen]

VerifyCat(s) ==
    LET h == shell[s]
    IN  /\ At(s, "verify")
        /\ IF CanaryOpens(h)
           THEN /\ verified' = IF h.cmd = "verify" THEN h.gen ELSE verified
                /\ disk' = h.mem
           ELSE UNCHANGED <<verified, disk>>
        /\ Done(s)
        /\ UNCHANGED <<bundle, lost, born, rows, tree, agents, history>>

Recover(s) ==
    /\ Free(s, "recover")
    /\ disk' = Import(disk, bundle)
    /\ UNCHANGED <<shell, bundle, verified, lost, born, rows, tree, agents, history>>

(* An error, or the command is killed.                                     *)
Fail(s) ==
    /\ shell[s].pc # "idle"
    /\ Done(s)
    /\ UNCHANGED <<disk, bundle, verified, lost, born, rows, tree, agents, history>>

LoseMachine ==
    /\ \E s \in Shell : "recover" \in May[s]
    /\ ~lost /\ disk # EmptyKeys
    /\ lost' = TRUE
    /\ disk' = EmptyKeys
    /\ shell' = [s \in Shell |-> Idle]
    /\ UNCHANGED <<bundle, verified, born, rows, tree, agents, history>>

-----------------------------------------------------------------------------
(* The members' computers.                                                 *)

Redeem(d) ==
    /\ link[d].state = "open"
    /\ link' = [link EXCEPT ![d].state = "opened"]
    /\ got' = [got EXCEPT ![d] = @ \cup {link[d].key}]
    /\ UNCHANGED <<operator, gen, members, person, device, grants, tree, agents,
                   settled, stayed, outAt>>

Expire(d) ==
    /\ link[d].state = "open"
    /\ link' = [link EXCEPT ![d] = NoLink]
    /\ UNCHANGED <<operator, gen, members, person, device, grants, tree, agents, history>>

EnrolCheck(d) ==
    /\ link[d].state = "opened" /\ d \notin enrolling /\ person[d] = "active"
    /\ enrolling' = enrolling \cup {d}
    /\ UNCHANGED <<operator, rows, tree, key, at, history>>

(* A new row, or the row there is: either way without grants.              *)
EnrolStore(d) ==
    /\ d \in enrolling
    /\ enrolling' = enrolling \ {d}
    /\ device' = [device EXCEPT ![d] = "active"]
    /\ grants' = NoGrants(grants, {d})
    /\ key' = [key EXCEPT ![d] = link[d].key] /\ at' = [at EXCEPT ![d] = link[d].gen]
    /\ link' = [link EXCEPT ![d] = NoLink]
    /\ stayed' = stayed \ {d}
    /\ UNCHANGED <<operator, gen, members, person, tree, settled, got, outAt>>

(* GrantsFor: the grant of the circle's generation; applyBundle: only when *)
(* the computer has no key of it.                                          *)
Heartbeat(d) ==
    /\ Served(d) /\ at[d] # gen /\ grants[d][gen] # 0
    /\ key' = [key EXCEPT ![d] = grants[d][gen]] /\ at' = [at EXCEPT ![d] = gen]
    /\ got' = [got EXCEPT ![d] = @ \cup {grants[d][gen]}]
    /\ UNCHANGED <<operator, rows, tree, enrolling, settled, stayed, outAt>>

Write(d) ==
    /\ Served(d) /\ at[d] = gen
    /\ tree' = [tree EXCEPT ![gen] = @ \cup {<<key[d], d>>}]
    /\ UNCHANGED <<operator, rows, agents, history>>

-----------------------------------------------------------------------------
Create(s) == CircleCreate(s) \/ FirstKey(s) \/ CanaryAgain(s) \/ WriteCanary(s)

Invite(s) == InvitePost(s) \/ \E d \in Computer : InviteSeal(s, d)

Membership(s) == \/ PostGrant(s)
                 \/ \E d \in Computer : AddMember(s, d) \/ RemoveMember(s, d)

Offboard(s) == \/ OffboardMembership(s) \/ OffboardPerson(s)
               \/ \E d \in Computer : OffboardDevice(s, d)

RotateKey(s) ==
    \/ RotateRead(s) \/ RotateSave(s) \/ CopyDone(s) \/ ReadDevices(s) \/ PostGrants(s)
    \/ SetGeneration(s) \/ DropOldGrants(s) \/ Purge(s)
    \/ \E i \in Item : CopyItem(s, i)

Keys(s) == ExportRead(s) \/ ExportWrite(s) \/ VerifyRead(s) \/ VerifyCat(s) \/ Recover(s)

Operate(s) == \/ Create(s) \/ Invite(s) \/ Membership(s) \/ Offboard(s) \/ RotateKey(s)
              \/ Keys(s) \/ Fail(s)
              \/ \E d \in Computer : DeviceRevoke(s, d)

Member(d) == \/ Redeem(d) \/ Expire(d) \/ EnrolCheck(d) \/ EnrolStore(d)
             \/ Heartbeat(d) \/ Write(d)

Next == \/ \E s \in Shell : Operate(s)
        \/ \E d \in Computer : Member(d)
        \/ LoseMachine

Spec == Init /\ [][Next]_vars

-----------------------------------------------------------------------------
Pc == {"idle", "row", "canary", "sealed", "adding", "memberships", "links", "rotate",
       "asked", "copying", "copied", "granting", "granted", "switched", "purging",
       "export", "verify"}

Work == [cmd : Command \cup {"none"}, pc : Pc, mem : Keystore, gen : 0..MaxGen,
         people : SUBSET Computer, new : 0..MaxKeys, todo : SUBSET Item,
         who : Computer \cup {Nobody}]

Link == [state : {"none", "open", "opened"}, gen : 0..MaxGen, key : 0..MaxKeys]

TypeOK ==
    /\ shell \in [Shell -> Work]
    /\ disk \in Keystore /\ bundle \in Keystore
    /\ verified \in 0..MaxGen /\ lost \in BOOLEAN /\ born \in Seq(Generation)
    /\ gen \in 0..MaxGen /\ members \subseteq Computer
    /\ person \in [Computer -> {"active", "offboarded"}]
    /\ device \in [Computer -> {"none", "active", "revoked"}]
    /\ grants \in [Computer -> [Generation -> 0..MaxKeys]]
    /\ link \in [Computer -> Link]
    /\ tree \in [Generation -> SUBSET (Key \X Item)]
    /\ enrolling \subseteq Computer
    /\ key \in [Computer -> 0..MaxKeys] /\ at \in [Computer -> 0..MaxGen]
    /\ settled \subseteq Item /\ stayed \subseteq Computer
    /\ got \in [Computer -> SUBSET (0..MaxKeys)] /\ outAt \in [Computer -> 0..MaxGen]

(* No generation has two keys: no rotation was tried again after it had    *)
(* saved its key.                                                          *)
OneEach == \A k, l \in DOMAIN born : born[k] = born[l] => k = l

Reads(keys, i) == \E k \in keys : <<k, i>> \in tree[gen]

(* What the store held when a re-encryption began can be read with the     *)
(* operator's keystore ever after, wherever rotations stop (rotateKey), as *)
(* long as no rotation is tried again.                                     *)
FilesStayReadable ==
    gen > 0 /\ ~lost /\ OneEach => \A i \in settled : Reads(KeysOf(disk, gen), i)

(* A backup that keys verify found good brings back, on a new machine, a   *)
(* keystore that reads the store (verifyKeys, keys recover).               *)
VerifiedBackupsRead ==
    gen > 0 /\ verified = gen /\ OneEach =>
        \A i \in settled : Reads(KeysOf(Import(EmptyKeys, bundle), gen), i)

(* Once the circle has moved on from the generation someone was offboarded *)
(* in, nothing in its tree is under a key that person's computer ever had  *)
(* or was sent (cmdOffboard, opPersonOffboard).                            *)
OffboardedHoldNoKey ==
    \A d \in Computer :
        gen > outAt[d] /\ OneEach =>
            \A k \in got[d] \cup {grants[d][gen]} : \A i \in Item : <<k, i>> \notin tree[gen]

(* A computer in the circle all through a rotation has its grant when the  *)
(* generation changes (rotateKey: "members see key and generation          *)
(* together").                                                             *)
NobodyIsLeftOut ==
    [][gen > 0 /\ gen' > gen => \A d \in stayed : grants[d][gen'] # 0]_vars

(* "Keystore holds every circle key the operator has ever generated":      *)
(* a saved key leaves the file only with the machine. No run checks it: two *)
(* terminals that both save keys break it (README, section 4).             *)
EveryKeyIsKept ==
    [][lost' = lost => \A g \in Generation : KeysOf(disk, g) \subseteq KeysOf(disk', g)]_vars

(* The grants that go with a switch are of a key that opens the new tree.  *)
GrantsOpenTheTree ==
    [][gen > 0 /\ gen' > gen =>
          \A d \in Computer : grants[d][gen'] # 0 =>
              \A i \in settled : <<grants[d][gen'], i>> \in tree[gen']]_vars
=============================================================================
