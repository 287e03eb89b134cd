------------------------------ MODULE HubLinks ------------------------------
(***************************************************************************)
(* Invite links on the hub (cmd/qp-hub/invite.go, api_agent.go,            *)
(* api_operator.go, internal/hubdb): made by a member's computer, by the   *)
(* operator or by someone starting a folder of their own; opened by an     *)
(* installer, which then enrols, or by a computer that has Quietport,      *)
(* which joins; revoked, expired, or gone with the person they were for.   *)
(*                                                                         *)
(* The database has one connection, so a statement is atomic, and requests *)
(* interleave between their statements.  A request is a record with a      *)
(* program counter; a stop of the hub ends every request where it is.      *)
(* Where two statements are one action, the README says why.               *)
(*                                                                         *)
(* A link is for one folder.  One made by a member mints a person, who is  *)
(* named after the link: no two people ever have one id here.  Roles and   *)
(* quotas are left out.  Folder ids are rowids, as SQLite gives them out:  *)
(* one more than the largest there is.                                     *)
(***************************************************************************)
EXTENDS Naturals, FiniteSets

CONSTANTS
    Link,        \* codes of links, made or yet to be made
    Computer,
    Member,      \* people who are not minted for a link
    Nobody,      \* no person, no computer
    Founder,     \* owner of the folder there is at the start
    Enrolled,    \* the device rows at the start: a computer and its person
    Operator,    \* what the operator does besides making folders
    MaxFolder,   \* bound: folder ids
    MaxMade,     \* bound: folders ever made
    MaxStops     \* bound: stops of the hub

Person      == Link \cup Member
Folder      == 1..MaxFolder
AllOperator == {"invite", "revoke", "remove", "destroy"}

ASSUME NobodyAssumption   == Nobody \notin Computer /\ Nobody \notin Person
ASSUME PersonAssumption   == Link \cap Member = {}
ASSUME EnrolledAssumption == Enrolled \subseteq Computer \X Member /\ Founder \in Member
ASSUME OperatorAssumption == Operator \subseteq AllOperator
ASSUME BoundAssumption    == MaxFolder \in Nat \ {0} /\ MaxMade \in Nat /\ MaxStops \in Nat

VARIABLES
    person,      \* person rows: status, or "none" without a row
    folder,      \* circle rows: which folder has this id, 0 without a row
    owner,       \* each circle row's owner
    members,     \* membership rows
    device,      \* device rows
    revoked,     \* device rows with status "revoked"
    invite,      \* invite rows
    made,        \* folders ever made
    making,      \* requests that make a link
    asking,      \* each computer's request to open a link
    payload,     \* each installer's payload: its link and its mesh user
    enrolling,   \* each installer's request to enrol: the person it read
    removing,    \* the owner's request that removes someone
    revoking,    \* links some request is about to revoke
    deleting,    \* how far the deletion of a person is
    redeemer,    \* history: whose request consumed each link
    letIn,       \* history: computers that came in by each link
    invited,     \* history: people the operator made a link for
    stops        \* stops of the hub

tables   == <<person, folder, owner, members, device, revoked, invite, made>>
requests == <<making, asking, payload, enrolling, removing, revoking, deleting>>
vars     == <<tables, requests, redeemer, letIn, invited, stops>>

-----------------------------------------------------------------------------
Invite   == [made : BOOLEAN, row : BOOLEAN, person : Person \cup {Nobody},
             minted : BOOLEAN, folder : Nat, slug : Nat, keys : BOOLEAN,
             consumed : BOOLEAN, revoked : BOOLEAN, expired : BOOLEAN,
             starter : Computer \cup {Nobody}]
NoInvite == [made |-> FALSE, row |-> FALSE, person |-> Nobody, minted |-> FALSE,
             folder |-> 0, slug |-> 0, keys |-> FALSE, consumed |-> FALSE,
             revoked |-> FALSE, expired |-> FALSE, starter |-> Nobody]

Making   == [pc : {"none", "start", "person", "member", "failed"}, person : Person \cup {Nobody},
             minted : BOOLEAN, folder : Nat, slug : Nat, starter : Computer \cup {Nobody}]
NoMaking == [pc |-> "none", person |-> Nobody, minted |-> FALSE, folder |-> 0,
             slug |-> 0, starter |-> Nobody]
Failed   == [NoMaking EXCEPT !.pc = "failed"]

(* A request to open a link: for the computer's own person (a join) or for *)
(* nobody yet (an installer), with the row as it was read back.            *)
Ask      == [pc : {"none", "asked", "selected", "consumed", "read", "added",
                   "repointed", "answering"},
             link : Link \cup {Nobody}, by : Person \cup {Nobody},
             person : Person \cup {Nobody}, folder : Nat, minted : BOOLEAN]
NoAsk    == [pc |-> "none", link |-> Nobody, by |-> Nobody, person |-> Nobody,
             folder |-> 0, minted |-> FALSE]

Payload    == [link : Link \cup {Nobody}, user : Person \cup {Nobody}]
NoPayload  == [link |-> Nobody, user |-> Nobody]
Removing   == [pc : {"none", "removed", "revoking"}, person : Person \cup {Nobody},
               devs : SUBSET (Computer \X Person), links : SUBSET Link]
NoRemoving == [pc |-> "none", person |-> Nobody, devs |-> {}, links |-> {}]
Stage      == {"no", "members", "invites", "devices", "person"}

(* The conditions of the UPDATE that consumes a link, and of every page    *)
(* that shows one.                                                         *)
Live(l) == LET i == invite[l]
           IN  i.row /\ ~i.consumed /\ ~i.revoked /\ ~i.expired

DevicesOf(p) == {r \in device : r[2] = p}
Active(c, p) == <<c, p>> \in device \ revoked
IsNew(c)     == \A r \in device : r[1] # c

(* The rowid of the next circle.                                           *)
NextFolder == CHOOSE f \in 1..(MaxFolder + 1) :
                 /\ \A g \in Folder : folder[g] # 0 => g < f
                 /\ f = 1 \/ folder[f - 1] # 0

-----------------------------------------------------------------------------
Init ==
    /\ person = [p \in Person |-> IF p \in Member THEN "active" ELSE "none"]
    /\ folder = [f \in Folder |-> IF f = 1 THEN 1 ELSE 0]
    /\ owner = [f \in Folder |-> IF f = 1 THEN Founder ELSE Nobody]
    /\ members = {r[2] : r \in Enrolled} \X {1}
    /\ device = Enrolled /\ revoked = {}
    /\ invite = [l \in Link |-> NoInvite]
    /\ made = 1
    /\ making = [l \in Link |-> NoMaking]
    /\ asking = [c \in Computer |-> NoAsk]
    /\ payload = [c \in Computer |-> NoPayload]
    /\ enrolling = [c \in Computer |-> Nobody]
    /\ removing = NoRemoving
    /\ revoking = {}
    /\ deleting = [p \in Person |-> "no"]
    /\ redeemer = [l \in Link |-> Nobody]
    /\ letIn = [l \in Link |-> {}]
    /\ invited = {}
    /\ stops = 0

-----------------------------------------------------------------------------
(* Making a link.                                                          *)

New(l) == ~invite[l].made /\ making[l].pc = "none"

(* A member's computer: the person is made first.                          *)
InviteByMember(l, c, p, f) ==
    /\ New(l) /\ Active(c, p) /\ person[p] = "active"
    /\ folder[f] # 0 /\ <<p, f>> \in members
    /\ person' = [person EXCEPT ![l] = "active"]
    /\ making' = [making EXCEPT ![l] =
          [pc |-> "person", person |-> l, minted |-> TRUE, folder |-> f,
           slug |-> folder[f], starter |-> Nobody]]
    /\ UNCHANGED <<folder, owner, members, device, revoked, invite, made, asking, payload,
                   enrolling, removing, revoking, deleting, redeemer, letIn, invited, stops>>

(* The operator, for someone who exists already.                           *)
InviteByOperator(l, p, f) ==
    /\ "invite" \in Operator /\ New(l) /\ p # l
    /\ person[p] = "active" /\ folder[f] # 0
    /\ members' = members \cup {<<p, f>>}
    /\ invited' = invited \cup {p}
    /\ making' = [making EXCEPT ![l] =
          [pc |-> "member", person |-> p, minted |-> FALSE, folder |-> f,
           slug |-> folder[f], starter |-> Nobody]]
    /\ UNCHANGED <<person, folder, owner, device, revoked, invite, made, asking, payload,
                   enrolling, removing, revoking, deleting, redeemer, letIn, stops>>

(* An installer without a link starts a folder of its own (selfStart).     *)
SelfStart(l, c) ==
    /\ New(l) /\ IsNew(c) /\ asking[c].pc = "none" /\ payload[c].link = Nobody
    /\ \A k \in Link : making[k].starter # c
    /\ person' = [person EXCEPT ![l] = "active"]
    /\ making' = [making EXCEPT ![l] = [NoMaking EXCEPT !.pc = "start", !.person = l,
                                                        !.starter = c]]
    /\ UNCHANGED <<folder, owner, members, device, revoked, invite, made, asking, payload,
                   enrolling, removing, revoking, deleting, redeemer, letIn, invited, stops>>

StartFolder(l) ==
    /\ making[l].pc = "start" /\ NextFolder \in Folder /\ made < MaxMade
    /\ made' = made + 1
    /\ folder' = [folder EXCEPT ![NextFolder] = made + 1]
    /\ owner' = [owner EXCEPT ![NextFolder] = l]
    /\ making' = [making EXCEPT ![l].pc = "person", ![l].folder = NextFolder,
                                ![l].slug = made + 1]
    /\ UNCHANGED <<person, members, device, revoked, invite, asking, payload,
                   enrolling, removing, revoking, deleting, redeemer, letIn, invited, stops>>

(* Rows refer to rows that exist, or the statement fails.                  *)
AddMember(l) ==
    LET m == making[l]
    IN  /\ m.pc = "person"
        /\ members' = IF person[m.person] # "none" /\ folder[m.folder] # 0
                      THEN members \cup {<<m.person, m.folder>>} ELSE members
        /\ making' = [making EXCEPT ![l].pc = "member"]
        /\ UNCHANGED <<person, folder, owner, device, revoked, invite, made, asking, payload,
                       enrolling, removing, revoking, deleting, redeemer, letIn, invited, stops>>

(* The row; a folder's starter goes on to consume it.                      *)
AddInvite(l) ==
    LET m == making[l]
    IN  /\ m.pc = "member" /\ person[m.person] # "none"
        /\ invite' = [invite EXCEPT ![l] =
              [made |-> TRUE, row |-> TRUE, person |-> m.person, minted |-> m.minted,
               folder |-> m.folder, slug |-> m.slug, keys |-> m.starter = Nobody,
               consumed |-> FALSE, revoked |-> FALSE, expired |-> FALSE,
               starter |-> m.starter]]
        /\ asking' = [c \in Computer |->
              IF c = m.starter THEN [NoAsk EXCEPT !.pc = "asked", !.link = l] ELSE asking[c]]
        /\ making' = [making EXCEPT ![l] = NoMaking]
        /\ UNCHANGED <<person, folder, owner, members, device, revoked, made, payload, enrolling,
                       removing, revoking, deleting, redeemer, letIn, invited, stops>>

(* The next attempt draws another code, and mints another person.          *)
MakingFails(l) ==
    /\ making[l].pc \in {"start", "person", "member"}
    /\ making' = [making EXCEPT ![l] = Failed]
    /\ UNCHANGED <<tables, asking, payload, enrolling, removing, revoking, deleting,
                   redeemer, letIn, invited, stops>>

-----------------------------------------------------------------------------
(* Opening a link.                                                         *)

(* Whom a request to open a link is for: the computer's own person when it *)
(* is enrolled, and nobody yet when it is an installer without a payload.  *)
For(c) == {p \in Person : Active(c, p) /\ person[p] = "active"}
          \cup {p \in {Nobody} : IsNew(c) /\ payload[c].link = Nobody}

Selected(c, l, p) == [NoAsk EXCEPT !.pc = "selected", !.link = l, !.by = p]

(* InviteConsume's SELECT; only its starter knows the code of a self start.*)
Select(c, l) ==
    /\ Live(l)
    /\ \/ /\ asking[c].pc = "asked" /\ asking[c].link = l
          /\ asking' = [asking EXCEPT ![c] = Selected(c, l, Nobody)]
       \/ /\ asking[c].pc = "none" /\ invite[l].starter = Nobody
          /\ \A k \in Link : making[k].starter # c
          /\ \E p \in For(c) : asking' = [asking EXCEPT ![c] = Selected(c, l, p)]
    /\ UNCHANGED <<tables, making, payload, enrolling, removing, revoking, deleting,
                   redeemer, letIn, invited, stops>>

(* Mutant: the UPDATE trusts the SELECT.                                   *)
ConsumeSelected(c) ==
    /\ asking[c].pc = "selected"
    /\ invite' = [invite EXCEPT ![asking[c].link].consumed = TRUE,
                                ![asking[c].link].keys = FALSE]
    /\ redeemer' = [redeemer EXCEPT ![asking[c].link] = c]
    /\ asking' = [asking EXCEPT ![c].pc = "consumed"]
    /\ UNCHANGED <<person, folder, owner, members, device, revoked, made, making, payload,
                   enrolling, removing, revoking, deleting, letIn, invited, stops>>

(* InviteConsume's UPDATE, under the same conditions again.                *)
Consume(c) ==
    LET l == asking[c].link
    IN  /\ asking[c].pc = "selected" /\ Live(l)
        /\ invite' = [invite EXCEPT ![l].consumed = TRUE, ![l].keys = FALSE]
        /\ redeemer' = [redeemer EXCEPT ![l] = c]
        /\ asking' = [asking EXCEPT ![c].pc = "consumed"]
        /\ UNCHANGED <<person, folder, owner, members, device, revoked, made, making, payload,
                       enrolling, removing, revoking, deleting, letIn, invited, stops>>

ReadBack(c) ==
    LET i == invite[asking[c].link]
    IN  /\ asking[c].pc = "consumed" /\ i.row
        /\ asking' = [asking EXCEPT ![c].pc = "read", ![c].person = i.person,
                                    ![c].folder = i.folder, ![c].minted = i.minted]
        /\ UNCHANGED <<tables, making, payload, enrolling, removing, revoking, deleting,
                       redeemer, letIn, invited, stops>>

(* No such link, not live any more, or the client went away.               *)
AskFails(c) ==
    /\ asking[c].pc \in {"asked", "selected", "consumed"}
    /\ asking' = [asking EXCEPT ![c] = NoAsk]
    /\ UNCHANGED <<tables, making, payload, enrolling, removing, revoking, deleting,
                   redeemer, letIn, invited, stops>>

(* The installer's answer, which may be lost: the keys, and the pre-auth   *)
(* key that makes its node one of the link's person.                       *)
GivePayload(c) ==
    LET a == asking[c]
    IN  /\ a.pc = "read" /\ a.by = Nobody
        /\ \/ UNCHANGED <<payload, letIn>>
           \/ /\ payload' = [payload EXCEPT ![c] = [link |-> a.link, user |-> a.person]]
              /\ letIn' = [letIn EXCEPT ![a.link] = @ \cup {c}]
        /\ asking' = [asking EXCEPT ![c] = NoAsk]
        /\ UNCHANGED <<tables, making, enrolling, removing, revoking, deleting,
                       redeemer, invited, stops>>

(* The joiner's: a member of the folder, when it still exists.             *)
AddJoiner(c) ==
    LET a == asking[c]
    IN  /\ a.pc = "read" /\ a.by # Nobody
        /\ IF folder[a.folder] = 0
           THEN /\ asking' = [asking EXCEPT ![c].pc = "added", ![c].folder = 0]
                /\ UNCHANGED <<members, letIn>>
           ELSE IF person[a.by] = "none"
           THEN /\ asking' = [asking EXCEPT ![c] = NoAsk]
                /\ UNCHANGED <<members, letIn>>
           ELSE /\ asking' = [asking EXCEPT ![c].pc = "added"]
                /\ members' = members \cup {<<a.by, a.folder>>}
                /\ letIn' = [letIn EXCEPT ![a.link] = @ \cup {c}]
        /\ UNCHANGED <<person, folder, owner, device, revoked, invite, made, making, payload,
                       enrolling, removing, revoking, deleting, redeemer, invited, stops>>

(* Mutant: the row is left with the person the link was minted for.        *)
RowOf(l, p) == invite[l]

(* The row of a redeemed link is the redeemer's.                           *)
Repointed(l, p) == [invite[l] EXCEPT !.person = p]

Repoint(c) ==
    LET a == asking[c]
    IN  /\ a.pc = "added"
        /\ invite' = IF invite[a.link].row /\ person[a.by] # "none"
                     THEN [invite EXCEPT ![a.link] = Repointed(a.link, a.by)] ELSE invite
        /\ asking' = [asking EXCEPT ![c] = IF a.folder = 0 THEN NoAsk
                                           ELSE [a EXCEPT !.pc = "repointed"]]
        /\ UNCHANGED <<person, folder, owner, members, device, revoked, made, making, payload,
                       enrolling, removing, revoking, deleting, redeemer, letIn, invited, stops>>

(* Mutant: the person is taken from the row, after it has changed hands.   *)
IsPlaceholderByRow(a) ==
    a.minted /\ invite[a.link].person # a.by /\ DevicesOf(a.person) = {}

(* The person a member's link minted, who never enrolled a computer.       *)
IsPlaceholder(a) == a.minted /\ a.person # a.by /\ DevicesOf(a.person) = {}

RemoveMintedPerson(c) ==
    LET a == asking[c]
    IN  /\ a.pc = "repointed"
        /\ deleting' = IF IsPlaceholder(a) THEN [deleting EXCEPT ![a.person] = "members"]
                       ELSE deleting
        /\ asking' = [asking EXCEPT ![c].pc = "answering"]
        /\ UNCHANGED <<tables, making, payload, enrolling, removing, revoking,
                       redeemer, letIn, invited, stops>>

AnswerJoin(c) ==
    /\ asking[c].pc = "answering" /\ deleting[asking[c].person] = "no"
    /\ asking' = [asking EXCEPT ![c] = NoAsk]
    /\ UNCHANGED <<tables, making, payload, enrolling, removing, revoking, deleting,
                   redeemer, letIn, invited, stops>>

-----------------------------------------------------------------------------
(* Enrolling with a payload: the code and the mesh node are checked, then  *)
(* the device row is added.                                                *)

MayEnrol(i) == i.row /\ i.consumed /\ ~i.revoked

ReadForEnrol(c) ==
    LET i == invite[payload[c].link]
    IN  /\ payload[c].link # Nobody /\ enrolling[c] = Nobody
        /\ MayEnrol(i) /\ person[i.person] = "active"
        /\ payload[c].user = i.person
        /\ enrolling' = [enrolling EXCEPT ![c] = i.person]
        /\ UNCHANGED <<tables, making, asking, payload, removing, revoking, deleting,
                       redeemer, letIn, invited, stops>>

AddDevice(c) ==
    /\ enrolling[c] # Nobody /\ person[enrolling[c]] # "none"
    /\ device' = device \cup {<<c, enrolling[c]>>}
    /\ letIn' = [letIn EXCEPT ![payload[c].link] = @ \cup {c}]
    /\ enrolling' = [enrolling EXCEPT ![c] = Nobody]
    /\ payload' = [payload EXCEPT ![c] = NoPayload]
    /\ UNCHANGED <<person, folder, owner, members, revoked, invite, made, making, asking,
                   removing, revoking, deleting, redeemer, invited, stops>>

(* Tried again with the same payload, or given up.                         *)
EnrolFails(c) ==
    /\ payload[c].link # Nobody
    /\ enrolling' = [enrolling EXCEPT ![c] = Nobody]
    /\ payload' \in {payload, [payload EXCEPT ![c] = NoPayload]}
    /\ UNCHANGED <<tables, making, asking, removing, revoking, deleting,
                   redeemer, letIn, invited, stops>>

-----------------------------------------------------------------------------
(* Closing links.                                                          *)

Expire(l) ==
    /\ invite[l].row /\ ~invite[l].expired
    /\ invite' = [invite EXCEPT ![l].expired = TRUE]
    /\ UNCHANGED <<person, folder, owner, members, device, revoked, made, requests,
                   redeemer, letIn, invited, stops>>

(* Mutant: housekeeping passes over links that still hold keys.            *)
SweepsEmpty(i) == i.row /\ ~i.consumed /\ ~i.revoked /\ i.expired /\ ~i.keys

(* The links housekeeping closes.                                          *)
Sweeps(i) == i.row /\ ~i.consumed /\ ~i.revoked /\ i.expired /\ (i.keys \/ i.starter # Nobody)

Sweep(l) ==
    /\ Sweeps(invite[l]) /\ l \notin revoking
    /\ revoking' = revoking \cup {l}
    /\ UNCHANGED <<tables, making, asking, payload, enrolling, removing, deleting,
                   redeemer, letIn, invited, stops>>

OperatorRevokes(l) ==
    /\ "revoke" \in Operator
    /\ invite[l].row /\ ~invite[l].consumed /\ ~invite[l].revoked /\ l \notin revoking
    /\ revoking' = revoking \cup {l}
    /\ UNCHANGED <<tables, making, asking, payload, enrolling, removing, deleting,
                   redeemer, letIn, invited, stops>>

(* InviteRevoke, whatever has become of the link since.                    *)
InviteRevoke(l) ==
    /\ l \in revoking
    /\ invite' = IF invite[l].row
                 THEN [invite EXCEPT ![l].revoked = TRUE, ![l].keys = FALSE] ELSE invite
    /\ revoking' = revoking \ {l}
    /\ UNCHANGED <<person, folder, owner, members, device, revoked, made, making, asking, payload,
                   enrolling, removing, deleting, redeemer, letIn, invited, stops>>

(* The owner takes p out of a folder; then p's links, and at last p.       *)
RemovePerson(p, f) ==
    /\ removing.pc = "none"
    /\ \E c \in Computer : Active(c, owner[f])
    /\ p # owner[f] /\ person[p] # "none"
    /\ members' = members \ {<<p, f>>}
    /\ removing' = [pc |-> "removed", person |-> p, devs |-> DevicesOf(p), links |-> {}]
    /\ UNCHANGED <<person, folder, owner, device, revoked, invite, made, making, asking, payload,
                   enrolling, revoking, deleting, redeemer, letIn, invited, stops>>

ListLinks ==
    LET L == {l \in Link : /\ invite[l].row /\ invite[l].person = removing.person
                           /\ ~invite[l].consumed /\ ~invite[l].revoked}
    IN  /\ removing.pc = "removed"
        /\ revoking' = revoking \cup L
        /\ removing' = [removing EXCEPT !.pc = "revoking", !.links = L]
        /\ UNCHANGED <<tables, making, asking, payload, enrolling, deleting,
                       redeemer, letIn, invited, stops>>

(* Someone left without a folder is dropped from the mesh.                 *)
FinishRemoval ==
    LET p == removing.person
        drop == \A f \in Folder : <<p, f>> \notin members
    IN  /\ removing.pc = "revoking" /\ removing.links \cap revoking = {}
        /\ revoked' = IF drop THEN revoked \cup (removing.devs \cap device) ELSE revoked
        /\ person' = IF drop /\ person[p] # "none"
                     THEN [person EXCEPT ![p] = "offboarded"] ELSE person
        /\ removing' = NoRemoving
        /\ UNCHANGED <<folder, owner, members, device, invite, made, making, asking, payload,
                       enrolling, revoking, deleting, redeemer, letIn, invited, stops>>

(* The operator deletes a person who has no active computer.               *)
OperatorRemoves(p) ==
    /\ "remove" \in Operator
    /\ person[p] # "none" /\ deleting[p] = "no" /\ DevicesOf(p) \subseteq revoked
    /\ deleting' = [deleting EXCEPT ![p] = "members"]
    /\ UNCHANGED <<tables, making, asking, payload, enrolling, removing, revoking,
                   redeemer, letIn, invited, stops>>

(* PersonDelete, statement by statement; the last fails while a row refers *)
(* to the person.                                                          *)
DeleteMembers(p) ==
    /\ deleting[p] = "members"
    /\ members' = {m \in members : m[1] # p}
    /\ deleting' = [deleting EXCEPT ![p] = "invites"]
    /\ UNCHANGED <<person, folder, owner, device, revoked, invite, made, making, asking, payload,
                   enrolling, removing, revoking, redeemer, letIn, invited, stops>>

DeleteInvites(p) ==
    /\ deleting[p] = "invites"
    /\ invite' = [l \in Link |-> IF invite[l].row /\ invite[l].person = p
                                 THEN [invite[l] EXCEPT !.row = FALSE, !.keys = FALSE]
                                 ELSE invite[l]]
    /\ deleting' = [deleting EXCEPT ![p] = "devices"]
    /\ UNCHANGED <<person, folder, owner, members, device, revoked, made, making, asking, payload,
                   enrolling, removing, revoking, redeemer, letIn, invited, stops>>

DeleteDevices(p) ==
    /\ deleting[p] = "devices"
    /\ device' = device \ DevicesOf(p) /\ revoked' = revoked \ DevicesOf(p)
    /\ deleting' = [deleting EXCEPT ![p] = "person"]
    /\ UNCHANGED <<person, folder, owner, members, invite, made, making, asking, payload,
                   enrolling, removing, revoking, redeemer, letIn, invited, stops>>

(* Mutant: foreign keys are not enforced.                                  *)
UsedNowhere(p) == FALSE

Used(p) == \/ \E m \in members : m[1] = p
           \/ \E l \in Link : invite[l].row /\ invite[l].person = p
           \/ DevicesOf(p) # {}

DeletePerson(p) ==
    /\ deleting[p] = "person"
    /\ person' = IF Used(p) THEN person ELSE [person EXCEPT ![p] = "none"]
    /\ deleting' = [deleting EXCEPT ![p] = "no"]
    /\ UNCHANGED <<folder, owner, members, device, revoked, invite, made, making, asking,
                   payload, enrolling, removing, revoking, redeemer, letIn, invited, stops>>

-----------------------------------------------------------------------------
(* Folders come and go; a folder's memberships go with it.                 *)

NewFolder(c, p) ==
    /\ Active(c, p) /\ person[p] = "active"
    /\ NextFolder \in Folder /\ made < MaxMade
    /\ made' = made + 1
    /\ folder' = [folder EXCEPT ![NextFolder] = made + 1]
    /\ owner' = [owner EXCEPT ![NextFolder] = p]
    /\ members' = members \cup {<<p, NextFolder>>}
    /\ UNCHANGED <<person, device, revoked, invite, requests, redeemer, letIn, invited, stops>>

DestroyFolder(f) ==
    /\ "destroy" \in Operator /\ folder[f] # 0
    /\ folder' = [folder EXCEPT ![f] = 0]
    /\ owner' = [owner EXCEPT ![f] = Nobody]
    /\ members' = {m \in members : m[2] # f}
    /\ UNCHANGED <<person, device, revoked, invite, made, requests, redeemer, letIn, invited, stops>>

(* The hub stops; what was done stays done.                                *)
HubStops ==
    /\ stops < MaxStops
    /\ stops' = stops + 1
    /\ making' = [l \in Link |-> IF making[l].pc = "none" THEN NoMaking ELSE Failed]
    /\ asking' = [c \in Computer |-> NoAsk]
    /\ enrolling' = [c \in Computer |-> Nobody]
    /\ removing' = NoRemoving /\ revoking' = {}
    /\ deleting' = [p \in Person |-> "no"]
    /\ UNCHANGED <<tables, payload, redeemer, letIn, invited>>

-----------------------------------------------------------------------------
MakeLink(l) == \/ \E c \in Computer, p \in Person, f \in Folder : InviteByMember(l, c, p, f)
               \/ \E p \in Person, f \in Folder : InviteByOperator(l, p, f)
               \/ \E c \in Computer : SelfStart(l, c)
               \/ StartFolder(l) \/ AddMember(l) \/ AddInvite(l) \/ MakingFails(l)
OpenLink(c) == \/ \E l \in Link : Select(c, l)
               \/ Consume(c) \/ ReadBack(c) \/ AskFails(c) \/ GivePayload(c)
               \/ AddJoiner(c) \/ Repoint(c) \/ RemoveMintedPerson(c) \/ AnswerJoin(c)
Enrol(c)    == ReadForEnrol(c) \/ AddDevice(c) \/ EnrolFails(c)
CloseLink(l) == Expire(l) \/ Sweep(l) \/ OperatorRevokes(l) \/ InviteRevoke(l)
Remove      == \/ \E p \in Person, f \in Folder : RemovePerson(p, f)
               \/ ListLinks \/ FinishRemoval
PersonDelete(p) == \/ OperatorRemoves(p) \/ DeleteMembers(p) \/ DeleteInvites(p)
                   \/ DeleteDevices(p) \/ DeletePerson(p)

Next == \/ \E l \in Link : MakeLink(l) \/ CloseLink(l)
        \/ \E c \in Computer : OpenLink(c) \/ Enrol(c) \/ \E p \in Person : NewFolder(c, p)
        \/ \E p \in Person : PersonDelete(p)
        \/ Remove
        \/ \E f \in Folder : DestroyFolder(f)
        \/ HubStops

Spec == Init /\ [][Next]_vars

(* Housekeeping runs every ten minutes for as long as the hub does.        *)
Fairness == \A l \in Link : WF_vars(Sweep(l)) /\ WF_vars(InviteRevoke(l))

FairSpec == Spec /\ Fairness

-----------------------------------------------------------------------------
Types ==
    /\ person \in [Person -> {"none", "active", "offboarded"}]
    /\ folder \in [Folder -> Nat] /\ owner \in [Folder -> Person \cup {Nobody}]
    /\ members \subseteq Person \X Folder
    /\ device \subseteq Computer \X Person /\ revoked \subseteq device
    /\ invite \in [Link -> Invite] /\ made \in Nat
    /\ making \in [Link -> Making]
    /\ asking \in [Computer -> Ask] /\ payload \in [Computer -> Payload]
    /\ enrolling \in [Computer -> Person \cup {Nobody}]
    /\ removing \in Removing /\ revoking \subseteq Link
    /\ deleting \in [Person -> Stage]
    /\ redeemer \in [Link -> Computer \cup {Nobody}]
    /\ letIn \in [Link -> SUBSET Computer] /\ invited \subseteq Person
    /\ stops \in Nat

ForeignKeys ==
    /\ \A r \in members : person[r[1]] # "none" /\ folder[r[2]] # 0
    /\ \A r \in device : person[r[2]] # "none"
    /\ \A l \in Link : invite[l].row => person[invite[l].person] # "none"

(* Types, and the foreign keys of the tables.                              *)
TypeOK == Types /\ ForeignKeys

(* Every link is a one-time link (docs/adr/0019: "A link redeemed by a join *)
(* cannot also be installed from, and the other way round"), through every  *)
(* interleaving of requests that open, close or delete it.                  *)
LinkState == [l \in Link |-> IF ~invite[l].made THEN "unmade"
                             ELSE IF Live(l) THEN "open" ELSE "closed"]

Abstract == INSTANCE OneTimeLink WITH state <- LinkState

OneTime == Abstract!Spec

(* The row of a link that someone joined with "stays as the record of who   *)
(* redeemed it" (api_agent.go:364): it goes only with the redeemer.         *)
JoinsStayOnRecord ==
    [][\A l \in Link, c \in Computer :
          /\ asking[c].pc \in {"repointed", "answering"} /\ asking[c].link = l
          /\ invite[l].row /\ ~invite'[l].row
          => deleting[asking[c].by] # "no" \/ person[asking[c].by] = "none"]_vars

(* When a join has been answered, the person a member's link minted is      *)
(* gone, unless they turned out to be someone with a computer or the        *)
(* operator has invited them as well.                                       *)
PlaceholdersGo ==
    [][\A c \in Computer :
          asking[c].pc = "answering" /\ asking'[c].pc = "none" /\ stops' = stops
          => LET a == asking[c]
             IN  \/ ~a.minted \/ a.person = a.by
                 \/ DevicesOf(a.person) # {} \/ a.person \in invited
                 \/ person[a.person] = "none"]_vars

(* The keys sealed under a link that expired unused do not stay on the hub. *)
ExpiredKeysAreWiped ==
    \A l \in Link : invite[l].row /\ invite[l].expired ~> ~invite[l].keys

(* A join leads into the folder the link was made for, or into none: "The   *)
(* folder in this link no longer exists." (api_agent.go:416)  No run checks *)
(* it: the code does not keep it when the folder is destroyed and its id    *)
(* given to the next one made (README, section 4).                          *)
JoinsLeadWhereTheLinkDid ==
    [][\A c \in Computer :
          asking[c].pc = "read" /\ asking'[c].pc = "added" /\ asking'[c].folder # 0
          => folder[asking[c].folder] = invite[asking[c].link].slug]_vars

=============================================================================
