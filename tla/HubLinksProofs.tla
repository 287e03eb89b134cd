--------------------------- MODULE HubLinksProofs ---------------------------
(***************************************************************************)
(* Theorems of HubLinks, for every set of links, computers and people and  *)
(* every bound: its types and foreign keys, that every link is the         *)
(* one-time link of OneTimeLink, and what a join leaves behind: its row as *)
(* the record, and no minted person.                                       *)
(***************************************************************************)
EXTENDS HubLinks, TLAPS

-----------------------------------------------------------------------------
(* What the requests under way know.                                       *)
InFlight ==
    /\ \A l \in Link :
          /\ making[l].pc \in {"start", "person", "member"} => making[l].person \in Person
          /\ making[l].pc \in {"person", "member"} => making[l].folder \in Folder
          /\ invite[l].row => invite[l].person \in Person /\ invite[l].folder \in Folder
    /\ \A c \in Computer :
          /\ asking[c].pc # "none" => asking[c].link \in Link
          /\ asking[c].pc \in {"read", "added", "repointed", "answering"} =>
                asking[c].person \in Person /\ asking[c].folder \in Folder \cup {0}
          /\ asking[c].pc = "read" => asking[c].folder \in Folder
          /\ asking[c].pc \in {"added", "repointed", "answering"} => asking[c].by \in Person
          /\ payload[c].link # Nobody => payload[c].user \in Person
          /\ enrolling[c] # Nobody => payload[c].link # Nobody
    /\ removing.pc # "none" => removing.person \in Person

(* The inductive form of TypeOK.                                           *)
TypeInv == TypeOK /\ InFlight

-----------------------------------------------------------------------------
(* Types: the records requests write.                                      *)

(* The statements that update an invite row.                               *)
LEMMA InviteFields ==
    ASSUME NEW i \in Invite
    PROVE  /\ [i EXCEPT !.expired = TRUE] \in Invite
           /\ [i EXCEPT !.revoked = TRUE, !.keys = FALSE] \in Invite
           /\ [i EXCEPT !.consumed = TRUE, !.keys = FALSE] \in Invite
           /\ [i EXCEPT !.row = FALSE, !.keys = FALSE] \in Invite
           /\ \A p \in Person : [i EXCEPT !.person = p] \in Invite
    BY DEF Invite

(* The steps of a request to open a link.                                  *)
LEMMA AskFields ==
    ASSUME NEW a \in Ask
    PROVE  /\ [a EXCEPT !.pc = "consumed"] \in Ask
           /\ [a EXCEPT !.pc = "added"] \in Ask
           /\ [a EXCEPT !.pc = "added", !.folder = 0] \in Ask
           /\ [a EXCEPT !.pc = "repointed"] \in Ask
           /\ [a EXCEPT !.pc = "answering"] \in Ask
           /\ NoAsk \in Ask
           /\ \A i \in Invite : [a EXCEPT !.pc = "read", !.person = i.person,
                                           !.folder = i.folder, !.minted = i.minted] \in Ask
    BY DEF Ask, NoAsk, Invite

(* The requests that make a link.                                          *)
LEMMA NewMaking ==
    ASSUME NEW p \in Person, NEW b \in BOOLEAN, NEW f \in Nat, NEW s \in Nat,
           NEW pc \in {"start", "person", "member"}, NEW x \in Computer \cup {Nobody}
    PROVE  [pc |-> pc, person |-> p, minted |-> b, folder |-> f, slug |-> s,
            starter |-> x] \in Making
    BY DEF Making

(* A member makes a link.                                                  *)
LEMMA InviteByMemberType ==
    ASSUME TypeInv, NEW l \in Link, NEW c \in Computer, NEW p \in Person, NEW f \in Folder,
           InviteByMember(l, c, p, f)
    PROVE  TypeInv'
    <1>1. l \in Person /\ folder[f] \in Nat /\ f \in Nat
        BY DEF TypeInv, TypeOK, Types, Person, Folder
    <1>2. making'[l] \in Making
        BY <1>1, NewMaking DEF TypeInv, TypeOK, Types, InviteByMember
    <1>3. making' \in [Link -> Making]
        BY <1>2 DEF TypeInv, TypeOK, Types, InviteByMember
    <1>4. Types'
        BY <1>3 DEF TypeInv, TypeOK, Types, InviteByMember
    <1>5. ForeignKeys'
        BY DEF TypeInv, TypeOK, Types, ForeignKeys, InviteByMember
    <1>6. InFlight'
        BY DEF TypeInv, TypeOK, Types, InFlight, Person, InviteByMember
    <1> QED BY <1>4, <1>5, <1>6 DEF TypeInv, TypeOK

(* The operator makes a link.                                              *)
LEMMA InviteByOperatorType ==
    ASSUME TypeInv, NEW l \in Link, NEW p \in Person, NEW f \in Folder,
           InviteByOperator(l, p, f)
    PROVE  TypeInv'
    <1>1. folder[f] \in Nat /\ f \in Nat
        BY DEF TypeInv, TypeOK, Types, Folder
    <1>2. making'[l] \in Making
        BY <1>1, NewMaking DEF TypeInv, TypeOK, Types, InviteByOperator
    <1>3. making' \in [Link -> Making]
        BY <1>2 DEF TypeInv, TypeOK, Types, InviteByOperator
    <1>4. Types'
        BY <1>3 DEF TypeInv, TypeOK, Types, InviteByOperator
    <1>5. ForeignKeys'
        BY DEF TypeInv, TypeOK, Types, ForeignKeys, InviteByOperator
    <1>6. InFlight'
        BY DEF TypeInv, TypeOK, Types, InFlight, InviteByOperator
    <1> QED BY <1>4, <1>5, <1>6 DEF TypeInv, TypeOK

(* An installer starts a folder.                                           *)
LEMMA SelfStartType ==
    ASSUME TypeInv, NEW l \in Link, NEW c \in Computer, SelfStart(l, c)
    PROVE  TypeInv'
    <1>1. making' \in [Link -> Making]
        BY DEF TypeInv, TypeOK, Types, SelfStart, NoMaking, Making, Person
    <1>2. Types'
        BY <1>1 DEF TypeInv, TypeOK, Types, SelfStart
    <1>3. ForeignKeys'
        BY DEF TypeInv, TypeOK, Types, ForeignKeys, SelfStart
    <1>4. InFlight'
        BY DEF TypeInv, TypeOK, Types, InFlight, Person, SelfStart
    <1> QED BY <1>2, <1>3, <1>4 DEF TypeInv, TypeOK

(* The folder it starts.                                                   *)
LEMMA StartFolderType ==
    ASSUME TypeInv, NEW l \in Link, StartFolder(l)
    PROVE  TypeInv'
    <1>1. NextFolder \in Nat /\ made + 1 \in Nat /\ making[l] \in Making
        BY DEF TypeInv, TypeOK, Types, StartFolder, Folder
    <1>2. \A n, s \in Nat : [[[making[l] EXCEPT !.pc = "person"] EXCEPT !.folder = n]
                             EXCEPT !.slug = s] \in Making
        BY <1>1 DEF Making
    <1>3. making' = [making EXCEPT ![l] = [[[making[l] EXCEPT !.pc = "person"]
                                             EXCEPT !.folder = NextFolder]
                                             EXCEPT !.slug = made + 1]]
        BY <1>1 DEF TypeInv, TypeOK, Types, StartFolder
    <1>4. making' \in [Link -> Making]
        BY <1>1, <1>2, <1>3 DEF TypeInv, TypeOK, Types
    <1>5. folder' \in [Folder -> Nat]
        BY <1>1 DEF TypeInv, TypeOK, Types, StartFolder
    <1>6. owner' \in [Folder -> Person \cup {Nobody}]
        BY DEF TypeInv, TypeOK, Types, StartFolder, Person
    <1>7. Types'
        BY <1>4, <1>5, <1>6 DEF TypeInv, TypeOK, Types, StartFolder
    <1>8. ForeignKeys'
        BY DEF TypeInv, TypeOK, Types, ForeignKeys, StartFolder
    <1>9. InFlight'
        BY DEF TypeInv, TypeOK, Types, InFlight, StartFolder
    <1> QED BY <1>7, <1>8, <1>9 DEF TypeInv, TypeOK

(* The invite row is made.                                                 *)
LEMMA AddInviteType ==
    ASSUME TypeInv, NEW l \in Link, AddInvite(l)
    PROVE  TypeInv'
    <1>1. invite' \in [Link -> Invite]
        BY DEF TypeInv, TypeOK, Types, AddInvite, Making, Invite
    <1>2. asking' \in [Computer -> Ask]
        BY DEF TypeInv, TypeOK, Types, AddInvite, NoAsk, Ask
    <1>3. making' \in [Link -> Making]
        BY DEF TypeInv, TypeOK, Types, AddInvite, NoMaking, Making
    <1>4. Types'
        BY <1>1, <1>2, <1>3 DEF TypeInv, TypeOK, Types, AddInvite
    <1>5. ForeignKeys'
        BY DEF TypeInv, TypeOK, Types, ForeignKeys, AddInvite
    <1>6. InFlight'
        BY DEF TypeInv, TypeOK, Types, InFlight, AddInvite, NoMaking
    <1> QED BY <1>4, <1>5, <1>6 DEF TypeInv, TypeOK

(* A link is consumed.                                                     *)
LEMMA ConsumeType ==
    ASSUME TypeInv, NEW c \in Computer, Consume(c)
    PROVE  TypeInv'
    <1>1. asking' \in [Computer -> Ask] /\ invite' \in [Link -> Invite]
        BY AskFields, InviteFields DEF TypeInv, TypeOK, Types, Consume
    <1>2. Types'
        BY <1>1 DEF TypeInv, TypeOK, Types, Consume
    <1>3. ForeignKeys'
        BY DEF TypeInv, TypeOK, Types, ForeignKeys, Consume
    <1>4. InFlight'
        BY DEF TypeInv, TypeOK, Types, InFlight, Consume
    <1> QED BY <1>2, <1>3, <1>4 DEF TypeInv, TypeOK

(* An installer gets its payload.                                          *)
LEMMA GivePayloadType ==
    ASSUME TypeInv, NEW c \in Computer, GivePayload(c)
    PROVE  TypeInv'
    <1>1. asking' \in [Computer -> Ask]
        BY AskFields DEF TypeInv, TypeOK, Types, GivePayload
    <1>2. payload' \in [Computer -> Payload]
        BY DEF TypeInv, TypeOK, Types, GivePayload, Ask, Payload
    <1>3. letIn' \in [Link -> SUBSET Computer]
        BY DEF TypeInv, TypeOK, Types, GivePayload
    <1>4. Types'
        BY <1>1, <1>2, <1>3 DEF TypeInv, TypeOK, Types, GivePayload, tables
    <1>5. ForeignKeys'
        BY DEF TypeInv, TypeOK, Types, ForeignKeys, GivePayload, tables
    <1>6. InFlight'
        BY NobodyAssumption
        DEF TypeInv, TypeOK, Types, InFlight, Person, GivePayload, NoAsk, tables
    <1> QED BY <1>4, <1>5, <1>6 DEF TypeInv, TypeOK

(* An enrolment fails.                                                     *)
LEMMA EnrolFailsType ==
    ASSUME TypeInv, NEW c \in Computer, EnrolFails(c)
    PROVE  TypeInv'
    <1>1. payload' \in [Computer -> Payload]
        BY DEF TypeInv, TypeOK, Types, EnrolFails, NoPayload, Payload
    <1>2. Types'
        BY <1>1 DEF TypeInv, TypeOK, Types, EnrolFails, tables
    <1>3. ForeignKeys'
        BY DEF TypeInv, TypeOK, Types, ForeignKeys, EnrolFails, tables
    <1>4. InFlight'
        BY DEF TypeInv, TypeOK, Types, InFlight, EnrolFails, NoPayload, tables
    <1> QED BY <1>2, <1>3, <1>4 DEF TypeInv, TypeOK

(* The row becomes the redeemer's.                                         *)
LEMMA RepointType ==
    ASSUME TypeInv, NEW c \in Computer, Repoint(c)
    PROVE  TypeInv'
    <1>1. asking[c].by \in Person /\ asking[c].link \in Link
        BY DEF TypeInv, TypeOK, Types, Repoint, InFlight
    <1>2. asking' \in [Computer -> Ask]
        BY AskFields DEF TypeInv, TypeOK, Types, Repoint
    <1>3. invite' \in [Link -> Invite]
        BY <1>1, InviteFields DEF TypeInv, TypeOK, Types, Repoint, Repointed
    <1>4. Types'
        BY <1>2, <1>3 DEF TypeInv, TypeOK, Types, Repoint, Repointed
    <1>5. ForeignKeys'
        BY DEF TypeInv, TypeOK, Types, ForeignKeys, Repoint, Repointed
    <1>6. InFlight'
        BY DEF TypeInv, TypeOK, Types, InFlight, Repoint, Repointed, NoAsk
    <1> QED BY <1>4, <1>5, <1>6 DEF TypeInv, TypeOK

(* A link expires.                                                         *)
LEMMA ExpireType ==
    ASSUME TypeInv, NEW l \in Link, Expire(l)
    PROVE  TypeInv'
    <1>1. invite' \in [Link -> Invite]
        BY InviteFields DEF TypeInv, TypeOK, Types, Expire
    <1>2. Types'
        BY <1>1 DEF TypeInv, TypeOK, Types, Expire, requests
    <1>3. ForeignKeys'
        BY DEF TypeInv, TypeOK, Types, ForeignKeys, Expire
    <1>4. InFlight'
        BY DEF TypeInv, TypeOK, Types, InFlight, Expire, requests
    <1> QED BY <1>2, <1>3, <1>4 DEF TypeInv, TypeOK

(* A link is revoked.                                                      *)
LEMMA InviteRevokeType ==
    ASSUME TypeInv, NEW l \in Link, InviteRevoke(l)
    PROVE  TypeInv'
    <1>1. invite' \in [Link -> Invite]
        BY InviteFields DEF TypeInv, TypeOK, Types, InviteRevoke
    <1>2. Types'
        BY <1>1 DEF TypeInv, TypeOK, Types, InviteRevoke
    <1>3. ForeignKeys'
        BY DEF TypeInv, TypeOK, Types, ForeignKeys, InviteRevoke
    <1>4. InFlight'
        BY DEF TypeInv, TypeOK, Types, InFlight, InviteRevoke
    <1> QED BY <1>2, <1>3, <1>4 DEF TypeInv, TypeOK

(* The SELECT of a request to open a link.                                 *)
LEMMA SelectType ==
    ASSUME TypeInv, NEW c \in Computer, NEW l \in Link, Select(c, l)
    PROVE  TypeInv'
    <1>1. PICK p \in Person \cup {Nobody} : asking' = [asking EXCEPT ![c] = Selected(c, l, p)]
        BY DEF Select, For
    <1>2. /\ Selected(c, l, p) \in Ask
          /\ Selected(c, l, p).link = l /\ Selected(c, l, p).pc = "selected"
        BY DEF Selected, NoAsk, Ask
    <1>3. Types' /\ ForeignKeys'
        BY <1>1, <1>2 DEF TypeInv, TypeOK, Types, ForeignKeys, Select, tables
    <1>4. InFlight'
        BY <1>1, <1>2 DEF TypeInv, TypeOK, Types, InFlight, Select, tables
    <1> QED BY <1>3, <1>4 DEF TypeInv, TypeOK

(* The row as it is read back.                                             *)
LEMMA ReadBackType ==
    ASSUME TypeInv, NEW c \in Computer, ReadBack(c)
    PROVE  TypeInv'
    <1> DEFINE i == invite[asking[c].link]
               a == [[[[asking[c] EXCEPT !.pc = "read"] EXCEPT !.person = i.person]
                      EXCEPT !.folder = i.folder] EXCEPT !.minted = i.minted]
    <1>1. /\ asking[c] \in Ask /\ asking[c].link \in Link /\ i \in Invite
          /\ i.person \in Person /\ i.folder \in Folder
        BY DEF TypeInv, TypeOK, Types, ReadBack, InFlight
    <1>2. /\ a \in Ask /\ a.pc = "read" /\ a.link \in Link
          /\ a.person \in Person /\ a.folder \in Folder
        BY <1>1 DEF Ask, Invite
    <1>3. asking' = [asking EXCEPT ![c] = a]
        BY <1>1 DEF TypeInv, TypeOK, Types, ReadBack
    <1> HIDE DEF a
    <1>4. Types'
      <2>1. asking' \in [Computer -> Ask]
          BY <1>2, <1>3 DEF TypeInv, TypeOK, Types
      <2> QED BY <2>1 DEF TypeInv, TypeOK, Types, ReadBack, tables
    <1>5. ForeignKeys'
        BY DEF TypeInv, TypeOK, ForeignKeys, ReadBack, tables
    <1>6. InFlight'
        BY <1>2, <1>3 DEF TypeInv, TypeOK, Types, InFlight, ReadBack, tables
    <1> QED BY <1>4, <1>5, <1>6 DEF TypeInv, TypeOK

(* A joiner becomes a member.                                              *)
LEMMA AddJoinerType ==
    ASSUME TypeInv, NEW c \in Computer, AddJoiner(c)
    PROVE  TypeInv'
    <1>1. /\ asking[c] \in Ask /\ asking[c].by \in Person /\ asking[c].link \in Link
          /\ asking[c].folder \in Folder /\ asking[c].person \in Person
        BY DEF TypeInv, TypeOK, Types, InFlight, AddJoiner, Ask
    <1>2. PICK a \in Ask :
             /\ asking' = [asking EXCEPT ![c] = a]
             /\ \/ a = NoAsk
                \/ /\ a.pc = "added" /\ a.link \in Link
                   /\ a.person \in Person /\ a.by \in Person /\ a.folder \in Folder \cup {0}
      <2>1. CASE folder[asking[c].folder] = 0
        <3>1. asking' = [asking EXCEPT ![c] = [[asking[c] EXCEPT !.pc = "added"]
                                               EXCEPT !.folder = 0]]
            BY <1>1, <2>1 DEF TypeInv, TypeOK, Types, AddJoiner
        <3>2. [[asking[c] EXCEPT !.pc = "added"] EXCEPT !.folder = 0] \in Ask
            BY <1>1 DEF Ask
        <3> QED BY <1>1, <3>1, <3>2 DEF Ask
      <2>2. CASE folder[asking[c].folder] # 0 /\ person[asking[c].by] = "none"
          BY <2>2, AskFields, <1>1 DEF AddJoiner
      <2>3. CASE folder[asking[c].folder] # 0 /\ person[asking[c].by] # "none"
        <3>1. asking' = [asking EXCEPT ![c] = [asking[c] EXCEPT !.pc = "added"]]
            BY <1>1, <2>3 DEF TypeInv, TypeOK, Types, AddJoiner
        <3>2. /\ [asking[c] EXCEPT !.pc = "added"] \in Ask
              /\ [asking[c] EXCEPT !.pc = "added"].pc = "added"
              /\ [asking[c] EXCEPT !.pc = "added"].link = asking[c].link
              /\ [asking[c] EXCEPT !.pc = "added"].person = asking[c].person
              /\ [asking[c] EXCEPT !.pc = "added"].by = asking[c].by
              /\ [asking[c] EXCEPT !.pc = "added"].folder = asking[c].folder
            BY <1>1 DEF Ask
        <3> QED BY <1>1, <3>1, <3>2
      <2> QED BY <2>1, <2>2, <2>3
    <1>3. letIn' \in [Link -> SUBSET Computer]
        BY <1>1 DEF TypeInv, TypeOK, Types, AddJoiner
    <1>4. members' \subseteq Person \X Folder
        BY <1>1 DEF TypeInv, TypeOK, Types, AddJoiner
    <1>5. Types'
        BY <1>2, <1>3, <1>4 DEF TypeInv, TypeOK, Types, AddJoiner
    <1>6. ForeignKeys'
        BY <1>1 DEF TypeInv, TypeOK, Types, ForeignKeys, AddJoiner
    <1>7. InFlight'
        BY <1>2 DEF TypeInv, TypeOK, Types, InFlight, AddJoiner, NoAsk
    <1> QED BY <1>5, <1>6, <1>7 DEF TypeInv, TypeOK

(* The invites of a person who is deleted.                                 *)
LEMMA DeleteInvitesType ==
    ASSUME TypeInv, NEW p \in Person, DeleteInvites(p)
    PROVE  TypeInv'
    <1>1. invite' \in [Link -> Invite]
        BY InviteFields DEF TypeInv, TypeOK, Types, DeleteInvites
    <1>2. \A l \in Link : invite'[l].row => invite'[l] = invite[l]
        BY DEF TypeInv, TypeOK, Types, DeleteInvites, Invite
    <1>3. Types'
        BY <1>1 DEF TypeInv, TypeOK, Types, DeleteInvites, Stage
    <1>4. ForeignKeys'
        BY <1>2 DEF TypeInv, TypeOK, Types, ForeignKeys, DeleteInvites
    <1>5. InFlight'
        BY <1>2 DEF TypeInv, TypeOK, Types, InFlight, DeleteInvites
    <1> QED BY <1>3, <1>4, <1>5 DEF TypeInv, TypeOK

(* The person's row goes only when nothing refers to it.                   *)
LEMMA DeletePersonType ==
    ASSUME TypeInv, NEW p \in Person, DeletePerson(p)
    PROVE  TypeInv'
    <1>1. Types'
        BY DEF TypeInv, TypeOK, Types, DeletePerson, Stage
    <1>2. ForeignKeys'
      <2>1. CASE Used(p)
          BY <2>1 DEF TypeInv, TypeOK, ForeignKeys, DeletePerson
      <2>2. CASE ~Used(p)
        <3>1. \A q \in Person \ {p} : person'[q] = person[q]
            BY <2>2 DEF TypeInv, TypeOK, Types, DeletePerson
        <3>2. \A r \in members : r[1] \in Person \ {p}
            BY <2>2 DEF TypeInv, TypeOK, Types, Used
        <3>3. \A r \in device : r[2] \in Person \ {p}
            BY <2>2 DEF TypeInv, TypeOK, Types, Used, DevicesOf
        <3>4. \A l \in Link : invite[l].row => invite[l].person \in Person \ {p}
            BY <2>2 DEF Used, TypeInv, InFlight
        <3> QED BY <3>1, <3>2, <3>3, <3>4 DEF TypeInv, TypeOK, ForeignKeys, DeletePerson
      <2> QED BY <2>1, <2>2
    <1>3. InFlight'
        BY DEF TypeInv, InFlight, DeletePerson
    <1> QED BY <1>1, <1>2, <1>3 DEF TypeInv, TypeOK

(* What a stop of the hub leaves of the requests.                          *)
LEMMA HubStopsType ==
    ASSUME TypeInv, HubStops
    PROVE  TypeInv'
    <1>1. NoMaking \in Making /\ Failed \in Making /\ NoAsk \in Ask /\ NoRemoving \in Removing
        BY DEF NoMaking, Failed, Making, NoAsk, Ask, NoRemoving, Removing
    <1>2. Types'
        BY <1>1 DEF TypeInv, TypeOK, Types, HubStops, tables, Stage
    <1>3. ForeignKeys'
        BY DEF TypeInv, TypeOK, ForeignKeys, HubStops, tables
    <1>4. InFlight'
        BY DEF TypeInv, InFlight, HubStops, tables, Failed, NoMaking, NoAsk, NoRemoving
    <1> QED BY <1>2, <1>3, <1>4 DEF TypeInv, TypeOK

-----------------------------------------------------------------------------
(* Types: every step.                                                      *)

(* Making a link.                                                          *)
LEMMA MakeLinkType ==
    ASSUME TypeInv, NEW l \in Link, MakeLink(l)
    PROVE  TypeInv'
    <1>1. ASSUME NEW c \in Computer, NEW p \in Person, NEW f \in Folder,
                 InviteByMember(l, c, p, f)
          PROVE  TypeInv'
        BY <1>1, InviteByMemberType
    <1>2. ASSUME NEW p \in Person, NEW f \in Folder, InviteByOperator(l, p, f)
          PROVE  TypeInv'
        BY <1>2, InviteByOperatorType
    <1>3. ASSUME NEW c \in Computer, SelfStart(l, c)
          PROVE  TypeInv'
        BY <1>3, SelfStartType
    <1>4. CASE StartFolder(l)
        BY <1>4, StartFolderType
    <1>5. CASE AddMember(l)
        BY <1>5, NobodyAssumption
        DEF TypeInv, TypeOK, Types, ForeignKeys, InFlight, Person, AddMember, Making
    <1>6. CASE AddInvite(l)
        BY <1>6, AddInviteType
    <1>7. CASE MakingFails(l)
        BY <1>7
        DEF TypeInv, TypeOK, Types, ForeignKeys, InFlight, MakingFails, Failed, NoMaking,
            tables, Making
    <1> QED BY <1>1, <1>2, <1>3, <1>4, <1>5, <1>6, <1>7 DEF MakeLink

(* Opening a link.                                                         *)
LEMMA OpenLinkType ==
    ASSUME TypeInv, NEW c \in Computer, OpenLink(c)
    PROVE  TypeInv'
    <1>1. ASSUME NEW l \in Link, Select(c, l)
          PROVE  TypeInv'
        BY <1>1, SelectType
    <1>2. CASE Consume(c)
        BY <1>2, ConsumeType
    <1>3. CASE ReadBack(c)
        BY <1>3, ReadBackType
    <1>4. CASE AskFails(c)
        BY <1>4
        DEF TypeInv, TypeOK, Types, ForeignKeys, InFlight, AskFails, NoAsk, tables, Ask
    <1>5. CASE GivePayload(c)
        BY <1>5, GivePayloadType
    <1>6. CASE AddJoiner(c)
        BY <1>6, AddJoinerType
    <1>7. CASE Repoint(c)
        BY <1>7, RepointType
    <1>8. CASE RemoveMintedPerson(c)
        BY <1>8, NobodyAssumption
        DEF TypeInv, TypeOK, Types, ForeignKeys, InFlight, Person, RemoveMintedPerson,
            DevicesOf, tables, Ask, Stage
    <1>9. CASE AnswerJoin(c)
        BY <1>9
        DEF TypeInv, TypeOK, Types, ForeignKeys, InFlight, AnswerJoin, NoAsk, tables,
            Ask
    <1> QED BY <1>1, <1>2, <1>3, <1>4, <1>5, <1>6, <1>7, <1>8, <1>9 DEF OpenLink

(* Enrolling.                                                              *)
LEMMA EnrolType ==
    ASSUME TypeInv, NEW c \in Computer, Enrol(c)
    PROVE  TypeInv'
    <1>1. CASE ReadForEnrol(c)
        BY <1>1 DEF TypeInv, TypeOK, Types, ForeignKeys, InFlight, ReadForEnrol, tables
    <1>2. CASE AddDevice(c)
        BY <1>2
        DEF TypeInv, TypeOK, Types, ForeignKeys, InFlight, AddDevice, NoPayload, Payload
    <1>3. CASE EnrolFails(c)
        BY <1>3, EnrolFailsType
    <1> QED BY <1>1, <1>2, <1>3 DEF Enrol

(* Closing a link.                                                         *)
LEMMA CloseLinkType ==
    ASSUME TypeInv, NEW l \in Link, CloseLink(l)
    PROVE  TypeInv'
    <1>1. CASE Expire(l)
        BY <1>1, ExpireType
    <1>2. CASE Sweep(l)
        BY <1>2 DEF TypeInv, TypeOK, Types, ForeignKeys, InFlight, Sweep, tables
    <1>3. CASE OperatorRevokes(l)
        BY <1>3
        DEF TypeInv, TypeOK, Types, ForeignKeys, InFlight, OperatorRevokes, tables
    <1>4. CASE InviteRevoke(l)
        BY <1>4, InviteRevokeType
    <1> QED BY <1>1, <1>2, <1>3, <1>4 DEF CloseLink

(* The owner removes someone.                                              *)
LEMMA RemoveType ==
    ASSUME TypeInv, Remove
    PROVE  TypeInv'
    <1>1. ASSUME NEW p \in Person, NEW f \in Folder, RemovePerson(p, f)
          PROVE  TypeInv'
        BY <1>1
        DEF TypeInv, TypeOK, Types, ForeignKeys, InFlight, RemovePerson, DevicesOf,
            Removing
    <1>2. CASE ListLinks
        BY <1>2
        DEF TypeInv, TypeOK, Types, ForeignKeys, InFlight, ListLinks, tables, Removing
    <1>3. CASE FinishRemoval
        BY <1>3
        DEF TypeInv, TypeOK, Types, ForeignKeys, InFlight, FinishRemoval, NoRemoving,
            Removing
    <1> QED BY <1>1, <1>2, <1>3 DEF Remove

(* A person is deleted.                                                    *)
LEMMA PersonDeleteType ==
    ASSUME TypeInv, NEW p \in Person, PersonDelete(p)
    PROVE  TypeInv'
    <1>1. CASE OperatorRemoves(p)
        BY <1>1
        DEF TypeInv, TypeOK, Types, ForeignKeys, InFlight, OperatorRemoves, tables,
            Stage
    <1>2. CASE DeleteMembers(p)
        BY <1>2 DEF TypeInv, TypeOK, Types, ForeignKeys, InFlight, DeleteMembers, Stage
    <1>3. CASE DeleteInvites(p)
        BY <1>3, DeleteInvitesType
    <1>4. CASE DeleteDevices(p)
        BY <1>4 DEF TypeInv, TypeOK, Types, ForeignKeys, InFlight, DeleteDevices, Stage
    <1>5. CASE DeletePerson(p)
        BY <1>5, DeletePersonType
    <1> QED BY <1>1, <1>2, <1>3, <1>4, <1>5 DEF PersonDelete

(* Every step keeps the invariant.                                         *)
LEMMA TypeStep ==
    ASSUME TypeInv, [Next]_vars
    PROVE  TypeInv'
    <1>1. ASSUME NEW l \in Link, MakeLink(l)
          PROVE  TypeInv'
        BY <1>1, MakeLinkType
    <1>2. ASSUME NEW c \in Computer, OpenLink(c)
          PROVE  TypeInv'
        BY <1>2, OpenLinkType
    <1>3. ASSUME NEW c \in Computer, Enrol(c)
          PROVE  TypeInv'
        BY <1>3, EnrolType
    <1>4. ASSUME NEW l \in Link, CloseLink(l)
          PROVE  TypeInv'
        BY <1>4, CloseLinkType
    <1>5. CASE Remove
        BY <1>5, RemoveType
    <1>6. ASSUME NEW p \in Person, PersonDelete(p)
          PROVE  TypeInv'
        BY <1>6, PersonDeleteType
    <1>7. ASSUME NEW c \in Computer, NEW p \in Person, NewFolder(c, p)
          PROVE  TypeInv'
        BY <1>7 DEF TypeInv, TypeOK, Types, ForeignKeys, InFlight, NewFolder, requests
    <1>8. ASSUME NEW f \in Folder, DestroyFolder(f)
          PROVE  TypeInv'
        BY <1>8
        DEF TypeInv, TypeOK, Types, ForeignKeys, InFlight, DestroyFolder, requests
    <1>9. CASE HubStops
        BY <1>9, HubStopsType
    <1>10. CASE UNCHANGED vars
        BY <1>10
        DEF TypeInv, TypeOK, Types, vars, tables, requests, ForeignKeys, InFlight
    <1> QED BY <1>1, <1>2, <1>3, <1>4, <1>5, <1>6, <1>7, <1>8, <1>9, <1>10 DEF Next

(* The state at the start.                                                 *)
LEMMA TypeInit ==
    ASSUME Init
    PROVE  TypeInv
    <1>1. Types
        BY EnrolledAssumption, BoundAssumption
        DEF TypeInv, TypeOK, Types, Init, Person, Folder, NoInvite, Invite, NoMaking,
            Making, NoAsk, Ask, NoPayload, Payload, NoRemoving, Removing, Stage
    <1>2. ForeignKeys
        BY EnrolledAssumption, BoundAssumption
        DEF Init, ForeignKeys, Person, Folder, NoInvite
    <1>3. InFlight
        BY DEF Init, InFlight, NoInvite, NoMaking, NoAsk, NoPayload, NoRemoving
    <1> QED BY <1>1, <1>2, <1>3 DEF TypeInv, TypeOK

(* Every request keeps the tables well typed, and their references good:   *)
(* no membership, device or invite row is left without its person, nor a   *)
(* membership without its folder (internal/hubdb, foreign keys on).        *)
THEOREM TypeCorrect == Spec => []TypeOK
    <1>1. Init => TypeInv
        BY TypeInit
    <1>2. TypeInv /\ [Next]_vars => TypeInv'
        BY TypeStep
    <1>3. TypeInv => TypeOK
        BY DEF TypeInv
    <1> QED BY <1>1, <1>2, <1>3, PTL DEF Spec

-----------------------------------------------------------------------------
(* One-time links: what the requests and the rows say of a used link.  A   *)
(* link is made once; one that has been consumed is never live again; and  *)
(* whoever is past the UPDATE, holds a payload or has come in is the one   *)
(* the UPDATE let through.                                                 *)
OnceInv ==
    /\ \A l \in Link :
          /\ invite[l].row => invite[l].made
          /\ making[l].pc # "none" => ~invite[l].made
          /\ redeemer[l] # Nobody => invite[l].made /\ ~Live(l)
          /\ \A c \in letIn[l] : redeemer[l] = c
    /\ \A c \in Computer :
          /\ asking[c].pc \in {"consumed", "read", "added", "repointed", "answering"} =>
                redeemer[asking[c].link] = c
          /\ payload[c].link # Nobody => redeemer[payload[c].link] = c

(* A step that changes no row and lets nobody in is no step of a link.     *)
LEMMA SameLinks ==
    ASSUME UNCHANGED <<invite, redeemer, letIn>>
    PROVE  UNCHANGED Abstract!vars
    BY DEF Abstract!vars, LinkState, Live

(* A step that opens no link and consumes none closes those it ends.       *)
LEMMA OnlyCloses ==
    ASSUME OnceInv, UNCHANGED <<redeemer, letIn>>,
           \A l \in Link : invite'[l].made = invite[l].made /\ (Live(l)' => Live(l))
    PROVE  Abstract!Next
    <1> DEFINE L == {l \in Link : Live(l) /\ ~Live(l)'}
    <1>1. \A l \in Link : Live(l) => invite[l].made
        BY DEF OnceInv, Live
    <1>2. \A l \in L : LinkState[l] = "open"
        BY <1>1 DEF LinkState
    <1>3. LinkState' = [l \in Link |-> IF l \in L THEN "closed" ELSE LinkState[l]]
        BY <1>1 DEF LinkState
    <1>4. Abstract!Close(L)
        BY <1>2, <1>3 DEF Abstract!Close
    <1>5. L \in SUBSET Link
        OBVIOUS
    <1> QED BY <1>4, <1>5 DEF Abstract!Next

(* Whoever comes in by a link is its redeemer.                             *)
LEMMA OnlyEnters ==
    ASSUME TypeInv, OnceInv, UNCHANGED <<invite, redeemer>>,
           NEW l \in Link, NEW c \in Computer, redeemer[l] = c,
           letIn' = [letIn EXCEPT ![l] = @ \cup {c}]
    PROVE  /\ \A k \in Link : \A d \in letIn'[k] : redeemer[k] = d
           /\ Abstract!Next
    <1>1. letIn[l] \cup {c} = {redeemer[l]}
        BY DEF OnceInv
    <1>2. letIn' = [letIn EXCEPT ![l] = {redeemer[l]}]
        BY <1>1
    <1>3. UNCHANGED LinkState
        BY DEF LinkState, Live
    <1>4. Abstract!Enter(l)
        BY <1>2, <1>3, NobodyAssumption DEF Abstract!Enter
    <1>5. \A k \in Link : \A d \in letIn'[k] : redeemer[k] = d
        BY <1>2 DEF TypeInv, TypeOK, Types, OnceInv
    <1> QED BY <1>4, <1>5 DEF Abstract!Next

(* The row that makes a link: it is the first by that code.                *)
LEMMA AddInviteOnce ==
    ASSUME TypeInv, OnceInv, NEW l \in Link, AddInvite(l)
    PROVE  OnceInv' /\ Abstract!Next
    <1>1. OnceInv'
        BY DEF TypeInv, TypeOK, Types, OnceInv, Live, AddInvite, NoMaking
    <1>2. ~invite[l].made
        BY DEF OnceInv, AddInvite
    <1>3. \A k \in Link \ {l} : invite'[k] = invite[k]
        BY DEF TypeInv, TypeOK, Types, AddInvite
    <1>4. /\ invite'[l].made /\ invite'[l].row
          /\ ~invite'[l].consumed /\ ~invite'[l].revoked /\ ~invite'[l].expired
        BY DEF TypeInv, TypeOK, Types, AddInvite
    <1>5. LinkState[l] = "unmade"
        BY <1>2 DEF LinkState
    <1>6. LinkState' = [LinkState EXCEPT ![l] = "open"]
        BY <1>3, <1>4 DEF LinkState, Live
    <1>7. Abstract!Make(l)
        BY <1>5, <1>6 DEF Abstract!Make, AddInvite
    <1> QED BY <1>1, <1>7 DEF Abstract!Next

(* The UPDATE lets one computer through.                                   *)
LEMMA ConsumeOnce ==
    ASSUME TypeInv, OnceInv, NEW c \in Computer, Consume(c)
    PROVE  OnceInv' /\ Abstract!Next
    <1> DEFINE l == asking[c].link
    <1>1. l \in Link /\ Live(l)
        BY DEF Consume, TypeInv, InFlight
    <1>2. OnceInv'
        BY <1>1, NobodyAssumption DEF TypeInv, TypeOK, Types, OnceInv, Live, Consume
    <1>3. LinkState[l] = "open"
        BY <1>1 DEF LinkState, Live, OnceInv
    <1>4. /\ \A k \in Link \ {l} : invite'[k] = invite[k]
          /\ invite'[l].consumed /\ invite'[l].made = invite[l].made
        BY <1>1 DEF TypeInv, TypeOK, Types, Consume
    <1>5. LinkState' = [LinkState EXCEPT ![l] = "closed"]
        BY <1>1, <1>3, <1>4 DEF LinkState, Live
    <1>6. Abstract!Redeem(l, c)
        BY <1>3, <1>5 DEF Abstract!Redeem, Consume
    <1> QED BY <1>1, <1>2, <1>6 DEF Abstract!Next

(* An installer's payload is the redeemer's.                               *)
LEMMA GivePayloadOnce ==
    ASSUME TypeInv, OnceInv, NEW c \in Computer, GivePayload(c)
    PROVE  OnceInv' /\ [Abstract!Next]_(Abstract!vars)
    <1>1. asking[c].link \in Link /\ redeemer[asking[c].link] = c
        BY DEF GivePayload, TypeInv, InFlight, OnceInv
    <1>2. asking' = [asking EXCEPT ![c] = NoAsk] /\ UNCHANGED <<invite, making, redeemer>>
        BY DEF GivePayload, tables
    <1>3. CASE UNCHANGED <<payload, letIn>>
      <2>1. OnceInv'
          BY <1>2, <1>3 DEF TypeInv, TypeOK, Types, OnceInv, Live, NoAsk
      <2> QED BY <2>1, <1>2, <1>3, SameLinks
    <1>4. CASE /\ payload' = [payload EXCEPT ![c] = [link |-> asking[c].link,
                                                     user |-> asking[c].person]]
               /\ letIn' = [letIn EXCEPT ![asking[c].link] = @ \cup {c}]
      <2>1. /\ \A k \in Link : \A d \in letIn'[k] : redeemer[k] = d
            /\ Abstract!Next
          BY <1>1, <1>2, <1>4, OnlyEnters
      <2>2. \A d \in Computer : payload'[d].link # Nobody => redeemer[payload'[d].link] = d
          BY <1>1, <1>4 DEF TypeInv, TypeOK, Types, OnceInv
      <2>3. OnceInv'
          BY <1>2, <2>1, <2>2 DEF TypeInv, TypeOK, Types, OnceInv, Live, NoAsk
      <2> QED BY <2>1, <2>3
    <1> QED BY <1>3, <1>4 DEF GivePayload

(* A joiner is the redeemer.                                               *)
LEMMA AddJoinerOnce ==
    ASSUME TypeInv, OnceInv, NEW c \in Computer, AddJoiner(c)
    PROVE  OnceInv' /\ [Abstract!Next]_(Abstract!vars)
    <1>1. asking[c].link \in Link /\ redeemer[asking[c].link] = c
        BY DEF AddJoiner, TypeInv, InFlight, OnceInv
    <1>2. /\ UNCHANGED <<invite, making, payload, redeemer>>
          /\ \A d \in Computer \ {c} : asking'[d] = asking[d]
          /\ asking'[c].link = asking[c].link \/ asking'[c].pc = "none"
        BY DEF TypeInv, TypeOK, Types, AddJoiner, NoAsk, Ask
    <1>3. \A d \in Computer :
             asking'[d].pc \in {"consumed", "read", "added", "repointed", "answering"} =>
                redeemer[asking'[d].link] = d
        BY <1>1, <1>2 DEF OnceInv
    <1>4. CASE UNCHANGED letIn
      <2>1. OnceInv'
          BY <1>2, <1>3, <1>4 DEF OnceInv, Live
      <2> QED BY <2>1, <1>2, <1>4, SameLinks
    <1>5. CASE letIn' = [letIn EXCEPT ![asking[c].link] = @ \cup {c}]
      <2>1. /\ \A k \in Link : \A d \in letIn'[k] : redeemer[k] = d
            /\ Abstract!Next
          BY <1>1, <1>2, <1>5, OnlyEnters
      <2>2. OnceInv'
          BY <1>2, <1>3, <2>1 DEF OnceInv, Live
      <2> QED BY <2>1, <2>2
    <1> QED BY <1>4, <1>5 DEF AddJoiner

(* So is the computer that enrols with a payload.                          *)
LEMMA AddDeviceOnce ==
    ASSUME TypeInv, OnceInv, NEW c \in Computer, AddDevice(c)
    PROVE  OnceInv' /\ [Abstract!Next]_(Abstract!vars)
    <1>1. /\ payload[c].link \in Link /\ redeemer[payload[c].link] = c
          /\ letIn' = [letIn EXCEPT ![payload[c].link] = @ \cup {c}]
        BY DEF TypeInv, TypeOK, Types, AddDevice, InFlight, Payload, OnceInv
    <1>2. /\ UNCHANGED <<invite, making, asking, redeemer>>
          /\ payload' = [payload EXCEPT ![c] = NoPayload]
        BY DEF AddDevice
    <1>3. /\ \A k \in Link : \A d \in letIn'[k] : redeemer[k] = d
          /\ Abstract!Next
        BY <1>1, <1>2, OnlyEnters
    <1>4. OnceInv'
        BY <1>2, <1>3 DEF TypeInv, TypeOK, Types, OnceInv, Live, NoPayload
    <1> QED BY <1>3, <1>4

(* Giving up a payload.                                                    *)
LEMMA EnrolFailsOnce ==
    ASSUME TypeInv, OnceInv, NEW c \in Computer, EnrolFails(c)
    PROVE  OnceInv' /\ [Abstract!Next]_(Abstract!vars)
    <1>1. \A d \in Computer : payload'[d].link # Nobody => redeemer[payload'[d].link] = d
        BY DEF TypeInv, TypeOK, Types, EnrolFails, NoPayload, OnceInv
    <1>2. UNCHANGED <<invite, making, asking, redeemer, letIn>>
        BY DEF EnrolFails, tables
    <1>3. OnceInv'
        BY <1>1, <1>2 DEF OnceInv, Live
    <1> QED BY <1>2, <1>3, SameLinks

(* Choosing a link to consume changes no link.                             *)
LEMMA SelectOnce ==
    ASSUME TypeInv, OnceInv, NEW c \in Computer, NEW l \in Link, Select(c, l)
    PROVE  OnceInv' /\ [Abstract!Next]_(Abstract!vars)
    <1>1. PICK p \in Person \cup {Nobody} : asking' = [asking EXCEPT ![c] = Selected(c, l, p)]
        BY DEF Select, For
    <1>2. UNCHANGED <<invite, making, payload, redeemer, letIn>>
        BY DEF Select, tables
    <1>3. OnceInv'
        BY <1>1, <1>2 DEF TypeInv, TypeOK, Types, OnceInv, Live, Selected
    <1> QED BY <1>2, <1>3, SameLinks

(* Reading the row back.                                                   *)
LEMMA ReadBackOnce ==
    ASSUME TypeInv, OnceInv, NEW c \in Computer, ReadBack(c)
    PROVE  OnceInv' /\ [Abstract!Next]_(Abstract!vars)
    <1>1. UNCHANGED <<invite, making, payload, redeemer, letIn>>
        BY DEF ReadBack, tables
    <1>2. /\ asking[c].pc = "consumed" /\ asking'[c].link = asking[c].link
          /\ \A d \in Computer \ {c} : asking'[d] = asking[d]
        BY DEF TypeInv, TypeOK, Types, ReadBack
    <1>3. OnceInv'
        BY <1>1, <1>2 DEF OnceInv, Live
    <1> QED BY <1>1, <1>3, SameLinks

(* The redeemer's row is not live, whoever it belongs to.                  *)
LEMMA RepointOnce ==
    ASSUME TypeInv, OnceInv, NEW c \in Computer, Repoint(c)
    PROVE  OnceInv' /\ [Abstract!Next]_(Abstract!vars)
    <1>1. asking[c].link \in Link
        BY DEF Repoint, TypeInv, InFlight
    <1>2. \A l \in Link : /\ invite'[l].made = invite[l].made /\ invite'[l].row = invite[l].row
                          /\ Live(l)' = Live(l)
        BY <1>1 DEF TypeInv, TypeOK, Types, Repoint, Repointed, Live
    <1>3. OnceInv'
        BY <1>2 DEF TypeInv, TypeOK, Types, OnceInv, Repoint, NoAsk
    <1> QED BY <1>2, <1>3, OnlyCloses DEF Repoint

(* Expired, revoked or deleted, a link is not made live.                   *)
LEMMA ExpireOnce ==
    ASSUME TypeInv, OnceInv, NEW l \in Link, Expire(l)
    PROVE  OnceInv' /\ [Abstract!Next]_(Abstract!vars)
    <1>1. \A k \in Link : /\ invite'[k].made = invite[k].made /\ invite'[k].row = invite[k].row
                          /\ Live(k)' => Live(k)
        BY DEF TypeInv, TypeOK, Types, Expire, Live
    <1>2. OnceInv'
        BY <1>1 DEF OnceInv, Expire, requests
    <1> QED BY <1>1, <1>2, OnlyCloses DEF Expire

(* Revoking clears a link's keys, even when it was consumed before.        *)
LEMMA InviteRevokeOnce ==
    ASSUME TypeInv, OnceInv, NEW l \in Link, InviteRevoke(l)
    PROVE  OnceInv' /\ [Abstract!Next]_(Abstract!vars)
    <1>1. \A k \in Link : /\ invite'[k].made = invite[k].made /\ invite'[k].row = invite[k].row
                          /\ Live(k)' => Live(k)
        BY DEF TypeInv, TypeOK, Types, InviteRevoke, Live
    <1>2. OnceInv'
        BY <1>1 DEF OnceInv, InviteRevoke
    <1> QED BY <1>1, <1>2, OnlyCloses DEF InviteRevoke

(* Deleting rows closes the links that were live, any number at once.      *)
LEMMA DeleteInvitesOnce ==
    ASSUME TypeInv, OnceInv, NEW p \in Person, DeleteInvites(p)
    PROVE  OnceInv' /\ [Abstract!Next]_(Abstract!vars)
    <1>1. \A k \in Link : /\ invite'[k].made = invite[k].made
                          /\ invite'[k].row => invite'[k] = invite[k]
        BY DEF TypeInv, TypeOK, Types, DeleteInvites, Invite
    <1>2. \A k \in Link : /\ invite'[k].made = invite[k].made
                          /\ Live(k)' => Live(k)
                          /\ invite'[k].row => invite[k].row
        BY <1>1 DEF Live
    <1>3. OnceInv'
        BY <1>2 DEF OnceInv, DeleteInvites
    <1> QED BY <1>2, <1>3, OnlyCloses DEF DeleteInvites

(* The hub stops: no request is left, and the links are as they were.      *)
LEMMA HubStopsOnce ==
    ASSUME TypeInv, OnceInv, HubStops
    PROVE  OnceInv' /\ [Abstract!Next]_(Abstract!vars)
    <1>1. OnceInv'
        BY DEF HubStops, tables, OnceInv, Live, Failed, NoMaking, NoAsk
    <1> QED BY <1>1, SameLinks DEF HubStops, tables

-----------------------------------------------------------------------------
(* One-time links: every step.                                             *)

(* Making a link.                                                          *)
LEMMA MakeLinkOnce ==
    ASSUME TypeInv, OnceInv, NEW l \in Link, MakeLink(l)
    PROVE  OnceInv' /\ [Abstract!Next]_(Abstract!vars)
    <1>1. ASSUME NEW c \in Computer, NEW p \in Person, NEW f \in Folder,
                 InviteByMember(l, c, p, f)
          PROVE  OnceInv' /\ [Abstract!Next]_(Abstract!vars)
        BY <1>1, SameLinks
        DEF TypeInv, TypeOK, Types, OnceInv, Live, InviteByMember, New
    <1>2. ASSUME NEW p \in Person, NEW f \in Folder, InviteByOperator(l, p, f)
          PROVE  OnceInv' /\ [Abstract!Next]_(Abstract!vars)
        BY <1>2, SameLinks
        DEF TypeInv, TypeOK, Types, OnceInv, Live, InviteByOperator, New
    <1>3. ASSUME NEW c \in Computer, SelfStart(l, c)
          PROVE  OnceInv' /\ [Abstract!Next]_(Abstract!vars)
        BY <1>3, SameLinks DEF TypeInv, TypeOK, Types, OnceInv, Live, SelfStart, New
    <1>4. CASE StartFolder(l)
        BY <1>4, SameLinks DEF TypeInv, TypeOK, Types, OnceInv, Live, StartFolder
    <1>5. CASE AddMember(l)
        BY <1>5, SameLinks DEF TypeInv, TypeOK, Types, OnceInv, Live, AddMember
    <1>6. CASE AddInvite(l)
        BY <1>6, AddInviteOnce
    <1>7. CASE MakingFails(l)
        BY <1>7, SameLinks
        DEF TypeInv, TypeOK, Types, OnceInv, Live, MakingFails, tables
    <1> QED BY <1>1, <1>2, <1>3, <1>4, <1>5, <1>6, <1>7 DEF MakeLink

(* Opening a link.                                                         *)
LEMMA OpenLinkOnce ==
    ASSUME TypeInv, OnceInv, NEW c \in Computer, OpenLink(c)
    PROVE  OnceInv' /\ [Abstract!Next]_(Abstract!vars)
    <1>1. ASSUME NEW l \in Link, Select(c, l)
          PROVE  OnceInv' /\ [Abstract!Next]_(Abstract!vars)
        BY <1>1, SelectOnce
    <1>2. CASE Consume(c)
        BY <1>2, ConsumeOnce
    <1>3. CASE ReadBack(c)
        BY <1>3, ReadBackOnce
    <1>4. CASE AskFails(c)
        BY <1>4, SameLinks
        DEF TypeInv, TypeOK, Types, OnceInv, Live, AskFails, NoAsk, tables
    <1>5. CASE GivePayload(c)
        BY <1>5, GivePayloadOnce
    <1>6. CASE AddJoiner(c)
        BY <1>6, AddJoinerOnce
    <1>7. CASE Repoint(c)
        BY <1>7, RepointOnce
    <1>8. CASE RemoveMintedPerson(c)
        BY <1>8, SameLinks
        DEF TypeInv, TypeOK, Types, OnceInv, Live, RemoveMintedPerson, tables
    <1>9. CASE AnswerJoin(c)
        BY <1>9, SameLinks
        DEF TypeInv, TypeOK, Types, OnceInv, Live, AnswerJoin, NoAsk, tables
    <1> QED BY <1>1, <1>2, <1>3, <1>4, <1>5, <1>6, <1>7, <1>8, <1>9 DEF OpenLink

(* Enrolling.                                                              *)
LEMMA EnrolOnce ==
    ASSUME TypeInv, OnceInv, NEW c \in Computer, Enrol(c)
    PROVE  OnceInv' /\ [Abstract!Next]_(Abstract!vars)
    <1>1. CASE ReadForEnrol(c)
        BY <1>1, SameLinks DEF OnceInv, Live, ReadForEnrol, tables
    <1>2. CASE AddDevice(c)
        BY <1>2, AddDeviceOnce
    <1>3. CASE EnrolFails(c)
        BY <1>3, EnrolFailsOnce
    <1> QED BY <1>1, <1>2, <1>3 DEF Enrol

(* Closing a link.                                                         *)
LEMMA CloseLinkOnce ==
    ASSUME TypeInv, OnceInv, NEW l \in Link, CloseLink(l)
    PROVE  OnceInv' /\ [Abstract!Next]_(Abstract!vars)
    <1>1. CASE Expire(l)
        BY <1>1, ExpireOnce
    <1>2. CASE Sweep(l)
        BY <1>2, SameLinks DEF OnceInv, Live, Sweep, tables
    <1>3. CASE OperatorRevokes(l)
        BY <1>3, SameLinks DEF OnceInv, Live, OperatorRevokes, tables
    <1>4. CASE InviteRevoke(l)
        BY <1>4, InviteRevokeOnce
    <1> QED BY <1>1, <1>2, <1>3, <1>4 DEF CloseLink

(* The owner removes someone.                                              *)
LEMMA RemoveOnce ==
    ASSUME TypeInv, OnceInv, Remove
    PROVE  OnceInv' /\ [Abstract!Next]_(Abstract!vars)
    <1>1. ASSUME NEW p \in Person, NEW f \in Folder, RemovePerson(p, f)
          PROVE  OnceInv' /\ [Abstract!Next]_(Abstract!vars)
        BY <1>1, SameLinks DEF OnceInv, Live, RemovePerson
    <1>2. CASE ListLinks
        BY <1>2, SameLinks DEF OnceInv, Live, ListLinks, tables
    <1>3. CASE FinishRemoval
        BY <1>3, SameLinks DEF OnceInv, Live, FinishRemoval
    <1> QED BY <1>1, <1>2, <1>3 DEF Remove

(* A person is deleted.                                                    *)
LEMMA PersonDeleteOnce ==
    ASSUME TypeInv, OnceInv, NEW p \in Person, PersonDelete(p)
    PROVE  OnceInv' /\ [Abstract!Next]_(Abstract!vars)
    <1>1. CASE OperatorRemoves(p)
        BY <1>1, SameLinks DEF OnceInv, Live, OperatorRemoves, tables
    <1>2. CASE DeleteMembers(p)
        BY <1>2, SameLinks DEF OnceInv, Live, DeleteMembers
    <1>3. CASE DeleteInvites(p)
        BY <1>3, DeleteInvitesOnce
    <1>4. CASE DeleteDevices(p)
        BY <1>4, SameLinks DEF OnceInv, Live, DeleteDevices
    <1>5. CASE DeletePerson(p)
        BY <1>5, SameLinks DEF OnceInv, Live, DeletePerson
    <1> QED BY <1>1, <1>2, <1>3, <1>4, <1>5 DEF PersonDelete

(* Every step keeps the invariant and is a step of the one-time links.     *)
LEMMA OnceStep ==
    ASSUME TypeInv, OnceInv, [Next]_vars
    PROVE  OnceInv' /\ [Abstract!Next]_(Abstract!vars)
    <1>1. ASSUME NEW l \in Link, MakeLink(l)
          PROVE  OnceInv' /\ [Abstract!Next]_(Abstract!vars)
        BY <1>1, MakeLinkOnce
    <1>2. ASSUME NEW c \in Computer, OpenLink(c)
          PROVE  OnceInv' /\ [Abstract!Next]_(Abstract!vars)
        BY <1>2, OpenLinkOnce
    <1>3. ASSUME NEW c \in Computer, Enrol(c)
          PROVE  OnceInv' /\ [Abstract!Next]_(Abstract!vars)
        BY <1>3, EnrolOnce
    <1>4. ASSUME NEW l \in Link, CloseLink(l)
          PROVE  OnceInv' /\ [Abstract!Next]_(Abstract!vars)
        BY <1>4, CloseLinkOnce
    <1>5. CASE Remove
        BY <1>5, RemoveOnce
    <1>6. ASSUME NEW p \in Person, PersonDelete(p)
          PROVE  OnceInv' /\ [Abstract!Next]_(Abstract!vars)
        BY <1>6, PersonDeleteOnce
    <1>7. ASSUME NEW c \in Computer, NEW p \in Person, NewFolder(c, p)
          PROVE  OnceInv' /\ [Abstract!Next]_(Abstract!vars)
        BY <1>7, SameLinks DEF OnceInv, Live, NewFolder, requests
    <1>8. ASSUME NEW f \in Folder, DestroyFolder(f)
          PROVE  OnceInv' /\ [Abstract!Next]_(Abstract!vars)
        BY <1>8, SameLinks DEF OnceInv, Live, DestroyFolder, requests
    <1>9. CASE HubStops
        BY <1>9, HubStopsOnce
    <1>10. CASE UNCHANGED vars
        BY <1>10, SameLinks DEF vars, tables, requests, OnceInv, Live
    <1> QED BY <1>1, <1>2, <1>3, <1>4, <1>5, <1>6, <1>7, <1>8, <1>9, <1>10 DEF Next

(* At the start no link is made, and none is opened.                       *)
LEMMA OnceInit ==
    ASSUME Init
    PROVE  OnceInv /\ Abstract!Init
    <1>1. OnceInv
        BY DEF Init, OnceInv, NoInvite, NoAsk, NoPayload
    <1>2. LinkState = [l \in Link |-> "unmade"]
        BY DEF Init, LinkState, NoInvite
    <1> QED BY <1>1, <1>2 DEF Init, Abstract!Init

(* Whatever requests open, close, expire, revoke or delete a link, and     *)
(* wherever the hub stops, each link is a one-time link: one computer      *)
(* redeems it, only that one comes in by it, and a closed link never opens *)
(* again (hubdb InviteConsume; docs/adr/0001, 0019).                       *)
THEOREM LinksWorkOnce == Spec => OneTime
    <1>1. Init => TypeInv /\ OnceInv /\ Abstract!Init
        BY TypeInit, OnceInit
    <1>2. TypeInv /\ OnceInv /\ [Next]_vars =>
             TypeInv' /\ OnceInv' /\ [Abstract!Next]_(Abstract!vars)
        BY TypeStep, OnceStep
    <1> QED BY <1>1, <1>2, PTL DEF Spec, OneTime, Abstract!Spec

-----------------------------------------------------------------------------
(* What becomes of the rows of a join.                                     *)

(* A code that has been used for a link, made or failed.                   *)
Spent(l) == invite[l].made \/ making[l].pc # "none"

(* A person is minted once: whoever has a row, was invited or asks for a   *)
(* link is of a spent code, so a person who is gone does not come back.    *)
SpentInv ==
    /\ \A l \in Link : person[l] # "none" \/ l \in invited => Spent(l)
    /\ \A c \in Computer : asking[c].by \in Link => Spent(asking[c].by)

(* The row of a link that was joined with is the joiner's, while there is  *)
(* a joiner.                                                               *)
RecordInv ==
    \A c \in Computer :
       /\ asking[c].pc \in {"repointed", "answering"}
       /\ invite[asking[c].link].row
       => \/ invite[asking[c].link].person = asking[c].by
          \/ person[asking[c].by] = "none"

(* A minted person is the link's, and the row says so until a join that    *)
(* has read it gives the row to the joiner.                                *)
MintedInv ==
    /\ \A l \in Link :
          /\ making[l].minted => making[l].person = l
          /\ invite[l].minted /\ redeemer[l] = Nobody => invite[l].person = l
    /\ \A c \in Computer :
          LET l == asking[c].link
          IN  /\ asking[c].pc = "consumed" /\ invite[l].minted => invite[l].person = l
              /\ asking[c].minted => asking[c].person = l

(* Nothing but the link l is about the person minted for it, who has no    *)
(* computer, no payload for one and no request.                            *)
Alone(l) ==
    /\ \A k \in Link \ {l} : making[k].person # l /\ invite[k].person # l
    /\ \A c \in Computer :
          /\ asking[c].by # l /\ payload[c].user # l /\ enrolling[c] # l
          /\ asking[c].person = l => asking[c].link = l
    /\ DevicesOf(l) = {}

(* The link was used by an installer, or by a request that has ended.      *)
Past          == {"consumed", "read", "added", "repointed", "answering"}
Joining(l, c) == asking[c].link = l /\ asking[c].by # Nobody /\ asking[c].pc \in Past
Installed(l)  == redeemer[l] # Nobody /\ ~Joining(l, redeemer[l])

AloneInv == \A l \in Link \ invited : Alone(l) \/ Installed(l)

(* How far the deletion of a minted person is, and what it left behind.    *)
Left(l) ==
    \/ person[l] = "none"
    \/ /\ deleting[l] # "no"
       /\ deleting[l] # "members" => \A m \in members : m[1] # l
       /\ deleting[l] \in {"devices", "person"} => ~(invite[l].row /\ invite[l].person = l)

GoneInv ==
    \A c \in Computer :
       LET l == asking[c].person
       IN  /\ asking[c].pc = "answering" /\ asking[c].minted
           /\ l # asking[c].by /\ l \notin invited
           => Left(l)

JoinInv == SpentInv /\ RecordInv /\ MintedInv /\ AloneInv /\ GoneInv

(* How a request to open a link goes on or ends, the others as they were.  *)
Others(c)    == \A d \in Computer \ {c} : asking'[d] = asking[d]
GoesTo(c, s) == /\ Others(c) /\ asking'[c].pc = s
                /\ asking'[c].link = asking[c].link /\ asking'[c].by = asking[c].by
                /\ asking'[c].person = asking[c].person /\ asking'[c].minted = asking[c].minted
Ends(c)      == Others(c) /\ asking'[c] = NoAsk

(* The statements of a request that has read its link.                     *)
LEMMA AskGoesOn ==
    ASSUME TypeInv, NEW c \in Computer
    PROVE  /\ Consume(c) => GoesTo(c, "consumed")
           /\ AddJoiner(c) => Ends(c) \/ GoesTo(c, "added")
           /\ Repoint(c) => Ends(c) \/ GoesTo(c, "repointed")
           /\ RemoveMintedPerson(c) => GoesTo(c, "answering")
           /\ AskFails(c) \/ GivePayload(c) \/ AnswerJoin(c) => Ends(c)
    <1>1. asking \in [Computer -> Ask] /\ asking[c] \in Ask
        BY DEF TypeInv, TypeOK, Types
    <1>2. ASSUME NEW a \in Ask, asking' = [asking EXCEPT ![c] = a]
          PROVE  Others(c) /\ asking'[c] = a
        BY <1>1, <1>2 DEF Others
    <1> DEFINE pcs == {"consumed", "added", "repointed", "answering"}
    <1>3. ASSUME NEW s \in pcs, asking' = [asking EXCEPT ![c].pc = s]
          PROVE  GoesTo(c, s)
      <2>1. asking' = [asking EXCEPT ![c] = [asking[c] EXCEPT !.pc = s]]
          BY <1>1, <1>3
      <2>2. [asking[c] EXCEPT !.pc = s] \in Ask
          BY <1>1 DEF Ask
      <2>3. Others(c) /\ asking'[c] = [asking[c] EXCEPT !.pc = s]
          BY <1>2, <2>1, <2>2
      <2> QED BY <1>1, <2>3 DEF GoesTo, Ask
    <1>4. ASSUME asking' = [asking EXCEPT ![c] = NoAsk]
          PROVE  Ends(c)
        BY <1>2, <1>4, AskFields, <1>1 DEF Ends
    <1>5. Consume(c) => GoesTo(c, "consumed")
        BY <1>3 DEF Consume
    <1>6. AddJoiner(c) => Ends(c) \/ GoesTo(c, "added")
      <2>1. ASSUME asking' = [asking EXCEPT ![c].pc = "added", ![c].folder = 0]
            PROVE  GoesTo(c, "added")
        <3>1. asking' = [asking EXCEPT ![c] = [[asking[c] EXCEPT !.pc = "added"]
                                               EXCEPT !.folder = 0]]
            BY <1>1, <2>1
        <3>2. [[asking[c] EXCEPT !.pc = "added"] EXCEPT !.folder = 0] \in Ask
            BY <1>1 DEF Ask
        <3>3. /\ Others(c)
              /\ asking'[c] = [[asking[c] EXCEPT !.pc = "added"] EXCEPT !.folder = 0]
            BY <1>2, <3>1, <3>2
        <3> QED BY <1>1, <3>3 DEF GoesTo, Ask
      <2> QED BY <1>3, <1>4, <2>1 DEF AddJoiner
    <1>7. Repoint(c) => Ends(c) \/ GoesTo(c, "repointed")
      <2>1. CASE asking[c].folder = 0
          BY <1>4, <2>1 DEF Repoint
      <2>2. CASE asking[c].folder # 0
        <3>1. Repoint(c) => asking' = [asking EXCEPT ![c].pc = "repointed"]
            BY <1>1, <2>2 DEF Repoint
        <3> QED BY <1>3, <3>1
      <2> QED BY <2>1, <2>2
    <1>8. RemoveMintedPerson(c) => GoesTo(c, "answering")
        BY <1>3 DEF RemoveMintedPerson
    <1>9. AskFails(c) \/ GivePayload(c) \/ AnswerJoin(c) => Ends(c)
        BY <1>4 DEF AskFails, GivePayload, AnswerJoin
    <1> QED BY <1>5, <1>6, <1>7, <1>8, <1>9

(* The request that reads its link.                                        *)
LEMMA AskReads ==
    ASSUME TypeInv, NEW c \in Computer, ReadBack(c)
    PROVE  /\ Others(c) /\ asking'[c].pc = "read"
           /\ asking'[c].link = asking[c].link /\ asking'[c].by = asking[c].by
           /\ asking'[c].person = invite[asking[c].link].person
           /\ asking'[c].minted = invite[asking[c].link].minted
    <1> DEFINE i == invite[asking[c].link]
               a == [[[[asking[c] EXCEPT !.pc = "read"] EXCEPT !.person = i.person]
                      EXCEPT !.folder = i.folder] EXCEPT !.minted = i.minted]
    <1>1. asking[c] \in Ask /\ asking[c].link \in Link /\ i \in Invite
        BY DEF TypeInv, TypeOK, Types, ReadBack, InFlight
    <1>2. /\ a \in Ask /\ a.pc = "read" /\ a.link = asking[c].link /\ a.by = asking[c].by
          /\ a.person = i.person /\ a.minted = i.minted
        BY <1>1 DEF Ask, Invite
    <1>3. asking' = [asking EXCEPT ![c] = a]
        BY <1>1 DEF TypeInv, TypeOK, Types, ReadBack
    <1> HIDE DEF a
    <1> QED BY <1>2, <1>3 DEF TypeInv, TypeOK, Types, Others

(* The request that chooses a link, for someone who is there or for nobody.*)
LEMMA AskChooses ==
    ASSUME TypeInv, NEW c \in Computer, NEW l \in Link, Select(c, l)
    PROVE  /\ Others(c) /\ asking'[c].pc = "selected" /\ asking'[c].link = l
           /\ asking'[c].person = Nobody /\ ~asking'[c].minted
           /\ \/ asking'[c].by = Nobody
              \/ /\ asking'[c].by \in Person /\ person[asking'[c].by] # "none"
                 /\ DevicesOf(asking'[c].by) # {}
    <1>1. PICK p \in Person \cup {Nobody} :
             /\ asking' = [asking EXCEPT ![c] = Selected(c, l, p)]
             /\ p = Nobody \/ (p \in Person /\ person[p] # "none" /\ Active(c, p))
        BY DEF Select, For
    <1>2. /\ asking'[c].by = p /\ asking'[c].pc = "selected" /\ asking'[c].link = l
          /\ asking'[c].person = Nobody /\ ~asking'[c].minted /\ Others(c)
        BY <1>1 DEF TypeInv, TypeOK, Types, Selected, NoAsk, Others
    <1>3. Active(c, p) => <<c, p>> \in DevicesOf(p)
        BY DEF Active, DevicesOf
    <1> QED BY <1>1, <1>2, <1>3

(* A code stays spent.                                                     *)
LEMMA SpentStays ==
    ASSUME TypeInv, [Next]_vars, NEW l \in Link, Spent(l)
    PROVE  Spent(l)'
    <1> USE DEF Spent
    <1>1. ASSUME NEW k \in Link, MakeLink(k)
          PROVE  Spent(l)'
      <2>1. ASSUME NEW c \in Computer, NEW p \in Person, NEW f \in Folder,
                   InviteByMember(k, c, p, f)
            PROVE  Spent(l)'
          BY <2>1 DEF TypeInv, TypeOK, Types, InviteByMember
      <2>2. ASSUME NEW p \in Person, NEW f \in Folder, InviteByOperator(k, p, f)
            PROVE  Spent(l)'
          BY <2>2 DEF TypeInv, TypeOK, Types, InviteByOperator
      <2>3. ASSUME NEW c \in Computer, SelfStart(k, c)
            PROVE  Spent(l)'
          BY <2>3 DEF TypeInv, TypeOK, Types, SelfStart, NoMaking
      <2>4. CASE StartFolder(k)
          BY <2>4 DEF TypeInv, TypeOK, Types, StartFolder, Making
      <2>5. CASE AddMember(k)
          BY <2>5 DEF TypeInv, TypeOK, Types, AddMember, Making
      <2>6. CASE AddInvite(k)
          BY <2>6 DEF TypeInv, TypeOK, Types, AddInvite
      <2>7. CASE MakingFails(k)
          BY <2>7 DEF TypeInv, TypeOK, Types, MakingFails, Failed, NoMaking, tables
      <2> QED BY <1>1, <2>1, <2>2, <2>3, <2>4, <2>5, <2>6, <2>7 DEF MakeLink
    <1>2. ASSUME NEW c \in Computer, OpenLink(c)
          PROVE  Spent(l)'
      <2>1. ASSUME NEW k \in Link, Select(c, k)
            PROVE  Spent(l)'
          BY <2>1 DEF Select, tables
      <2>2. CASE Consume(c)
          BY <2>2 DEF TypeInv, TypeOK, Types, Consume, Invite
      <2>3. CASE Repoint(c)
          BY <2>3 DEF TypeInv, TypeOK, Types, Repoint, Repointed, Invite
      <2>4. CASE ReadBack(c) \/ AskFails(c)
          BY <2>4 DEF ReadBack, AskFails, tables
      <2>5. CASE GivePayload(c)
          BY <2>5 DEF GivePayload, tables
      <2>6. CASE AddJoiner(c)
          BY <2>6 DEF AddJoiner
      <2>7. CASE RemoveMintedPerson(c) \/ AnswerJoin(c)
          BY <2>7 DEF RemoveMintedPerson, AnswerJoin, tables
      <2> QED BY <1>2, <2>1, <2>2, <2>3, <2>4, <2>5, <2>6, <2>7 DEF OpenLink
    <1>3. ASSUME NEW c \in Computer, Enrol(c)
          PROVE  Spent(l)'
        BY <1>3 DEF Enrol, ReadForEnrol, AddDevice, EnrolFails, tables
    <1>4. ASSUME NEW k \in Link, CloseLink(k)
          PROVE  Spent(l)'
      <2>1. CASE Expire(k)
          BY <2>1 DEF TypeInv, TypeOK, Types, Expire, Invite, requests
      <2>2. CASE InviteRevoke(k)
          BY <2>2 DEF TypeInv, TypeOK, Types, InviteRevoke, Invite
      <2>3. CASE Sweep(k) \/ OperatorRevokes(k)
          BY <2>3 DEF Sweep, OperatorRevokes, tables
      <2> QED BY <1>4, <2>1, <2>2, <2>3 DEF CloseLink
    <1>5. CASE Remove
        BY <1>5 DEF Remove, RemovePerson, ListLinks, FinishRemoval, tables
    <1>6. ASSUME NEW p \in Person, PersonDelete(p)
          PROVE  Spent(l)'
      <2>1. CASE DeleteInvites(p)
          BY <2>1 DEF TypeInv, TypeOK, Types, DeleteInvites, Invite
      <2>2. CASE OperatorRemoves(p)
          BY <2>2 DEF OperatorRemoves, tables
      <2>3. CASE DeleteMembers(p) \/ DeleteDevices(p) \/ DeletePerson(p)
          BY <2>3 DEF DeleteMembers, DeleteDevices, DeletePerson
      <2> QED BY <1>6, <2>1, <2>2, <2>3 DEF PersonDelete
    <1>7. ASSUME NEW c \in Computer, NEW p \in Person, NewFolder(c, p)
          PROVE  Spent(l)'
        BY <1>7 DEF NewFolder, requests
    <1>8. ASSUME NEW f \in Folder, DestroyFolder(f)
          PROVE  Spent(l)'
        BY <1>8 DEF DestroyFolder, requests
    <1>9. CASE HubStops
        BY <1>9 DEF TypeInv, TypeOK, Types, HubStops, Failed, NoMaking, tables
    <1>10. CASE UNCHANGED vars
        BY <1>10 DEF vars, tables, requests
    <1> QED BY <1>1, <1>2, <1>3, <1>4, <1>5, <1>6, <1>7, <1>8, <1>9, <1>10 DEF Next

(* What keeps SpentInv: a row, an invitation or a request that is new is   *)
(* that of a spent code.                                                   *)
LEMMA SpentFrame ==
    ASSUME TypeInv, SpentInv, [Next]_vars,
           \A l \in Link : /\ person'[l] # "none" => person[l] # "none" \/ Spent(l)'
                           /\ l \in invited' => l \in invited \/ Spent(l)',
           \A c \in Computer : \/ asking'[c].by \in {asking[c].by, Nobody}
                               \/ asking'[c].by \in Link => Spent(asking'[c].by)
    PROVE  SpentInv'
    <1>1. \A l \in Link : Spent(l) => Spent(l)'
        BY SpentStays
    <1>2. Nobody \notin Link
        BY NobodyAssumption DEF Person
    <1>3. ASSUME NEW c \in Computer, asking'[c].by \in Link
          PROVE  Spent(asking[c].by)'
      <2>1. PICK l \in Link : l = asking'[c].by
          BY <1>3
      <2>2. Spent(l)
          BY <2>1, <1>2 DEF SpentInv
      <2>3. Spent(l)'
          BY <2>2, <1>1
      <2> QED BY <2>1, <2>3 DEF Spent
    <1> QED BY <1>1, <1>3 DEF SpentInv

(* A new row, invitation or asker is of a spent code: a link's person is   *)
(* made with the request for it, and whoever is active has a row.          *)
LEMMA SpentStep ==
    ASSUME TypeInv, SpentInv, [Next]_vars
    PROVE  SpentInv'
    <1> USE SpentFrame
    <1>1. ASSUME NEW l \in Link, MakeLink(l)
          PROVE  SpentInv'
      <2>1. ASSUME NEW c \in Computer, NEW p \in Person, NEW f \in Folder,
                   InviteByMember(l, c, p, f)
            PROVE  SpentInv'
          BY <2>1 DEF TypeInv, TypeOK, Types, InviteByMember, Spent
      <2>2. ASSUME NEW p \in Person, NEW f \in Folder, InviteByOperator(l, p, f)
            PROVE  SpentInv'
        <3>1. p \in Link => Spent(p)'
            BY <2>2, SpentStays DEF InviteByOperator, SpentInv
        <3> QED BY <2>2, <3>1 DEF InviteByOperator
      <2>3. ASSUME NEW c \in Computer, SelfStart(l, c)
            PROVE  SpentInv'
          BY <2>3 DEF TypeInv, TypeOK, Types, SelfStart, Spent, NoMaking
      <2>4. CASE StartFolder(l) \/ AddMember(l)
          BY <2>4 DEF StartFolder, AddMember
      <2>5. CASE AddInvite(l)
          BY <2>5 DEF AddInvite, NoAsk
      <2>6. CASE MakingFails(l)
          BY <2>6 DEF MakingFails, tables
      <2> QED BY <1>1, <2>1, <2>2, <2>3, <2>4, <2>5, <2>6 DEF MakeLink
    <1>2. ASSUME NEW c \in Computer, OpenLink(c)
          PROVE  SpentInv'
      <2>1. ASSUME NEW l \in Link, Select(c, l)
            PROVE  SpentInv'
        <3>1. asking'[c].by \in Link => Spent(asking'[c].by)
            BY <2>1, AskChooses, NobodyAssumption DEF SpentInv, Person
        <3> QED BY <2>1, <3>1, AskChooses DEF Select, Others, tables
      <2>2. CASE Consume(c) \/ AddJoiner(c) \/ Repoint(c)
        <3>1. \A d \in Computer : asking'[d].by \in {asking[d].by, Nobody}
            BY <2>2, AskGoesOn DEF GoesTo, Ends, Others, NoAsk
        <3>2. UNCHANGED <<person, invited>>
            BY <2>2 DEF Consume, AddJoiner, Repoint
        <3> QED BY <3>1, <3>2
      <2>3. CASE ReadBack(c)
          BY <2>3, AskReads DEF ReadBack, Others, tables
      <2>4. CASE RemoveMintedPerson(c)
          BY <2>4, AskGoesOn DEF RemoveMintedPerson, GoesTo, Others, tables
      <2>5. CASE AskFails(c) \/ GivePayload(c) \/ AnswerJoin(c)
          BY <2>5, AskGoesOn DEF AskFails, GivePayload, AnswerJoin, Ends, Others, NoAsk, tables
      <2> QED BY <1>2, <2>1, <2>2, <2>3, <2>4, <2>5 DEF OpenLink
    <1>3. ASSUME NEW c \in Computer, Enrol(c)
          PROVE  SpentInv'
        BY <1>3 DEF Enrol, ReadForEnrol, AddDevice, EnrolFails, tables
    <1>4. ASSUME NEW l \in Link, CloseLink(l)
          PROVE  SpentInv'
        BY <1>4 DEF CloseLink, Expire, Sweep, OperatorRevokes, InviteRevoke, tables, requests
    <1>5. CASE Remove
      <2>1. CASE FinishRemoval
          BY <2>1 DEF TypeInv, TypeOK, Types, InFlight, FinishRemoval
      <2>2. CASE ~FinishRemoval
          BY <1>5, <2>2 DEF Remove, RemovePerson, ListLinks, tables
      <2> QED BY <2>1, <2>2
    <1>6. ASSUME NEW p \in Person, PersonDelete(p)
          PROVE  SpentInv'
      <2>1. CASE DeletePerson(p)
          BY <2>1 DEF TypeInv, TypeOK, Types, DeletePerson
      <2>2. CASE ~DeletePerson(p)
          BY <1>6, <2>2
          DEF PersonDelete, OperatorRemoves, DeleteMembers, DeleteInvites, DeleteDevices, tables
      <2> QED BY <2>1, <2>2
    <1>7. ASSUME NEW c \in Computer, NEW p \in Person, NewFolder(c, p)
          PROVE  SpentInv'
        BY <1>7 DEF NewFolder, requests
    <1>8. ASSUME NEW f \in Folder, DestroyFolder(f)
          PROVE  SpentInv'
        BY <1>8 DEF DestroyFolder, requests
    <1>9. CASE HubStops
        BY <1>9 DEF HubStops, NoAsk, tables
    <1>10. CASE UNCHANGED vars
        BY <1>10 DEF vars, tables, requests
    <1> QED BY <1>1, <1>2, <1>3, <1>4, <1>5, <1>6, <1>7, <1>8, <1>9, <1>10 DEF Next

-----------------------------------------------------------------------------
(* The row of a join.                                                      *)

(* A person who is gone stays gone while someone asks in their name, and a *)
(* row of a link that was opened is not made again.                        *)
LEMMA GoneStay ==
    ASSUME TypeInv, SpentInv, [Next]_vars, NEW p \in Person, person[p] = "none",
           p \in Link => Spent(p)
    PROVE  person'[p] = "none"
    <1>1. ASSUME NEW l \in Link, MakeLink(l)
          PROVE  person'[p] = "none"
      <2>1. ASSUME NEW c \in Computer, NEW q \in Person, NEW f \in Folder,
                   InviteByMember(l, c, q, f)
            PROVE  person'[p] = "none"
          BY <2>1 DEF TypeInv, TypeOK, Types, InviteByMember, New, Spent
      <2>2. ASSUME NEW q \in Person, NEW f \in Folder, InviteByOperator(l, q, f)
            PROVE  person'[p] = "none"
          BY <2>2 DEF InviteByOperator
      <2>3. ASSUME NEW c \in Computer, SelfStart(l, c)
            PROVE  person'[p] = "none"
          BY <2>3 DEF TypeInv, TypeOK, Types, SelfStart, New, Spent
      <2>4. CASE StartFolder(l) \/ AddMember(l) \/ AddInvite(l) \/ MakingFails(l)
          BY <2>4 DEF StartFolder, AddMember, AddInvite, MakingFails, tables
      <2> QED BY <1>1, <2>1, <2>2, <2>3, <2>4 DEF MakeLink
    <1>2. ASSUME NEW c \in Computer, OpenLink(c)
          PROVE  person'[p] = "none"
        BY <1>2
        DEF OpenLink, Select, Consume, ReadBack, AskFails, GivePayload, AddJoiner, Repoint,
            RemoveMintedPerson, AnswerJoin, tables
    <1>3. ASSUME NEW c \in Computer, Enrol(c)
          PROVE  person'[p] = "none"
        BY <1>3 DEF Enrol, ReadForEnrol, AddDevice, EnrolFails, tables
    <1>4. ASSUME NEW l \in Link, CloseLink(l)
          PROVE  person'[p] = "none"
        BY <1>4 DEF CloseLink, Expire, Sweep, OperatorRevokes, InviteRevoke, tables
    <1>5. CASE Remove
      <2>1. CASE FinishRemoval
          BY <2>1 DEF TypeInv, TypeOK, Types, FinishRemoval
      <2>2. CASE ~FinishRemoval
          BY <1>5, <2>2 DEF Remove, RemovePerson, ListLinks, tables
      <2> QED BY <2>1, <2>2
    <1>6. ASSUME NEW q \in Person, PersonDelete(q)
          PROVE  person'[p] = "none"
      <2>1. CASE DeletePerson(q)
          BY <2>1 DEF TypeInv, TypeOK, Types, DeletePerson
      <2>2. CASE ~DeletePerson(q)
          BY <1>6, <2>2
          DEF PersonDelete, OperatorRemoves, DeleteMembers, DeleteInvites, DeleteDevices, tables
      <2> QED BY <2>1, <2>2
    <1>7. ASSUME NEW c \in Computer, NEW q \in Person, NewFolder(c, q)
          PROVE  person'[p] = "none"
        BY <1>7 DEF NewFolder
    <1>8. ASSUME NEW f \in Folder, DestroyFolder(f)
          PROVE  person'[p] = "none"
        BY <1>8 DEF DestroyFolder
    <1>9. CASE HubStops \/ UNCHANGED vars
        BY <1>9 DEF HubStops, vars, tables
    <1> QED BY <1>1, <1>2, <1>3, <1>4, <1>5, <1>6, <1>7, <1>8, <1>9 DEF Next

(* The row of a link that was joined with leaves with the joiner only.     *)
LEMMA RecordFrame ==
    ASSUME TypeInv, SpentInv, RecordInv, [Next]_vars,
           \A l \in Link : invite'[l].row => invite[l].row /\ invite'[l].person = invite[l].person,
           \A c \in Computer :
              asking'[c].pc \in {"repointed", "answering"} =>
                 /\ asking[c].pc \in {"repointed", "answering"}
                 /\ asking'[c].link = asking[c].link /\ asking'[c].by = asking[c].by
    PROVE  RecordInv'
    <1>1. SUFFICES ASSUME NEW c \in Computer, asking'[c].pc \in {"repointed", "answering"},
                          invite'[asking'[c].link].row
                   PROVE  \/ invite'[asking'[c].link].person = asking'[c].by
                          \/ person'[asking'[c].by] = "none"
        BY DEF RecordInv
    <1>2. asking[c].link \in Link /\ asking[c].by \in Person
        BY <1>1 DEF TypeInv, InFlight
    <1>3. \/ invite[asking[c].link].person = asking[c].by
          \/ person[asking[c].by] = "none"
        BY <1>1, <1>2 DEF RecordInv
    <1>4. person[asking[c].by] = "none" => person'[asking[c].by] = "none"
        BY <1>2, GoneStay DEF SpentInv
    <1> QED BY <1>1, <1>2, <1>3, <1>4

(* Repoint gives the row to the joiner, and no statement gives it to       *)
(* another: a link is redeemed once.                                       *)
LEMMA RecordStep ==
    ASSUME TypeInv, OnceInv, SpentInv, RecordInv, [Next]_vars
    PROVE  RecordInv'
    <1> USE RecordFrame
    <1>1. ASSUME NEW l \in Link, MakeLink(l)
          PROVE  RecordInv'
      <2>1. CASE AddInvite(l)
        <3>1. SUFFICES ASSUME NEW c \in Computer, asking'[c].pc \in {"repointed", "answering"},
                              invite'[asking'[c].link].row
                       PROVE  \/ invite'[asking'[c].link].person = asking'[c].by
                              \/ person'[asking'[c].by] = "none"
            BY DEF RecordInv
        <3>2. asking'[c] = asking[c]
            BY <2>1, <3>1 DEF AddInvite, NoAsk
        <3>3. asking[c].link \in Link /\ redeemer[asking[c].link] = c /\ c # Nobody
            BY <3>1, <3>2, NobodyAssumption DEF OnceInv, TypeInv, InFlight
        <3>4. invite'[asking[c].link] = invite[asking[c].link]
            BY <2>1, <3>3 DEF TypeInv, TypeOK, Types, OnceInv, AddInvite
        <3>5. UNCHANGED person
            BY <2>1 DEF AddInvite
        <3> QED BY <3>1, <3>2, <3>4, <3>5 DEF RecordInv
      <2>2. ASSUME NEW c \in Computer, NEW p \in Person, NEW f \in Folder,
                   InviteByMember(l, c, p, f)
            PROVE  RecordInv'
          BY <2>2 DEF InviteByMember
      <2>3. ASSUME NEW p \in Person, NEW f \in Folder, InviteByOperator(l, p, f)
            PROVE  RecordInv'
          BY <2>3 DEF InviteByOperator
      <2>4. ASSUME NEW c \in Computer, SelfStart(l, c)
            PROVE  RecordInv'
          BY <2>4 DEF SelfStart
      <2>5. CASE StartFolder(l) \/ AddMember(l) \/ MakingFails(l)
          BY <2>5 DEF StartFolder, AddMember, MakingFails, tables
      <2> QED BY <1>1, <2>1, <2>2, <2>3, <2>4, <2>5 DEF MakeLink
    <1>2. ASSUME NEW c \in Computer, OpenLink(c)
          PROVE  RecordInv'
      <2>1. ASSUME NEW l \in Link, Select(c, l)
            PROVE  RecordInv'
          BY <2>1, AskChooses DEF Select, Others, tables
      <2>2. CASE Consume(c)
        <3>1. \A l \in Link : /\ invite'[l].row = invite[l].row
                              /\ invite'[l].person = invite[l].person
            BY <2>2 DEF TypeInv, TypeOK, Types, Consume, Invite
        <3> QED BY <2>2, <3>1, AskGoesOn DEF GoesTo, Others
      <2>3. CASE ReadBack(c)
          BY <2>3, AskReads DEF ReadBack, Others, tables
      <2>4. CASE AddJoiner(c)
        <3>1. UNCHANGED invite
            BY <2>4 DEF AddJoiner
        <3> QED BY <2>4, <3>1, AskGoesOn DEF Ends, GoesTo, Others, NoAsk
      <2>5. CASE Repoint(c)
        <3>1. SUFFICES ASSUME NEW d \in Computer, asking'[d].pc \in {"repointed", "answering"},
                              invite'[asking'[d].link].row
                       PROVE  \/ invite'[asking'[d].link].person = asking'[d].by
                              \/ person'[asking'[d].by] = "none"
            BY DEF RecordInv
        <3>2. UNCHANGED person /\ asking[c].link \in Link /\ redeemer[asking[c].link] = c
              /\ asking[c].by \in Person
            BY <2>5 DEF Repoint, TypeInv, InFlight, OnceInv
        <3>3. CASE d = c
          <4>1. asking'[c].link = asking[c].link /\ asking'[c].by = asking[c].by
              BY <2>5, <3>1, <3>3, AskGoesOn DEF Ends, GoesTo, NoAsk
          <4>2. CASE invite[asking[c].link].row /\ person[asking[c].by] # "none"
              BY <2>5, <3>2, <3>3, <4>1, <4>2
              DEF Repoint, Repointed, TypeInv, TypeOK, Types, Invite
          <4>3. CASE ~(invite[asking[c].link].row /\ person[asking[c].by] # "none")
            <5>1. UNCHANGED invite
                BY <2>5, <4>3 DEF Repoint
            <5> QED BY <3>1, <3>2, <3>3, <4>1, <4>3, <5>1
          <4> QED BY <4>2, <4>3
        <3>4. CASE d # c
          <4>1. asking'[d] = asking[d]
              BY <2>5, <3>4, AskGoesOn DEF Ends, GoesTo, Others
          <4>2. asking[d].link \in Link /\ redeemer[asking[d].link] = d
              BY <3>1, <4>1 DEF TypeInv, InFlight, OnceInv
          <4>3. invite'[asking[d].link] = invite[asking[d].link]
              BY <2>5, <3>2, <3>4, <4>2 DEF Repoint, TypeInv, TypeOK, Types
          <4> QED BY <3>1, <3>2, <4>1, <4>3 DEF RecordInv
        <3> QED BY <3>3, <3>4
      <2>6. CASE RemoveMintedPerson(c)
        <3>1. UNCHANGED invite /\ asking[c].pc = "repointed"
            BY <2>6 DEF RemoveMintedPerson, tables
        <3> QED BY <2>6, <3>1, AskGoesOn DEF GoesTo, Others
      <2>7. CASE AskFails(c) \/ GivePayload(c) \/ AnswerJoin(c)
        <3>1. UNCHANGED invite
            BY <2>7 DEF AskFails, GivePayload, AnswerJoin, tables
        <3> QED BY <2>7, <3>1, AskGoesOn DEF Ends, Others, NoAsk
      <2> QED BY <1>2, <2>1, <2>2, <2>3, <2>4, <2>5, <2>6, <2>7 DEF OpenLink
    <1>3. ASSUME NEW c \in Computer, Enrol(c)
          PROVE  RecordInv'
        BY <1>3 DEF Enrol, ReadForEnrol, AddDevice, EnrolFails, tables
    <1>4. ASSUME NEW l \in Link, CloseLink(l)
          PROVE  RecordInv'
      <2>1. CASE Expire(l)
          BY <2>1 DEF TypeInv, TypeOK, Types, Expire, Invite, requests
      <2>2. CASE InviteRevoke(l)
          BY <2>2 DEF TypeInv, TypeOK, Types, InviteRevoke, Invite
      <2>3. CASE Sweep(l) \/ OperatorRevokes(l)
          BY <2>3 DEF Sweep, OperatorRevokes, tables
      <2> QED BY <1>4, <2>1, <2>2, <2>3 DEF CloseLink
    <1>5. CASE Remove
        BY <1>5 DEF Remove, RemovePerson, ListLinks, FinishRemoval, tables
    <1>6. ASSUME NEW p \in Person, PersonDelete(p)
          PROVE  RecordInv'
      <2>1. CASE DeleteInvites(p)
        <3>1. \A l \in Link : invite'[l].row => invite'[l] = invite[l]
            BY <2>1 DEF TypeInv, TypeOK, Types, DeleteInvites, Invite
        <3> QED BY <2>1, <3>1 DEF DeleteInvites
      <2>2. CASE OperatorRemoves(p)
          BY <2>2 DEF OperatorRemoves, tables
      <2>3. CASE DeleteMembers(p) \/ DeleteDevices(p) \/ DeletePerson(p)
          BY <2>3 DEF DeleteMembers, DeleteDevices, DeletePerson
      <2> QED BY <1>6, <2>1, <2>2, <2>3 DEF PersonDelete
    <1>7. ASSUME NEW c \in Computer, NEW p \in Person, NewFolder(c, p)
          PROVE  RecordInv'
        BY <1>7 DEF NewFolder, requests
    <1>8. ASSUME NEW f \in Folder, DestroyFolder(f)
          PROVE  RecordInv'
        BY <1>8 DEF DestroyFolder, requests
    <1>9. CASE HubStops
        BY <1>9 DEF HubStops, NoAsk, tables
    <1>10. CASE UNCHANGED vars
        BY <1>10 DEF vars, tables, requests
    <1> QED BY <1>1, <1>2, <1>3, <1>4, <1>5, <1>6, <1>7, <1>8, <1>9, <1>10 DEF Next

-----------------------------------------------------------------------------
(* The person a link mints.                                                *)

(* What keeps MintedInv: rows that say who the link is for, and requests   *)
(* that have read them, stay as they are or go.                            *)
LEMMA MintedFrame ==
    ASSUME TypeInv, MintedInv, UNCHANGED redeemer,
           \A l \in Link :
              /\ making'[l].minted => \/ making'[l].person = l
                                      \/ making'[l].person = making[l].person /\ making[l].minted
              /\ invite'[l].minted = invite[l].minted /\ invite'[l].person = invite[l].person,
           \A c \in Computer :
              /\ asking'[c].pc = "consumed" =>
                    asking[c].pc = "consumed" /\ asking'[c].link = asking[c].link
              /\ asking'[c].minted => /\ asking[c].minted
                                      /\ asking'[c].link = asking[c].link
                                      /\ asking'[c].person = asking[c].person
    PROVE  MintedInv'
    <1>1. \A c \in Computer : asking[c].pc = "consumed" => asking[c].link \in Link
        BY DEF TypeInv, InFlight
    <1>2. \A l \in Link : /\ making'[l].minted => making'[l].person = l
                          /\ invite'[l].minted /\ redeemer'[l] = Nobody => invite'[l].person = l
        BY DEF MintedInv
    <1>3. ASSUME NEW c \in Computer
          PROVE  /\ asking'[c].pc = "consumed" /\ invite'[asking'[c].link].minted =>
                       invite'[asking'[c].link].person = asking'[c].link
                 /\ asking'[c].minted => asking'[c].person = asking'[c].link
        BY <1>1 DEF MintedInv
    <1> QED BY <1>2, <1>3 DEF MintedInv

(* A link is redeemed once, so the row still names its person when the     *)
(* redeemer reads it back.                                                 *)
LEMMA MintedStep ==
    ASSUME TypeInv, OnceInv, MintedInv, [Next]_vars
    PROVE  MintedInv'
    <1> USE MintedFrame
    <1>1. ASSUME NEW l \in Link, MakeLink(l)
          PROVE  MintedInv'
      <2>1. CASE AddInvite(l)
        <3>1. /\ \A k \in Link \ {l} : invite'[k] = invite[k] /\ making'[k] = making[k]
              /\ invite'[l].minted = making[l].minted /\ invite'[l].person = making[l].person
              /\ ~making'[l].minted
            BY <2>1 DEF TypeInv, TypeOK, Types, AddInvite, NoMaking
        <3>2. \A k \in Link : /\ making'[k].minted => making'[k].person = k
                              /\ invite'[k].minted /\ redeemer'[k] = Nobody =>
                                    invite'[k].person = k
            BY <2>1, <3>1 DEF MintedInv, AddInvite
        <3>3. ASSUME NEW c \in Computer
              PROVE  /\ asking'[c].pc = "consumed" /\ invite'[asking'[c].link].minted =>
                           invite'[asking'[c].link].person = asking'[c].link
                     /\ asking'[c].minted => asking'[c].person = asking'[c].link
          <4>1. CASE asking'[c] = asking[c]
            <5>1. ASSUME asking[c].pc = "consumed"
                  PROVE  asking[c].link \in Link \ {l}
              <6>1. asking[c].link \in Link /\ redeemer[asking[c].link] = c /\ c # Nobody
                  BY <5>1, NobodyAssumption DEF TypeInv, InFlight, OnceInv
              <6>2. ~invite[l].made
                  BY <2>1 DEF AddInvite, OnceInv
              <6> QED BY <6>1, <6>2 DEF OnceInv
            <5> QED BY <3>1, <4>1, <5>1 DEF MintedInv
          <4>2. CASE asking'[c].pc = "asked" /\ ~asking'[c].minted
              BY <4>2
          <4>3. asking'[c] = asking[c] \/ (asking'[c].pc = "asked" /\ ~asking'[c].minted)
              BY <2>1 DEF AddInvite, NoAsk
          <4> QED BY <4>1, <4>2, <4>3
        <3> QED BY <3>2, <3>3 DEF MintedInv
      <2>2. ASSUME NEW c \in Computer, NEW p \in Person, NEW f \in Folder,
                   InviteByMember(l, c, p, f)
            PROVE  MintedInv'
          BY <2>2 DEF TypeInv, TypeOK, Types, InviteByMember
      <2>3. ASSUME NEW p \in Person, NEW f \in Folder, InviteByOperator(l, p, f)
            PROVE  MintedInv'
          BY <2>3 DEF TypeInv, TypeOK, Types, InviteByOperator
      <2>4. ASSUME NEW c \in Computer, SelfStart(l, c)
            PROVE  MintedInv'
          BY <2>4 DEF TypeInv, TypeOK, Types, SelfStart, NoMaking
      <2>5. CASE StartFolder(l)
          BY <2>5 DEF TypeInv, TypeOK, Types, StartFolder, Making
      <2>6. CASE AddMember(l)
          BY <2>6 DEF TypeInv, TypeOK, Types, AddMember, Making
      <2>7. CASE MakingFails(l)
          BY <2>7 DEF TypeInv, TypeOK, Types, MakingFails, Failed, NoMaking, tables
      <2> QED BY <1>1, <2>1, <2>2, <2>3, <2>4, <2>5, <2>6, <2>7 DEF MakeLink
    <1>2. ASSUME NEW c \in Computer, OpenLink(c)
          PROVE  MintedInv'
      <2>1. ASSUME NEW l \in Link, Select(c, l)
            PROVE  MintedInv'
          BY <2>1, AskChooses DEF Select, Others, tables
      <2>2. CASE Consume(c)
        <3> DEFINE l == asking[c].link
        <3>1. /\ l \in Link /\ redeemer[l] = Nobody
              /\ \A k \in Link : /\ invite'[k].person = invite[k].person
                                 /\ invite'[k].minted = invite[k].minted
              /\ \A k \in Link \ {l} : redeemer'[k] = redeemer[k]
              /\ redeemer'[l] = c /\ c # Nobody
              /\ UNCHANGED making
            BY <2>2, NobodyAssumption
            DEF TypeInv, TypeOK, Types, InFlight, OnceInv, Consume, Invite
        <3>2. \A k \in Link : /\ making'[k].minted => making'[k].person = k
                              /\ invite'[k].minted /\ redeemer'[k] = Nobody =>
                                    invite'[k].person = k
            BY <3>1 DEF MintedInv
        <3>3. ASSUME NEW d \in Computer
              PROVE  /\ asking'[d].pc = "consumed" /\ invite'[asking'[d].link].minted =>
                           invite'[asking'[d].link].person = asking'[d].link
                     /\ asking'[d].minted => asking'[d].person = asking'[d].link
          <4>1. CASE d = c
              BY <2>2, <3>1, <4>1, AskGoesOn DEF GoesTo, MintedInv
          <4>2. CASE d # c
            <5>1. asking'[d] = asking[d]
                BY <2>2, <4>2, AskGoesOn DEF GoesTo, Others
            <5>2. asking[d].pc = "consumed" => asking[d].link \in Link
                BY DEF TypeInv, InFlight
            <5> QED BY <3>1, <5>1, <5>2 DEF MintedInv
          <4> QED BY <4>1, <4>2
        <3> QED BY <3>2, <3>3 DEF MintedInv
      <2>3. CASE ReadBack(c)
        <3>1. UNCHANGED <<invite, making, redeemer>> /\ asking[c].pc = "consumed"
            BY <2>3 DEF ReadBack, tables
        <3>2. ASSUME NEW d \in Computer
              PROVE  /\ asking'[d].pc = "consumed" /\ invite'[asking'[d].link].minted =>
                           invite'[asking'[d].link].person = asking'[d].link
                     /\ asking'[d].minted => asking'[d].person = asking'[d].link
            BY <2>3, <3>1, AskReads DEF Others, MintedInv
        <3> QED BY <3>1, <3>2 DEF MintedInv
      <2>4. CASE Repoint(c)
        <3> DEFINE l == asking[c].link
        <3>1. l \in Link /\ redeemer[l] = c /\ c # Nobody
            BY <2>4, NobodyAssumption DEF Repoint, TypeInv, InFlight, OnceInv
        <3>2. /\ \A k \in Link \ {l} : invite'[k] = invite[k]
              /\ UNCHANGED <<making, redeemer>>
            BY <2>4 DEF Repoint, TypeInv, TypeOK, Types
        <3>3. \A k \in Link : /\ making'[k].minted => making'[k].person = k
                              /\ invite'[k].minted /\ redeemer'[k] = Nobody =>
                                    invite'[k].person = k
            BY <3>1, <3>2 DEF MintedInv
        <3>4. ASSUME NEW d \in Computer
              PROVE  /\ asking'[d].pc = "consumed" /\ invite'[asking'[d].link].minted =>
                           invite'[asking'[d].link].person = asking'[d].link
                     /\ asking'[d].minted => asking'[d].person = asking'[d].link
          <4>1. CASE d = c
              BY <2>4, <4>1, AskGoesOn DEF Ends, GoesTo, NoAsk, MintedInv
          <4>2. CASE d # c
            <5>1. asking'[d] = asking[d]
                BY <2>4, <4>2, AskGoesOn DEF Ends, GoesTo, Others
            <5>2. asking[d].pc = "consumed" => asking[d].link \in Link \ {l}
                BY <3>1, <4>2 DEF TypeInv, InFlight, OnceInv
            <5> QED BY <3>2, <5>1, <5>2 DEF MintedInv
          <4> QED BY <4>1, <4>2
        <3> QED BY <3>3, <3>4 DEF MintedInv
      <2>5. CASE AddJoiner(c)
        <3>1. UNCHANGED <<invite, making, redeemer>>
            BY <2>5 DEF AddJoiner
        <3> QED BY <2>5, <3>1, AskGoesOn DEF Ends, GoesTo, Others, NoAsk
      <2>6. CASE RemoveMintedPerson(c)
        <3>1. UNCHANGED <<invite, making, redeemer>>
            BY <2>6 DEF RemoveMintedPerson, tables
        <3> QED BY <2>6, <3>1, AskGoesOn DEF GoesTo, Others
      <2>7. CASE AskFails(c) \/ GivePayload(c) \/ AnswerJoin(c)
        <3>1. UNCHANGED <<invite, making, redeemer>>
            BY <2>7 DEF AskFails, GivePayload, AnswerJoin, tables
        <3> QED BY <2>7, <3>1, AskGoesOn DEF Ends, Others, NoAsk
      <2> QED BY <1>2, <2>1, <2>2, <2>3, <2>4, <2>5, <2>6, <2>7 DEF OpenLink
    <1>3. ASSUME NEW c \in Computer, Enrol(c)
          PROVE  MintedInv'
        BY <1>3 DEF Enrol, ReadForEnrol, AddDevice, EnrolFails, tables
    <1>4. ASSUME NEW l \in Link, CloseLink(l)
          PROVE  MintedInv'
      <2>1. CASE Expire(l)
          BY <2>1 DEF TypeInv, TypeOK, Types, Expire, Invite, requests
      <2>2. CASE InviteRevoke(l)
          BY <2>2 DEF TypeInv, TypeOK, Types, InviteRevoke, Invite
      <2>3. CASE Sweep(l) \/ OperatorRevokes(l)
          BY <2>3 DEF Sweep, OperatorRevokes, tables
      <2> QED BY <1>4, <2>1, <2>2, <2>3 DEF CloseLink
    <1>5. CASE Remove
        BY <1>5 DEF Remove, RemovePerson, ListLinks, FinishRemoval, tables
    <1>6. ASSUME NEW p \in Person, PersonDelete(p)
          PROVE  MintedInv'
      <2>1. CASE DeleteInvites(p)
        <3>1. \A l \in Link : /\ invite'[l].minted = invite[l].minted
                              /\ invite'[l].person = invite[l].person
            BY <2>1 DEF TypeInv, TypeOK, Types, DeleteInvites, Invite
        <3> QED BY <2>1, <3>1 DEF DeleteInvites
      <2>2. CASE OperatorRemoves(p)
          BY <2>2 DEF OperatorRemoves, tables
      <2>3. CASE DeleteMembers(p) \/ DeleteDevices(p) \/ DeletePerson(p)
          BY <2>3 DEF DeleteMembers, DeleteDevices, DeletePerson
      <2> QED BY <1>6, <2>1, <2>2, <2>3 DEF PersonDelete
    <1>7. ASSUME NEW c \in Computer, NEW p \in Person, NewFolder(c, p)
          PROVE  MintedInv'
        BY <1>7 DEF NewFolder, requests
    <1>8. ASSUME NEW f \in Folder, DestroyFolder(f)
          PROVE  MintedInv'
        BY <1>8 DEF DestroyFolder, requests
    <1>9. CASE HubStops
        BY <1>9 DEF HubStops, Failed, NoMaking, NoAsk, tables
    <1>10. CASE UNCHANGED vars
        BY <1>10 DEF vars, tables, requests
    <1> QED BY <1>1, <1>2, <1>3, <1>4, <1>5, <1>6, <1>7, <1>8, <1>9, <1>10 DEF Next

-----------------------------------------------------------------------------
(* Who is named where: a step names someone in a new place only when they  *)
(* were named in an old one, were invited, or are the link's own.          *)

(* The rows, and the requests that make them.                              *)
RowsName ==
    /\ invited \subseteq invited'
    /\ \A k \in Link :
          /\ making'[k].person \in {making[k].person, k, Nobody} \cup invited'
          /\ \/ invite'[k].person \in {invite[k].person, making[k].person}
             \/ \E c \in Computer : invite'[k].person = asking[c].by

(* The requests that open links.                                           *)
AskersName ==
    /\ \A l \in Link : redeemer[l] # Nobody => redeemer'[l] = redeemer[l]
    /\ \A c \in Computer :
          /\ \/ asking'[c].by \in {asking[c].by, Nobody}
             \/ DevicesOf(asking'[c].by) # {}
          /\ \/ asking'[c].person = Nobody
             \/ /\ asking'[c].link = asking[c].link
                /\ \/ asking'[c].person = asking[c].person
                   \/ /\ asking[c].link \in Link
                      /\ asking'[c].person = invite[asking[c].link].person
          /\ asking'[c].pc \in Past =>
                /\ asking'[c].link = asking[c].link /\ asking'[c].by = asking[c].by
                /\ asking[c].pc \in Past \/ redeemer[asking[c].link] = Nobody

(* The installers; a payload is given by the link's redeemer.              *)
EnrolName ==
    /\ \A c \in Computer :
          /\ \/ payload'[c].user \in {payload[c].user, Nobody}
             \/ /\ payload'[c].user = asking[c].person
                /\ redeemer[asking[c].link] = c /\ asking[c].by = Nobody
          /\ enrolling'[c] \in {enrolling[c], payload[c].user, Nobody}
    /\ \A r \in device' : r \in device \/ \E c \in Computer : r[2] = enrolling[c]

(* Someone nothing but their link is about stays so, until an installer    *)
(* uses the link; and it stays used.                                       *)
LEMMA AloneFrame ==
    ASSUME TypeInv, OnceInv, AloneInv, RowsName, AskersName, EnrolName
    PROVE  AloneInv'
    <1>1. SUFFICES ASSUME NEW l \in Link \ invited'
                   PROVE  Alone(l)' \/ Installed(l)'
        BY DEF AloneInv
    <1>2. l \notin invited /\ l # Nobody /\ l \in Link
        BY <1>1, NobodyAssumption DEF RowsName, Person
    <1>3. CASE Installed(l)
      <2>1. redeemer'[l] = redeemer[l] /\ redeemer[l] # Nobody /\ redeemer[l] \in Computer
          BY <1>2, <1>3 DEF Installed, AskersName, TypeInv, TypeOK, Types
      <2>2. ~Joining(l, redeemer[l])'
          BY <1>3, <2>1 DEF Installed, Joining, AskersName, Past
      <2> QED BY <2>1, <2>2 DEF Installed, Joining
    <1>4. CASE Alone(l) /\ \E c \in Computer : /\ asking[c].person = l
                                               /\ redeemer[asking[c].link] = c
                                               /\ asking[c].by = Nobody
      <2>1. PICK c \in Computer : /\ asking[c].person = l
                                  /\ redeemer[asking[c].link] = c /\ asking[c].by = Nobody
          BY <1>4
      <2>2. asking[c].link = l /\ redeemer[l] = c /\ c # Nobody
          BY <1>4, <2>1, NobodyAssumption DEF Alone
      <2>3. redeemer'[l] = c
          BY <1>2, <2>2 DEF AskersName
      <2>4. ~Joining(l, c)'
          BY <2>1 DEF Joining, AskersName, Past
      <2> QED BY <2>2, <2>3, <2>4 DEF Installed, Joining
    <1>5. CASE Alone(l) /\ ~\E c \in Computer : /\ asking[c].person = l
                                                /\ redeemer[asking[c].link] = c
                                                /\ asking[c].by = Nobody
      <2>1. \A k \in Link \ {l} : making'[k].person # l
          BY <1>1, <1>2, <1>5 DEF Alone, RowsName
      <2>2. \A k \in Link \ {l} : invite'[k].person # l
          BY <1>2, <1>5 DEF Alone, RowsName
      <2>3. \A c \in Computer : asking'[c].by # l
          BY <1>2, <1>5 DEF Alone, AskersName
      <2>4. \A c \in Computer : asking'[c].person = l => asking'[c].link = l
          BY <1>2, <1>5 DEF Alone, AskersName
      <2>5. \A c \in Computer : payload'[c].user # l /\ enrolling'[c] # l
          BY <1>2, <1>5 DEF Alone, EnrolName
      <2>6. DevicesOf(l)' = {}
          BY <1>5 DEF Alone, EnrolName, DevicesOf
      <2> QED BY <2>1, <2>2, <2>3, <2>4, <2>5, <2>6 DEF Alone
    <1> QED BY <1>2, <1>3, <1>4, <1>5 DEF AloneInv

(* What the rows name after a step.                                        *)
LEMMA RowsStep ==
    ASSUME TypeInv, [Next]_vars
    PROVE  RowsName
    <1> USE DEF RowsName
    <1>1. ASSUME NEW l \in Link, MakeLink(l)
          PROVE  RowsName
      <2>1. ASSUME NEW c \in Computer, NEW p \in Person, NEW f \in Folder,
                   InviteByMember(l, c, p, f)
            PROVE  RowsName
          BY <2>1 DEF TypeInv, TypeOK, Types, InviteByMember
      <2>2. ASSUME NEW p \in Person, NEW f \in Folder, InviteByOperator(l, p, f)
            PROVE  RowsName
          BY <2>2 DEF TypeInv, TypeOK, Types, InviteByOperator
      <2>3. ASSUME NEW c \in Computer, SelfStart(l, c)
            PROVE  RowsName
          BY <2>3 DEF TypeInv, TypeOK, Types, SelfStart, NoMaking
      <2>4. CASE StartFolder(l)
          BY <2>4 DEF TypeInv, TypeOK, Types, StartFolder, Making
      <2>5. CASE AddMember(l)
          BY <2>5 DEF TypeInv, TypeOK, Types, AddMember, Making
      <2>6. CASE AddInvite(l)
          BY <2>6 DEF TypeInv, TypeOK, Types, AddInvite, NoMaking
      <2>7. CASE MakingFails(l)
          BY <2>7 DEF TypeInv, TypeOK, Types, MakingFails, Failed, NoMaking, tables
      <2> QED BY <1>1, <2>1, <2>2, <2>3, <2>4, <2>5, <2>6, <2>7 DEF MakeLink
    <1>2. ASSUME NEW c \in Computer, OpenLink(c)
          PROVE  RowsName
      <2>1. CASE Consume(c)
          BY <2>1 DEF TypeInv, TypeOK, Types, Consume, Invite
      <2>2. CASE Repoint(c)
          BY <2>2 DEF TypeInv, TypeOK, Types, InFlight, Repoint, Repointed, Invite
      <2>3. CASE ~Consume(c) /\ ~Repoint(c)
          BY <1>2, <2>3
          DEF OpenLink, Select, ReadBack, AskFails, GivePayload, AddJoiner,
              RemoveMintedPerson, AnswerJoin, tables
      <2> QED BY <2>1, <2>2, <2>3
    <1>3. ASSUME NEW c \in Computer, Enrol(c)
          PROVE  RowsName
        BY <1>3 DEF Enrol, ReadForEnrol, AddDevice, EnrolFails, tables
    <1>4. ASSUME NEW l \in Link, CloseLink(l)
          PROVE  RowsName
      <2>1. CASE Expire(l)
          BY <2>1 DEF TypeInv, TypeOK, Types, Expire, Invite, requests
      <2>2. CASE InviteRevoke(l)
          BY <2>2 DEF TypeInv, TypeOK, Types, InviteRevoke, Invite
      <2>3. CASE Sweep(l) \/ OperatorRevokes(l)
          BY <2>3 DEF Sweep, OperatorRevokes, tables
      <2> QED BY <1>4, <2>1, <2>2, <2>3 DEF CloseLink
    <1>5. CASE Remove
        BY <1>5 DEF Remove, RemovePerson, ListLinks, FinishRemoval, tables
    <1>6. ASSUME NEW p \in Person, PersonDelete(p)
          PROVE  RowsName
      <2>1. CASE DeleteInvites(p)
          BY <2>1 DEF TypeInv, TypeOK, Types, DeleteInvites, Invite
      <2>2. CASE ~DeleteInvites(p)
          BY <1>6, <2>2
          DEF PersonDelete, OperatorRemoves, DeleteMembers, DeleteDevices, DeletePerson, tables
      <2> QED BY <2>1, <2>2
    <1>7. ASSUME NEW c \in Computer, NEW p \in Person, NewFolder(c, p)
          PROVE  RowsName
        BY <1>7 DEF NewFolder, requests
    <1>8. ASSUME NEW f \in Folder, DestroyFolder(f)
          PROVE  RowsName
        BY <1>8 DEF DestroyFolder, requests
    <1>9. CASE HubStops
        BY <1>9 DEF TypeInv, TypeOK, Types, HubStops, Failed, NoMaking, tables
    <1>10. CASE UNCHANGED vars
        BY <1>10 DEF vars, tables, requests
    <1> QED BY <1>1, <1>2, <1>3, <1>4, <1>5, <1>6, <1>7, <1>8, <1>9, <1>10 DEF Next

(* What the requests to open a link name after a step.                     *)
LEMMA AskersStep ==
    ASSUME TypeInv, OnceInv, [Next]_vars
    PROVE  AskersName
    <1>1. ASSUME UNCHANGED <<asking, redeemer>>
          PROVE  AskersName
      <2>1. \A c \in Computer : asking'[c].pc \in Past => asking[c].pc \in Past
          BY <1>1
      <2> QED BY <1>1, <2>1 DEF AskersName
    <1>2. ASSUME NEW l \in Link, MakeLink(l)
          PROVE  AskersName
      <2>1. CASE AddInvite(l)
          BY <2>1 DEF AskersName, AddInvite, NoAsk, Past
      <2>2. CASE ~AddInvite(l)
          BY <1>1, <1>2, <2>2
          DEF MakeLink, InviteByMember, InviteByOperator, SelfStart, StartFolder, AddMember,
              MakingFails
      <2> QED BY <2>1, <2>2
    <1>3. ASSUME NEW c \in Computer, OpenLink(c)
          PROVE  AskersName
      <2>1. ASSUME NEW l \in Link, Select(c, l)
            PROVE  AskersName
          BY <2>1, AskChooses DEF AskersName, Select, Others, Past
      <2>2. CASE Consume(c)
        <3>1. asking[c].link \in Link /\ redeemer[asking[c].link] = Nobody
              /\ redeemer' = [redeemer EXCEPT ![asking[c].link] = c]
            BY <2>2 DEF Consume, TypeInv, InFlight, OnceInv
        <3>2. \A l \in Link : redeemer[l] # Nobody => redeemer'[l] = redeemer[l]
            BY <3>1 DEF TypeInv, TypeOK, Types
        <3> QED BY <2>2, <3>1, <3>2, AskGoesOn DEF AskersName, GoesTo, Others
      <2>3. CASE ReadBack(c)
        <3>1. /\ UNCHANGED redeemer /\ asking[c].pc \in Past /\ asking[c].link \in Link
            BY <2>3 DEF ReadBack, Past, TypeInv, InFlight
        <3> QED BY <2>3, <3>1, AskReads DEF AskersName, Others
      <2>4. CASE AddJoiner(c) \/ Repoint(c) \/ RemoveMintedPerson(c)
        <3>1. UNCHANGED redeemer /\ asking[c].pc \in Past
            BY <2>4 DEF AddJoiner, Repoint, RemoveMintedPerson, Past
        <3> QED BY <2>4, <3>1, AskGoesOn DEF AskersName, Ends, GoesTo, Others, NoAsk, Past
      <2>5. CASE AskFails(c) \/ GivePayload(c) \/ AnswerJoin(c)
        <3>1. UNCHANGED redeemer
            BY <2>5 DEF AskFails, GivePayload, AnswerJoin
        <3> QED BY <2>5, <3>1, AskGoesOn DEF AskersName, Ends, Others, NoAsk, Past
      <2> QED BY <1>3, <2>1, <2>2, <2>3, <2>4, <2>5 DEF OpenLink
    <1>4. ASSUME NEW c \in Computer, Enrol(c)
          PROVE  AskersName
        BY <1>1, <1>4 DEF Enrol, ReadForEnrol, AddDevice, EnrolFails
    <1>5. ASSUME NEW l \in Link, CloseLink(l)
          PROVE  AskersName
        BY <1>1, <1>5 DEF CloseLink, Expire, Sweep, OperatorRevokes, InviteRevoke, requests
    <1>6. CASE Remove
        BY <1>1, <1>6 DEF Remove, RemovePerson, ListLinks, FinishRemoval
    <1>7. ASSUME NEW p \in Person, PersonDelete(p)
          PROVE  AskersName
        BY <1>1, <1>7
        DEF PersonDelete, OperatorRemoves, DeleteMembers, DeleteInvites, DeleteDevices,
            DeletePerson
    <1>8. ASSUME NEW c \in Computer, NEW p \in Person, NewFolder(c, p)
          PROVE  AskersName
        BY <1>1, <1>8 DEF NewFolder, requests
    <1>9. ASSUME NEW f \in Folder, DestroyFolder(f)
          PROVE  AskersName
        BY <1>1, <1>9 DEF DestroyFolder, requests
    <1>10. CASE HubStops
        BY <1>10 DEF AskersName, HubStops, NoAsk, Past
    <1>11. CASE UNCHANGED vars
        BY <1>1, <1>11 DEF vars, requests
    <1> QED BY <1>2, <1>3, <1>4, <1>5, <1>6, <1>7, <1>8, <1>9, <1>10, <1>11 DEF Next

(* What the installers name after a step.                                  *)
LEMMA EnrolStep ==
    ASSUME TypeInv, OnceInv, [Next]_vars
    PROVE  EnrolName
    <1>1. ASSUME UNCHANGED <<payload, enrolling>>, device' \subseteq device
          PROVE  EnrolName
        BY <1>1 DEF EnrolName
    <1>2. ASSUME NEW l \in Link, MakeLink(l)
          PROVE  EnrolName
        BY <1>1, <1>2
        DEF MakeLink, InviteByMember, InviteByOperator, SelfStart, StartFolder, AddMember,
            AddInvite, MakingFails, tables
    <1>3. ASSUME NEW c \in Computer, OpenLink(c)
          PROVE  EnrolName
      <2>1. CASE GivePayload(c)
        <3>1. asking[c].by = Nobody /\ redeemer[asking[c].link] = c
              /\ UNCHANGED <<enrolling, device>>
            BY <2>1 DEF GivePayload, OnceInv, tables
        <3>2. \/ UNCHANGED payload
              \/ payload' = [payload EXCEPT ![c] = [link |-> asking[c].link,
                                                    user |-> asking[c].person]]
            BY <2>1 DEF GivePayload
        <3> QED BY <3>1, <3>2 DEF EnrolName, TypeInv, TypeOK, Types
      <2>2. CASE ~GivePayload(c)
          BY <1>1, <1>3, <2>2
          DEF OpenLink, Select, Consume, ReadBack, AskFails, AddJoiner, Repoint,
              RemoveMintedPerson, AnswerJoin, tables
      <2> QED BY <2>1, <2>2
    <1>4. ASSUME NEW c \in Computer, Enrol(c)
          PROVE  EnrolName
      <2>1. CASE ReadForEnrol(c)
          BY <2>1 DEF EnrolName, ReadForEnrol, tables, TypeInv, TypeOK, Types
      <2>2. CASE AddDevice(c)
          BY <2>2 DEF EnrolName, AddDevice, NoPayload, TypeInv, TypeOK, Types
      <2>3. CASE EnrolFails(c)
          BY <2>3 DEF EnrolName, EnrolFails, NoPayload, tables, TypeInv, TypeOK, Types
      <2> QED BY <1>4, <2>1, <2>2, <2>3 DEF Enrol
    <1>5. ASSUME NEW l \in Link, CloseLink(l)
          PROVE  EnrolName
        BY <1>1, <1>5
        DEF CloseLink, Expire, Sweep, OperatorRevokes, InviteRevoke, requests, tables
    <1>6. CASE Remove
        BY <1>1, <1>6 DEF Remove, RemovePerson, ListLinks, FinishRemoval, tables
    <1>7. ASSUME NEW p \in Person, PersonDelete(p)
          PROVE  EnrolName
        BY <1>1, <1>7
        DEF PersonDelete, OperatorRemoves, DeleteMembers, DeleteInvites, DeleteDevices,
            DeletePerson, tables
    <1>8. ASSUME NEW c \in Computer, NEW p \in Person, NewFolder(c, p)
          PROVE  EnrolName
        BY <1>1, <1>8 DEF NewFolder, requests
    <1>9. ASSUME NEW f \in Folder, DestroyFolder(f)
          PROVE  EnrolName
        BY <1>1, <1>9 DEF DestroyFolder, requests
    <1>10. CASE HubStops
        BY <1>10 DEF EnrolName, HubStops, tables
    <1>11. CASE UNCHANGED vars
        BY <1>1, <1>11 DEF vars, requests, tables
    <1> QED BY <1>2, <1>3, <1>4, <1>5, <1>6, <1>7, <1>8, <1>9, <1>10, <1>11 DEF Next

-----------------------------------------------------------------------------
(* The person a link minted, once someone else has joined with it.         *)

(* Whom RemoveMintedPerson deletes: nothing but the link is about them.    *)
LEMMA Placeholder ==
    ASSUME TypeInv, OnceInv, MintedInv, AloneInv, NEW c \in Computer,
           asking[c].pc \in {"repointed", "answering"}, asking[c].minted,
           asking[c].person # asking[c].by, asking[c].person \notin invited
    PROVE  /\ asking[c].person \in Link /\ Alone(asking[c].person)
           /\ invite[asking[c].person].made /\ making[asking[c].person].pc = "none"
    <1>1. /\ asking[c].link \in Link /\ asking[c].by # Nobody
          /\ redeemer[asking[c].link] = c /\ c # Nobody
        BY NobodyAssumption DEF TypeInv, InFlight, OnceInv
    <1>2. asking[c].person = asking[c].link
        BY DEF MintedInv
    <1>3. ~Installed(asking[c].link)
        BY <1>1 DEF Installed, Joining, Past
    <1> QED BY <1>1, <1>2, <1>3 DEF AloneInv, OnceInv

(* What keeps Left: nothing new is about the person.                       *)
LEMMA LeftFrame ==
    ASSUME TypeInv, SpentInv, [Next]_vars, NEW l \in Link, Left(l), invite[l].made,
           deleting'[l] = deleting[l],
           \A m \in members' : m[1] = l => m \in members,
           invite'[l].row /\ invite'[l].person = l => invite[l].row /\ invite[l].person = l
    PROVE  Left(l)'
    <1>1. person[l] = "none" => person'[l] = "none"
        BY GoneStay DEF Spent, Person
    <1>2. (\A m \in members : m[1] # l) => (\A m \in members' : m[1] # l)
        OBVIOUS
    <1> QED BY <1>1, <1>2 DEF Left

(* Each statement of PersonDelete leaves the person with less, and nothing *)
(* else gives them anything unless the operator invites them, or the hub   *)
(* stops and the request with it.                                          *)
LEMMA LeftStep ==
    ASSUME TypeInv, SpentInv, [Next]_vars, NEW l \in Link, Left(l), Alone(l),
           invite[l].made, making[l].pc = "none"
    PROVE  Left(l)' \/ l \in invited' \/ HubStops
    <1> USE LeftFrame
    <1>0. l \in Person
        BY DEF Person
    <1>1. ASSUME NEW k \in Link, MakeLink(k)
          PROVE  Left(l)' \/ l \in invited'
      <2>1. ASSUME NEW c \in Computer, NEW p \in Person, NEW f \in Folder,
                   InviteByMember(k, c, p, f)
            PROVE  Left(l)'
          BY <2>1 DEF InviteByMember
      <2>2. ASSUME NEW p \in Person, NEW f \in Folder, InviteByOperator(k, p, f)
            PROVE  Left(l)' \/ l \in invited'
        <3>1. CASE p = l
            BY <2>2, <3>1 DEF InviteByOperator
        <3>2. CASE p # l
            BY <2>2, <3>2 DEF InviteByOperator
        <3> QED BY <3>1, <3>2
      <2>3. ASSUME NEW c \in Computer, SelfStart(k, c)
            PROVE  Left(l)'
          BY <2>3 DEF SelfStart
      <2>4. CASE StartFolder(k) \/ MakingFails(k)
          BY <2>4 DEF StartFolder, MakingFails, tables
      <2>5. CASE AddMember(k)
        <3>1. k # l
            BY <2>5 DEF AddMember
        <3>2. making[k].person # l
            BY <3>1 DEF Alone
        <3> QED BY <2>5, <3>2 DEF AddMember
      <2>6. CASE AddInvite(k)
        <3>1. k # l
            BY <2>6 DEF AddInvite
        <3>2. invite'[l] = invite[l]
            BY <2>6, <3>1 DEF AddInvite, TypeInv, TypeOK, Types
        <3> QED BY <2>6, <3>2 DEF AddInvite
      <2> QED BY <1>1, <2>1, <2>2, <2>3, <2>4, <2>5, <2>6 DEF MakeLink
    <1>2. ASSUME NEW c \in Computer, OpenLink(c)
          PROVE  Left(l)'
      <2>1. ASSUME NEW k \in Link, Select(c, k)
            PROVE  Left(l)'
          BY <2>1 DEF Select, tables
      <2>2. CASE Consume(c)
        <3>1. invite'[l].row = invite[l].row /\ invite'[l].person = invite[l].person
            BY <2>2 DEF Consume, TypeInv, TypeOK, Types, Invite
        <3> QED BY <2>2, <3>1 DEF Consume
      <2>3. CASE Repoint(c)
        <3>1. asking[c].by # l
            BY DEF Alone
        <3>2. invite'[l].row /\ invite'[l].person = l => invite[l].row /\ invite[l].person = l
            BY <2>3, <3>1 DEF Repoint, Repointed, TypeInv, TypeOK, Types, Invite
        <3> QED BY <2>3, <3>2 DEF Repoint
      <2>4. CASE AddJoiner(c)
        <3>1. asking[c].by # l
            BY DEF Alone
        <3>2. UNCHANGED <<deleting, invite>> /\ \A m \in members' : m[1] = l => m \in members
            BY <2>4, <3>1 DEF AddJoiner
        <3> QED BY <3>2
      <2>5. CASE RemoveMintedPerson(c)
        <3>1. UNCHANGED <<person, members, invite>>
            BY <2>5 DEF RemoveMintedPerson, tables
        <3>2. deleting'[l] \in {deleting[l], "members"}
            BY <2>5, <1>0 DEF RemoveMintedPerson, TypeInv, TypeOK, Types
        <3>3. CASE deleting'[l] = deleting[l]
            BY <3>1, <3>3
        <3>4. CASE deleting'[l] = "members"
            BY <3>4 DEF Left
        <3> QED BY <3>2, <3>3, <3>4
      <2>6. CASE ReadBack(c) \/ AskFails(c) \/ GivePayload(c) \/ AnswerJoin(c)
          BY <2>6 DEF ReadBack, AskFails, GivePayload, AnswerJoin, tables
      <2> QED BY <1>2, <2>1, <2>2, <2>3, <2>4, <2>5, <2>6 DEF OpenLink
    <1>3. ASSUME NEW c \in Computer, Enrol(c)
          PROVE  Left(l)'
        BY <1>3 DEF Enrol, ReadForEnrol, AddDevice, EnrolFails, tables
    <1>4. ASSUME NEW k \in Link, CloseLink(k)
          PROVE  Left(l)'
      <2>1. CASE Expire(k)
          BY <2>1 DEF TypeInv, TypeOK, Types, Expire, Invite, requests
      <2>2. CASE InviteRevoke(k)
          BY <2>2 DEF TypeInv, TypeOK, Types, InviteRevoke, Invite
      <2>3. CASE Sweep(k) \/ OperatorRevokes(k)
          BY <2>3 DEF Sweep, OperatorRevokes, tables
      <2> QED BY <1>4, <2>1, <2>2, <2>3 DEF CloseLink
    <1>5. CASE Remove
        BY <1>5 DEF Remove, RemovePerson, ListLinks, FinishRemoval, tables
    <1>6. ASSUME NEW p \in Person, PersonDelete(p)
          PROVE  Left(l)'
      <2>1. CASE OperatorRemoves(p)
        <3>1. UNCHANGED <<person, members, invite>>
            BY <2>1 DEF OperatorRemoves, tables
        <3>2. deleting'[l] \in {deleting[l], "members"}
            BY <2>1, <1>0 DEF OperatorRemoves, TypeInv, TypeOK, Types
        <3>3. CASE deleting'[l] = deleting[l]
            BY <3>1, <3>3
        <3>4. CASE deleting'[l] = "members"
            BY <3>4 DEF Left
        <3> QED BY <3>2, <3>3, <3>4
      <2>2. CASE DeleteMembers(p)
        <3>1. CASE p = l
            BY <2>2, <3>1, <1>0 DEF DeleteMembers, Left, TypeInv, TypeOK, Types
        <3>2. CASE p # l
            BY <2>2, <3>2, <1>0 DEF DeleteMembers, TypeInv, TypeOK, Types
        <3> QED BY <3>1, <3>2
      <2>3. CASE DeleteInvites(p)
        <3>1. /\ invite'[l].row /\ invite'[l].person = l =>
                    invite[l].row /\ invite[l].person = l /\ p # l
              /\ UNCHANGED <<members, person>> /\ deleting[p] = "invites"
            BY <2>3 DEF DeleteInvites, TypeInv, TypeOK, Types, Invite
        <3>2. CASE p = l
          <4>1. deleting'[l] = "devices"
              BY <2>3, <3>2, <1>0 DEF DeleteInvites, TypeInv, TypeOK, Types
          <4> QED BY <3>1, <3>2, <4>1 DEF Left
        <3>3. CASE p # l
          <4>1. deleting'[l] = deleting[l]
              BY <2>3, <3>3, <1>0 DEF DeleteInvites, TypeInv, TypeOK, Types
          <4> QED BY <3>1, <4>1
        <3> QED BY <3>2, <3>3
      <2>4. CASE DeleteDevices(p)
        <3>1. CASE p = l
            BY <2>4, <3>1, <1>0 DEF DeleteDevices, Left, TypeInv, TypeOK, Types
        <3>2. CASE p # l
            BY <2>4, <3>2, <1>0 DEF DeleteDevices, TypeInv, TypeOK, Types
        <3> QED BY <3>1, <3>2
      <2>5. CASE DeletePerson(p)
        <3>1. CASE p = l
          <4>1. CASE person[l] = "none"
              BY <2>5, <3>1, <4>1, <1>0 DEF DeletePerson, Left, TypeInv, TypeOK, Types
          <4>2. CASE person[l] # "none"
            <5>1. ~Used(l)
                BY <2>5, <3>1, <4>2 DEF DeletePerson, Left, Alone, Used
            <5> QED BY <2>5, <3>1, <5>1, <1>0 DEF DeletePerson, Left, TypeInv, TypeOK, Types
          <4> QED BY <4>1, <4>2
        <3>2. CASE p # l
            BY <2>5, <3>2, <1>0 DEF DeletePerson, TypeInv, TypeOK, Types
        <3> QED BY <3>1, <3>2
      <2> QED BY <1>6, <2>1, <2>2, <2>3, <2>4, <2>5 DEF PersonDelete
    <1>7. ASSUME NEW c \in Computer, NEW p \in Person, NewFolder(c, p)
          PROVE  Left(l)'
      <2>1. p # l
          BY <1>7 DEF NewFolder, Active, Alone, DevicesOf
      <2> QED BY <1>7, <2>1 DEF NewFolder, requests
    <1>8. ASSUME NEW f \in Folder, DestroyFolder(f)
          PROVE  Left(l)'
        BY <1>8 DEF DestroyFolder, requests
    <1>9. CASE UNCHANGED vars
        BY <1>9 DEF vars, tables, requests
    <1> QED BY <1>1, <1>2, <1>3, <1>4, <1>5, <1>6, <1>7, <1>8, <1>9 DEF Next

(* Only RemoveMintedPerson answers, and it begins the deletion.            *)
LEMMA GoneStep ==
    ASSUME TypeInv, OnceInv, JoinInv, [Next]_vars
    PROVE  GoneInv'
    <1> USE DEF JoinInv
    <1>1. SUFFICES ASSUME NEW c \in Computer, asking'[c].pc = "answering", asking'[c].minted,
                          asking'[c].person # asking'[c].by, asking'[c].person \notin invited'
                   PROVE  Left(asking[c].person)'
        BY DEF GoneInv
    <1>2. RowsName
        BY RowsStep
    <1>3. CASE asking'[c] = asking[c] /\ ~HubStops
      <2>1. asking[c].person \notin invited
          BY <1>1, <1>2, <1>3 DEF RowsName
      <2>2. /\ asking[c].person \in Link /\ Alone(asking[c].person)
            /\ invite[asking[c].person].made /\ making[asking[c].person].pc = "none"
            /\ Left(asking[c].person)
          BY <1>1, <1>3, <2>1, Placeholder DEF GoneInv
      <2>3. PICK l \in Link : l = asking[c].person
          BY <2>2
      <2>4. Left(l)'
          BY <1>1, <1>3, <2>2, <2>3, LeftStep
      <2> QED BY <1>3, <2>3, <2>4 DEF Left
    <1>4. CASE RemoveMintedPerson(c)
      <2>1. /\ asking'[c].person = asking[c].person /\ asking'[c].by = asking[c].by
            /\ asking'[c].minted = asking[c].minted /\ asking[c].pc = "repointed"
            /\ UNCHANGED invited
          BY <1>4, AskGoesOn DEF GoesTo, RemoveMintedPerson
      <2>2. asking[c].person \in Link /\ Alone(asking[c].person)
          BY <1>1, <2>1, Placeholder
      <2>3. IsPlaceholder(asking[c])
          BY <1>1, <2>1, <2>2 DEF IsPlaceholder, Alone
      <2>4. deleting'[asking[c].person] = "members"
          BY <1>4, <2>2, <2>3 DEF RemoveMintedPerson, TypeInv, TypeOK, Types, Person
      <2> QED BY <2>1, <2>4 DEF Left
    <1>5. asking'[c] = asking[c] \/ RemoveMintedPerson(c)
      <2>1. ASSUME NEW l \in Link, MakeLink(l)
            PROVE  asking'[c] = asking[c]
          BY <1>1, <2>1
          DEF MakeLink, InviteByMember, InviteByOperator, SelfStart, StartFolder, AddMember,
              AddInvite, MakingFails, NoAsk
      <2>2. ASSUME NEW d \in Computer, OpenLink(d)
            PROVE  asking'[c] = asking[c] \/ RemoveMintedPerson(c)
        <3>1. ASSUME NEW l \in Link, Select(d, l)
              PROVE  asking'[c] = asking[c]
            BY <1>1, <3>1, AskChooses DEF Others
        <3>2. CASE ReadBack(d)
            BY <1>1, <3>2, AskReads DEF Others
        <3>3. CASE OpenLink(d) /\ ~(\E l \in Link : Select(d, l)) /\ ~ReadBack(d)
            BY <1>1, <3>3, AskGoesOn DEF OpenLink, Ends, GoesTo, Others, NoAsk
        <3> QED BY <2>2, <3>1, <3>2, <3>3
      <2>3. ASSUME NEW d \in Computer, Enrol(d)
            PROVE  asking'[c] = asking[c]
          BY <2>3 DEF Enrol, ReadForEnrol, AddDevice, EnrolFails
      <2>4. ASSUME NEW l \in Link, CloseLink(l)
            PROVE  asking'[c] = asking[c]
          BY <2>4 DEF CloseLink, Expire, Sweep, OperatorRevokes, InviteRevoke, requests
      <2>5. CASE Remove
          BY <2>5 DEF Remove, RemovePerson, ListLinks, FinishRemoval
      <2>6. ASSUME NEW p \in Person, PersonDelete(p)
            PROVE  asking'[c] = asking[c]
          BY <2>6
          DEF PersonDelete, OperatorRemoves, DeleteMembers, DeleteInvites, DeleteDevices,
              DeletePerson
      <2>7. ASSUME NEW d \in Computer, NEW p \in Person, NewFolder(d, p)
            PROVE  asking'[c] = asking[c]
          BY <2>7 DEF NewFolder, requests
      <2>8. ASSUME NEW f \in Folder, DestroyFolder(f)
            PROVE  asking'[c] = asking[c]
          BY <2>8 DEF DestroyFolder, requests
      <2>9. CASE UNCHANGED vars
          BY <2>9 DEF vars, requests
      <2>10. ~HubStops
          BY <1>1 DEF HubStops, NoAsk
      <2> QED BY <2>1, <2>2, <2>3, <2>4, <2>5, <2>6, <2>7, <2>8, <2>9, <2>10 DEF Next
    <1>6. ~HubStops
        BY <1>1 DEF HubStops, NoAsk
    <1> QED BY <1>3, <1>4, <1>5, <1>6

-----------------------------------------------------------------------------
(* Joins: the invariant and the theorems.                                  *)

(* At the start nobody has joined and no link is made.                     *)
LEMMA JoinInit ==
    ASSUME Init
    PROVE  JoinInv
    <1>1. SpentInv
        BY PersonAssumption, NobodyAssumption DEF Init, SpentInv, NoAsk, Person
    <1>2. RecordInv /\ MintedInv /\ GoneInv
        BY DEF Init, RecordInv, MintedInv, GoneInv, NoAsk, NoMaking, NoInvite
    <1>3. ASSUME NEW l \in Link
          PROVE  Alone(l)
      <2>1. DevicesOf(l) = {}
          BY EnrolledAssumption, PersonAssumption DEF Init, DevicesOf
      <2> QED BY <2>1, NobodyAssumption
              DEF Init, Alone, NoAsk, NoMaking, NoInvite, NoPayload, Person
    <1> QED BY <1>1, <1>2, <1>3 DEF JoinInv, AloneInv

(* Every step keeps the invariant.                                         *)
LEMMA JoinStep ==
    ASSUME TypeInv, OnceInv, JoinInv, [Next]_vars
    PROVE  JoinInv'
    <1>1. SpentInv' /\ RecordInv' /\ MintedInv'
        BY SpentStep, RecordStep, MintedStep DEF JoinInv
    <1>2. AloneInv'
        BY RowsStep, AskersStep, EnrolStep, AloneFrame DEF JoinInv
    <1>3. GoneInv'
        BY GoneStep
    <1> QED BY <1>1, <1>2, <1>3 DEF JoinInv

(* The invariants hold in every reachable state.                           *)
LEMMA JoinHolds == Spec => [](TypeInv /\ OnceInv /\ JoinInv)
    <1>1. Init => TypeInv /\ OnceInv /\ JoinInv
        BY TypeInit, OnceInit, JoinInit
    <1>2. TypeInv /\ OnceInv /\ JoinInv /\ [Next]_vars => TypeInv' /\ OnceInv' /\ JoinInv'
        BY TypeStep, OnceStep, JoinStep
    <1> QED BY <1>1, <1>2, PTL DEF Spec

(* Only deleting a person removes rows, and only that person's.            *)
LEMMA RowsGoWithTheirPerson ==
    ASSUME TypeInv, [Next]_vars, NEW l \in Link, invite[l].row, ~invite'[l].row
    PROVE  deleting[invite[l].person] # "no"
    <1>1. ASSUME UNCHANGED invite
          PROVE  FALSE
        BY <1>1
    <1>2. ASSUME NEW k \in Link, MakeLink(k)
          PROVE  FALSE
      <2>1. CASE AddInvite(k)
          BY <2>1 DEF AddInvite, TypeInv, TypeOK, Types
      <2>2. CASE ~AddInvite(k)
          BY <1>1, <1>2, <2>2
          DEF MakeLink, InviteByMember, InviteByOperator, SelfStart, StartFolder, AddMember,
              MakingFails, tables
      <2> QED BY <2>1, <2>2
    <1>3. ASSUME NEW c \in Computer, OpenLink(c)
          PROVE  FALSE
      <2>1. CASE Consume(c)
          BY <2>1 DEF Consume, TypeInv, TypeOK, Types, Invite
      <2>2. CASE Repoint(c)
          BY <2>2 DEF Repoint, Repointed, TypeInv, TypeOK, Types, Invite
      <2>3. CASE ~Consume(c) /\ ~Repoint(c)
          BY <1>1, <1>3, <2>3
          DEF OpenLink, Select, ReadBack, AskFails, GivePayload, AddJoiner,
              RemoveMintedPerson, AnswerJoin, tables
      <2> QED BY <2>1, <2>2, <2>3
    <1>4. ASSUME NEW c \in Computer, Enrol(c)
          PROVE  FALSE
        BY <1>1, <1>4 DEF Enrol, ReadForEnrol, AddDevice, EnrolFails, tables
    <1>5. ASSUME NEW k \in Link, CloseLink(k)
          PROVE  FALSE
      <2>1. CASE Expire(k)
          BY <2>1 DEF TypeInv, TypeOK, Types, Expire, Invite, requests
      <2>2. CASE InviteRevoke(k)
          BY <2>2 DEF TypeInv, TypeOK, Types, InviteRevoke, Invite
      <2>3. CASE Sweep(k) \/ OperatorRevokes(k)
          BY <1>1, <2>3 DEF Sweep, OperatorRevokes, tables
      <2> QED BY <1>5, <2>1, <2>2, <2>3 DEF CloseLink
    <1>6. CASE Remove
        BY <1>1, <1>6 DEF Remove, RemovePerson, ListLinks, FinishRemoval, tables
    <1>7. ASSUME NEW p \in Person, PersonDelete(p)
          PROVE  deleting[invite[l].person] # "no"
      <2>1. CASE DeleteInvites(p)
          BY <2>1 DEF DeleteInvites, TypeInv, TypeOK, Types
      <2>2. CASE ~DeleteInvites(p)
          BY <1>1, <1>7, <2>2
          DEF PersonDelete, OperatorRemoves, DeleteMembers, DeleteDevices, DeletePerson, tables
      <2> QED BY <2>1, <2>2
    <1>8. ASSUME NEW c \in Computer, NEW p \in Person, NewFolder(c, p)
          PROVE  FALSE
        BY <1>1, <1>8 DEF NewFolder
    <1>9. ASSUME NEW f \in Folder, DestroyFolder(f)
          PROVE  FALSE
        BY <1>1, <1>9 DEF DestroyFolder
    <1>10. CASE HubStops \/ UNCHANGED vars
        BY <1>1, <1>10 DEF HubStops, vars, tables
    <1> QED BY <1>2, <1>3, <1>4, <1>5, <1>6, <1>7, <1>8, <1>9, <1>10 DEF Next

(* A join is answered when the deletion it began has ended.                *)
LEMMA AnswersWait ==
    ASSUME TypeInv, [Next]_vars, NEW c \in Computer, asking[c].pc = "answering",
           asking'[c].pc = "none", stops' = stops
    PROVE  deleting[asking[c].person] = "no"
    <1>1. ASSUME asking'[c] = asking[c]
          PROVE  FALSE
        BY <1>1
    <1>2. ASSUME NEW l \in Link, MakeLink(l)
          PROVE  FALSE
        BY <1>1, <1>2
        DEF MakeLink, InviteByMember, InviteByOperator, SelfStart, StartFolder, AddMember,
            AddInvite, MakingFails, NoAsk
    <1>3. ASSUME NEW d \in Computer, OpenLink(d)
          PROVE  deleting[asking[c].person] = "no"
      <2>1. ASSUME NEW l \in Link, Select(d, l)
            PROVE  FALSE
          BY <1>1, <2>1, AskChooses DEF Others
      <2>2. CASE ReadBack(d)
          BY <1>1, <2>2, AskReads DEF Others
      <2>3. CASE AnswerJoin(d)
          BY <1>1, <2>3, AskGoesOn DEF Ends, Others, AnswerJoin
      <2>4. CASE Consume(d) \/ RemoveMintedPerson(d)
          BY <1>1, <2>4, AskGoesOn DEF GoesTo, Others
      <2>5. CASE AskFails(d) \/ GivePayload(d) \/ AddJoiner(d) \/ Repoint(d)
        <3>1. asking[d].pc # "answering"
            BY <2>5 DEF AskFails, GivePayload, AddJoiner, Repoint
        <3> QED BY <1>1, <2>5, <3>1, AskGoesOn DEF Ends, GoesTo, Others
      <2> QED BY <1>3, <2>1, <2>2, <2>3, <2>4, <2>5 DEF OpenLink
    <1>4. ASSUME NEW d \in Computer, Enrol(d)
          PROVE  FALSE
        BY <1>1, <1>4 DEF Enrol, ReadForEnrol, AddDevice, EnrolFails
    <1>5. ASSUME NEW l \in Link, CloseLink(l)
          PROVE  FALSE
        BY <1>1, <1>5 DEF CloseLink, Expire, Sweep, OperatorRevokes, InviteRevoke, requests
    <1>6. CASE Remove
        BY <1>1, <1>6 DEF Remove, RemovePerson, ListLinks, FinishRemoval
    <1>7. ASSUME NEW p \in Person, PersonDelete(p)
          PROVE  FALSE
        BY <1>1, <1>7
        DEF PersonDelete, OperatorRemoves, DeleteMembers, DeleteInvites, DeleteDevices,
            DeletePerson
    <1>8. ASSUME NEW d \in Computer, NEW p \in Person, NewFolder(d, p)
          PROVE  FALSE
        BY <1>1, <1>8 DEF NewFolder, requests
    <1>9. ASSUME NEW f \in Folder, DestroyFolder(f)
          PROVE  FALSE
        BY <1>1, <1>9 DEF DestroyFolder, requests
    <1>10. CASE UNCHANGED vars
        BY <1>1, <1>10 DEF vars, requests
    <1>11. ~HubStops
        BY DEF HubStops, TypeInv, TypeOK, Types
    <1> QED BY <1>2, <1>3, <1>4, <1>5, <1>6, <1>7, <1>8, <1>9, <1>10, <1>11 DEF Next

(* The row of a link that someone joined with stays as the record of who   *)
(* redeemed it (api_agent.go:364): whatever is revoked, removed or deleted *)
(* meanwhile, the person the link minted among it, the row goes only with  *)
(* the one who joined.                                                     *)
THEOREM JoinsStayOnRecordEver == Spec => JoinsStayOnRecord
    <1>1. TypeInv /\ JoinInv /\ [Next]_vars =>
            [\A l \in Link, c \in Computer :
                /\ asking[c].pc \in {"repointed", "answering"} /\ asking[c].link = l
                /\ invite[l].row /\ ~invite'[l].row
                => deleting[asking[c].by] # "no" \/ person[asking[c].by] = "none"]_vars
      <2>1. SUFFICES ASSUME TypeInv, JoinInv, [Next]_vars, NEW l \in Link, NEW c \in Computer,
                            asking[c].pc \in {"repointed", "answering"}, asking[c].link = l,
                            invite[l].row, ~invite'[l].row
                     PROVE  deleting[asking[c].by] # "no" \/ person[asking[c].by] = "none"
          OBVIOUS
      <2>2. deleting[invite[l].person] # "no"
          BY <2>1, RowsGoWithTheirPerson
      <2> QED BY <2>1, <2>2 DEF JoinInv, RecordInv
    <1> QED BY <1>1, JoinHolds, PTL DEF Spec, JoinsStayOnRecord

(* When a join has been answered, the person a member's link minted is     *)
(* gone: with the request's own row moved away first, PersonDelete meets   *)
(* no row that refers to them, whatever other requests do between its      *)
(* statements, unless they are someone with a computer or the operator     *)
(* has invited them as well (removeMintedPerson).                          *)
THEOREM PlaceholdersGoEver == Spec => PlaceholdersGo
    <1>1. TypeInv /\ OnceInv /\ JoinInv /\ [Next]_vars =>
            [\A c \in Computer :
               asking[c].pc = "answering" /\ asking'[c].pc = "none" /\ stops' = stops
               => LET a == asking[c]
                  IN  \/ ~a.minted \/ a.person = a.by
                      \/ DevicesOf(a.person) # {} \/ a.person \in invited
                      \/ person[a.person] = "none"]_vars
      <2>1. SUFFICES ASSUME TypeInv, OnceInv, JoinInv, [Next]_vars, NEW c \in Computer,
                            asking[c].pc = "answering", asking'[c].pc = "none", stops' = stops,
                            asking[c].minted, asking[c].person # asking[c].by,
                            asking[c].person \notin invited
                     PROVE  person[asking[c].person] = "none"
          OBVIOUS
      <2>2. Left(asking[c].person)
          BY <2>1 DEF JoinInv, GoneInv
      <2>3. deleting[asking[c].person] = "no"
          BY <2>1, AnswersWait
      <2> QED BY <2>2, <2>3 DEF Left
    <1> QED BY <1>1, JoinHolds, PTL DEF Spec, PlaceholdersGo

=============================================================================
