------------------------- MODULE AgentFoldersProofs -------------------------
(***************************************************************************)
(* Theorems of AgentFolders, for any circles, names, directories and       *)
(* candidates, and any number of changes, failures and stops.              *)
(***************************************************************************)
EXTENDS AgentFolders, FiniteSetTheorems, WellFoundedInduction, TLAPS

-----------------------------------------------------------------------------
(* The directory freeFolder finds.                                         *)

(* There are more candidates than other circles, so one is free.           *)
LEMMA SomeCandidateIsFree ==
    ASSUME NEW n \in Name, NEW c \in Circle, NEW cs
    PROVE  \E i \in DOMAIN Candidates[n] :
              Candidates[n][i] \notin {cs[o].folder : o \in Live(cs) \ {c}}
    <1> DEFINE N == Len(Candidates[n])
    <1>1. /\ DOMAIN Candidates[n] = 1 .. N /\ N \in Nat
          /\ Cardinality(Circle) <= N
          /\ \A i, j \in 1 .. N : Candidates[n][i] = Candidates[n][j] => i = j
        BY CandidatesAssumption
    <1>2. SUFFICES ASSUME \A i \in 1 .. N : \E o \in Circle \ {c} : cs[o].folder = Candidates[n][i]
                   PROVE  FALSE
        BY <1>1 DEF Live
    <1> DEFINE of == [i \in 1 .. N |-> CHOOSE o \in Circle \ {c} : cs[o].folder = Candidates[n][i]]
    <1>3. \A i \in 1 .. N : of[i] \in Circle \ {c} /\ cs[of[i]].folder = Candidates[n][i]
        BY <1>2
    <1>4. of \in [1 .. N -> Circle \ {c}]
        BY <1>3
    <1>5. /\ IsFiniteSet(Circle \ {c}) /\ Cardinality(Circle \ {c}) = Cardinality(Circle) - 1
          /\ Cardinality(Circle) \in Nat
        BY FS_RemoveElement, FS_CardinalityType, NoneAssumption
    <1>6. IsFiniteSet(1 .. N) /\ Cardinality(1 .. N) = N
        <2>1. N \in Int /\ 1 \in Int /\ N \in Nat
            BY <1>1
        <2> HIDE DEF N
        <2>2. IsFiniteSet(1 .. N) /\ Cardinality(1 .. N) = IF 1 > N THEN 0 ELSE N - 1 + 1
            BY <2>1, FS_Interval
        <2> QED BY <2>1, <2>2
    <1>7. \E i, j \in 1 .. N : i # j /\ of[i] = of[j]
        <2> HIDE DEF of
        <2>1. Cardinality(Circle \ {c}) < Cardinality(1 .. N)
            BY <1>1, <1>5, <1>6
        <2> QED BY <1>4, <1>5, <1>6, <2>1, FS_PigeonHole
    <1> HIDE DEF of
    <1> QED BY <1>1, <1>3, <1>7

(* Free is a directory, and none that another live circle records.         *)
LEMMA FreeIsFree ==
    ASSUME NEW n \in Name, NEW c \in Circle
    PROVE  /\ Free(c, n) \in Directory
           /\ \A o \in Live(circles) \ {c} : circles[o].folder # Free(c, n)
    <1> DEFINE Taken1 == {circles[o].folder : o \in Live(circles) \ {c}}
               C == Candidates[n]
               T == {i \in DOMAIN C : C[i] \notin Taken1}
    <1>1. C \in Seq(Directory) /\ DOMAIN C = 1 .. Len(C) /\ Len(C) \in Nat
        BY CandidatesAssumption
    <1>2. T # {} /\ T \subseteq Nat
        BY <1>1, SomeCandidateIsFree
    <1> DEFINE Less == {ss \in Nat \X Nat : ss[1] < ss[2]}
    <1>3. \E i \in T : \A j \in T : ~ (<<j, i>> \in Less)
        <2>1. IsWellFoundedOn(Less, Nat)
            BY NatLessThanWellFounded DEF OpToRel
        <2> HIDE DEF T, Less
        <2> QED BY <1>2, <2>1, WFMin
    <1>4. \E i \in T : \A j \in T : ~ (j < i)
        BY <1>2, <1>3
    <1>5. \E i \in DOMAIN C : C[i] \notin Taken1 /\ \A j \in 1 .. (i - 1) : C[j] \in Taken1
        BY <1>1, <1>4
    <1> DEFINE i == CHOOSE i \in DOMAIN C : C[i] \notin Taken1 /\ \A j \in 1 .. (i - 1) : C[j] \in Taken1
    <1>6. i \in DOMAIN C /\ C[i] \notin Taken1
        BY <1>5
    <1>7. Free(c, n) = C[i]
        BY DEF Free
    <1> HIDE DEF i
    <1> QED BY <1>1, <1>6, <1>7

-----------------------------------------------------------------------------
(* The invariant: no two live circles have one directory, wherever the list *)
(* of circles is kept; and what its steps need: a run's circle has one.     *)
RunNamed == pass.run # NoCircle => pass.pc = "run" /\ Named(pass.list[pass.run])

\* What an update takes in has a name
TodoNamed == \A c \in upd.todo : upd.of[c] \in Name

FoldersInv == TypeOK /\ RunNamed /\ TodoNamed /\ OneDirectoryEach

(* The circles live in ds were live in cs with the directory they have, or *)
(* have none.                                                              *)
Keeps(cs, ds) ==
    \A c \in Live(ds) : (c \in Live(cs) /\ ds[c].folder = cs[c].folder) \/ ds[c].folder = NoDir

LEMMA KeepsApart ==
    ASSUME NEW cs, NEW ds, Apart(cs), Keeps(cs, ds)
    PROVE  Apart(ds)
    BY DEF Apart, Keeps

(* A circle is given a directory no other live circle has.                 *)
LEMMA GivenApart ==
    ASSUME NEW cs, NEW ds, NEW c \in Circle, NEW d \in Directory, Apart(cs),
           ds[c].folder = d, c \in Live(cs),
           \A o \in Circle \ {c} : ds[o] = cs[o],
           \A o \in Live(cs) \ {c} : cs[o].folder # d
    PROVE  Apart(ds)
    BY NoneAssumption DEF Apart, Live

(* A circle with a directory, given or by its name, has one under the root. *)
LEMMA FolderType ==
    ASSUME NEW cs \in CircleState, Named(cs)
    PROVE  Folder(cs) \in Directory
    <1>1. CASE cs.folder # NoDir
        BY <1>1 DEF Folder, CircleState
    <1>2. CASE cs.folder = NoDir
        <2>1. cs.name \in Name
            BY <1>2 DEF Named, CircleState
        <2>2. Candidates[cs.name] \in Seq(Directory) /\ Len(Candidates[cs.name]) >= 1
            <3>1. Cardinality(Circle) \in Nat \ {0}
                BY NoneAssumption, FS_EmptySet, FS_CardinalityType
            <3> QED BY <2>1, <3>1, CandidatesAssumption
        <2> QED BY <1>2, <2>2 DEF Folder
    <1> QED BY <1>1, <1>2

(* The directories of a config's folders are under the root.               *)
LEMMA FoldersType ==
    ASSUME NEW css \in [Circle -> CircleState]
    PROVE  Folders(css) \in SUBSET Directory
    BY FolderType DEF Folders, Live

(* The values an update, a pass and a circle start from have their types.   *)
LEMMA AbsentType ==
    /\ Absent \in CircleState /\ Nothing \in [Circle -> Name \cup {Out}]
    /\ Idle \in UpdateState /\ NoPass \in PassState
    BY DEF Absent, Nothing, Idle, NoPass, CircleState, UpdateState, PassState

(* The first state: no circle, no update, no pass.                         *)
LEMMA InitHolds ==
    Init => FoldersInv
    <1> SUFFICES ASSUME Init PROVE FoldersInv
        OBVIOUS
    <1>1. TypeOK
        BY AbsentType, NoneAssumption DEF Init, TypeOK, Item
    <1>2. RunNamed /\ TodoNamed
        BY DEF Init, RunNamed, TodoNamed, NoPass, Idle
    <1>3. OneDirectoryEach
        BY DEF Init, OneDirectoryEach, Apart, Live, NoPass, Absent
    <1> QED BY <1>1, <1>2, <1>3 DEF FoldersInv

-----------------------------------------------------------------------------
(* Every step keeps the invariant.                                         *)

(* The hub's changes, questions to it and lost answers touch no directory. *)
LEMMA HubHolds ==
    ASSUME FoldersInv, Hub
    PROVE  FoldersInv'
    <1> USE DEF FoldersInv
    <1>1. UNCHANGED <<circles, saved, upd, pass>>
        BY DEF Hub, HubChanges, Page, Heartbeat, Lost, answerVars, installVars, diskVars
    <1>2. TypeOK'
        <2>1. ASSUME NEW c \in Circle, NEW n \in Name \cup {Out}, HubChanges(c, n)
              PROVE  TypeOK'
            BY <2>1 DEF TypeOK, HubChanges, Change, answerVars, installVars, diskVars
        <2>2. ASSUME NEW k \in {"join", "create"}, NEW c \in Circle, NEW n \in Name, Page(k, c, n)
              PROVE  TypeOK'
            <3>1. [Nothing EXCEPT ![c] = n] \in [Circle -> Name \cup {Out}]
                BY AbsentType
            <3>2. page' \in Answer
                BY <2>2, <3>1 DEF Page, Answer
            <3>3. hub' \in [Circle -> Name \cup {Out}] /\ changes' \in Nat
                BY <2>2 DEF Page, Change, TypeOK
            <3> QED BY <2>2, <3>2, <3>3 DEF TypeOK, Page, installVars, diskVars
        <2>3. CASE Heartbeat
            BY <2>3 DEF TypeOK, Heartbeat, Answer, hubVars, installVars, diskVars, counters
        <2>4. CASE Lost
            BY <2>4 DEF TypeOK, Lost, hubVars, installVars, diskVars, counters
        <2> QED BY <2>1, <2>2, <2>3, <2>4 DEF Hub
    <1>3. RunNamed' /\ TodoNamed' /\ OneDirectoryEach'
        BY <1>1 DEF RunNamed, TodoNamed, OneDirectoryEach, Apart, Live, Named
    <1> QED BY <1>2, <1>3

(* An update takes in one circle of the answer.                            *)
LEMMA TakeInHolds ==
    ASSUME FoldersInv, NEW c \in Circle, TakeIn(c)
    PROVE  FoldersInv'
    <1> USE DEF FoldersInv
    <1>1. /\ upd.of[c] \in Name /\ upd \in UpdateState
          /\ circles \in [Circle -> CircleState] /\ Apart(circles)
          /\ circles[c] \in CircleState
          /\ disk \in [Directory -> SUBSET Item] /\ there \in SUBSET Directory
        BY DEF TakeIn, TypeOK, TodoNamed, OneDirectoryEach
    <1>2. UNCHANGED <<saved, pass, hub, tree, bundle, page, phase, device, startup, changes>>
        BY DEF TakeIn, hubVars, answerVars, installVars
    <1>3. /\ upd' \in UpdateState
          /\ \A o \in upd'.todo : upd'.of[o] \in Name
        <2>1. /\ upd'.todo = upd.todo \ {c} /\ upd'.of = upd.of
              /\ upd' \in UpdateState
            BY <1>1 DEF TakeIn, AppendCircle, Readmit, Keyed, Settle, RenameFolder, Taken, UpdateState
        <2> QED BY <2>1 DEF TodoNamed
    <1>4. calm' \in BOOLEAN /\ faults' \in Nat
        <2>1. calm' = calm \/ GivesDirectory
            BY DEF TakeIn, AppendCircle, Readmit, Keyed, Settle, RenameFolder, Moved, Stays
        <2>2. faults' = faults \/ Fault
            BY DEF TakeIn, AppendCircle, Readmit, Keyed, Settle, RenameFolder, Moved, Stays
        <2>3. calm' \in BOOLEAN
            BY <2>1, Zenon DEF TypeOK, GivesDirectory
        <2>4. faults' \in Nat
            BY <2>2, SMT DEF TypeOK, Fault
        <2> QED BY <2>3, <2>4
    <1>5. /\ circles' \in [Circle -> CircleState] /\ Apart(circles')
          /\ disk' \in [Directory -> SUBSET Item] /\ there' \in SUBSET Directory
        <2>1. CASE AppendCircle(c)
            <3>1. circles' = [circles EXCEPT ![c] = [Absent EXCEPT !.at = "live", !.name = upd.of[c]]]
                  /\ UNCHANGED diskVars
                BY <2>1 DEF AppendCircle
            <3>2. [Absent EXCEPT !.at = "live", !.name = upd.of[c]] \in CircleState
                BY <1>1 DEF Absent, CircleState
            <3>3. Keeps(circles, circles')
                BY <1>1, <3>1 DEF Keeps, Live, Absent
            <3> QED BY <1>1, <3>1, <3>2, <3>3, KeepsApart DEF diskVars
        <2>2. CASE Readmit(c)
            <3>1. Keeps(circles, circles')
                BY <1>1, <2>2 DEF Readmit, Keeps, Live, CircleState
            <3> QED BY <1>1, <2>2, <3>1, KeepsApart DEF Readmit, diskVars, CircleState
        <2>3. CASE Keyed(c)
            BY <1>1, <2>3 DEF Keyed, diskVars
        <2>4. CASE Settle(c)
            <3>1. Keeps(circles, circles')
                BY <1>1, <2>4 DEF Settle, Keeps, Live, CircleState
            <3> QED BY <1>1, <2>4, <3>1, KeepsApart DEF Settle, diskVars, CircleState
        <2>5. CASE RenameFolder(c)
            <3> DEFINE to == Free(c, upd.of[c])
            <3>1. to \in Directory /\ \A o \in Live(circles) \ {c} : circles[o].folder # to
                BY <1>1, FreeIsFree
            <3>2. c \in Live(circles) /\ (Moved(c, to) \/ Stays(c, to))
                BY <2>5 DEF RenameFolder, Live
            <3> HIDE DEF to
            <3>3. CASE Moved(c, to)
                <4>1. circles' = [circles EXCEPT ![c].name = upd.of[c], ![c].folder = to]
                    BY <3>3 DEF Moved
                <4>2. /\ circles' \in [Circle -> CircleState] /\ circles'[c].folder = to
                      /\ \A o \in Circle \ {c} : circles'[o] = circles[o]
                    BY <1>1, <3>1, <4>1 DEF CircleState
                <4>3. Apart(circles')
                    BY <1>1, <3>1, <3>2, <4>2, GivenApart
                <4>4. disk' \in [Directory -> SUBSET Item] /\ there' \in SUBSET Directory
                    BY <1>1, <3>1, <3>3 DEF Moved
                <4> QED BY <4>2, <4>3, <4>4
            <3>4. CASE Stays(c, to)
                <4>1. Keeps(circles, circles')
                    BY <1>1, <3>4 DEF Stays, Keeps, Live, CircleState
                <4> QED BY <1>1, <3>4, <4>1, KeepsApart DEF Stays, diskVars, CircleState
            <3> QED BY <3>2, <3>3, <3>4
        <2> QED BY <2>1, <2>2, <2>3, <2>4, <2>5 DEF TakeIn
    <1> QED BY <1>2, <1>3, <1>4, <1>5 DEF TypeOK, RunNamed, TodoNamed, OneDirectoryEach

(* The rest of an update: who leaves, who is placed, what is emptied, the   *)
(* save.                                                                   *)
LEMMA PlaceHolds ==
    ASSUME FoldersInv, NEW c \in Circle, Place(c)
    PROVE  FoldersInv'
    <1> USE DEF FoldersInv
    <1> DEFINE to == Free(c, circles[c].name)
    <1>1. /\ circles \in [Circle -> CircleState] /\ Apart(circles) /\ upd \in UpdateState
          /\ c \in Live(circles) /\ circles[c].name \in Name
        BY DEF TypeOK, OneDirectoryEach, Place, FirstUnplaced, Unplaced, CircleState
    <1>2. to \in Directory /\ \A o \in Live(circles) \ {c} : circles[o].folder # to
        BY <1>1, FreeIsFree
    <1>3. /\ circles' = [circles EXCEPT ![c].folder = to]
          /\ upd' \in {upd, [upd EXCEPT !.new = @ \cup {c}]}
        BY DEF Place
    <1>4. UNCHANGED <<hubVars, answerVars, installVars, saved, pass, diskVars, counters>>
        BY DEF Place
    <1>5. calm' \in BOOLEAN
        BY DEF Place, GivesDirectory, TypeOK
    <1> HIDE DEF to
    <1>6. /\ circles' \in [Circle -> CircleState] /\ circles'[c].folder = to
          /\ \A o \in Circle \ {c} : circles'[o] = circles[o]
        BY <1>1, <1>2, <1>3 DEF CircleState
    <1>7. Apart(circles')
        BY <1>1, <1>2, <1>6, GivenApart
    <1>8. upd' \in UpdateState /\ upd'.todo = upd.todo /\ upd'.of = upd.of
        BY <1>1, <1>3 DEF UpdateState
    <1> QED BY <1>4, <1>5, <1>6, <1>7, <1>8
            DEF TypeOK, RunNamed, TodoNamed, OneDirectoryEach, hubVars, answerVars, installVars,
                diskVars, counters

(* Setting a directory's contents aside changes no circle's directory.     *)
LEMMA SetAsideKeeps ==
    ASSUME NEW c \in Circle, SetAside(c), circles \in [Circle -> CircleState], Apart(circles),
           disk \in [Directory -> SUBSET Item], faults \in Nat, there \in SUBSET Directory
    PROVE  /\ circles' \in [Circle -> CircleState] /\ Apart(circles')
           /\ \A o \in Circle : circles'[o] = [circles[o] EXCEPT !.aside = circles'[o].aside]
           /\ disk' \in [Directory -> SUBSET Item] /\ faults' \in Nat
           /\ there' \in SUBSET Directory
    <1>1. PICK aside \in BOOLEAN : circles' = [circles EXCEPT ![c].aside = aside]
        BY DEF SetAside
    <1>2. /\ circles' \in [Circle -> CircleState]
          /\ \A o \in Circle : circles'[o] = [circles[o] EXCEPT !.aside = circles'[o].aside]
        BY <1>1 DEF CircleState
    <1>3. Keeps(circles, circles')
        BY <1>2 DEF Keeps, Live, CircleState
    <1>4. Apart(circles')
        BY <1>3, KeepsApart
    <1>5. disk' \in [Directory -> SUBSET Item]
        <2> DEFINE d == Folder(circles[c])
        <2>1. \E left \in SUBSET disk[d] : disk' = [disk EXCEPT ![d] = left]
            BY DEF SetAside
        <2> HIDE DEF d
        <2> QED BY <2>1
    <1>6. faults' \in Nat /\ there' \in SUBSET Directory
        BY DEF SetAside, Fault
    <1> QED BY <1>2, <1>4, <1>5, <1>6

LEMMA EmptyHolds ==
    ASSUME FoldersInv, NEW c \in Circle, Empty(c)
    PROVE  FoldersInv'
    <1> USE DEF FoldersInv
    <1>1. /\ circles' \in [Circle -> CircleState] /\ Apart(circles')
          /\ disk' \in [Directory -> SUBSET Item] /\ faults' \in Nat
          /\ there' \in SUBSET Directory
        BY SetAsideKeeps DEF Empty, TypeOK, OneDirectoryEach
    <1>2. upd' \in UpdateState /\ upd'.todo = upd.todo /\ upd'.of = upd.of
        BY DEF Empty, TypeOK, UpdateState
    <1> QED BY <1>1, <1>2 DEF TypeOK, RunNamed, TodoNamed, OneDirectoryEach, Empty,
                hubVars, answerVars, installVars

LEMMA UpdateHolds ==
    ASSUME FoldersInv, Update
    PROVE  FoldersInv'
    <1> USE DEF FoldersInv
    <1>1. CASE Apply
        <2>1. PICK a \in Answer : upd' = Begin(a)
            BY <1>1 DEF Apply, TypeOK
        <2>2. upd' \in UpdateState /\ \A c \in upd'.todo : upd'.of[c] \in Name
            BY <2>1 DEF Begin, UpdateState, Answer
        <2>3. bundle' \in Answer \cup {NoAnswer} /\ page' \in Answer \cup {NoAnswer}
            BY <1>1 DEF Apply, TypeOK
        <2> QED BY <1>1, <2>2, <2>3 DEF Apply, TypeOK, RunNamed, TodoNamed, OneDirectoryEach,
                    hubVars, installVars, diskVars, counters
    <1>2. CASE Leave
        <2>1. circles \in [Circle -> CircleState] /\ Apart(circles) /\ upd \in UpdateState
            BY DEF TypeOK, OneDirectoryEach
        <2>2. \A c \in Circle : circles'[c] \in {circles[c], [circles[c] EXCEPT !.at = "removed"]}
            BY <1>2 DEF Leave
        <2>3. circles' \in [Circle -> CircleState]
            <3>1. DOMAIN circles' = Circle /\ circles' = [c \in Circle |-> circles'[c]]
                BY <1>2 DEF Leave
            <3>2. \A c \in Circle : circles'[c] \in CircleState
                BY <2>1, <2>2 DEF CircleState
            <3> QED BY <3>1, <3>2
        <2>4. Keeps(circles, circles')
            BY <2>1, <2>2 DEF Keeps, Live, CircleState
        <2>5. Apart(circles')
            BY <2>1, <2>4, KeepsApart
        <2>6. upd' \in UpdateState /\ upd'.todo = upd.todo /\ upd'.of = upd.of
            BY <1>2, <2>1 DEF Leave, UpdateState
        <2>7. UNCHANGED <<hubVars, answerVars, installVars, saved, pass, diskVars, calm, counters>>
            BY <1>2 DEF Leave
        <2> QED BY <2>3, <2>5, <2>6, <2>7 DEF TypeOK, RunNamed, TodoNamed, OneDirectoryEach,
                    hubVars, answerVars, installVars, diskVars, counters
    <1>3. CASE Save
        <2>1. saved' \in {saved, circles} /\ (calm' = calm \/ calm' = FALSE)
              /\ (faults' = faults \/ faults' = faults + 1)
            BY <1>3 DEF Save, Fault
        <2>2. upd' \in UpdateState /\ upd'.todo = {}
            BY <1>3, AbsentType DEF Save, Idle
        <2>3. phase' \in {"folded", "emptied", phase}
            BY <1>3 DEF Save
        <2>4. UNCHANGED <<hubVars, answerVars, device, startup, circles, pass, diskVars, changes>>
            BY <1>3 DEF Save
        <2>5. calm' \in BOOLEAN
            BY <2>1, Zenon DEF TypeOK
        <2>6. faults' \in Nat
            BY <2>1, SMT DEF TypeOK
        <2>7. saved' \in [Circle -> CircleState] /\ Apart(saved')
            BY <2>1 DEF TypeOK, OneDirectoryEach
        <2> QED BY <2>2, <2>3, <2>4, <2>5, <2>6, <2>7
                DEF TypeOK, RunNamed, TodoNamed, OneDirectoryEach, hubVars, answerVars, diskVars
    <1>4. CASE RefreshWatches
        <2>1. there' \in SUBSET Directory
            BY <1>4, FoldersType DEF RefreshWatches, TypeOK
        <2> QED BY <1>4, <2>1 DEF RefreshWatches, TypeOK, RunNamed, TodoNamed, OneDirectoryEach,
                    hubVars, answerVars, installVars, counters
    <1> QED BY <1>1, <1>2, <1>3, <1>4, TakeInHolds, PlaceHolds, EmptyHolds DEF Update

(* A pass reads its list, empties what was not, starts runs and copies.    *)
LEMMA PassHolds ==
    ASSUME FoldersInv, Pass
    PROVE  FoldersInv'
    <1> USE DEF FoldersInv
    <1>0. /\ circles \in [Circle -> CircleState] /\ Apart(circles)
          /\ pass \in PassState /\ Apart(pass.list)
          /\ disk \in [Directory -> SUBSET Item] /\ there \in SUBSET Directory
          /\ tree \in [Circle -> SUBSET Item] /\ faults \in Nat
        BY DEF TypeOK, OneDirectoryEach
    <1>1. CASE PassStart
        <2>1. pass' \in PassState /\ pass'.list = circles /\ pass'.run = NoCircle
            BY <1>0, <1>1, AbsentType DEF PassStart, NoPass, PassState
        <2> QED BY <1>0, <1>1, <2>1 DEF PassStart, TypeOK, RunNamed, TodoNamed, OneDirectoryEach,
                    hubVars, answerVars, installVars, diskVars, counters
    <1>2. CASE PassCopy
        <2> DEFINE now == [c \in Circle |-> IF pass.list[c].at = "absent" THEN Absent ELSE circles[c]]
        <2>1. now \in [Circle -> CircleState] /\ Keeps(circles, now)
            BY <1>0, AbsentType DEF Keeps, Live, Absent
        <2>2. PICK list \in {now, pass.list} :
                 pass' = [pass EXCEPT !.pc = "run", !.list = list, !.todo = Live(list)]
            BY <1>2 DEF PassCopy
        <2> HIDE DEF now
        <2>3. list \in [Circle -> CircleState] /\ Apart(list)
            BY <1>0, <2>1, KeepsApart DEF PassState
        <2>4. pass' \in PassState /\ pass'.list = list /\ pass'.run = NoCircle
            <3>1. pass.run = NoCircle /\ Live(list) \in SUBSET Circle
                BY <1>2 DEF PassCopy, RunNamed, Live
            <3> QED BY <1>0, <2>2, <2>3, <3>1 DEF PassState
        <2>5. UNCHANGED <<hubVars, answerVars, installVars, circles, saved, upd, diskVars, calm, counters>>
            BY <1>2 DEF PassCopy
        <2> QED BY <1>0, <2>3, <2>4, <2>5 DEF TypeOK, RunNamed, TodoNamed, OneDirectoryEach,
                    hubVars, answerVars, installVars, diskVars, counters
    <1>3. CASE PassEnd
        <2>1. Apart(NoPass.list)
            BY DEF Apart, Live, NoPass, Absent
        <2> QED BY <1>0, <1>3, <2>1, AbsentType
                DEF PassEnd, TypeOK, RunNamed, TodoNamed, OneDirectoryEach, NoPass,
                    hubVars, answerVars, installVars, diskVars, counters
    <1>4. ASSUME NEW c \in Circle, PassEmpties(c) PROVE FoldersInv'
        <2>1. /\ circles' \in [Circle -> CircleState] /\ Apart(circles')
              /\ disk' \in [Directory -> SUBSET Item] /\ faults' \in Nat
              /\ there' \in SUBSET Directory
            <3>1. CASE circles[c].at = "live" /\ SetAside(c)
                BY <1>0, <3>1, SetAsideKeeps
            <3>2. CASE UNCHANGED <<circles, diskVars, faults>>
                BY <1>0, <3>2 DEF diskVars
            <3> QED BY <1>4, <3>1, <3>2 DEF PassEmpties
        <2>2. circles'[c].aside \in BOOLEAN
            BY <2>1 DEF CircleState
        <2>3. PICK todo \in SUBSET Circle :
                 pass' = [pass EXCEPT !.list[c].aside = circles'[c].aside, !.todo = todo, !.run = NoCircle]
            BY <1>0, <1>4 DEF PassEmpties, PassState
        <2>4. pass' \in PassState /\ pass'.run = NoCircle
            <3> DEFINE list == [pass.list EXCEPT ![c].aside = circles'[c].aside]
            <3>1. [pass.list[c] EXCEPT !.aside = circles'[c].aside] \in CircleState
                <4>1. \A cs \in CircleState, aside \in BOOLEAN : [cs EXCEPT !.aside = aside] \in CircleState
                    BY DEF CircleState
                <4>2. pass.list[c] \in CircleState
                    BY <1>0 DEF PassState
                <4> QED BY <2>2, <4>1, <4>2
            <3>2. list \in [Circle -> CircleState]
                BY <1>0, <3>1 DEF PassState
            <3>3. pass' = [pass EXCEPT !.list = list, !.todo = todo, !.run = NoCircle]
                BY <2>3
            <3> HIDE DEF list
            <3> QED BY <1>0, <3>2, <3>3 DEF PassState
        <2>5. Keeps(pass.list, pass'.list)
            BY <1>0, <2>3 DEF PassState, CircleState, Keeps, Live
        <2>6. Apart(pass'.list)
            BY <1>0, <2>5, KeepsApart
        <2>7. UNCHANGED <<hubVars, answerVars, installVars, upd, calm, changes>> /\ saved' = circles'
            BY <1>4 DEF PassEmpties
        <2> QED BY <2>1, <2>4, <2>6, <2>7 DEF TypeOK, RunNamed, TodoNamed, OneDirectoryEach,
                    hubVars, answerVars, installVars
    <1>5. ASSUME NEW c \in Circle, RunStart(c) PROVE FoldersInv'
        <2>1. /\ Named(pass.list[c]) /\ pass.list[c] \in CircleState
              /\ pass' = [pass EXCEPT !.run = c, !.todo = @ \ {c}] /\ pass.pc = "run"
            BY <1>0, <1>5 DEF RunStart, PassState
        <2>2. /\ pass' \in PassState /\ pass'.list = pass.list
              /\ pass'.run = c /\ pass'.pc = "run"
            BY <1>0, <2>1 DEF PassState
        <2>3. there' \in SUBSET Directory
            BY <1>0, <1>5, <2>1, FolderType DEF RunStart
        <2>4. UNCHANGED <<hubVars, answerVars, installVars, circles, saved, upd, disk, calm, counters>>
            BY <1>5 DEF RunStart
        <2> QED BY <1>0, <2>1, <2>2, <2>3, <2>4 DEF TypeOK, RunNamed, TodoNamed, OneDirectoryEach,
                    hubVars, answerVars, installVars, counters
    <1>6. ASSUME NEW i \in Item, RunCopies(i) PROVE FoldersInv'
        <2> DEFINE c == pass.run
                   d == Folder(pass.list[c])
        <2>1. c \in Circle /\ Named(pass.list[c]) /\ pass.list[c] \in CircleState
            BY <1>0, <1>6 DEF RunCopies, RunNamed, PassState
        <2>2. d \in Directory
            BY <2>1, FolderType
        <2>3. UNCHANGED <<hub, answerVars, installVars, circles, saved, upd, pass, calm, counters>>
            BY <1>6 DEF RunCopies
        <2>4. \/ tree' = [tree EXCEPT ![c] = @ \cup {i}] /\ UNCHANGED diskVars
              \/ disk' = [disk EXCEPT ![d] = @ \cup {i}] /\ there' = there \cup {d} /\ UNCHANGED tree
            BY <1>6 DEF RunCopies
        <2> HIDE DEF c, d
        <2>5. /\ tree' \in [Circle -> SUBSET Item] /\ disk' \in [Directory -> SUBSET Item]
              /\ there' \in SUBSET Directory
            BY <1>0, <2>1, <2>2, <2>4 DEF diskVars
        <2> QED BY <2>3, <2>5 DEF TypeOK, RunNamed, TodoNamed, OneDirectoryEach,
                    answerVars, installVars, counters
    <1> QED BY <1>1, <1>2, <1>3, <1>4, <1>5, <1>6 DEF Pass

(* Installing, stopping, starting and removing: the circles are the saved   *)
(* ones, or have no directory yet, or are gone.                            *)
LEMMA InstallationHolds ==
    ASSUME FoldersInv, Installation
    PROVE  FoldersInv'
    <1> USE DEF FoldersInv
    <1>0. /\ circles \in [Circle -> CircleState] /\ saved \in [Circle -> CircleState]
          /\ Apart(circles) /\ Apart(saved)
        BY DEF TypeOK, OneDirectoryEach
    <1> DEFINE none == [c \in Circle |-> Absent]
    <1>9. /\ none \in [Circle -> CircleState] /\ Apart(none) /\ Apart(NoPass.list)
          /\ Idle.todo = {} /\ NoPass.run = NoCircle
        BY AbsentType DEF Apart, Live, NoPass, Absent, Idle
    <1>1. ASSUME NEW keys \in SUBSET Circle, Configure(keys) PROVE FoldersInv'
        <2>1. /\ circles' = [c \in Circle |-> IF c \in keys THEN [Absent EXCEPT !.at = "live"] ELSE Absent]
              /\ saved' = circles' /\ phase' = "configured"
            BY <1>1 DEF Configure
        <2>2. circles' \in [Circle -> CircleState]
            BY <2>1, NoneAssumption DEF Absent, CircleState
        <2>3. Apart(circles')
            BY <2>1 DEF Apart, Live, Absent
        <2>4. UNCHANGED <<hubVars, answerVars, device, startup, upd, pass, diskVars, calm, counters>>
            BY <1>1 DEF Configure
        <2> QED BY <2>1, <2>2, <2>3, <2>4 DEF TypeOK, RunNamed, TodoNamed, OneDirectoryEach,
                    hubVars, answerVars, diskVars, counters
    <1>2. CASE Enrol
        <2>1. upd' \in UpdateState /\ \A c \in upd'.todo : upd'.of[c] \in Name
            BY <1>2 DEF Enrol, Begin, UpdateState, TypeOK
        <2> QED BY <1>2, <2>1 DEF Enrol, TypeOK, RunNamed, TodoNamed, OneDirectoryEach,
                    hubVars, answerVars, diskVars, counters
    <1>3. CASE EmptyAll
        <2>1. upd' \in UpdateState /\ upd'.todo = {}
            BY <1>3, AbsentType DEF EmptyAll, Idle, UpdateState, Live
        <2> QED BY <1>3, <2>1 DEF EmptyAll, TypeOK, RunNamed, TodoNamed, OneDirectoryEach,
                    hubVars, answerVars, installVars, diskVars, counters
    <1>4. CASE Register
        <2>1. there' \in SUBSET Directory
            BY <1>4, FoldersType DEF Register, TypeOK
        <2> QED BY <1>4, <2>1 DEF Register, TypeOK, RunNamed, TodoNamed, OneDirectoryEach,
                    hubVars, answerVars, counters
    <1>5. CASE Stop
        <2>1. faults' \in Nat
            BY <1>5 DEF Stop, Fault, TypeOK
        <2>2. calm' \in BOOLEAN
            BY <1>5, Zenon DEF Stop, TypeOK
        <2>3. /\ circles' = saved /\ upd' = Idle /\ pass' = NoPass /\ phase' = "stopped"
              /\ bundle' = NoAnswer /\ page' = NoAnswer
              /\ UNCHANGED <<hubVars, device, startup, saved, diskVars, changes>>
            BY <1>5 DEF Stop
        <2> QED BY <1>0, <1>9, <2>1, <2>2, <2>3, AbsentType
                DEF TypeOK, RunNamed, TodoNamed, OneDirectoryEach, hubVars, diskVars
    <1>6. CASE Start
        BY <1>0, <1>6 DEF Start, TypeOK, RunNamed, TodoNamed, OneDirectoryEach,
                    hubVars, answerVars, diskVars, counters
    <1>7. CASE Uninstall
        <2>1. /\ circles' = none /\ saved' = none /\ upd' = Idle /\ pass' = NoPass
              /\ phase' = "none" /\ device' = FALSE /\ startup' = FALSE
              /\ bundle' = NoAnswer /\ page' = NoAnswer
              /\ UNCHANGED <<hubVars, calm, faults>>
            BY <1>7 DEF Uninstall
        <2>2. changes' \in Nat
            BY <1>7 DEF Uninstall, Change, TypeOK
        <2>3. disk' \in [Directory -> SUBSET Item] /\ there' \in SUBSET Directory
            BY <1>7 DEF Uninstall, TypeOK, diskVars
        <2> QED BY <1>9, <2>1, <2>2, <2>3, AbsentType
                DEF TypeOK, RunNamed, TodoNamed, OneDirectoryEach, hubVars
    <1> QED BY <1>1, <1>2, <1>3, <1>4, <1>5, <1>6, <1>7 DEF Installation

(* So it holds always.                                                     *)
LEMMA InvHolds ==
    Spec => []FoldersInv
    <1>1. FoldersInv /\ [Next]_vars => FoldersInv'
        <2>1. SUFFICES ASSUME FoldersInv, [Next]_vars PROVE FoldersInv'
            OBVIOUS
        <2>2. CASE UNCHANGED vars
            BY <2>1, <2>2 DEF FoldersInv, TypeOK, RunNamed, TodoNamed, OneDirectoryEach, vars
        <2> QED BY <2>1, <2>2, HubHolds, UpdateHolds, PassHolds, InstallationHolds DEF Next
    <1> QED BY <1>1, InitHolds, PTL DEF Spec

-----------------------------------------------------------------------------
(* Every variable has its type, always: an update and a pass only ever use  *)
(* directories that a recorded folder or a name's candidates give.         *)
THEOREM TypeCorrect ==
    Spec => []TypeOK
    BY InvHolds, PTL DEF FoldersInv

(* No two folders of a computer ever have one directory, in memory, in the  *)
(* config.json a restart reads, or in the list a sync pass works through:   *)
(* placeFolders, renameFolder and readmit, with any number of folders of    *)
(* one name, moves that fail, saves that fail and stops between the steps.  *)
THEOREM OneDirectoryEachAlways ==
    Spec => []OneDirectoryEach
    BY InvHolds, PTL DEF FoldersInv
=============================================================================
