---------------------- MODULE AgentFoldersFilesProofs ----------------------
(***************************************************************************)
(* More theorems of AgentFolders: what the directories hold.  As long as   *)
(* the computer is calm (no directory is given out during a pass, no save  *)
(* of the config fails, no update or install stops before it has emptied   *)
(* and saved), every directory a pass may read or write holds its own      *)
(* folder's files alone, and no folder loses any.                          *)
(***************************************************************************)
EXTENDS AgentFoldersProofs

-----------------------------------------------------------------------------
(* Where an installation, an update and a pass stand to each other.        *)
StandInv ==
    /\ upd.pc = "idle" => upd = Idle
    /\ phase \in {"none", "configured", "emptied", "stopped"} => upd = Idle
    /\ phase = "enrolled" => upd.pc # "idle" /\ upd.kind = "install"
    /\ phase = "folded" => upd = Idle \/ (upd.pc = "place" /\ upd.kind = "empty")
    /\ phase = "running" => upd.kind \in {"bundle", "join", "create"}
    /\ phase \in {"enrolled", "folded", "emptied", "running"} => device
    /\ phase \in {"none", "configured"} => ~ device
    /\ bundle # NoAnswer => bundle.kind = "bundle"
    /\ page # NoAnswer => page.kind \in {"join", "create"}
    /\ pass.pc # "no" => phase = "running"
    /\ pass.todo \subseteq Live(pass.list)
    /\ pass.run # NoCircle => pass.run \in Live(pass.list) /\ ~ pass.list[pass.run].aside
    /\ \A d \in Directory \ there : disk[d] = {}

(* The directories of a list hold their circles' files and no others.      *)
Clean(list, new) ==
    \A c \in Live(list) \ new :
        list[c].folder # NoDir /\ ~ list[c].aside => disk[list[c].folder] \subseteq {c}

(* What a calm computer has behind it when it is installed and stopped: the *)
(* stop came once every directory was emptied.                             *)
Ready == phase \in {"emptied", "running"} \/ (phase = "stopped" /\ device)

(* The installer has folded the hub's bundle in, or is past that.          *)
Folded == phase = "folded" \/ Ready

(* Every directory is emptied, or is one an update has still to empty.      *)
Emptied == Ready \/ upd.kind = "empty"

PlacedInv ==
    /\ upd = Idle => saved = circles
    /\ phase = "enrolled" => \A c \in Live(circles) :
          \/ circles[c].name # NoName
          \/ upd.pc = "circles" /\ (c \in upd.todo \/ upd.of[c] = Out)
    /\ Folded => \A c \in Live(circles) :
          circles[c].folder = NoDir => c \in upd.new /\ circles[c].name # NoName

(* A pass works from the list the config has, but for circles that left.    *)
ListInv ==
    pass.pc # "no" =>
        /\ upd.new = {}
        /\ Live(circles) \subseteq Live(pass.list)
        /\ \A c \in Live(pass.list) :
              /\ circles[c].at # "absent" /\ pass.list[c].folder # NoDir
              /\ circles[c].folder = pass.list[c].folder
              /\ circles[c].aside = pass.list[c].aside
        /\ Clean(pass.list, {})

CalmInv == calm => Pure /\ PlacedInv /\ ListInv /\ (Emptied => Clean(circles, upd.new))

(* The first state: nothing is installed.                                  *)
LEMMA InitStand == Init => StandInv
    <1>1. Init => pass = NoPass /\ upd = Idle /\ phase = "none" /\ ~ device
                  /\ bundle = NoAnswer /\ page = NoAnswer
                  /\ disk = [d \in Directory |-> IF d \in there THEN {Private} ELSE {}]
        BY DEF Init
    <1> QED BY <1>1 DEF StandInv, NoPass, Idle

(* What the hub and the page do leaves the computer as it is.              *)
LEMMA HubStands ==
    ASSUME FoldersInv, StandInv, Hub
    PROVE  StandInv'
    <1>1. UNCHANGED <<phase, device, startup, circles, saved, upd, pass, disk, there>>
        BY DEF Hub, HubChanges, Page, Heartbeat, Lost, answerVars, installVars, diskVars
    <1>2. bundle' # NoAnswer => bundle' = bundle \/ bundle' = [kind |-> "bundle", of |-> hub]
        BY DEF Hub, HubChanges, Page, Heartbeat, Lost, answerVars
    <1>3. page' # NoAnswer => page' = page \/ page'.kind \in {"join", "create"}
        BY DEF Hub, HubChanges, Page, Heartbeat, Lost, answerVars
    <1>4. /\ bundle' # NoAnswer => bundle'.kind = "bundle"
          /\ page' # NoAnswer => page'.kind \in {"join", "create"}
        BY <1>2, <1>3 DEF StandInv
    <1> QED BY <1>1, <1>4 DEF StandInv

(* An update goes from the answer to the circles, their places and the save. *)
LEMMA UpdateStands ==
    ASSUME FoldersInv, StandInv, Update
    PROVE  StandInv'
    <1>0. /\ upd \in UpdateState /\ disk \in [Directory -> SUBSET Item]
          /\ there \in SUBSET Directory /\ circles \in [Circle -> CircleState]
          /\ upd.pc # "idle" => upd # Idle
        BY DEF FoldersInv, TypeOK, Idle
    <1>1. CASE Apply
        <2>1. /\ phase = "running" /\ upd'.pc = "circles"
              /\ upd'.kind \in {"bundle", "join", "create"}
            BY <1>1 DEF Apply, Begin, StandInv
        <2>2. /\ bundle' # NoAnswer => bundle' = bundle
              /\ page' # NoAnswer => page' = page
            BY <1>1 DEF Apply
        <2> QED BY <1>1, <2>1, <2>2 DEF Apply, StandInv, installVars, diskVars
    <1>2. ASSUME NEW c \in Circle, TakeIn(c) PROVE StandInv'
        <2>1. /\ upd.pc = "circles" /\ upd'.pc = upd.pc /\ upd'.kind = upd.kind
              /\ UNCHANGED <<bundle, page, phase, device, startup, pass>>
            BY <1>0, <1>2 DEF TakeIn, AppendCircle, Readmit, Keyed, Settle, RenameFolder, Taken, UpdateState, answerVars, installVars
        <2>2. \A d \in Directory \ there' : disk'[d] = {}
            <3>1. CASE UNCHANGED diskVars
                BY <3>1 DEF diskVars, StandInv
            <3>2. ASSUME NEW to, Moved(c, to) PROVE \A d \in Directory \ there' : disk'[d] = {}
                BY <1>0, <3>2 DEF Moved, StandInv
            <3> QED BY <1>2, <3>1, <3>2 DEF TakeIn, AppendCircle, Readmit, Keyed, Settle, RenameFolder, Stays
        <2> QED BY <1>0, <2>1, <2>2 DEF StandInv
    <1>3. CASE Leave
        <2>1. /\ upd.pc = "circles" /\ upd'.pc = "place" /\ upd'.kind = upd.kind
              /\ UNCHANGED <<bundle, page, phase, device, startup, pass, disk, there>>
            BY <1>0, <1>3 DEF Leave, UpdateState, answerVars, installVars, diskVars
        <2> QED BY <1>0, <2>1 DEF StandInv
    <1>4. ASSUME NEW c \in Circle, Place(c) PROVE StandInv'
        <2>1. /\ upd.pc = "place" /\ upd'.pc = "place" /\ upd'.kind = upd.kind
              /\ UNCHANGED <<bundle, page, phase, device, startup, pass, disk, there>>
            BY <1>0, <1>4 DEF Place, UpdateState, answerVars, installVars, diskVars
        <2> QED BY <1>0, <2>1 DEF StandInv
    <1>5. ASSUME NEW c \in Circle, Empty(c) PROVE StandInv'
        <2>1. /\ upd.pc = "place" /\ upd'.pc = "place" /\ upd'.kind = upd.kind
              /\ UNCHANGED <<bundle, page, phase, device, startup, pass, there>>
            BY <1>0, <1>5 DEF Empty, SetAside, UpdateState, answerVars, installVars
        <2>2. \A d \in Directory : disk'[d] \subseteq disk[d]
            BY <1>0, <1>5 DEF Empty, SetAside
        <2> QED BY <1>0, <2>1, <2>2 DEF StandInv
    <1>6. CASE Save
        <2>1. /\ upd.pc = "place" /\ upd' = Idle
              /\ UNCHANGED <<bundle, page, device, startup, pass, disk, there>>
            BY <1>6 DEF Save, answerVars, diskVars
        <2>2. phase \in {"enrolled", "folded", "running"}
            BY <1>0, <2>1 DEF StandInv, FoldersInv, TypeOK
        <2>3. /\ phase = "enrolled" => phase' = "folded"
              /\ phase = "folded" => phase' = "emptied"
              /\ phase = "running" => phase' = "running"
            BY <1>0, <1>6, <2>1 DEF Save, StandInv
        <2> QED BY <2>1, <2>2, <2>3 DEF StandInv, Idle
    <1>7. CASE RefreshWatches
        <2>1. /\ there \subseteq there'
              /\ UNCHANGED <<bundle, page, phase, device, startup, pass, disk, upd>>
            BY <1>7 DEF RefreshWatches, answerVars, installVars
        <2> QED BY <2>1 DEF StandInv
    <1> QED BY <1>1, <1>2, <1>3, <1>4, <1>5, <1>6, <1>7 DEF Update

(* A pass works only on what its list has live, and only while the agent runs. *)
LEMMA PassStands ==
    ASSUME FoldersInv, StandInv, Pass
    PROVE  StandInv'
    <1>0. /\ pass \in PassState /\ pass.list \in [Circle -> CircleState]
          /\ disk \in [Directory -> SUBSET Item] /\ there \in SUBSET Directory
        BY DEF FoldersInv, TypeOK, PassState
    <1>a. /\ UNCHANGED <<bundle, page, phase, device, startup, upd>>
        BY DEF Pass, PassStart, PassCopy, PassEnd, PassEmpties, RunStart, RunCopies, answerVars, installVars
    <1>1. CASE PassStart
        BY <1>0, <1>a, <1>1 DEF PassStart, NoPass, StandInv, diskVars
    <1>2. CASE PassCopy
        <2>1. PICK list : pass' = [pass EXCEPT !.pc = "run", !.list = list, !.todo = Live(list)]
            BY <1>2 DEF PassCopy
        <2>2. pass'.todo = Live(pass'.list) /\ pass'.run = pass.run
            BY <1>0, <2>1 DEF PassState
        <2>3. pass.run = NoCircle /\ pass.pc = "read"
            BY <1>2 DEF PassCopy, FoldersInv, RunNamed
        <2> QED BY <1>a, <1>2, <2>2, <2>3 DEF PassCopy, StandInv, diskVars
    <1>3. CASE PassEnd
        BY <1>a, <1>3 DEF PassEnd, NoPass, StandInv, diskVars
    <1>4. ASSUME NEW c \in Circle, PassEmpties(c) PROVE StandInv'
        <2>1. /\ there' = there /\ \A d \in Directory : disk'[d] \subseteq disk[d]
            BY <1>0, <1>4 DEF PassEmpties, SetAside, diskVars
        <2>2. /\ pass'.run = NoCircle /\ pass'.todo \subseteq pass.todo
              /\ \A o \in Circle : pass'.list[o].at = pass.list[o].at
            BY <1>0, <1>4 DEF PassEmpties, PassState, CircleState
        <2>3. Live(pass'.list) = Live(pass.list)
            BY <2>2 DEF Live
        <2>4. pass.pc = "run"
            BY <1>4 DEF PassEmpties
        <2> QED BY <1>a, <2>1, <2>2, <2>3, <2>4 DEF StandInv
    <1>5. ASSUME NEW c \in Circle, RunStart(c) PROVE StandInv'
        <2>1. /\ c \in pass.todo /\ ~ pass.list[c].aside /\ pass.pc = "run"
              /\ pass'.run = c /\ pass'.todo \subseteq pass.todo /\ pass'.list = pass.list
              /\ pass'.pc = pass.pc /\ disk' = disk /\ there \subseteq there'
            BY <1>0, <1>5 DEF RunStart, PassState
        <2> QED BY <1>a, <2>1 DEF StandInv
    <1>6. ASSUME NEW i \in Item, RunCopies(i) PROVE StandInv'
        <2>1. pass' = pass /\ \A d \in Directory \ there' : d \notin there /\ disk'[d] = disk[d]
            BY <1>0, <1>6 DEF RunCopies, diskVars
        <2> QED BY <1>a, <2>1 DEF StandInv
    <1> QED BY <1>1, <1>2, <1>3, <1>4, <1>5, <1>6 DEF Pass

(* The installation enrols before it empties, and empties before it starts. *)
LEMMA InstallationStands ==
    ASSUME FoldersInv, StandInv, Installation
    PROVE  StandInv'
    <1>0. upd \in UpdateState
        BY DEF FoldersInv, TypeOK
    <1>1. ASSUME NEW keys \in SUBSET Circle, Configure(keys) PROVE StandInv'
        BY <1>1 DEF Configure, StandInv, answerVars, diskVars
    <1>2. CASE Enrol
        BY <1>2 DEF Enrol, StandInv, Begin, answerVars, diskVars
    <1>3. CASE EmptyAll
        <2>1. /\ phase = "folded" /\ upd'.pc = "place" /\ upd'.kind = "empty"
              /\ UNCHANGED <<bundle, page, phase, device, startup, pass, disk, there>>
            BY <1>3 DEF EmptyAll, Idle, answerVars, installVars, diskVars
        <2> QED BY <2>1 DEF StandInv
    <1>4. CASE Register
        <2>1. /\ phase = "emptied" /\ phase' = "stopped" /\ startup'
              /\ UNCHANGED <<bundle, page, device, upd, pass, disk>> /\ there \subseteq there'
            BY <1>4 DEF Register, answerVars
        <2> QED BY <2>1 DEF StandInv
    <1>5. CASE Stop
        BY <1>5 DEF Stop, StandInv, NoPass, Idle, diskVars
    <1>6. CASE Start
        BY <1>6 DEF Start, StandInv, Idle, answerVars, diskVars
    <1>7. CASE Uninstall
        BY <1>7 DEF Uninstall, StandInv, NoPass, Idle, diskVars
    <1> QED BY <1>1, <1>2, <1>3, <1>4, <1>5, <1>6, <1>7 DEF Installation
-----------------------------------------------------------------------------
(* What the directories hold.                                              *)

(* While a pass works, the config's folders are clean since the list's are. *)
LEMMA ListClean ==
    ASSUME ListInv, pass.pc # "no"
    PROVE  Clean(circles, upd.new)
    BY DEF ListInv, Clean, Live

(* A run is in its circle's own directory.                                 *)
LEMMA RunClean ==
    ASSUME FoldersInv, StandInv, ListInv, pass.run # NoCircle
    PROVE  /\ pass.run \in Live(pass.list) /\ Folder(pass.list[pass.run]) = pass.list[pass.run].folder
           /\ pass.list[pass.run].folder \in Directory
           /\ disk[pass.list[pass.run].folder] \subseteq {pass.run}
    <1> DEFINE c == pass.run
    <1>1. pass.pc = "run" /\ c \in Live(pass.list) /\ ~ pass.list[c].aside
        BY DEF FoldersInv, RunNamed, StandInv
    <1>2. pass.list[c] \in CircleState /\ pass.list[c].folder # NoDir
        BY <1>1 DEF FoldersInv, TypeOK, PassState, ListInv, Live
    <1> QED BY <1>1, <1>2 DEF ListInv, Clean, Folder, CircleState

(* No step makes a computer calm that is not.                              *)
LEMMA CalmBefore ==
    ASSUME Next, calm'
    PROVE  calm
    <1>1. CASE Hub
        BY <1>1 DEF Hub, HubChanges, Page, Heartbeat, Lost
    <1>2. CASE Update
        <2>1. ASSUME NEW c \in Circle, TakeIn(c) PROVE calm
            BY <2>1 DEF TakeIn, AppendCircle, Readmit, Keyed, Settle, RenameFolder, Moved, Stays, GivesDirectory
        <2>2. ASSUME NEW c \in Circle, Place(c) \/ Empty(c) PROVE calm
            BY <2>2 DEF Place, Empty, GivesDirectory
        <2>3. CASE Apply \/ Leave \/ Save \/ RefreshWatches
            BY <2>3 DEF Apply, Leave, Save, RefreshWatches
        <2> QED BY <1>2, <2>1, <2>2, <2>3 DEF Update
    <1>3. CASE Pass
        BY <1>3 DEF Pass, PassStart, PassCopy, PassEnd, PassEmpties, RunStart, RunCopies
    <1>4. CASE Installation
        BY <1>4 DEF Installation, Configure, Enrol, EmptyAll, Register, Stop, Start, Uninstall
    <1> QED BY <1>1, <1>2, <1>3, <1>4 DEF Next

(* The first state: no circle, and each bucket has its own files.          *)
LEMMA InitCalm == Init => CalmInv
    <1> SUFFICES ASSUME Init PROVE CalmInv
        OBVIOUS
    <1>1. /\ tree = [c \in Circle |-> {c}] /\ circles = [c \in Circle |-> Absent] /\ saved = circles
          /\ phase = "none" /\ upd = Idle /\ pass = NoPass
        BY DEF Init
    <1>2. Live(circles) = {}
        BY <1>1 DEF Live, Absent
    <1>3. Pure
        BY <1>1 DEF Pure
    <1>4. PlacedInv /\ ListInv /\ (Emptied => Clean(circles, upd.new))
        BY <1>1, <1>2 DEF PlacedInv, ListInv, Clean, NoPass
    <1> QED BY <1>3, <1>4 DEF CalmInv

(* A step of no consequence: the circles, the update and the pass stay, and *)
(* nothing is put into a directory.                                        *)
LEMMA NothingMoves ==
    ASSUME CalmInv, calm' => calm, UNCHANGED <<tree, circles, saved, upd, pass, disk>>,
           phase' = phase, device' = device
    PROVE  CalmInv'
    BY DEF CalmInv, Pure, PlacedInv, ListInv, Clean, Live, Folded, Emptied, Ready

(* An update takes in a circle: it is named, and one that comes is noted.   *)
LEMMA TakeInCalm ==
    ASSUME FoldersInv, StandInv, CalmInv, NEW c \in Circle, TakeIn(c), calm, calm'
    PROVE  CalmInv'
    <1>0. /\ circles \in [Circle -> CircleState] /\ upd \in UpdateState /\ upd.of[c] \in Name
          /\ disk \in [Directory -> SUBSET Item] /\ NoName \notin Name /\ NoDir \notin Directory
          /\ Apart(circles)
        BY NoneAssumption DEF FoldersInv, TypeOK, TodoNamed, TakeIn, OneDirectoryEach
    <1>1. /\ upd.pc = "circles" /\ upd # Idle
          /\ UNCHANGED <<tree, saved, pass, phase, device>>
        BY DEF TakeIn, hubVars, installVars, Idle
    <1>2. phase \in {"enrolled", "running"}
        BY <1>1 DEF StandInv, FoldersInv, TypeOK
    <1>3. phase = "enrolled" => upd.kind = "install"
        BY DEF StandInv
    <1>4. phase = "running" => upd.kind # "empty"
        BY DEF StandInv
    <1>5. /\ upd' \in UpdateState /\ upd'.pc = "circles" /\ upd'.kind = upd.kind
          /\ upd'.of = upd.of /\ upd'.todo = upd.todo \ {c} /\ upd' # Idle
        <2>1. upd' \in {[upd EXCEPT !.todo = @ \ {c}], [upd EXCEPT !.todo = @ \ {c}, !.new = @ \cup {c}]}
            BY DEF TakeIn, AppendCircle, Readmit, Keyed, Settle, RenameFolder, Taken
        <2>2. /\ upd' \in UpdateState /\ upd'.pc = "circles" /\ upd'.kind = upd.kind
              /\ upd'.of = upd.of /\ upd'.todo = upd.todo \ {c}
            <3>1. CASE upd' = [upd EXCEPT !.todo = @ \ {c}]
                BY <1>0, <1>1, <3>1 DEF UpdateState
            <3>2. CASE upd' = [upd EXCEPT !.todo = @ \ {c}, !.new = @ \cup {c}]
                BY <1>0, <1>1, <3>2 DEF UpdateState
            <3> QED BY <2>1, <3>1, <3>2
        <2> QED BY <2>2 DEF Idle
    <1>6. Pure'
        BY <1>1 DEF CalmInv, Pure
    <1>7. PlacedInv /\ ListInv /\ (Emptied => Clean(circles, upd.new))
        BY DEF CalmInv
    \* What remains to be shown, of a circle that takes its name
    <1>8. ASSUME /\ \A o \in Circle \ {c} : circles'[o] = circles[o]
                 /\ circles'[c].at = "live" => circles'[c].name # NoName
                 /\ circles'[c].at = "live" /\ circles'[c].folder = NoDir /\ phase = "running" => c \in upd'.new
                 /\ upd.new \subseteq upd'.new
                 /\ phase = "running" => Clean(circles, upd.new)'
                 /\ ListInv'
          PROVE  CalmInv'
        <2>1. PlacedInv'
            <3>1. ASSUME NEW o \in Live(circles'), phase = "enrolled"
                  PROVE  circles'[o].name # NoName \/ o \in upd'.todo \/ upd'.of[o] = Out
                <4>1. CASE o = c
                    BY <1>8, <3>1, <4>1 DEF Live
                <4>2. CASE o # c
                    BY <1>5, <1>7, <1>8, <3>1, <4>2 DEF Live, PlacedInv
                <4> QED BY <4>1, <4>2
            <3>2. ASSUME NEW o \in Live(circles'), phase = "running", circles'[o].folder = NoDir
                  PROVE  o \in upd'.new /\ circles'[o].name # NoName
                <4>1. CASE o = c
                    BY <1>8, <3>2, <4>1 DEF Live
                <4>2. CASE o # c
                    BY <1>7, <1>8, <3>2, <4>2 DEF Live, PlacedInv, Folded, Ready
                <4> QED BY <4>1, <4>2
            <3>3. Folded' => phase = "running"
                BY <1>1, <1>2, <1>3 DEF Folded, Ready
            <3> QED BY <1>1, <1>5, <3>1, <3>2, <3>3 DEF PlacedInv
        <2>2. Emptied' => phase = "running"
            BY <1>1, <1>2, <1>3, <1>5 DEF Emptied, Ready
        <2> QED BY <1>6, <1>8, <2>1, <2>2 DEF CalmInv
    <1>9. phase = "running" => Clean(circles, upd.new)
        BY <1>7 DEF Emptied, Ready
    <1>10. CASE AppendCircle(c) \/ Readmit(c)
        <2>1. /\ circles'[c].at = "live" /\ circles'[c].folder = NoDir /\ circles'[c].name = upd.of[c]
              /\ \A o \in Circle \ {c} : circles'[o] = circles[o]
              /\ upd'.new = upd.new \cup {c} /\ disk' = disk /\ pass.pc = "no"
            <3>1. CASE AppendCircle(c)
                BY <1>0, <3>1 DEF AppendCircle, Absent, GivesDirectory, diskVars, UpdateState
            <3>2. CASE Readmit(c)
                <4>1. /\ circles' = [circles EXCEPT ![c].at = "live", ![c].folder = NoDir, ![c].name = upd.of[c]]
                      /\ upd' = [upd EXCEPT !.todo = @ \ {c}, !.new = @ \cup {c}]
                      /\ disk' = disk /\ pass.pc = "no"
                    BY <3>2 DEF Readmit, GivesDirectory, diskVars
                <4>2. circles'[c] = [circles[c] EXCEPT !.at = "live", !.folder = NoDir, !.name = upd.of[c]]
                    BY <1>0, <4>1
                <4>3. /\ circles'[c].at = "live" /\ circles'[c].folder = NoDir
                      /\ circles'[c].name = upd.of[c]
                    BY <1>0, <4>2 DEF CircleState
                <4> QED BY <1>0, <4>1, <4>3 DEF UpdateState
            <3> QED BY <1>10, <3>1, <3>2
        <2>2. ListInv'
            BY <1>1, <2>1 DEF ListInv
        <2>3. phase = "running" => Clean(circles, upd.new)'
            BY <1>9, <2>1 DEF Clean, Live
        <2> QED BY <1>0, <1>8, <2>1, <2>2, <2>3
    <1>11. CASE Keyed(c)
        <2>1. UNCHANGED <<circles, disk>> /\ upd'.new = upd.new /\ upd.kind = "create"
            BY <1>0, <1>11 DEF Keyed, Taken, diskVars, UpdateState
        <2>2. phase = "running"
            BY <1>2, <1>3, <2>1
        <2>3. Clean(circles, upd.new)' /\ ListInv'
            BY <1>1, <1>7, <1>9, <2>1, <2>2 DEF Clean, ListInv, Live
        <2>4. PlacedInv'
            BY <1>1, <1>5, <1>7, <2>1, <2>2 DEF PlacedInv, Folded, Ready, Live
        <2> QED BY <1>6, <2>3, <2>4 DEF CalmInv
    \* The name alone changes
    <1>12. ASSUME circles[c].at = "live", circles' = [circles EXCEPT ![c].name = upd.of[c]], disk' = disk,
                  upd'.new = upd.new
           PROVE  CalmInv'
        <2>1. \A o \in Circle : /\ circles'[o].at = circles[o].at /\ circles'[o].folder = circles[o].folder
                                /\ circles'[o].aside = circles[o].aside
            BY <1>0, <1>12 DEF CircleState
        <2>2. circles'[c].name = upd.of[c] /\ \A o \in Circle \ {c} : circles'[o] = circles[o]
            BY <1>0, <1>12 DEF CircleState
        <2>3. Live(circles') = Live(circles)
            BY <2>1 DEF Live
        <2>4. ListInv'
            BY <1>1, <1>7, <1>12, <2>1, <2>3 DEF ListInv, Clean, Live
        <2>5. phase = "running" => Clean(circles, upd.new)'
            BY <1>9, <1>12, <2>1, <2>3 DEF Clean, Live
        <2>6. phase = "running" /\ circles'[c].folder = NoDir => c \in upd'.new
            BY <1>7, <1>12, <2>1 DEF PlacedInv, Folded, Ready, Live
        <2> QED BY <1>0, <1>8, <1>12, <2>2, <2>4, <2>5, <2>6
    <1>13. CASE Settle(c)
        <2>1. upd'.new = upd.new /\ disk' = disk
            BY <1>0, <1>13 DEF Settle, Taken, diskVars, UpdateState
        <2> QED BY <1>12, <1>13, <2>1 DEF Settle
    <1>14. CASE RenameFolder(c)
        <2> DEFINE to == Free(c, upd.of[c])
        <2>1. /\ to \in Directory /\ \A o \in Live(circles) \ {c} : circles[o].folder # to
            BY <1>0, FreeIsFree
        <2>2. /\ circles[c].at = "live" /\ circles[c].folder # NoDir /\ upd'.new = upd.new
              /\ Moved(c, to) \/ Stays(c, to)
            BY <1>0, <1>14 DEF RenameFolder, Renames, Taken, UpdateState
        <2> HIDE DEF to
        <2>3. CASE Stays(c, to)
            BY <1>12, <2>2, <2>3 DEF Stays, diskVars
        <2>4. CASE Moved(c, to)
            <3> DEFINE from == circles[c].folder
            <3>1. /\ circles' = [circles EXCEPT ![c].name = upd.of[c], ![c].folder = to]
                  /\ pass.pc = "no" /\ to # from /\ to \notin there
                BY <2>4 DEF Moved, GivesDirectory
            <3>2. /\ circles'[c] = [circles[c] EXCEPT !.name = upd.of[c], !.folder = to]
                  /\ \A o \in Circle \ {c} : circles'[o] = circles[o]
                BY <1>0, <3>1
            <3>3. /\ circles'[c].at = "live" /\ circles'[c].folder = to /\ circles'[c].name = upd.of[c]
                  /\ circles'[c].aside = circles[c].aside
                BY <1>0, <2>2, <3>2 DEF CircleState
            <3>4. from \in Directory
                BY <1>0, <2>2 DEF CircleState
            <3>5. /\ \A d \in Directory \ {to} : disk'[d] \subseteq disk[d]
                  /\ disk'[to] \subseteq disk[from]
                BY <1>0, <2>1, <2>4, <3>1, <3>4 DEF Moved, StandInv
            <3>6. ASSUME phase = "running", NEW o \in Live(circles') \ upd'.new,
                         circles'[o].folder # NoDir, ~ circles'[o].aside
                  PROVE  disk'[circles'[o].folder] \subseteq {o}
                <4>1. CASE o = c
                    <5>1. disk[from] \subseteq {c}
                        BY <1>9, <2>2, <3>3, <3>6, <4>1 DEF Clean, Live
                    <5> QED BY <3>3, <3>5, <4>1, <5>1
                <4>2. CASE o # c
                    <5>1. /\ o \in Live(circles) \ upd.new /\ circles'[o] = circles[o]
                          /\ circles[o].folder \in Directory \ {to}
                        BY <1>0, <2>1, <2>2, <3>2, <3>6, <4>2 DEF Live, CircleState
                    <5> QED BY <1>9, <3>5, <3>6, <5>1 DEF Clean
                <4> QED BY <4>1, <4>2
            <3>7. phase = "running" => Clean(circles, upd.new)'
                BY <3>6 DEF Clean, Live
            <3>8. ListInv'
                BY <1>1, <3>1 DEF ListInv
            <3> QED BY <1>0, <1>8, <2>1, <2>2, <3>2, <3>3, <3>7, <3>8
        <2> QED BY <2>2, <2>3, <2>4
    <1> QED BY <1>10, <1>11, <1>13, <1>14 DEF TakeIn

(* A placed circle's directory is its own, and still to be emptied unless   *)
(* the installer empties all.                                              *)
LEMMA PlaceCalm ==
    ASSUME FoldersInv, StandInv, CalmInv, NEW c \in Circle, Place(c), calm, calm'
    PROVE  CalmInv'
    <1> DEFINE to == Free(c, circles[c].name)
    <1>0. /\ circles \in [Circle -> CircleState] /\ upd \in UpdateState
          /\ circles[c].at = "live" /\ circles[c].folder = NoDir /\ circles[c].name \in Name
          /\ to \in Directory /\ NoDir \notin Directory
        <2>1. /\ circles \in [Circle -> CircleState] /\ upd \in UpdateState
              /\ circles[c].at = "live" /\ circles[c].folder = NoDir /\ circles[c].name \in Name
            BY DEF FoldersInv, TypeOK, Place, FirstUnplaced, Unplaced, Live, CircleState
        <2> QED BY <2>1, FreeIsFree, NoneAssumption
    <1>1. /\ upd.pc = "place" /\ pass.pc = "no"
          /\ circles' = [circles EXCEPT ![c].folder = to]
          /\ upd' = upd \/ upd' = [upd EXCEPT !.new = @ \cup {c}]
          /\ UNCHANGED <<tree, saved, pass, phase, device, disk>>
        BY DEF Place, GivesDirectory, hubVars, installVars, diskVars
    <1> HIDE DEF to
    <1>2. /\ upd'.pc = "place" /\ upd'.kind = upd.kind /\ upd'.todo = upd.todo /\ upd'.of = upd.of
          /\ upd' # Idle /\ upd # Idle /\ upd.new \subseteq upd'.new
        BY <1>0, <1>1 DEF UpdateState, Idle
    <1>3. /\ circles'[c].at = "live" /\ circles'[c].folder = to /\ circles'[c].name = circles[c].name
          /\ \A o \in Circle \ {c} : circles'[o] = circles[o]
        BY <1>0, <1>1 DEF CircleState
    <1>4. Live(circles') = Live(circles)
        BY <1>0, <1>3 DEF Live
    <1>5. PlacedInv /\ (Emptied => Clean(circles, upd.new))
        BY DEF CalmInv
    <1>6. PlacedInv'
        <2>1. ASSUME phase = "enrolled", NEW o \in Live(circles) PROVE circles'[o].name # NoName
            BY <1>0, <1>1, <1>3, <1>5, <2>1, NoneAssumption DEF PlacedInv, Live
        <2>2. ASSUME Folded, NEW o \in Live(circles), circles'[o].folder = NoDir
              PROVE  o \in upd'.new /\ circles'[o].name # NoName
            BY <1>0, <1>2, <1>3, <1>5, <2>2 DEF PlacedInv, Live
        <2> QED BY <1>1, <1>2, <1>4, <2>1, <2>2 DEF PlacedInv, Folded, Ready
    <1>7. ASSUME Emptied PROVE Clean(circles, upd.new)'
        <2>1. Folded
            <3>1. upd.kind = "empty" => phase = "folded"
                BY <1>1, <1>2 DEF StandInv, FoldersInv, TypeOK
            <3> QED BY <1>7, <3>1 DEF Emptied, Folded, Ready
        <2>2. c \in upd'.new
            BY <1>0, <1>2, <1>5, <2>1 DEF PlacedInv, Live
        <2> QED BY <1>1, <1>2, <1>3, <1>4, <1>5, <1>7, <2>2 DEF Clean, Live
    <1>8. Pure' /\ ListInv'
        BY <1>1 DEF CalmInv, Pure, ListInv
    <1> QED BY <1>1, <1>2, <1>6, <1>7, <1>8 DEF CalmInv, Emptied, Ready

(* Emptying one directory touches no other folder's.                       *)
LEMMA SetAsideCleans ==
    ASSUME FoldersInv, NEW c \in Circle, circles[c].at = "live", circles[c].folder # NoDir, SetAside(c)
    PROVE  /\ \A o \in Circle : /\ circles'[o].at = circles[o].at /\ circles'[o].name = circles[o].name
                                /\ circles'[o].folder = circles[o].folder
                                /\ o # c => circles'[o].aside = circles[o].aside
           /\ \A d \in Directory : disk'[d] \subseteq disk[d]
           /\ \A d \in Directory \ {circles[c].folder} : disk'[d] = disk[d]
           /\ ~ circles'[c].aside => disk'[circles[c].folder] = {}
           /\ there' = there
    <1>1. /\ circles \in [Circle -> CircleState] /\ disk \in [Directory -> SUBSET Item]
          /\ circles[c].folder \in Directory
        BY DEF FoldersInv, TypeOK, CircleState
    <1> DEFINE d == circles[c].folder
    <1>2. PICK aside \in BOOLEAN, left \in SUBSET disk[d] :
             /\ circles' = [circles EXCEPT ![c].aside = aside] /\ disk' = [disk EXCEPT ![d] = left]
             /\ ~ aside => left = {}
        <2>1. Folder(circles[c]) = d
            BY DEF Folder
        <2> QED BY <2>1 DEF SetAside
    <1>3. there' = there
        BY DEF SetAside
    <1>4. /\ circles'[c] = [circles[c] EXCEPT !.aside = aside]
          /\ \A o \in Circle \ {c} : circles'[o] = circles[o]
        BY <1>1, <1>2
    <1>5. /\ circles'[c].at = circles[c].at /\ circles'[c].name = circles[c].name
          /\ circles'[c].folder = circles[c].folder /\ circles'[c].aside = aside
        BY <1>1, <1>4 DEF CircleState
    <1>6. /\ disk'[d] = left /\ \A e \in Directory \ {d} : disk'[e] = disk[e]
        BY <1>1, <1>2
    <1> QED BY <1>2, <1>3, <1>4, <1>5, <1>6

(* emptyNewFolders has cleaned the directory, or noted that it has not.     *)
LEMMA EmptyCalm ==
    ASSUME FoldersInv, StandInv, CalmInv, NEW c \in Circle, Empty(c), calm, calm'
    PROVE  CalmInv'
    <1>0. /\ circles \in [Circle -> CircleState] /\ upd \in UpdateState
          /\ upd.pc = "place" /\ Unplaced = {} /\ c \in upd.new /\ circles[c].at = "live" /\ SetAside(c)
          /\ upd' = [upd EXCEPT !.new = @ \ {c}]
          /\ UNCHANGED <<tree, saved, pass, phase, device>>
        BY DEF FoldersInv, TypeOK, Empty, Live, hubVars, installVars
    <1>1. /\ upd'.pc = "place" /\ upd'.kind = upd.kind /\ upd'.todo = upd.todo /\ upd'.of = upd.of
          /\ upd'.new = upd.new \ {c} /\ upd' # Idle /\ upd # Idle
        BY <1>0 DEF UpdateState, Idle
    <1>2. PlacedInv /\ ListInv /\ (Emptied => Clean(circles, upd.new))
        BY DEF CalmInv
    <1>3. pass.pc = "no"
        BY <1>0, <1>2 DEF ListInv
    <1>4. \A o \in Circle : circles'[o].at = circles[o].at /\ circles'[o].name = circles[o].name
                            /\ circles'[o].folder = circles[o].folder
        <2>1. PICK aside : circles' = [circles EXCEPT ![c].aside = aside]
            BY <1>0 DEF SetAside
        <2> QED BY <1>0, <2>1 DEF CircleState
    <1>5. Live(circles') = Live(circles)
        BY <1>4 DEF Live
    <1>6. Folded => \A o \in Live(circles) : circles[o].folder # NoDir
        BY <1>0, <1>2 DEF PlacedInv, Unplaced
    <1>7. PlacedInv'
        <2>1. phase = "enrolled" => \A o \in Live(circles) : circles'[o].name # NoName
            BY <1>0, <1>2, <1>4 DEF PlacedInv, Live
        <2>2. Folded => \A o \in Live(circles) : circles'[o].folder # NoDir
            BY <1>4, <1>6 DEF Live
        <2> QED BY <1>0, <1>1, <1>5, <2>1, <2>2 DEF PlacedInv, Folded, Ready
    <1>8. ASSUME Emptied PROVE Clean(circles, upd.new)'
        <2>1. Folded
            <3>1. upd.kind = "empty" => phase = "folded"
                BY <1>0, <1>1 DEF StandInv, FoldersInv, TypeOK
            <3> QED BY <1>8, <3>1 DEF Emptied, Folded, Ready
        <2>2. circles[c].folder # NoDir
            BY <1>0, <1>6, <2>1 DEF Live
        <2>3. ASSUME NEW o \in Live(circles) \ upd'.new, circles'[o].folder # NoDir, ~ circles'[o].aside
              PROVE  disk'[circles'[o].folder] \subseteq {o}
            <3>1. CASE o = c
                BY <1>0, <1>4, <2>2, <2>3, <3>1, SetAsideCleans
            <3>2. CASE o # c
                <4>1. /\ o \in Live(circles) \ upd.new /\ circles[o].folder # NoDir /\ ~ circles[o].aside
                      /\ circles'[o].folder = circles[o].folder
                    BY <1>0, <1>1, <1>4, <2>2, <2>3, <3>2, SetAsideCleans DEF Live
                <4>2. circles[o].folder \in Directory
                    BY <1>0, <4>1 DEF Live, CircleState
                <4>3. disk'[circles[o].folder] \subseteq disk[circles[o].folder]
                    BY <1>0, <2>2, <4>2, SetAsideCleans
                <4> QED BY <1>2, <1>8, <4>1, <4>3 DEF Clean
            <3> QED BY <3>1, <3>2
        <2> QED BY <1>5, <2>3 DEF Clean
    <1>9. Pure' /\ ListInv'
        BY <1>0, <1>3 DEF CalmInv, Pure, ListInv
    <1> QED BY <1>0, <1>1, <1>7, <1>8, <1>9 DEF CalmInv, Emptied, Ready

(* Who leaves keeps the directory, and no longer counts.                   *)
LEMMA LeaveCalm ==
    ASSUME FoldersInv, StandInv, CalmInv, Leave, calm
    PROVE  CalmInv'
    <1>0. /\ circles \in [Circle -> CircleState] /\ upd \in UpdateState
          /\ upd.pc = "circles" /\ upd.todo = {} /\ upd' = [upd EXCEPT !.pc = "place"]
          /\ UNCHANGED <<tree, saved, pass, phase, device, disk, calm>>
        BY DEF FoldersInv, TypeOK, Leave, hubVars, installVars, diskVars
    <1>1. /\ upd'.pc = "place" /\ upd'.kind = upd.kind /\ upd'.new = upd.new /\ upd' # Idle /\ upd # Idle
        BY <1>0 DEF UpdateState, Idle
    <1>2. PlacedInv /\ ListInv /\ (Emptied => Clean(circles, upd.new))
        BY DEF CalmInv
    <1>3. \A c \in Circle : circles'[c] = circles[c] \/ circles'[c] = [circles[c] EXCEPT !.at = "removed"]
        BY DEF Leave
    <1>4. /\ \A c \in Circle : /\ circles'[c].folder = circles[c].folder /\ circles'[c].name = circles[c].name
                               /\ circles'[c].aside = circles[c].aside
                               /\ circles[c].at # "absent" => circles'[c].at # "absent"
          /\ Live(circles') \subseteq Live(circles)
        <2>1. ASSUME NEW c \in Circle
              PROVE  /\ circles'[c].folder = circles[c].folder /\ circles'[c].name = circles[c].name
                     /\ circles'[c].aside = circles[c].aside
                     /\ circles[c].at # "absent" => circles'[c].at # "absent"
                     /\ circles'[c].at = "live" => circles[c].at = "live"
            <3>1. circles[c] \in CircleState
                BY <1>0
            <3>2. CASE circles'[c] = circles[c]
                BY <3>2
            <3>3. CASE circles'[c] = [circles[c] EXCEPT !.at = "removed"]
                BY <3>1, <3>3 DEF CircleState
            <3> QED BY <1>3, <3>2, <3>3
        <2> QED BY <2>1 DEF Live
    <1>5. phase = "enrolled" => \A c \in Live(circles') : circles[c].name # NoName
        <2>1. ASSUME phase = "enrolled", NEW c \in Live(circles'), circles[c].name = NoName
              PROVE  FALSE
            <3>1. c \in Live(circles) /\ upd.of[c] = Out /\ upd.kind = "install"
                BY <1>0, <1>2, <1>4, <2>1 DEF PlacedInv, StandInv
            <3>2. circles'[c] = [circles[c] EXCEPT !.at = "removed"]
                BY <2>1, <3>1 DEF Leave, Live
            <3> QED BY <1>0, <2>1, <3>2 DEF Live, CircleState
        <2> QED BY <2>1
    <1>6. PlacedInv'
        <2>1. phase = "enrolled" => \A c \in Live(circles') : circles'[c].name # NoName
            BY <1>4, <1>5 DEF Live
        <2>2. Folded => \A c \in Live(circles') : circles'[c].folder = NoDir =>
                            c \in upd'.new /\ circles'[c].name # NoName
            BY <1>1, <1>2, <1>4 DEF PlacedInv, Live
        <2> QED BY <1>0, <1>1, <2>1, <2>2 DEF PlacedInv, Folded, Ready
    <1>7. ListInv'
        <2>1. SUFFICES ASSUME pass.pc # "no" PROVE ListInv'
            BY <1>0 DEF ListInv
        <2>2. \A c \in Live(pass.list) : /\ circles'[c].at # "absent" /\ pass.list[c].folder # NoDir
                                         /\ circles'[c].folder = pass.list[c].folder
                                         /\ circles'[c].aside = pass.list[c].aside
            BY <1>2, <1>4, <2>1 DEF ListInv, Live
        <2>3. Clean(pass.list, {})'
            BY <1>0, <1>2, <2>1 DEF ListInv, Clean, Live
        <2> QED BY <1>0, <1>1, <1>2, <1>4, <2>1, <2>2, <2>3 DEF ListInv
    <1>8. Emptied => Clean(circles, upd.new)'
        <2>1. SUFFICES ASSUME Clean(circles, upd.new) PROVE Clean(circles, upd.new)'
            BY <1>2
        <2>2. \A c \in Live(circles') : /\ c \in Live(circles) /\ circles'[c].folder = circles[c].folder
                                        /\ circles'[c].aside = circles[c].aside
            BY <1>4 DEF Live
        <2> QED BY <1>0, <1>1, <2>1, <2>2 DEF Clean
    <1>9. Pure'
        BY <1>0 DEF CalmInv, Pure
    <1> QED BY <1>0, <1>1, <1>6, <1>7, <1>8, <1>9 DEF CalmInv, Emptied, Ready

(* The save: nothing is left to be placed or emptied.                      *)
LEMMA SaveCalm ==
    ASSUME FoldersInv, StandInv, CalmInv, Save, calm, calm'
    PROVE  CalmInv'
    <1>0. /\ upd.pc = "place" /\ Unplaced = {} /\ upd.new \cap Live(circles) = {}
          /\ upd' = Idle /\ upd # Idle /\ saved' = circles
          /\ UNCHANGED <<tree, circles, pass, device, disk>>
        BY DEF Save, hubVars, diskVars, Idle
    <1>1. Idle.new = {} /\ Idle.kind = "bundle"
        BY DEF Idle
    <1>2. PlacedInv /\ ListInv /\ (Emptied => Clean(circles, upd.new))
        BY DEF CalmInv
    <1>3. phase \in {"enrolled", "folded", "running"}
        BY <1>0 DEF StandInv, FoldersInv, TypeOK
    <1>4. Clean(circles, upd.new) => Clean(circles, {})
        BY <1>0 DEF Clean
    <1>5. /\ phase = "enrolled" => phase' = "folded"
          /\ phase = "folded" => phase' = "emptied" /\ upd.kind = "empty"
          /\ phase = "running" => phase' = "running"
        <2>1. /\ upd.kind = "install" => phase' = "folded"
              /\ upd.kind = "empty" => phase' = "emptied"
              /\ upd.kind \in {"bundle", "join", "create"} => phase' = phase
            BY DEF Save
        <2> QED BY <1>0, <2>1 DEF StandInv
    <1>6. \A c \in Live(circles) : circles[c].folder # NoDir
        <2>1. CASE phase = "enrolled"
            BY <1>0, <1>2, <2>1 DEF PlacedInv, Unplaced
        <2>2. CASE phase # "enrolled"
            BY <1>0, <1>2, <1>3, <2>2 DEF PlacedInv, Folded, Ready
        <2> QED BY <2>1, <2>2
    <1>7. PlacedInv'
        <2>1. phase' # "enrolled"
            BY <1>3, <1>5
        <2> QED BY <1>0, <1>6, <2>1 DEF PlacedInv, Live
    <1>8. ListInv'
        BY <1>0, <1>1, <1>2 DEF ListInv, Clean, Live
    <1>9. Emptied' => Clean(circles, upd.new)'
        <2>1. Emptied' => Emptied
            BY <1>0, <1>1, <1>3, <1>5 DEF Emptied, Ready
        <2>2. Emptied => Clean(circles, {})
            BY <1>2, <1>4
        <2>3. Clean(circles, {}) => Clean(circles, upd.new)'
            BY <1>0, <1>1 DEF Clean, Live
        <2> QED BY <2>1, <2>2, <2>3
    <1>10. Pure'
        BY <1>0 DEF CalmInv, Pure
    <1> QED BY <1>7, <1>8, <1>9, <1>10 DEF CalmInv

(* The pass: its list is the config's, its runs work on clean directories. *)
LEMMA PassCalm ==
    ASSUME FoldersInv, StandInv, CalmInv, Pass, calm
    PROVE  CalmInv'
    <1>0. /\ circles \in [Circle -> CircleState] /\ upd \in UpdateState /\ pass \in PassState
          /\ pass.list \in [Circle -> CircleState] /\ Apart(circles) /\ Apart(pass.list)
          /\ disk \in [Directory -> SUBSET Item] /\ tree \in [Circle -> SUBSET Item]
          /\ NoCircle \notin Circle
        BY NoneAssumption DEF FoldersInv, TypeOK, OneDirectoryEach, PassState
    <1>a. UNCHANGED <<phase, device, upd, calm>>
        BY DEF Pass, PassStart, PassCopy, PassEnd, PassEmpties, RunStart, RunCopies, installVars
    <1>b. phase = "running"
        BY DEF Pass, PassStart, PassCopy, PassEnd, PassEmpties, RunStart, RunCopies, StandInv,
               FoldersInv, RunNamed
    <1>c. Pure /\ PlacedInv /\ ListInv /\ Clean(circles, upd.new)
        BY <1>b DEF CalmInv, Emptied, Ready
    <1>d. \A c \in Live(circles) : circles[c].folder = NoDir => c \in upd.new
        BY <1>b, <1>c DEF PlacedInv, Folded, Ready
    \* What a step of a pass that leaves the config alone has to show
    <1>e. ASSUME UNCHANGED <<tree, circles, saved, disk>>, ListInv' PROVE CalmInv'
        BY <1>a, <1>c, <1>e DEF CalmInv, Pure, PlacedInv, Folded, Ready, Clean, Live
    <1>1. CASE PassStart
        <2>1. /\ upd = Idle /\ pass'.list = circles /\ UNCHANGED <<tree, circles, saved, disk>>
            BY <1>1 DEF PassStart, NoPass, hubVars, diskVars
        <2>2. upd.new = {}
            BY <2>1 DEF Idle
        <2>3. ListInv'
            BY <1>a, <1>c, <1>d, <2>1, <2>2 DEF ListInv, Clean, Live
        <2> QED BY <1>e, <2>1, <2>3
    <1>2. CASE PassCopy
        <2> DEFINE now == [c \in Circle |-> IF pass.list[c].at = "absent" THEN Absent ELSE circles[c]]
        <2>1. /\ pass.pc # "no" /\ UNCHANGED <<tree, circles, saved, disk>>
              /\ pass'.list = now \/ pass'.list = pass.list
            BY <1>0, <1>2 DEF PassCopy, PassState, hubVars, diskVars
        <2>2. CASE pass'.list = pass.list
            <3>1. ListInv'
                BY <1>a, <1>c, <2>1, <2>2 DEF ListInv, Clean, Live
            <3> QED BY <1>e, <2>1, <3>1
        <2>3. CASE pass'.list = now
            <3>1. \A c \in Circle : /\ pass.list[c].at = "absent" => pass'.list[c] = Absent
                                    /\ pass.list[c].at # "absent" => pass'.list[c] = circles[c]
                BY <2>3
            <3>2. Live(pass'.list) = Live(circles)
                <4>1. \A c \in Live(circles) : pass'.list[c] = circles[c]
                    BY <1>c, <2>1, <3>1 DEF ListInv, Live
                <4>2. \A c \in Live(pass'.list) : pass'.list[c] = circles[c]
                    BY <3>1 DEF Live, Absent
                <4> QED BY <4>1, <4>2 DEF Live
            <3>3. \A c \in Live(circles) : pass'.list[c] = circles[c]
                BY <1>c, <2>1, <3>1 DEF ListInv, Live
            <3>4. upd.new = {}
                BY <1>c, <2>1 DEF ListInv
            <3>5. Clean(pass.list, {})'
                BY <1>c, <2>1, <3>2, <3>3, <3>4 DEF Clean
            <3>6. ListInv'
                BY <1>a, <1>c, <1>d, <2>1, <3>2, <3>3, <3>4, <3>5 DEF ListInv, Live
            <3> QED BY <1>e, <2>1, <3>6
        <2> QED BY <2>1, <2>2, <2>3
    <1>3. CASE PassEnd
        <2>1. UNCHANGED <<tree, circles, saved, disk>> /\ pass'.pc = "no"
            BY <1>3 DEF PassEnd, NoPass, hubVars, diskVars
        <2> QED BY <1>e, <2>1 DEF ListInv
    <1>4. ASSUME NEW c \in Circle, PassEmpties(c) PROVE CalmInv'
        <2>1. /\ pass.pc # "no" /\ upd = Idle /\ c \in Live(pass.list) /\ pass.list[c].aside
              /\ saved' = circles' /\ tree' = tree
              /\ \/ circles[c].at = "live" /\ SetAside(c)
                 \/ circles[c].at # "live" /\ UNCHANGED <<circles, diskVars>>
            BY <1>4 DEF PassEmpties, StandInv, hubVars
        <2>2. PICK todo \in SUBSET Circle :
                 pass' = [pass EXCEPT !.list[c].aside = circles'[c].aside, !.todo = todo, !.run = NoCircle]
            BY <1>0, <1>4 DEF PassEmpties, PassState
        <2>3. /\ pass'.pc = pass.pc
              /\ \A o \in Circle : /\ pass'.list[o].at = pass.list[o].at
                                   /\ pass'.list[o].folder = pass.list[o].folder
                                   /\ o # c => pass'.list[o].aside = pass.list[o].aside
              /\ pass'.list[c].aside = circles'[c].aside
            BY <1>0, <2>2 DEF PassState, CircleState
        <2>4. Live(pass'.list) = Live(pass.list)
            BY <2>3 DEF Live
        <2>5. /\ circles[c].folder = pass.list[c].folder /\ circles[c].aside
              /\ pass.list[c].folder # NoDir /\ upd.new = {}
            BY <1>c, <2>1 DEF ListInv
        <2>6. /\ \A o \in Circle : /\ circles'[o].at = circles[o].at /\ circles'[o].name = circles[o].name
                                   /\ circles'[o].folder = circles[o].folder
                                   /\ o # c => circles'[o].aside = circles[o].aside
              /\ \A d \in Directory : disk'[d] \subseteq disk[d]
              /\ ~ circles'[c].aside => disk'[circles[c].folder] = {}
            <3>1. CASE circles[c].at = "live" /\ SetAside(c)
                BY <2>5, <3>1, SetAsideCleans
            <3>2. CASE UNCHANGED <<circles, diskVars>>
                BY <2>5, <3>2 DEF diskVars
            <3> QED BY <2>1, <3>1, <3>2
        <2>7. Live(circles') = Live(circles)
            BY <2>6 DEF Live
        <2>8. ASSUME NEW o \in Live(pass.list), ~ pass'.list[o].aside
              PROVE  disk'[pass'.list[o].folder] \subseteq {o}
            <3>1. pass.list[o].folder \in Directory
                BY <1>0, <1>c, <2>1, <2>8 DEF ListInv, Live, CircleState
            <3>2. CASE o = c
                BY <2>3, <2>5, <2>6, <2>8, <3>2 DEF Live
            <3>3. CASE o # c
                <4>1. disk[pass.list[o].folder] \subseteq {o}
                    BY <1>c, <2>1, <2>3, <2>8, <3>3 DEF ListInv, Clean, Live
                <4> QED BY <2>3, <2>6, <2>8, <3>1, <4>1 DEF Live
            <3> QED BY <3>2, <3>3
        <2>9. Clean(pass.list, {})'
            BY <2>4, <2>8 DEF Clean
        <2>10. \A o \in Live(pass.list) : /\ circles'[o].at # "absent" /\ pass'.list[o].folder # NoDir
                                          /\ circles'[o].folder = pass'.list[o].folder
                                          /\ circles'[o].aside = pass'.list[o].aside
            <3>1. \A o \in Live(pass.list) : /\ circles[o].at # "absent" /\ pass.list[o].folder # NoDir
                                             /\ circles[o].folder = pass.list[o].folder
                                             /\ circles[o].aside = pass.list[o].aside
                BY <1>c, <2>1 DEF ListInv
            <3> QED BY <2>3, <2>6, <3>1 DEF Live
        <2>11. ListInv'
            BY <1>a, <1>c, <2>1, <2>4, <2>5, <2>7, <2>9, <2>10 DEF ListInv
        <2>12. PlacedInv'
            BY <1>a, <1>b, <1>d, <2>1, <2>5, <2>6, <2>7 DEF PlacedInv, Live
        <2>13. Clean(circles, upd.new)'
            <3>1. pass'.pc # "no"
                BY <2>1, <2>3
            <3> QED BY <2>11, <3>1 DEF ListInv, Clean, Live
        <2> QED BY <1>c, <2>1, <2>11, <2>12, <2>13 DEF CalmInv, Pure
    <1>5. ASSUME NEW c \in Circle, RunStart(c) PROVE CalmInv'
        <2>1. /\ UNCHANGED <<tree, circles, saved, disk>> /\ pass'.list = pass.list /\ pass'.pc = pass.pc
            BY <1>0, <1>5 DEF RunStart, PassState, hubVars
        <2>2. ListInv'
            BY <1>a, <1>c, <2>1 DEF ListInv, Clean, Live
        <2> QED BY <1>e, <2>1, <2>2
    <1>6. ASSUME NEW i \in Item, RunCopies(i) PROVE CalmInv'
        <2> DEFINE c == pass.run
                   d == pass.list[c].folder
        <2>1. /\ c # NoCircle /\ UNCHANGED <<circles, saved, pass>> /\ pass.pc = "run"
            BY <1>6 DEF RunCopies, FoldersInv, RunNamed
        <2>2. /\ c \in Live(pass.list) /\ Folder(pass.list[c]) = d /\ d \in Directory /\ disk[d] \subseteq {c}
            BY <1>c, <2>1, RunClean
        <2>3. \/ i \in disk[d] /\ tree' = [tree EXCEPT ![c] = @ \cup {i}] /\ disk' = disk
              \/ i \in tree[c] /\ disk' = [disk EXCEPT ![d] = @ \cup {i}] /\ tree' = tree
            BY <1>6, <2>2 DEF RunCopies, diskVars
        <2>4. c \in Circle /\ tree[c] \subseteq {c}
            BY <1>c, <2>2 DEF Pure, Live
        <2> HIDE DEF c, d
        <2>5. i = c
            BY <2>2, <2>3, <2>4
        <2>6. Pure'
            BY <1>0, <1>c, <2>3, <2>4, <2>5 DEF Pure
        <2>7. disk'[d] \subseteq {c} /\ \A e \in Directory \ {d} : disk'[e] = disk[e]
            BY <1>0, <2>2, <2>3, <2>5
        <2>8. ASSUME NEW o \in Live(pass.list), ~ pass.list[o].aside
              PROVE  disk'[pass.list[o].folder] \subseteq {o}
            <3>1. pass.list[o].folder # NoDir /\ pass.list[o].folder \in Directory
                BY <1>0, <1>c, <2>1, <2>8 DEF ListInv, Live, CircleState
            <3>2. CASE o = c
                BY <2>7, <3>2 DEF d
            <3>3. CASE o # c
                <4>1. pass.list[o].folder # d
                    BY <1>0, <2>2, <2>8, <3>1, <3>3 DEF Apart, d
                <4>2. disk[pass.list[o].folder] \subseteq {o}
                    BY <1>c, <2>1, <2>8, <3>1 DEF ListInv, Clean
                <4> QED BY <2>7, <3>1, <4>1, <4>2
            <3> QED BY <3>2, <3>3
        <2>9. Clean(pass.list, {})'
            BY <2>1, <2>8 DEF Clean, Live
        <2>10. ListInv'
            BY <1>a, <1>c, <2>1, <2>9 DEF ListInv
        <2>11. Clean(circles, upd.new)'
            BY <2>1, <2>10 DEF ListInv, Clean, Live
        <2>12. PlacedInv'
            BY <1>a, <1>c, <2>1 DEF PlacedInv, Folded, Ready
        <2> QED BY <2>6, <2>10, <2>11, <2>12 DEF CalmInv
    <1> QED BY <1>1, <1>2, <1>3, <1>4, <1>5, <1>6 DEF Pass

(* The installation: nothing runs before every directory is emptied.       *)
LEMMA InstallationCalm ==
    ASSUME FoldersInv, StandInv, CalmInv, Installation, calm, calm'
    PROVE  CalmInv'
    <1>0. Pure /\ PlacedInv /\ ListInv /\ (Emptied => Clean(circles, upd.new)) /\ upd \in UpdateState
        BY DEF CalmInv, FoldersInv, TypeOK
    <1>a. tree' = tree
        BY DEF Installation, Configure, Enrol, EmptyAll, Register, Stop, Start, Uninstall, hubVars
    <1>b. Pure'
        BY <1>0, <1>a DEF Pure
    <1>c. Idle.new = {} /\ Idle.kind = "bundle" /\ Idle.pc = "idle" /\ NoPass.pc = "no"
        BY DEF Idle, NoPass
    <1>1. ASSUME NEW keys \in SUBSET Circle, Configure(keys) PROVE CalmInv'
        <2>1. /\ phase \in {"none", "stopped"} /\ phase' = "configured" /\ saved' = circles'
              /\ UNCHANGED <<device, upd, pass>> /\ upd = Idle /\ pass.pc = "no"
            BY <1>1 DEF Configure, StandInv
        <2>2. ~ Folded' /\ ~ Emptied'
            BY <1>c, <2>1 DEF Folded, Emptied, Ready
        <2> QED BY <1>b, <2>1, <2>2 DEF CalmInv, PlacedInv, ListInv
    <1>2. CASE Enrol
        <2>1. /\ phase = "configured" /\ phase' = "enrolled"
              /\ upd' = Begin([kind |-> "install", of |-> hub])
              /\ UNCHANGED <<circles, saved, pass>> /\ pass.pc = "no"
            BY <1>2 DEF Enrol, StandInv
        <2>2. upd'.pc = "circles" /\ upd'.kind = "install" /\ upd'.todo = {c \in Circle : upd'.of[c] # Out}
            BY <2>1 DEF Begin
        <2>3. ~ Folded' /\ ~ Emptied' /\ upd' # Idle
            BY <1>c, <2>1, <2>2 DEF Folded, Emptied, Ready
        <2>4. PlacedInv'
            BY <2>2, <2>3 DEF PlacedInv, Live
        <2> QED BY <1>b, <2>1, <2>3, <2>4 DEF CalmInv, ListInv
    <1>3. CASE EmptyAll
        <2>1. /\ phase = "folded" /\ upd = Idle /\ upd'.new = Live(circles) /\ upd'.pc = "place"
              /\ UNCHANGED <<phase, device, circles, saved, pass, disk>> /\ pass.pc = "no"
            BY <1>3 DEF EmptyAll, StandInv, Idle, installVars, diskVars
        <2>2. \A c \in Live(circles) : circles[c].folder # NoDir
            BY <1>0, <1>c, <2>1 DEF PlacedInv, Folded, Ready
        <2>3. PlacedInv'
            BY <1>c, <2>1, <2>2 DEF PlacedInv, Live
        <2>4. Clean(circles, upd.new)'
            BY <2>1 DEF Clean, Live
        <2> QED BY <1>b, <2>1, <2>3, <2>4 DEF CalmInv, ListInv
    <1>4. CASE Register
        <2>1. /\ phase = "emptied" /\ phase' = "stopped" /\ UNCHANGED <<circles, saved, upd, pass, disk>>
              /\ pass.pc = "no"
            BY <1>4 DEF Register, StandInv
        <2>2. PlacedInv' /\ Clean(circles, upd.new)'
            BY <1>0, <2>1 DEF PlacedInv, Folded, Ready, Emptied, Clean, Live
        <2> QED BY <1>b, <2>1, <2>2 DEF CalmInv, ListInv
    <1>5. CASE Stop
        <2>1. /\ phase' = "stopped" /\ circles' = saved /\ upd' = Idle /\ pass' = NoPass /\ upd = Idle
              /\ UNCHANGED <<device, saved, disk>> /\ phase # "folded"
            BY <1>5 DEF Stop, diskVars
        <2>7. device => phase \in {"emptied", "running"}
            BY <1>5, <1>c, <2>1 DEF Stop, StandInv, FoldersInv, TypeOK
        <2>2. circles' = circles
            BY <1>0, <2>1 DEF PlacedInv
        <2>3. Folded' => Folded
            BY <2>1, <2>7 DEF Folded, Ready
        <2>4. Emptied' => Emptied
            BY <1>c, <2>1, <2>7 DEF Emptied, Ready
        <2>5. PlacedInv'
            BY <1>0, <2>1, <2>2, <2>3 DEF PlacedInv, Live
        <2>6. Emptied' => Clean(circles, upd.new)'
            BY <1>0, <2>1, <2>2, <2>4 DEF Clean, Live
        <2> QED BY <1>b, <1>c, <2>1, <2>5, <2>6 DEF CalmInv, ListInv
    <1>6. CASE Start
        <2>1. /\ phase = "stopped" /\ device /\ phase' = "running" /\ circles' = saved /\ upd = Idle
              /\ UNCHANGED <<device, saved, upd, pass, disk>> /\ pass.pc = "no"
            BY <1>6 DEF Start, StandInv, diskVars
        <2>2. circles' = circles
            BY <1>0, <2>1 DEF PlacedInv
        <2>3. Folded /\ Emptied
            BY <2>1 DEF Folded, Emptied, Ready
        <2>4. PlacedInv' /\ Clean(circles, upd.new)'
            BY <1>0, <2>1, <2>2, <2>3 DEF PlacedInv, Clean, Live
        <2> QED BY <1>b, <2>1, <2>4 DEF CalmInv, ListInv
    <1>7. CASE Uninstall
        <2>1. /\ phase' = "none" /\ circles' = [c \in Circle |-> Absent] /\ saved' = circles'
              /\ pass' = NoPass
            BY <1>7 DEF Uninstall
        <2>2. Live(circles') = {}
            BY <2>1 DEF Live, Absent
        <2>3. PlacedInv' /\ Clean(circles, upd.new)'
            BY <2>1, <2>2 DEF PlacedInv, Clean
        <2> QED BY <1>b, <1>c, <2>1, <2>3 DEF CalmInv, ListInv
    <1> QED BY <1>1, <1>2, <1>3, <1>4, <1>5, <1>6, <1>7 DEF Installation

(* An answer is begun on, or the directories are made that are missing.    *)
LEMMA ApplyCalm ==
    ASSUME FoldersInv, StandInv, CalmInv, Apply \/ RefreshWatches, calm
    PROVE  CalmInv'
    <1>1. CASE Apply
        <2>1. /\ phase = "running" /\ upd = Idle /\ UNCHANGED <<tree, circles, saved, pass, disk, phase, device, calm>>
            BY <1>1 DEF Apply, hubVars, installVars, diskVars
        <2>2. upd'.new = {} /\ upd'.pc = "circles" /\ upd.new = {}
            BY <1>1, <2>1 DEF Apply, Begin, Idle
        <2>3. Pure /\ PlacedInv /\ ListInv /\ Clean(circles, upd.new)
            BY <2>1 DEF CalmInv, Emptied, Ready
        <2>4. Pure' /\ ListInv' /\ Clean(circles, upd.new)'
            BY <2>1, <2>2, <2>3 DEF Pure, ListInv, Clean, Live
        <2>5. PlacedInv'
            BY <2>1, <2>2, <2>3 DEF PlacedInv, Folded, Ready, Live, Idle
        <2> QED BY <2>4, <2>5 DEF CalmInv
    <1>2. CASE RefreshWatches
        BY <1>2, NothingMoves DEF RefreshWatches, hubVars, installVars
    <1> QED BY <1>1, <1>2

(* So the directories of a calm computer stay clean, and its pass with them. *)
LEMMA CrossHolds == Spec => [](FoldersInv /\ StandInv /\ CalmInv)
    <1>1. FoldersInv /\ StandInv /\ CalmInv /\ [Next]_vars => StandInv' /\ CalmInv'
        <2>1. SUFFICES ASSUME FoldersInv, StandInv, CalmInv, [Next]_vars PROVE StandInv' /\ CalmInv'
            OBVIOUS
        <2>2. CASE UNCHANGED vars
            <3>1. StandInv'
                BY <2>1, <2>2 DEF StandInv, vars
            <3>2. CalmInv'
                BY <2>1, <2>2, NothingMoves DEF vars
            <3> QED BY <3>1, <3>2
        <2>3. CASE Next
            <3>1. StandInv'
                BY <2>1, <2>3, HubStands, UpdateStands, PassStands, InstallationStands DEF Next
            <3>2. CASE ~ calm'
                BY <3>1, <3>2 DEF CalmInv
            <3>3. CASE calm'
                <4>1. calm
                    BY <2>3, <3>3, CalmBefore
                <4>2. CASE Hub
                    <5>1. UNCHANGED <<tree, circles, saved, upd, pass, disk, phase, device>>
                        BY <4>2 DEF Hub, HubChanges, Page, Heartbeat, Lost, hubVars, installVars, diskVars
                    <5> QED BY <2>1, <3>1, <4>1, <5>1, NothingMoves
                <4>3. CASE Update
                    BY <2>1, <3>1, <3>3, <4>1, <4>3, ApplyCalm, LeaveCalm, SaveCalm, TakeInCalm, PlaceCalm, EmptyCalm
                       DEF Update
                <4>4. CASE Pass
                    BY <2>1, <3>1, <4>1, <4>4, PassCalm
                <4>5. CASE Installation
                    BY <2>1, <3>1, <3>3, <4>1, <4>5, InstallationCalm
                <4> QED BY <2>3, <4>2, <4>3, <4>4, <4>5 DEF Next
            <3> QED BY <3>2, <3>3
        <2> QED BY <2>1, <2>2, <2>3
    <1>2. Init => StandInv /\ CalmInv
        BY InitStand, InitCalm
    <1> QED BY <1>1, <1>2, InvHolds, PTL DEF Spec

-----------------------------------------------------------------------------
(* No step takes files out of the directory of a folder that stays, or     *)
(* leaves them behind when the folder moves.                               *)
LEMMA FilesStay ==
    ASSUME FoldersInv, StandInv, CalmInv, Next, calm, phase = "running", phase' = "running",
           NEW c \in Live(circles) \ upd.new, circles[c].folder # NoDir, ~ circles[c].aside,
           circles'[c].at = "live"
    PROVE  disk[circles[c].folder] \subseteq disk'[circles'[c].folder]
    <1> DEFINE f == circles[c].folder
    <1>0. /\ circles \in [Circle -> CircleState] /\ disk \in [Directory -> SUBSET Item]
          /\ c \in Circle /\ circles[c].at = "live" /\ f \in Directory
          /\ \A o \in Live(circles) \ {c} : circles[o].folder # f
        BY DEF FoldersInv, TypeOK, OneDirectoryEach, Apart, Live, CircleState
    <1>1. PlacedInv /\ ListInv /\ \A o \in Live(circles) : circles[o].folder = NoDir => o \in upd.new
        BY DEF CalmInv, PlacedInv, Folded, Ready
    <1>2. ASSUME circles'[c].folder = f, disk' = disk \/ disk[f] \subseteq disk'[f]
          PROVE  disk[f] \subseteq disk'[circles'[c].folder]
        BY <1>2
    <1>3. ASSUME NEW o \in Circle, circles[o].at = "live", circles[o].folder # NoDir, o # c, SetAside(o)
          PROVE  circles'[c].folder = f /\ disk[f] \subseteq disk'[f]
        <2>1. circles[o].folder # f
            BY <1>0, <1>3 DEF Live
        <2> QED BY <1>0, <1>3, <2>1, SetAsideCleans
    <1>4. CASE Hub
        BY <1>2, <1>4 DEF Hub, HubChanges, Page, Heartbeat, Lost, diskVars
    <1>5. CASE Update
        <2>1. ASSUME NEW o \in Circle, TakeIn(o) PROVE disk[f] \subseteq disk'[circles'[c].folder]
            <3> DEFINE to == Free(o, upd.of[o])
            <3>1. CASE AppendCircle(o) \/ Readmit(o)
                <4>1. disk' = disk /\ circles'[c] = circles[c]
                    <5>1. CASE AppendCircle(o)
                        BY <1>0, <5>1 DEF AppendCircle, diskVars
                    <5>2. CASE Readmit(o)
                        <6>1. o # c
                            BY <1>0, <5>2 DEF Readmit
                        <6> QED BY <1>0, <5>2, <6>1 DEF Readmit, diskVars
                    <5> QED BY <3>1, <5>1, <5>2
                <4> QED BY <1>2, <4>1
            <3>2. ASSUME circles' = [circles EXCEPT ![o].name = upd.of[o]], disk' = disk
                  PROVE  disk[f] \subseteq disk'[circles'[c].folder]
                <4>1. circles'[c].folder = f
                    BY <1>0, <3>2 DEF CircleState
                <4> QED BY <1>2, <3>2, <4>1
            <3>3. CASE Keyed(o)
                BY <1>2, <3>3 DEF Keyed, diskVars
            <3>4. CASE Settle(o)
                BY <3>2, <3>4 DEF Settle, diskVars
            <3>5. CASE RenameFolder(o)
                <4>1. /\ to \in Directory /\ \A x \in Live(circles) \ {o} : circles[x].folder # to
                      /\ upd.of[o] \in Name
                    <5>1. upd.of[o] \in Name
                        BY <2>1 DEF FoldersInv, TodoNamed, TakeIn
                    <5> QED BY <5>1, FreeIsFree
                <4>2. /\ circles[o].at = "live" /\ circles[o].folder # NoDir
                      /\ Moved(o, to) \/ Stays(o, to)
                    BY <3>5 DEF RenameFolder, Renames
                <4> HIDE DEF to
                <4>3. CASE Stays(o, to)
                    BY <3>2, <4>3 DEF Stays, diskVars
                <4>4. CASE Moved(o, to)
                    <5> DEFINE from == circles[o].folder
                    <5>1. /\ circles' = [circles EXCEPT ![o].name = upd.of[o], ![o].folder = to]
                          /\ to # from /\ to \notin there
                          /\ disk' = IF from \in there THEN [disk EXCEPT ![to] = disk[from], ![from] = {}]
                                                       ELSE disk
                        BY <4>4 DEF Moved
                    <5>2. from \in Directory
                        BY <1>0, <4>2 DEF CircleState
                    <5>3. /\ circles'[o] = [circles[o] EXCEPT !.name = upd.of[o], !.folder = to]
                          /\ \A x \in Circle \ {o} : circles'[x] = circles[x]
                        BY <1>0, <5>1
                    <5>4. CASE o = c
                        <6>1. circles'[c].folder = to
                            BY <1>0, <5>3, <5>4 DEF CircleState
                        <6>2. disk[from] \subseteq disk'[to]
                            BY <1>0, <4>1, <5>1, <5>2 DEF StandInv
                        <6> QED BY <5>4, <6>1, <6>2
                    <5>5. CASE o # c
                        <6>1. f # to /\ f # from
                            BY <1>0, <4>1, <4>2, <5>5 DEF Live
                        <6>2. circles'[c].folder = f
                            BY <1>0, <5>3, <5>5
                        <6>3. disk'[f] = disk[f]
                            BY <1>0, <4>1, <5>1, <5>2, <6>1
                        <6> QED BY <6>2, <6>3
                    <5> QED BY <5>4, <5>5
                <4> QED BY <4>2, <4>3, <4>4
            <3> QED BY <2>1, <3>1, <3>3, <3>4, <3>5 DEF TakeIn
        <2>2. ASSUME NEW o \in Circle, Place(o) PROVE disk[f] \subseteq disk'[circles'[c].folder]
            <3>1. o # c /\ disk' = disk /\ \E to : circles' = [circles EXCEPT ![o].folder = to]
                BY <1>0, <2>2 DEF Place, FirstUnplaced, Unplaced, diskVars
            <3> QED BY <1>0, <1>2, <3>1
        <2>3. ASSUME NEW o \in Circle, Empty(o) PROVE disk[f] \subseteq disk'[circles'[c].folder]
            <3>1. o # c /\ circles[o].at = "live" /\ SetAside(o) /\ Unplaced = {} /\ o \in Live(circles)
                BY <2>3 DEF Empty, Live
            <3>2. circles[o].folder # NoDir
                BY <1>1, <3>1 DEF Unplaced, PlacedInv, Folded, Ready
            <3> QED BY <1>2, <1>3, <3>1, <3>2
        <2>4. CASE Apply \/ Save \/ RefreshWatches
            BY <1>2, <2>4 DEF Apply, Save, RefreshWatches, diskVars
        <2>5. CASE Leave
            <3>1. circles'[c].folder = f
                <4>1. circles'[c] = circles[c] \/ circles'[c] = [circles[c] EXCEPT !.at = "removed"]
                    BY <1>0, <2>5 DEF Leave
                <4> QED BY <1>0, <4>1 DEF CircleState
            <3> QED BY <1>2, <2>5, <3>1 DEF Leave, diskVars
        <2> QED BY <1>5, <2>1, <2>2, <2>3, <2>4, <2>5 DEF Update
    <1>6. CASE Pass
        <2>1. CASE PassStart \/ PassCopy \/ PassEnd
            BY <1>2, <2>1 DEF PassStart, PassCopy, PassEnd, diskVars
        <2>2. ASSUME NEW o \in Circle, PassEmpties(o) PROVE disk[f] \subseteq disk'[circles'[c].folder]
            <3>1. /\ pass.pc # "no" /\ o \in Live(pass.list) /\ pass.list[o].aside
                  /\ \/ circles[o].at = "live" /\ SetAside(o)
                     \/ UNCHANGED <<circles, diskVars>>
                BY <2>2 DEF PassEmpties, StandInv
            <3>2. circles[o].aside /\ circles[o].folder # NoDir
                BY <1>1, <3>1 DEF ListInv
            <3>3. o # c
                BY <3>2
            <3>4. CASE circles[o].at = "live" /\ SetAside(o)
                BY <1>2, <1>3, <3>2, <3>3, <3>4
            <3>5. CASE UNCHANGED <<circles, diskVars>>
                BY <1>2, <3>5 DEF diskVars
            <3> QED BY <3>1, <3>4, <3>5
        <2>3. ASSUME NEW o \in Circle, RunStart(o) PROVE disk[f] \subseteq disk'[circles'[c].folder]
            BY <1>2, <2>3 DEF RunStart
        <2>4. ASSUME NEW i \in Item, RunCopies(i) PROVE disk[f] \subseteq disk'[circles'[c].folder]
            <3>1. /\ circles' = circles
                  /\ disk' = disk \/ \E d : disk' = [disk EXCEPT ![d] = @ \cup {i}]
                BY <2>4 DEF RunCopies, diskVars
            <3> QED BY <1>0, <1>2, <3>1
        <2> QED BY <1>6, <2>1, <2>2, <2>3, <2>4 DEF Pass
    <1>7. CASE Installation
        BY <1>7 DEF Installation, Configure, Enrol, EmptyAll, Register, Stop, Start, Uninstall
    <1> QED BY <1>4, <1>5, <1>6, <1>7 DEF Next

-----------------------------------------------------------------------------
(* A circle's bucket gets no other circle's files and nothing the member   *)
(* had in a directory before it was the folder's, through any number of    *)
(* arrivals, renames, returns, failed moves and half-emptied directories,  *)
(* as long as no directory was given out while a pass was on its way and   *)
(* no save failed (placeFolders, renameFolder, emptyNewFolders, syncAll).  *)
THEOREM NothingCrossesAlways ==
    Spec => []NothingCrosses
    <1>1. CalmInv => NothingCrosses
        BY DEF CalmInv, NothingCrosses
    <1> QED BY <1>1, CrossHolds, PTL

(* Under the same condition a folder that was here keeps its files: the    *)
(* update that places and empties others leaves them (emptyNewFolders),    *)
(* and a rename takes them along (renameFolder).                           *)
THEOREM FoldersKeepTheirFilesEver ==
    Spec => FoldersKeepTheirFiles
    <1>1. FoldersInv /\ StandInv /\ CalmInv /\ [Next]_vars =>
            [calm /\ phase = "running" /\ phase' = "running" =>
               \A c \in Live(circles) \ upd.new :
                  /\ circles[c].folder # NoDir /\ ~ circles[c].aside
                  /\ circles'[c].at = "live"
                  => disk[circles[c].folder] \subseteq disk'[circles'[c].folder]]_vars
        <2>1. SUFFICES ASSUME FoldersInv, StandInv, CalmInv, Next, calm, phase = "running", phase' = "running",
                              NEW c \in Live(circles) \ upd.new, circles[c].folder # NoDir,
                              ~ circles[c].aside, circles'[c].at = "live"
                       PROVE  disk[circles[c].folder] \subseteq disk'[circles'[c].folder]
            BY DEF vars
        <2> QED BY <2>1, FilesStay
    <1> QED BY <1>1, CrossHolds, PTL DEF Spec, FoldersKeepTheirFiles

=============================================================================
