---------------------------- MODULE AgentFolders ----------------------------
(***************************************************************************)
(* The directories of a computer's folders: who gets which one, how a      *)
(* directory becomes a folder's own, and what the sync reads meanwhile.    *)
(*                                                                         *)
(* src/internal/agent/config.go places folders, agent.go applies the hub's *)
(* bundles and runs the syncs, join.go and rotate.go bring in a folder     *)
(* from the Share page, install.go makes and removes the installation.     *)
(* An update of the config (Store.Update) runs under the store's lock, but *)
(* takes several steps on the disk and in memory: a sync pass that took    *)
(* its list earlier goes on meanwhile, and the machine may stop.           *)
(***************************************************************************)
EXTENDS Naturals, Sequences, FiniteSets

CONSTANTS
    Circle,       \* the circles of the hub
    Name,         \* their display names, as safeName leaves them
    Directory,    \* the directories under the sync root
    Candidates,   \* of a name: "<name>", "<name> 2", "<name> 3"...
    Found,        \* which of them may be there before Quietport is
    Private,      \* what the member keeps in a directory of such a name
    NoName, NoDir, Out, NoAnswer, NoCircle,
    MaxChanges,   \* bound on the hub's changes of memberships and names
    MaxFaults     \* bound on failures of the disk and on sudden stops

ASSUME CandidatesAssumption ==
    /\ Candidates \in [Name -> Seq(Directory)]
    /\ \A n \in Name : /\ Cardinality(Circle) <= Len(Candidates[n])
                       /\ \A i, j \in DOMAIN Candidates[n] :
                             Candidates[n][i] = Candidates[n][j] => i = j
ASSUME NoneAssumption ==
    /\ Found \subseteq SUBSET Directory
    /\ IsFiniteSet(Circle) /\ Circle # {}
    /\ NoName \notin Name /\ Out \notin Name
    /\ NoDir \notin Directory /\ NoCircle \notin Circle /\ Private \notin Circle

VARIABLES
    hub,       \* the name of each circle the person is in, Out of the others
    bundle,    \* the answer of a heartbeat on its way, or NoAnswer
    page,      \* the answer to a join or a create on its way, or NoAnswer
    phase,     \* of the installation on this computer
    device,    \* the saved config has a device id: Installed()
    startup,   \* the startup entry is there
    circles,   \* Config.Circles in memory
    saved,     \* Config.Circles in config.json
    upd,       \* the update that holds the store's lock
    pass,      \* the sync pass: its list, what it has left, the run
    disk,      \* what each directory holds: items named by their circle
    there,     \* the directories that exist
    tree,      \* what each circle's bucket holds
    calm,      \* no directory was given out during a pass, no save failed, no
               \* stop came within an update or before an install's emptying
    changes, faults

hubVars     == <<hub, tree>>
answerVars  == <<bundle, page>>
installVars == <<phase, device, startup>>
diskVars    == <<disk, there>>
counters    == <<changes, faults>>
vars == <<hub, bundle, page, phase, device, startup, circles, saved, upd, pass,
          disk, there, tree, calm, changes, faults>>

Item == Circle \cup {Private}
CircleState == [at : {"absent", "live", "removed"}, name : Name \cup {NoName},
                folder : Directory \cup {NoDir}, aside : BOOLEAN]
Absent == [at |-> "absent", name |-> NoName, folder |-> NoDir, aside |-> FALSE]
Answer == [kind : {"bundle", "install", "join", "create"}, of : [Circle -> Name \cup {Out}]]
UpdateState == [pc : {"idle", "circles", "place"},
                kind : {"bundle", "install", "join", "create", "empty"},
                of : [Circle -> Name \cup {Out}], todo : SUBSET Circle, new : SUBSET Circle]
PassState == [pc : {"no", "read", "run"}, list : [Circle -> CircleState],
              todo : SUBSET Circle, run : Circle \cup {NoCircle}]
Nothing  == [c \in Circle |-> Out]
Idle     == [pc |-> "idle", kind |-> "bundle", of |-> Nothing, todo |-> {}, new |-> {}]
NoPass   == [pc |-> "no", list |-> [c \in Circle |-> Absent], todo |-> {}, run |-> NoCircle]

Live(cs) == {c \in Circle : cs[c].at = "live"}

\* CircleState.folder: the recorded directory, else the one of the name
Folder(cs) == IF cs.folder # NoDir THEN cs.folder ELSE Candidates[cs.name][1]

\* A circle has a name once a bundle has brought it, or a directory of one
Named(cs) == cs.folder # NoDir \/ cs.name # NoName

Folders(css) == {Folder(css[c]) : c \in {c \in Live(css) : Named(css[c])}}

\* Config.freeFolder: the first candidate that no other live circle records
Free(c, n) ==
    LET taken == {circles[o].folder : o \in Live(circles) \ {c}}
        i == CHOOSE i \in DOMAIN Candidates[n] :
                /\ Candidates[n][i] \notin taken
                /\ \A j \in 1 .. (i - 1) : Candidates[n][j] \in taken
    IN Candidates[n][i]

Init ==
    /\ hub \in [Circle -> Name \cup {Out}]
    /\ bundle = NoAnswer /\ page = NoAnswer
    /\ phase = "none" /\ device = FALSE /\ startup = FALSE
    /\ circles = [c \in Circle |-> Absent] /\ saved = circles
    /\ upd = Idle /\ pass = NoPass
    /\ there \in Found
    /\ disk = [d \in Directory |-> IF d \in there THEN {Private} ELSE {}]
    /\ tree = [c \in Circle |-> {c}]
    /\ calm = TRUE /\ changes = 0 /\ faults = 0

Fault == faults < MaxFaults /\ faults' = faults + 1

\* A directory is being given to a circle: calm as long as no pass is on its way
GivesDirectory == calm' = (calm /\ pass.pc = "no")

-----------------------------------------------------------------------------
(* The hub: memberships and names change, heartbeats and the page ask *)

Change == changes < MaxChanges /\ changes' = changes + 1

HubChanges(c, n) ==
    /\ Change
    /\ hub[c] # n
    /\ hub' = [hub EXCEPT ![c] = n]
    /\ UNCHANGED <<tree, answerVars, installVars, circles, saved, upd, pass, diskVars, calm, faults>>

\* A heartbeat, one at a time (hbMu). Its answer is applied some time later.
Heartbeat ==
    /\ phase = "running" /\ bundle = NoAnswer
    /\ bundle' = [kind |-> "bundle", of |-> hub]
    /\ UNCHANGED <<hubVars, page, installVars, circles, saved, upd, pass, diskVars, calm, counters>>

\* The Share page: a link adds the person to a circle, or a circle is made
Page(kind, c, n) ==
    /\ phase = "running" /\ page = NoAnswer
    /\ Change
    /\ kind = "create" => hub[c] = Out /\ circles[c].at = "absent"
    /\ hub[c] # Out => hub[c] = n
    /\ hub' = [hub EXCEPT ![c] = n]
    /\ page' = [kind |-> kind, of |-> [Nothing EXCEPT ![c] = n]]
    /\ UNCHANGED <<tree, bundle, installVars, circles, saved, upd, pass, diskVars, calm, faults>>

Lost ==
    /\ \/ bundle # NoAnswer /\ bundle' = NoAnswer /\ UNCHANGED page
       \/ page # NoAnswer /\ page' = NoAnswer /\ UNCHANGED bundle
    /\ UNCHANGED <<hubVars, installVars, circles, saved, upd, pass, diskVars, calm, counters>>

-----------------------------------------------------------------------------
(* An update of the config *)

\* Mutant: what the answer does not list is taken in too
BeginAll(a) == [pc |-> "circles", kind |-> a.kind, of |-> a.of, todo |-> Circle, new |-> {}]

Begin(a) == [pc |-> "circles", kind |-> a.kind, of |-> a.of,
             todo |-> {c \in Circle : a.of[c] # Out}, new |-> {}]

Apply ==
    /\ phase = "running" /\ upd = Idle
    /\ \/ bundle # NoAnswer /\ upd' = Begin(bundle) /\ bundle' = NoAnswer /\ UNCHANGED page
       \/ page # NoAnswer /\ upd' = Begin(page) /\ page' = NoAnswer /\ UNCHANGED bundle
    /\ UNCHANGED <<hubVars, installVars, circles, saved, pass, diskVars, calm, counters>>

Taken(c) == upd' = [upd EXCEPT !.todo = @ \ {c}]

\* Mutant: the arrival is not noted as new
AppendHere(c) ==
    /\ circles[c].at = "absent"
    /\ circles' = [circles EXCEPT ![c] = [Absent EXCEPT !.at = "live", !.name = upd.of[c]]]
    /\ Taken(c)
    /\ GivesDirectory
    /\ UNCHANGED <<diskVars, faults>>

\* A circle that is not here is appended
AppendCircle(c) ==
    /\ circles[c].at = "absent"
    /\ circles' = [circles EXCEPT ![c] = [Absent EXCEPT !.at = "live", !.name = upd.of[c]]]
    /\ upd' = [upd EXCEPT !.todo = @ \ {c}, !.new = @ \cup {c}]
    /\ GivesDirectory
    /\ UNCHANGED <<diskVars, faults>>

\* Mutant: the circle comes back to the directory it had
ReadmitInPlace(c) ==
    /\ circles[c].at = "removed" /\ upd.kind # "create"
    /\ circles' = [circles EXCEPT ![c].at = "live", ![c].name = upd.of[c]]
    /\ upd' = [upd EXCEPT !.todo = @ \ {c}, !.new = @ \cup {c}]
    /\ GivesDirectory
    /\ UNCHANGED <<diskVars, faults>>

\* readmit: a circle that was removed here is placed again like any arrival
Readmit(c) ==
    /\ circles[c].at = "removed" /\ upd.kind # "create"
    /\ circles' = [circles EXCEPT ![c].at = "live", ![c].folder = NoDir, ![c].name = upd.of[c]]
    /\ upd' = [upd EXCEPT !.todo = @ \ {c}, !.new = @ \cup {c}]
    /\ GivesDirectory
    /\ UNCHANGED <<diskVars, faults>>

\* createCircle found the circle in the config: it gets its key, no more
Keyed(c) ==
    /\ upd.kind = "create" /\ circles[c].at # "absent"
    /\ Taken(c)
    /\ UNCHANGED <<circles, diskVars, calm, faults>>

Renames(c) == /\ upd.kind \in {"bundle", "install"}
              /\ circles[c].folder # NoDir /\ circles[c].name # upd.of[c]

\* A circle that is here takes the hub's settings, and keeps its directory
Settle(c) ==
    /\ circles[c].at = "live" /\ upd.kind # "create" /\ ~ Renames(c)
    /\ circles' = [circles EXCEPT ![c].name = upd.of[c]]
    /\ Taken(c)
    /\ UNCHANGED <<diskVars, calm, faults>>

\* Mutant: the config follows the name, the directory stays
MovedInName(c, to) ==
    /\ to # circles[c].folder /\ to \notin there
    /\ circles' = [circles EXCEPT ![c].name = upd.of[c], ![c].folder = to]
    /\ GivesDirectory
    /\ UNCHANGED <<diskVars, faults>>

Moved(c, to) ==
    LET from == circles[c].folder IN
    /\ to # from /\ to \notin there
    /\ circles' = [circles EXCEPT ![c].name = upd.of[c], ![c].folder = to]
    /\ disk' = IF from \in there THEN [disk EXCEPT ![to] = disk[from], ![from] = {}] ELSE disk
    /\ there' = IF from \in there THEN (there \ {from}) \cup {to} ELSE there
    /\ GivesDirectory
    /\ UNCHANGED faults

\* The name's directory is the one it has, or something is there, or the move failed
Stays(c, to) ==
    /\ \/ to \in there \cup {circles[c].folder} /\ UNCHANGED faults
       \/ to \notin there /\ circles[c].folder \in there /\ Fault
    /\ circles' = [circles EXCEPT ![c].name = upd.of[c]]
    /\ UNCHANGED <<diskVars, calm>>

\* renameFolder: the directory follows the name when the name is free
RenameFolder(c) ==
    /\ circles[c].at = "live" /\ Renames(c)
    /\ LET to == Free(c, upd.of[c]) IN Moved(c, to) \/ Stays(c, to)
    /\ Taken(c)

TakeIn(c) ==
    /\ upd.pc = "circles" /\ c \in upd.todo
    /\ \/ AppendCircle(c) \/ Readmit(c) \/ Keyed(c) \/ Settle(c) \/ RenameFolder(c)
    /\ UNCHANGED <<hubVars, answerVars, installVars, saved, pass, changes>>

\* A bundle removes what it does not list. What is gone from a revoked
\* computer goes the same way. The files stay.
Leave ==
    /\ upd.pc = "circles" /\ upd.todo = {}
    /\ circles' = [c \in Circle |-> IF /\ upd.kind \in {"bundle", "install"}
                                       /\ circles[c].at = "live" /\ upd.of[c] = Out
                                    THEN [circles[c] EXCEPT !.at = "removed"] ELSE circles[c]]
    /\ upd' = [upd EXCEPT !.pc = "place"]
    /\ UNCHANGED <<hubVars, answerVars, installVars, saved, pass, diskVars, calm, counters>>

\* placeFolders: the circles with no directory, those already here first
Unplaced == {c \in Live(circles) : circles[c].folder = NoDir /\ circles[c].name # NoName}

FirstUnplaced == IF Unplaced \subseteq upd.new THEN Unplaced ELSE Unplaced \ upd.new

Place(c) ==
    /\ upd.pc = "place" /\ c \in FirstUnplaced
    /\ LET to == Free(c, circles[c].name) IN
       /\ circles' = [circles EXCEPT ![c].folder = to]
       /\ upd' = IF to = Folder(circles[c]) THEN upd ELSE [upd EXCEPT !.new = @ \cup {c}]
    /\ GivesDirectory
    /\ UNCHANGED <<hubVars, answerVars, installVars, saved, pass, diskVars, counters>>

\* emptyNewFolders: what the directory holds is set aside, or some of it stays
SetAside(c) ==
    LET d == Folder(circles[c]) IN
    /\ \/ /\ disk' = [disk EXCEPT ![d] = {}]
          /\ circles' = [circles EXCEPT ![c].aside = FALSE]
          /\ UNCHANGED faults
       \/ /\ Fault
          /\ \E left \in SUBSET disk[d] : disk' = [disk EXCEPT ![d] = left]
          /\ circles' = [circles EXCEPT ![c].aside = TRUE]
    /\ UNCHANGED there

Empty(c) ==
    /\ upd.pc = "place" /\ Unplaced = {}
    /\ c \in upd.new \cap Live(circles)
    /\ SetAside(c)
    /\ upd' = [upd EXCEPT !.new = @ \ {c}]
    /\ UNCHANGED <<hubVars, answerVars, installVars, saved, pass, calm, changes>>

\* saveLocked. A save that fails is logged, and the config in memory goes on.
Save ==
    /\ upd.pc = "place" /\ Unplaced = {} /\ upd.new \cap Live(circles) = {}
    /\ \/ saved' = circles /\ UNCHANGED <<calm, faults>>
       \/ Fault /\ calm' = FALSE /\ UNCHANGED saved
    /\ upd' = Idle
    /\ phase' = CASE upd.kind = "install" -> "folded"
                  [] upd.kind = "empty"   -> "emptied"
                  [] OTHER                -> phase
    /\ UNCHANGED <<hubVars, answerVars, device, startup, circles, pass, diskVars, changes>>

\* refreshWatches, after an update and at the start: each folder has its directory
RefreshWatches ==
    /\ phase = "running" /\ upd = Idle
    /\ there' = there \cup Folders(circles)
    /\ there' # there
    /\ UNCHANGED <<hubVars, answerVars, installVars, circles, saved, upd, pass, disk, calm, counters>>

Update == \/ Apply \/ Leave \/ Save \/ RefreshWatches
          \/ \E c \in Circle : TakeIn(c) \/ Place(c) \/ Empty(c)

-----------------------------------------------------------------------------
(* syncAll: a pass over the circles, one run at a time *)

\* Config() hands out the list under the lock, but not a copy of its entries
PassStart ==
    /\ phase = "running" /\ pass.pc = "no" /\ upd = Idle
    /\ pass' = [NoPass EXCEPT !.pc = "read", !.list = circles]
    /\ UNCHANGED <<hubVars, answerVars, installVars, circles, saved, upd, diskVars, calm, counters>>

\* The entries are copied after a look at the disk's free space, with no lock:
\* as they are by now, or as they were when the list has been reallocated;
\* what is appended meanwhile is past its end
PassCopy ==
    /\ pass.pc = "read"
    /\ LET now == [c \in Circle |-> IF pass.list[c].at = "absent" THEN Absent ELSE circles[c]]
       IN \E list \in {now, pass.list} :
          pass' = [pass EXCEPT !.pc = "run", !.list = list, !.todo = Live(list)]
    /\ UNCHANGED <<hubVars, answerVars, installVars, circles, saved, upd, diskVars, calm, counters>>

\* A directory that could not be emptied is tried again before it syncs
PassEmpties(c) ==
    /\ pass.pc = "run" /\ upd = Idle
    /\ c \in pass.todo /\ pass.list[c].aside
    /\ \/ circles[c].at = "live" /\ SetAside(c)
       \/ circles[c].at # "live" /\ UNCHANGED <<circles, diskVars, faults>>
    /\ pass' = [pass EXCEPT !.list[c].aside = circles'[c].aside,
                            !.todo = IF circles'[c].aside THEN @ \ {c} ELSE @,
                            !.run = NoCircle]
    /\ saved' = circles'
    /\ UNCHANGED <<hubVars, answerVars, installVars, upd, calm, changes>>

\* syncable, and Sync makes the directory
RunStart(c) ==
    /\ pass.pc = "run"
    /\ c \in pass.todo /\ ~ pass.list[c].aside /\ Named(pass.list[c])
    /\ pass' = [pass EXCEPT !.run = c, !.todo = @ \ {c}]
    /\ there' = there \cup {Folder(pass.list[c])}
    /\ UNCHANGED <<hubVars, answerVars, installVars, circles, saved, upd, disk, calm, counters>>

\* rclone copies both ways between the directory and the circle's bucket
RunCopies(i) ==
    LET c == pass.run
        d == Folder(pass.list[c])
    IN
    /\ c # NoCircle
    /\ \/ i \in disk[d] \ tree[c] /\ tree' = [tree EXCEPT ![c] = @ \cup {i}] /\ UNCHANGED diskVars
       \/ /\ i \in tree[c] \ disk[d]
          /\ disk' = [disk EXCEPT ![d] = @ \cup {i}]
          /\ there' = there \cup {d}
          /\ UNCHANGED tree
    /\ UNCHANGED <<hub, answerVars, installVars, circles, saved, upd, pass, calm, counters>>

\* All done, or the rest not wanted (only), or without a key
PassEnd ==
    /\ pass.pc = "run"
    /\ pass' = NoPass
    /\ UNCHANGED <<hubVars, answerVars, installVars, circles, saved, upd, diskVars, calm, counters>>

Pass == \/ PassStart \/ PassCopy \/ PassEnd
        \/ \E c \in Circle : PassEmpties(c) \/ RunStart(c)
        \/ \E i \in Item : RunCopies(i)

-----------------------------------------------------------------------------
(* Installing, stopping, starting, removing *)

\* Install on a computer without a device: the circles whose keys came with
\* the link, nameless until the hub's bundle
Configure(keys) ==
    /\ phase \in {"none", "stopped"} /\ ~ device
    /\ circles' = [c \in Circle |-> IF c \in keys THEN [Absent EXCEPT !.at = "live"] ELSE Absent]
    /\ saved' = circles'
    /\ phase' = "configured"
    /\ UNCHANGED <<hubVars, answerVars, device, startup, upd, pass, diskVars, calm, counters>>

\* The hub takes the computer, the device id is saved, the bundle folded in
Enrol ==
    /\ phase = "configured"
    /\ device' = TRUE
    /\ phase' = "enrolled"
    /\ upd' = Begin([kind |-> "install", of |-> hub])
    /\ UNCHANGED <<hubVars, answerVars, startup, circles, saved, pass, diskVars, calm, counters>>

\* A second update empties every folder's directory
EmptyAll ==
    /\ phase = "folded" /\ upd = Idle
    /\ upd' = [Idle EXCEPT !.pc = "place", !.kind = "empty", !.new = Live(circles)]
    /\ UNCHANGED <<hubVars, answerVars, installVars, circles, saved, pass, diskVars, calm, counters>>

\* registerStartup, and startAgent or not
Register ==
    /\ phase = "emptied"
    /\ startup' = TRUE
    /\ phase' = "stopped"
    /\ there' = there \cup Folders(circles)
    /\ UNCHANGED <<hubVars, answerVars, device, circles, saved, upd, pass, disk, calm, counters>>

\* A step of the install fails, the agent is killed, the machine goes down
Stop ==
    /\ phase \notin {"none", "stopped"}
    /\ Fault
    /\ phase' = "stopped"
    /\ circles' = saved /\ upd' = Idle /\ pass' = NoPass
    /\ bundle' = NoAnswer /\ page' = NoAnswer
    /\ calm' = (calm /\ upd = Idle /\ phase # "folded")
    /\ UNCHANGED <<hubVars, device, startup, saved, diskVars, changes>>

\* The startup entry starts the agent. A device id is all it asks for: on
\* Windows the installer's second try runs it with no entry (JoinInstalled)
Start ==
    /\ phase = "stopped" /\ device
    /\ phase' = "running"
    /\ circles' = saved
    /\ UNCHANGED <<hubVars, answerVars, device, startup, saved, upd, pass, diskVars, calm, counters>>

\* Uninstall, UninstallSelf: everything goes, with the files or without
Uninstall ==
    /\ phase \in {"running", "stopped"}
    /\ Change
    /\ phase' = "none" /\ device' = FALSE /\ startup' = FALSE
    /\ circles' = [c \in Circle |-> Absent] /\ saved' = circles'
    /\ upd' = Idle /\ pass' = NoPass
    /\ bundle' = NoAnswer /\ page' = NoAnswer
    /\ \/ UNCHANGED diskVars
       \/ disk' = [d \in Directory |-> {}] /\ there' = {}
    /\ UNCHANGED <<hubVars, calm, faults>>

Installation == \/ \E keys \in SUBSET Circle : Configure(keys)
                \/ Enrol \/ EmptyAll \/ Register \/ Stop \/ Start \/ Uninstall

Hub == \/ \E c \in Circle, n \in Name \cup {Out} : HubChanges(c, n)
       \/ \E k \in {"join", "create"}, c \in Circle, n \in Name : Page(k, c, n)
       \/ Heartbeat \/ Lost

Next == Hub \/ Update \/ Pass \/ Installation

Spec == Init /\ [][Next]_vars

-----------------------------------------------------------------------------
TypeOK ==
    /\ hub \in [Circle -> Name \cup {Out}]
    /\ bundle \in Answer \cup {NoAnswer} /\ page \in Answer \cup {NoAnswer}
    /\ phase \in {"none", "configured", "enrolled", "folded", "emptied", "running", "stopped"}
    /\ device \in BOOLEAN /\ startup \in BOOLEAN /\ calm \in BOOLEAN
    /\ circles \in [Circle -> CircleState] /\ saved \in [Circle -> CircleState]
    /\ upd \in UpdateState /\ pass \in PassState
    /\ disk \in [Directory -> SUBSET Item] /\ there \in SUBSET Directory
    /\ tree \in [Circle -> SUBSET Item]
    /\ changes \in Nat /\ faults \in Nat

Apart(cs) == \A c, o \in Live(cs) : c # o /\ cs[c].folder # NoDir => cs[c].folder # cs[o].folder

\* No two folders of this computer have one directory, in memory, in the saved
\* config and in the list a sync pass goes through (placeFolders, renameFolder,
\* readmit: "two circles in one directory would each sync it").
OneDirectoryEach == Apart(circles) /\ Apart(saved) /\ Apart(pass.list)

Pure == \A c \in Circle : tree[c] \subseteq {c}

\* A circle's bucket gets no other circle's files and nothing the member had in
\* a directory before it was the folder's, as long as no directory was given
\* out while a pass was on its way, no save of the config failed, and neither
\* an update nor an install was stopped before it had emptied and saved.
NothingCrosses == calm => Pure

\* The same with no condition: "under the store's lock, so no sync can read a
\* folder before its new directory is emptied".
NothingEverCrosses == Pure

\* While the agent runs, and under the same condition, a folder that was here
\* keeps its files: the update that places and empties others leaves them, and
\* a rename takes them along.
FoldersKeepTheirFiles ==
    [][calm /\ phase = "running" /\ phase' = "running" =>
         \A c \in Live(circles) \ upd.new :
            /\ circles[c].folder # NoDir /\ ~ circles[c].aside
            /\ circles'[c].at = "live"
            => disk[circles[c].folder] \subseteq disk'[circles'[c].folder]]_vars

\* An installation that Installed() finds, with no installer at work, has its
\* startup entry and every new directory emptied: what Installed() reports is
\* "a working install". No run checks it: the code does not keep it when an
\* install stops after the enrolment (README, section 4).
InstalledWorks == phase = "stopped" /\ device => startup

=============================================================================
