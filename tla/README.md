# Quietport in TLA+

Quietport shares folders among a few people's computers. A small hub (`src/cmd/qp-hub`, `src/internal/hubdb`) keeps
people, folders ("circles"), memberships, invite links, sealed key grants and the storage credentials of an object
store. An agent on every computer (`src/cmd/qpsync-agent`, `src/internal/agent`) runs rclone between a local directory
and an encrypted tree in that store, heartbeats to the hub, and shows a local page. The hub never holds a folder's
key: computers make it, seal it under a link's code or to each other's public key, and replace it when someone is
removed.

This directory models that system, checks it with TLC and proves parts of it with TLAPS. Everything is translated from
the Go code; `PROJECT.json` maps each definition to its lines.

| Module | What it is |
|---|---|
| `CircleKeys` | the key of one circle between hub and computers: founding, heartbeats, links and joins, removal and re-key |
| `MCCircleKeys` | the people and computers of its TLC instances |
| `CircleKeysProofs` | its theorems, for any re-keys at once |
| `CircleKeysRekeyProofs` | its theorems about re-keys that do not overlap |
| `SyncCycle` | the sync runs of one folder on one computer: normal or full, refusals, requests, conditions |
| `SyncCycleProofs` | its theorems |
| `OneTimeLink` | what an invite link promises: it works once, for one computer |
| `HubLinks` | links and the people minted for them on the hub, statement by statement; implements `OneTimeLink` |
| `MCHubLinks` | the people and computers of its TLC instances |
| `HubLinksProofs` | its theorems, the implementation among them |
| `OperatorKeys` | the operator's side of one circle: `qpctl` with its keystore, rotation, offboarding, backup and recovery |
| `MCOperatorKeys` | the terminals of its TLC instances |
| `OperatorKeysProofs` | its theorems |
| `AgentFolders` | the directories of a computer's folders: arrivals, renames, removals and returns, against a sync pass on its way, and the installation |
| `MCAgentFolders` | the names and directories of its TLC instances |
| `AgentFoldersProofs` | its theorems about the directories |
| `AgentFoldersFilesProofs` | its theorems about what the directories hold |
| `SelfUpdate` | the agent replacing its own programs: download, swap, boot check, confirmation, rollback |
| `MCSelfUpdate` | the versions and programs of its TLC instances |
| `SelfUpdateProofs` | its theorems |

To check: `tlc -config CircleKeysRekey.cfg MCCircleKeys`, `tlc -config SyncCycleRefused.cfg SyncCycle` (and so on; the
runs are listed below), `tlapm CircleKeysProofs.tla`, and so on for the other seven modules of proofs.

## 1. Inventory

For each component: its state, its operations, who it talks to, what is hard, and what makes it correct.

**Hub database** (`internal/hubdb/hubdb.go`). SQLite rows: person, circle (generation, members' storage credential,
owner), membership, device (status, last heartbeat), invite (hash, sealed keys, consumed, revoked), key_grant (unique
per device, circle and generation), events, settings. Single statements, no transactions around handlers: every handler
that makes two of them can be interrupted, or interleaved with another handler, in between. Correct when rows that
belong together stay together: one grant per device and generation, a circle's credential that the object store
accepts, no row of a deleted person.

**Hub agent API** (`cmd/qp-hub/api_agent.go`). Heartbeat (stores reports, answers with the bundle of folders and
grants), due question, join, device invite, people, remove person, temporary storage key, grants, generation switch,
folder creation, enrolment of a new computer. Called by agents over the mesh; calls the object store and the mesh
control plane. Hard: the bundle reads circles and grants separately; the generation handler checks, creates a
credential, stores it, deletes the old one, stores the generation and drops old grants in six separate steps; answers
may be lost. Correct when no one outside a folder gets its key or keeps its credential, generations only rise, and a
link is spent only by a join that happened.

**Invites and self start** (`cmd/qp-hub/invite.go`). Links with expiry and one use, the person a link mints, the page and
script that a link serves, open sign-up with limits. Hard: consuming is atomic but what follows is not; limits are
checked and counted at different times. Correct when a link is used once, the minted person exists exactly as long as
it has a purpose, and limits hold.

**Hub operator API** (`cmd/qp-hub/api_operator.go`) and **operator command line** (`cmd/qpctl`). The operator's own
persons, circles, memberships, invites, offboarding and re-key: a second way to do what an owner's computer does, by hand,
in commands that make several requests each. State: the keystore file, which a command reads when it starts and writes
back whole, and the exported bundle. Hard: a command that fails or is killed half way and is run again; two terminals;
two commands' copies of one file. Correct when what is in the store can always be read with what is on the operator's
disk, a backup that was found good brings that back, and whoever is offboarded has no key of the tree that follows.

**Object store and mesh clients** (`cmd/qp-hub/garage.go`, `headscale.go`). Remote calls that create and delete
credentials, buckets, users and pre-auth keys; any of them may fail.

**Agent: sync loop and heartbeat** (`internal/agent/agent.go`, `rclone.go`, `resync.go`). One goroutine syncs folders
one at a time (`syncMu`), triggered by a timer, the watcher and the local page; others heartbeat (every five minutes, on
retries, and when a grant is due), prune versions and look for long paths once an hour. State: the configuration
(`Store`, saved on every update), the failure counts and conditions (`State`), rclone's saved listings for each
directory. Hard: a run works for minutes or hours on the `CircleState` it read at its start while everything else
changes the stored one; a full sync overwrites other members' copies, so when one runs is the heart of the matter.
Correct when full syncs run when they must and only then, a person's choice is carried out once, and what went wrong is
reported.

**Agent: configuration and folders** (`config.go`, `install.go` from `emptyNewFolders`, `paths.go`). Places each folder
in a directory of its own, empties a directory that is new to its folder, follows renames. Hard: sequences of arrivals,
removals, returns and renames; a crash between the rename on disk and the saved configuration. Correct when no two live
folders share a directory and nobody's files end in another folder.

**Agent: joins, sharing and re-key** (`join.go`, `rotate.go`, parts of `localui.go`). The agent's half of founding a
folder, redeeming a link and removing a person.

**Agent: self update** (`update.go`). Downloads, verifies and swaps four programs, restarts, confirms after three
minutes or rolls back after failed starts. Hard: a crash in mid-swap, two updates one after the other, rollback racing
confirmation. Correct when the four programs are always of one version that can start.

**Agent: local page, status, watcher** (`localui.go`, `status.go`, `watch.go`). Requests of the person at the computer and
triggers on bounded channels that drop when full.

**Processes, disks, hidden files, installers, cryptography, deployment.** Thin wrappers, third-party code, or
configuration; without protocol state.

The hazards found while reading, each at its line and with the properties that would catch it, are in `PROJECT.json`.

## 2. What is modelled

### CircleKeys

One circle, any people and computers. Hub state: `members`, `revoked`, `gen`, `cred`, `live` (credentials the store
accepts), `grants`, `links`. Each computer's `CircleState` is `cs[d]`; what it has in flight is `beat[d]`, `creating`,
`joining[d]`, and `call[c]` for each removal. A key is the generation it was sealed for and a fresh identity; a sealed box
is the key it holds.

| Action | Code |
|---|---|
| `CreateAtHub`, `CreateLocal`, `CreateFails` | `handleDeviceCircleCreate`; `createCircle`'s store update; its error returns (a lost answer included) |
| `HeartbeatMember`, `HeartbeatRow`, `HeartbeatCredential`, `HeartbeatGrants` | `configBundle`'s four reads |
| `ApplyRemoval`, `ApplySettings`, `ApplyKey`, `HeartbeatFails` | `applyBundle` for this circle, in the two halves a sync pass can read between; a 403; no answer |
| `MakeLink`, `JoinAtHub`, `JoinMember`, `JoinRow`, `JoinCredential`, `JoinOthers` | `createInvite`; `handleJoin` with the bundle it makes |
| `JoinSettings`, `JoinKey`, `JoinEnds` | `joinCircles` in two halves, error returns |
| `CheckOwnGrants`, `StoreOwnGrant` | `grantOwnDevices` in `handleCircleGrantsDevice`: the check, then each grant |
| `RemoveAtHub`, `StartRotate`, `PostGrant`, `GrantsPosted` | `handleCircleRemovePerson`, `rotate` up to the grants, stored one by one |
| `CheckGeneration`, `KeyCreate`, `CircleSetS3`, `KeyDelete`, `SwitchGeneration`, `DropOldGrants` | the statements of `handleCircleGenerationDevice`, of which the last four may fail unnoticed |
| `LocalSwitch`, `RemovalFails` | `rotate`'s store update; every error return of the removal |

The hub's handlers are split at each statement another request can come between, and its four ignored errors
(`api_agent.go:608-611`) are outcomes of their actions. `ignored` and `leaked` record which statements of a re-key failed and
which old credentials nobody deleted; `left` has, for each computer, the generation and the credentials it had, or was being
sent, when its person was last taken out. The properties that such a failure breaks at once say so (section 4).
An update of a computer's configuration is two steps, its settings and its key, because a sync pass reads the entries
without the store's lock; a computer has one at a time (`Updating`). A stop of the agent in the middle of one saves nothing,
which is the same as a stop before it. `RemovalFails` ends the hub's handler together with the agent's call, at any of its
points, the hub's stop included.

Left whole: the removal handler, whose statements `HubLinks` has one by one and whose own ignored errors are no outcomes
here; the circle's creation; the generation check with the size it asks for; the read of the old credential with the creation
of the new one. The owner's own switch (`LocalSwitch`) holds `syncMu`, so no pass is about. A grant or a key that cannot be
sealed or opened is one that is not there. What a computer does with its folder (full syncs, directories) is left to
`SyncCycle`.

### SyncCycle

One folder on one computer. `cs` is the stored `CircleState` (removed, waiting to be emptied, waiting for its key,
generation, directory, two-way or not, full sync pending, whose copies to keep, refused). `run` is the run in progress
with the state it `started` from. `listings` is what bisync remembers for each directory: how much it held and of which
generation, and whether anyone but a run has since emptied or moved the directory. `failures`, `conditions` and `beat`
are the failure count and what the next heartbeat will report.

| Action | Code |
|---|---|
| `StartSync` | `syncAll` (with the second try to empty a directory) and `syncCircle` up to the run |
| `SyncSucceeds`, `EmptyListing`, `HealTheMarker`, `SyncFails` | the outcomes in `syncCircle`, with `syncSucceeded`, `bisyncHealingTheMarker`, `afterFailedBisync` |
| `RequestFullSync` | `requestFullSync`, from `qpsync-agent resync` |
| `LongPaths` | `longPaths` |
| `SendHeartbeat`, `HeartbeatAnswered`, `HeartbeatFails`, `ApplyBundle` | `heartbeat` around its locks, `applyBundle` with `readmit`, `renameFolder`, `placeFolders`, `emptyNewFolders` |
| `Join`, `Rekey` | `joinCircles`, `rotate`'s store update (under `syncMu`, so never during a run) |
| `AgentStops` | a stop at any point; `Run` starts again without conditions |

rclone is outside the repository. Its outcomes are the ones `rclone.go` and `agent.go` tell apart: success; "empty prior
listing"; a refusal ("Safety abort", only for a normal run that has listings); listings it cannot use; anything else. A
success saves listings, a run that fails for its listings or is stopped may lose them. Which key a new generation has is
`CircleKeys`' matter: here a heartbeat or link brings it or not. The moment `syncAll` reads the state and the moment the
folder's turn comes are one step, so a run in the model also stands for the wait before it. Failures are counted up to
one past the report, where the code no longer distinguishes them. The quota condition and the mode of folders that only
send are like others and left out. Two directories are enough for "here" and "elsewhere".

### OneTimeLink and HubLinks

`OneTimeLink` is the promise of ADR 0001 and 0019: a link is unmade, open, then closed for good; one computer may redeem
it, only while it is open, and only that computer ever comes in by it.

`HubLinks` is the hub's side of links as the code has it. The tables are `person`, `folder` (which folder has an id),
`owner`, `members`, `device`, `revoked` and `invite`. What a request holds between its statements is in `making`
(requests that make a link), `asking` (requests that open one), `enrolling`, `removing`, `revoking` and `deleting`;
`payload` is what an installer was given. `redeemer`, `letIn` and `invited` record history.

| Action | Code |
|---|---|
| `InviteByMember`, `AddMember`, `AddInvite` | `handleDeviceInvite`: person, membership, row |
| `InviteByOperator`, `AddInvite` | `opInviteCreate` |
| `SelfStart`, `StartFolder`, `AddMember`, `AddInvite`, then `Select` to `GivePayload` | `selfStart`, which consumes its own link |
| `Select`, `Consume`, `ReadBack`, `AskFails` | the three statements of `InviteConsume` and its failures |
| `GivePayload` | the end of `invitePayload` and `selfStart`; the answer may be lost |
| `AddJoiner`, `Repoint`, `RemoveMintedPerson`, `AnswerJoin` | `handleJoin` after the link is consumed, `removeMintedPerson` |
| `ReadForEnrol`, `AddDevice`, `EnrolFails` | `handleEnrol`'s checks and its row; the installer tries again or gives up |
| `Expire`, `Sweep`, `OperatorRevokes`, `InviteRevoke` | time, `housekeeping`, `opInviteRevoke` |
| `RemovePerson`, `ListLinks`, `FinishRemoval` | `handleCircleRemovePerson` |
| `OperatorRemoves`, `DeleteMembers`, `DeleteInvites`, `DeleteDevices`, `DeletePerson` | `opPersonRemove` and `PersonDelete`, which a join calls too |
| `NewFolder`, `DestroyFolder`, `HubStops` | `handleDeviceCircleCreate`, `opCircleDestroy`, a stop of the hub |

A link is closed when it is used, revoked, expired or its row is deleted; with that, `HubLinks` implements `OneTimeLink`
(`OneTime`). Reads that only decide on the statement after them are one action with it: the folder's row and the joiner's
membership, a person's folders and the writes that drop them from the mesh, a folder's row and its founder's membership.
The mesh control plane is a lookup by person in `ReadForEnrol`; what it refuses is `EnrolFails`, as is the limit of two
hours. Two deletions of one person at once are one that starts again. One removal by an owner is under way at a time.
Installing again on a computer that is enrolled is refused by the installer and left out. A request that fails while it
makes a link spends its code: whoever tries again draws another, and mints another person. A minted person is named after
the link, so that no two people ever have one id (section 6).

### OperatorKeys

One circle seen from `qpctl`. A terminal of the operator is a `shell` with the command it runs, its program counter, the
keystore it read when the command started (`mem`) and what it has asked the hub so far; `disk` is the keystore file,
`bundle` the last exported one. The hub's rows are `gen`, `members`, `person`, `device`, `grants`, `link`; `tree[g]` is
what the object store has under generation `g`, each item with the key it is encrypted with; each member has one
computer, with `key` and the generation `at` which it has it. `settled`, `stayed`, `got` and `outAt` record history.

| Action | Code |
|---|---|
| `CircleCreate`, `FirstKey`, `WriteCanary`, `CanaryAgain` | `circle create`, `circle canary` and the hub's `opCircleCreate` |
| `InviteSeal`, `InvitePost` | `invite`, with `opInviteCreate`, which may add the membership and then fail |
| `AddMember`, `PostGrant`, `RemoveMember`, `DeviceRevoke` | `circle add-member`, `remove-member`, `device revoke` |
| `OffboardDevice`, `OffboardMembership`, `OffboardPerson` | `opPersonOffboard` in its order; `offboard` goes on with a rotation |
| `RotateRead`, `RotateSave`, `CopyItem`, `CopyDone`, `ReadDevices`, `PostGrants`, `SetGeneration`, `DropOldGrants`, `Purge` | `rotateKey`, with `opGrants` and `opCircleGeneration` |
| `ExportRead`, `ExportWrite`, `VerifyRead`, `VerifyCat`, `Recover` | `keys export` and `split`, `verify`, `recover`: each saves the keystore it read at its start |
| `Fail`, `LoseMachine` | an error or a kill between any two requests; the operator's machine is lost |
| `Redeem`, `Expire`, `EnrolCheck`, `EnrolStore`, `Heartbeat`, `Write` | the members' computers: links, enrolment (which resets grants), grants, files |

Left out: credentials of the object store (`CircleKeys` has them), a temporary storage key for the operator, the end of a
circle, the re-key by the owner's computer, and what computers delete. `Add`, `Gen`, `Newest` and `Import` are the
keystore's own operations, with several keys of one generation as the file allows. Three properties say `OneEach`: no
rotation was tried again after it had saved its key. What happens otherwise is `OperatorKeysRerun`.

### AgentFolders

Several folders of one computer and the directories they are given. `circles` is `Config.Circles` in memory, `saved` what
`config.json` has, `upd` the update that holds the store's lock, `pass` the sync pass with the list it took, `disk` what
is in each directory, by the circle it belongs to or `Private` for what the member had there before, and `tree` what each
circle's bucket holds. A display name is its list of candidate directories (`safeName` and "<name> 2", "<name> 3"); two
names may have candidates in common.

| Action | Code |
|---|---|
| `HubChanges`, `Heartbeat`, `Page`, `Lost` | memberships and names on the hub; a heartbeat's bundle, a join or a new folder from the page, on its way for a while |
| `Apply`, `TakeIn` (`AppendCircle`, `Readmit`, `Keyed`, `Settle`, `RenameFolder` with `Moved` and `Stays`), `Leave` | `applyBundle`, `joinCircles`, `createCircle` inside `Store.Update`, one circle at a time |
| `Place`, `Empty` with `SetAside`, `Save` | `placeFolders` with `freeFolder`, `emptyNewFolders` with `setAside`, `saveLocked` |
| `RefreshWatches` | `refreshWatches`, which makes each folder's directory |
| `PassStart`, `PassCopy`, `PassEmpties`, `RunStart`, `RunCopies`, `PassEnd` | `syncAll` from `Config()` to its last run, with rclone's copies one item at a time |
| `Configure`, `Enrol`, `EmptyAll`, `Register`, `Start`, `Stop`, `Uninstall` | `Install` with its early returns; a start by the startup entry or by `startAgent`, for which a device id is enough; a stop anywhere; `Uninstall` and `UninstallSelf` |

The store's lock keeps updates apart, not an update and a pass: `Config()` hands out the store's own slice, so `PassCopy`
may read each entry as it is by then, or as it was if the slice has been reallocated since. `calm` says that no directory
was given out while a pass was on its way, that no save failed and that no stop fell inside an update, or into an install
between its bundle and the emptying of the folders.
`NothingCrosses` and `FoldersKeepTheirFiles` are stated for calm computers; `NothingEverCrosses` is the sentence in the
code, without that condition. The order in which circles are taken in and placed is left open. Keys, roles and pauses are
not there: a run may be passed over instead. A circle whose key came with a link is nameless until the bundle names it,
and has no directory till then (in the code it would be called "Shared", and nothing syncs it before the bundle). An
installation does not keep files that were there before (`keepFolders` is for the command line's own flag). What a run
deletes is `SyncCycle`'s matter: here runs only copy.

### SelfUpdate

The programs of a bundle, each of a version (`cur`) with the one before it (`prev`); the staging directory; the partial
download of each version, in pieces, with a mark once it has bytes it should not have; `update.json` (`state`); the updates
at work (`worker`), of which a process can have several, since each due heartbeat starts one.

| Action | Code |
|---|---|
| `Release`, `Heartbeat`, `HeartbeatFails`, `TimePasses` | `release add` on the hub, the heartbeat's offer, `updateDue`'s hour and the four minutes of a confirmation |
| `Ask`, `Piece`, `Downloaded`, `GiveUp` | `HubClient.Download` with its resumption, checksum and signature |
| `Wipe`, `Extract`, `Lock`, `BackUp`, `PlaceNew`, `SwapFails` with `PutBack`, `Written`, `Reexec` | `applyUpdate`, `extract`, `swapBundle` with its `undo`, `reexec` |
| `Start`, `RollBack`, `RolledBack`, `Confirm`, `Crash`, `Stop` | the service's start, `checkUpdateBoot`, `rollback`, the goroutine that confirms, a version that does not work, a stop anywhere |

`undo` is one step, in which each program is put back, lost (removed, and its backup not renamed) or stuck (neither);
renames and removals that the operating system does in one call are one step each. Each of these may fail: a download, the
unpacking, the backup or the placing of a program, any part of the undo, either rename of a rollback, the removal of a backup
at the confirmation, and each write or removal of `update.json`, which leaves it as it was, absent, or, when it is cut short,
one that reads like none (`Noted`, `Unwritten`). Left out are failures to remove a partial download or the staging
directory, to set a mode, and to set aside a backup that is in the way twice, which is a failure of the backup.

`clean` is the condition under which the promises hold: no stop inside a swap or rollback, no two updates at once, no
restart that failed to start a process, no confirmation in the middle of a swap, and none of these failures: of the undo, of
a rollback's rename, of what an update or a start writes to `update.json` so that nothing, or nothing of use, is there, of
its removal at the confirmation. Failures of a swap's own steps, of counting a start (the file is as it was), of removing
`update.json` after a rollback and of removing a backup keep it. `SelfUpdateOverlap` shows that two updates at once matter.

## 3. Runs

Passing runs:

| Run | Question | Instance |
|---|---|---|
| `CircleKeysRekey` | do key, generation, grants and credential stay consistent through removals that fail and are tried again? | 3 people, 2 computers, 1 removal at a time, 3 keys, 1 deletion that fails |
| `CircleKeysJoin` | can a link, old or new, put an old key to work, and do late joins and bundles carry a new key out? | 2 people, 3 computers, 1 removal at a time, 1 link open, 2 keys |
| `CircleKeysFounding` | is the founder's only copy of the key ever lost, and does a key that was granted arrive? | 2 computers of the owner, from before the circle exists, 1 removal, 2 keys, fair heartbeats |
| `SyncCycleRefused` | do only chosen full syncs run while refused, and are choices kept? | 1 directory, 2 generations, refusals and unusable listings |
| `SyncCycleHeals` | are chosen full syncs carried out and lost listings made again? | 1 stop of the agent, fair sync loop |
| `HubLinks` | does a link work once, stay on record when it was joined with, take its minted person away, and lose its keys when it expires? | 1 link, an enrolled and a new computer, 2 folders one after the other, every operator action, 1 stop of the hub |
| `OperatorKeys` | is what was re-encrypted always readable with the operator's keys or a verified backup, and locked to who was offboarded? | 1 person, a terminal for everything and one that removes and revokes, 2 generations |
| `AgentFolders` | does each folder have a directory of its own, and do files stay with their folder? | 2 folders, 2 names with a candidate in common, 3 directories, 2 changes on the hub, 1 fault |
| `SelfUpdate` | are the programs of one version, can an unconfirmed one be taken back, and does one that does not start give way? | 2 programs, 3 versions of which the second does not start, 2 updates at once, 1 stop, 2 faults |

Runs that find what a comment says violated:

| Run | What the counterexample shows |
|---|---|
| `OperatorKeysRerun` | a rotation fails after its key is saved and is run again: the grants carry the first attempt's key, the new tree is under the second's |
| `AgentFoldersCross` | a sync pass copies its list in the middle of an update and syncs a folder that is coming back, in a directory not emptied yet |
| `SelfUpdateOverlap` | a second heartbeat starts the same update again; it empties the staging directory in the middle of the first one's swap, which passes over what is missing and restarts with programs of two versions |

Some passing properties need a word. `OutsidersGetNoNewKey` and `OneKeyPerGeneration` hold where removals come one after
the other however often they fail; for two at once see section 4. `SavedWithTheTreesKey` speaks of a computer whose update is
not half done; `SyncsWithTheTreesKey`, without that condition, fails (section 4). `OnlyChosenFullSyncsWhileRefused` speaks of
the run `resyncMode` decided on; the healing of a marker-only folder, which follows a refused normal run in the same cycle,
does not ask whether the folder is refused.

**Bounds.** `Call`, `MaxKeys`, `MaxLinks`, `MaxGen`, `MaxFolder`, `MaxMade`, `MaxStops`, `MaxChanges`, `MaxFaults`,
`Pieces`, `Latest` and the sets `Changes`, `Asks`, `Failures`, `Operator`, `Link`, `May`, `Worker` and the
constraints `OneLeak`, `OneBeat`, `OneJoiner`, `WhileCalm`, `WhileClean` are the only bounds.

- `CircleKeys`: one removal with `MaxKeys = 3` gives two attempts after the founding, so one meets the leavings of a
  failed one. One open link at a time can be made before a re-key and redeemed after it, which is the case that matters;
  links do not affect one another. `OneLeak` follows a re-key with one deletion that fails or is cut off, and none whose
  row or generation is not stored (what a property claims then is empty or proved); with `OneBeat` a computer heartbeats
  when the other does not, since a heartbeat changes nothing on the hub; `OneJoiner` lets one computer join and heartbeat
  at a time, the other two being the owner's, who removes, and the one that grants are passed to. The theorems are for any
  of these.
- `SyncCycle`: two generations are a tree and its successor. A failure count of four is one past the report. The two halves
  of what may change around a run (settings in `SyncCycleRefused`, stops in `SyncCycleHeals`) are checked apart because
  together they take TLC over an hour; the two safety properties are proved for all of it at once.
- `HubLinks` has one link, because requests for one link meet each other in its row and its person; two links meet only when
  the operator invites a person a member's link minted, which takes TLC into millions of states (`PlaceholdersGo` excepts
  that person by name). `OneTime`, `JoinsStayOnRecord` and `PlaceholdersGo` are proved for any number of links. One stop
  of the hub can fall into any step.
- `OperatorKeys`: one person can be in, leave, be offboarded and come back; what two people do to each other goes through
  the hub's rows, which are per person. Two generations are one rotation, and `MaxKeys = 2` lets it be tried once, 3 twice.
- `AgentFolders`: two folders can collide, exchange names and each return into the directory of the other. Two changes are a
  removal and a return, or two renames; a third is beyond TLC's minutes. The circles are symmetric: nothing orders them.
  `WhileCalm` leaves out what follows once `calm` is lost, where the two properties that need it say nothing (it never
  comes back); `OneDirectoryEach`, which does not need it, is checked there in part only, and proved for all of it. The
  other two are proved for any folders, names, directories, changes and faults (section 5).
- `SelfUpdate`: with three versions a failing one has a working one before and after it. Two programs are "some swapped,
  some not"; two pieces are a download that broke off. `WhileClean` is sound for the same reason as `WhileCalm`: each
  property says nothing once `clean` is lost, and it never comes back. Two faults can be a program that fails to be placed
  and an undo that fails too, or a start that is not counted twice.

**Deadlock** is checked for `CircleKeys` and `SyncCycle`, where a computer can always heartbeat, and for `AgentFolders`. The
others really stop: `HubLinks` when every link has been made, used and closed; `OperatorKeys` when all generations and keys
are used up; `SelfUpdate` after a stop or a failed undo that leaves no agent program under its name.

**Fairness.** `CircleKeys`: weak fairness of a computer's heartbeat up to the hub's answer (`heartbeatLoop` ticks for as
long as the agent runs), strong fairness of applying the answer (a network that is up again and again), and weak fairness of
the second half of an update (the agent goes on).
`SyncCycle`: weak fairness of starting a run (the sync loop's timer) and of a run ending (rclone retries a bounded number
of times), strong fairness of a run ending well, and of a normal run without listings ending in rclone's complaint
about them, when these are possible again and again. `HubLinks`: weak fairness of housekeeping (a ticker of ten minutes
for as long as the hub runs) and of a revocation once decided. `SelfUpdate`: weak fairness of the agent's start (`KeepAlive`
and `Restart=always` of the startup entries), of the boot check's steps, and of a version that does not work stopping,
which is what the model means by one. Nothing is assumed of people, links, removals or stops. Of disks: the failures that
`SelfUpdate` has are listed with it (section 2), and `MaxFaults` bounds them, so that a start is not for ever uncounted; on a
disk where the count can never be stored nothing rolls back (section 4). `AgentFolders` has a save, a rename and a set-aside
that fail. The hub's statements of a re-key fail as `CircleKeys` says; its other statements that fail are an error return.

## 4. Known behaviour

What the code does where a document, a comment or a message says otherwise, or where a reader would expect otherwise. Three
are runs; the definitions named with the others are in the modules, and each was found violated by TLC or read off a
behaviour of the model.

Keys.

- A rotation that failed after saving its key and is run again makes a second key of the generation; `grantToDevices` takes
  the first, the re-encryption the new one (`OperatorKeysRerun`; `qpctl/circle.go:424`).
- A heartbeat between the hub's and the computer's half of `createCircle` marks the new folder as needing a key;
  `createCircle` then stores the key and leaves the mark, and nothing clears it (`NeedsKeyMeansNoKey`; `rotate.go:165`).
- A sync pass copies the entries of its folders without the store's lock (`agent.go:237`), while an update has stored the new
  generation and not yet the key, or not yet the mark that one is missing (`agent.go:574-601`, `join.go:62-78`): the pass
  syncs the new tree under the old key (`config.go:112`, `rclone.go:67`). `SyncsWithTheTreesKey` fails within an update; what
  is saved, and read by any later pass, is right again (`SavedWithTheTreesKey`).
- The four statements that end a re-key on the hub ignore their errors. If the new credential is not stored, the old one is
  deleted all the same and nobody syncs until the next re-key (`api_agent.go:608`; `TheRowsCredentialLives` excepts it). If
  the old one is not deleted, or the hub stops before, the removed computer goes on reading and writing
  (`api_agent.go:609`; `TheSwitchLocksTheRemovedOut` excepts it). If the generation is not stored, the owner's computer is
  ahead of the hub, and the next re-key makes another key of the same generation (`api_agent.go:610`; `GenerationsStored`).
- A heartbeat whose membership the hub read before a removal, and whose credential after the re-key's new one is stored, hands
  that credential to the removed computer (`api_agent.go:207`, `219`). It gets no key of the new generation with it
  (`OutsidersGetNoNewKey`), and what it had before the removal is dead.
- With two removals at once, the first re-key seals a grant for the person the second removed: the people still in are
  those of the hub's answer to the first (`rotate.go:97`). `OutsidersGetNoNewKey` fails with two values in `Call`.
- Two computers of the owner that re-key at once make two keys of one generation (`rotate.go:86`). `OneKeyPerGeneration`
  fails likewise.
- Two generation handlers at once each delete the credential they found when they began, so the one the first has stored
  outlives the second's switch: a computer whose heartbeat fetched it in between keeps a credential that works, whoever is
  removed later (`api_agent.go:602`). `TheSwitchLocksTheRemovedOut` fails with two values in `Call`, with one computer of the
  owner already: there the second removal falls between the first re-key's credential and its generation.
- A generation handler checks the generation in one statement and stores it in another, so that a late one of the owner's
  other computer sets it back, below keys that are in use (`api_agent.go:610`). `KeysNeverAheadOfTheHub` fails with two
  computers of the owner, two values in `Call` and four keys.
- A removal whose re-key failed is not tried again by itself, although the page says so (`rotate.go:58`).
- `keys export`, `split` and `verify` save the keystore they read at their start: a key another terminal saved meanwhile is
  gone from the file (`keys.go:83`). `EveryKeyIsKept` fails when two terminals may do both, and with it what rests on the
  file: `FilesStayReadable` and `VerifiedBackupsRead`.
- With a rotation in one terminal and an offboarding in the other, the rotation may read the devices while the one offboarded
  is still enrolling, and grant them the new key (`OffboardedHoldNoKey` fails). `NobodyIsLeftOut` speaks of one rotation:
  `stayed` is the record of the latest, and of two at once the first changes the generation without whoever enrolled since.

Folders and syncs.

- A pass copies its list of folders without the lock (`AgentFoldersCross`; `agent.go:237`). A run already at work in the
  directory of a folder that is removed, renamed or comes back does the same.
- A success clears the full sync that a new generation asked for while the run was under way (`ListingsAreOfTheTree`;
  `agent.go:783`).
- A folder that was refused when it was removed comes back with a normal run in its emptied directory, by its old listings
  (`ArrivalsAreFilled`, docs/adr/0021; `config.go:67`).
- A stop after two directories exchanged names on disk and before the save leaves the old names in `config.json`: the
  next run of each folder reads the other's files (`agent.go:664`). `NothingCrosses` excepts it by `calm`.
- An install that stops between the enrolment and the startup entry counts as installed, and the installer refuses to run
  again (`InstalledWorks`; `install.go:580`). On macOS and Linux nothing starts it. On Windows the installer, opened again,
  passes the link on (`join.go:198`), and `startAgent` runs the agent without an entry (`install.go:377`). If the stop fell
  between saving the bundle and emptying the folders (`install.go:144-147`), that agent syncs directories as they were, and
  what the member had in them goes to the folder's members. `NothingCrosses` excepts such a stop by `calm`.
- A full disk, or a save that fails otherwise, is logged, and the agent goes on with a config in memory that a restart does
  not see (`config.go:227`).

Links.

- A link's folder is destroyed, the next one made gets its id, and the link makes its redeemer a member of that one
  (`JoinsLeadWhereTheLinkDid`; `api_agent.go:405`).

Updates.

- Two updates at once share the staging directory (`SelfUpdateOverlap`; `update.go:141`), and the partial download: on a line
  that needs more than five minutes for a bundle both append to it, and neither checksum is ever right
  (`hubclient.go:157`; docs/adr/0005 speaks of slow lines).
- A rollback removes `update.json`, so the version that failed is due again at once (`update.go:104`).
- A version that stops before `checkUpdateBoot` is never counted as an attempt (`update.go:60`), which is why `Crash` in the
  model comes after it.
- A confirmation may rest on a heartbeat of the program before it, and deletes the backups of a swap that is under way
  (`update.go:73`); a restart that fails on Windows goes on in the old process, whose next swap makes the new program its
  own backup (`update.go:241`). `clean` excepts the last two.
- A rollback looks at no error. If one of its renames fails, as when Windows holds a program open, the bundle is of two
  versions or without that program, `update.json` is removed all the same, and nothing tries again; the next update backs up
  the version that failed (`update.go:101-104`). The same goes for the undo of a failed swap (`update.go:190-192`), which is
  then reported as "nothing was replaced" (`update.go:150`). `AllOrNone` and `AWayBack` fail without `clean`.
- `update.json` is written in place, and whether that worked is not looked at (`update.go:57`). A write that is cut short by a
  full disk or a stop leaves a file that reads like none, so a version that does not start is never rolled back
  (`update.go:63`); if the count of a start can never be stored, it is tried for ever. `FailedUpdatesGoBack` excepts the
  first by `clean`, the second by the bound on faults. When it is a confirmation that fails to remove it, the backups are
  gone while the next starts still count towards a rollback (`update.go:77`).

## 5. Proofs

All theorems hold for every value of the constants, under the assumptions stated where the constants are declared (each
computer has a person, the owner has a computer, founders are people; bounds are naturals; there is a directory;
`Nobody` is neither a person nor a computer, and the rows at the start are of members; each name has at least as many
candidate directories as there are circles, all different; a bundle has a program, and the first version works). Eight name
a hypothesis about what goes on at once, which the code does not enforce. `OneRemoval` and `OneOwnerComputer` say which
removals may be under way: one, or any number of one computer, whose `syncMu` keeps the re-keys apart. `OneTerminal` says
that all commands that read or write the keystore are run in one terminal; those that only remove a membership or revoke a
device may be run in any number. The hypotheses are needed: TLC finds each of the eight properties violated without them, with
two values in `Call` or two terminals for everything (section 4). The runs have them too: `CircleKeysRekey` has one value in
`Call`, `OperatorKeys` one terminal for the keystore. `OneEach`, `calm` and `clean` are not hypotheses but part of the
properties.

| Theorem | Says |
|---|---|
| `CircleKeysProofs!TypeCorrect` | types, and never two grants of one generation for one computer |
| `CircleKeysProofs!SavedWithTheTreesKeyAlways` | a computer that may sync, with no update half done, holds the key of exactly the generation whose tree it syncs, through any number of concurrent and failed re-keys |
| `CircleKeysProofs!TheRowsCredentialLivesAlways` | the storage credential the hub hands out is one the object store accepts, through the same, unless storing a new one failed unnoticed |
| `CircleKeysProofs!KeysAreNeverLostEver` | a computer that holds a key is never left without one |
| `CircleKeysProofs!JoinsNeverDowngradeEver` | a join's answer never replaces a key by one of an older generation |
| `CircleKeysRekeyProofs!KeysNeverAheadOfTheHubAlways` | no computer and no link holds a key of a generation the hub has not switched to, if removals come one at a time or all from one computer of the owner, and every switch was stored |
| `CircleKeysRekeyProofs!OneKeyPerGenerationAlways` | computers with a key of one generation have the same key, if removals come one at a time, and every switch was stored |
| `CircleKeysRekeyProofs!OutsidersGetNoNewKeyAlways` | the computers of someone who was removed never hold and are never granted a key made since, if removals come one at a time, and every switch was stored |
| `CircleKeysRekeyProofs!TheSwitchLocksTheRemovedOutEver` | the credentials a removed computer had, or was being sent, are dead after the switch, but for one whose deletion failed or was cut off, if removals come one at a time |
| `SyncCycleProofs!TypeCorrect` | types |
| `SyncCycleProofs!ChoicesAreKeptAlways` | a person's choice is dropped only by a success of the run that was started on it |
| `SyncCycleProofs!OnlyChosenAlways` | while a folder is refused, a run that is a full sync is the one a person chose |
| `HubLinksProofs!TypeCorrect` | types, and no row of the hub refers to a person or folder that is gone |
| `HubLinksProofs!LinksWorkOnce` | `HubLinks` implements `OneTimeLink`, for any number of links and computers at once |
| `HubLinksProofs!JoinsStayOnRecordEver` | the row of a link that someone joined with goes only with that person |
| `HubLinksProofs!PlaceholdersGoEver` | once a join is answered, the person its link minted is gone (unless they have a computer or the operator invited them) |
| `OperatorKeysProofs!OperatorTypeOK` | types, in however many terminals |
| `OperatorKeysProofs!FilesStayReadableAlways` | what the store held when a re-encryption began stays readable with the operator's keystore (one terminal, under `OneEach`) |
| `OperatorKeysProofs!VerifiedBackupsReadAlways` | so does a backup that was found good, brought back into an empty keystore (one terminal, under `OneEach`) |
| `OperatorKeysProofs!OffboardedHoldNoKeyAlways` | after the switch, no key someone offboarded ever had or was granted opens anything in the tree (one terminal, under `OneEach`) |
| `OperatorKeysProofs!NobodyIsLeftOutEver` | when the generation changes, whoever was in all through the rotation has a grant (one terminal) |
| `AgentFoldersProofs!TypeCorrect` | types: every directory that is used is one under the sync root |
| `AgentFoldersProofs!OneDirectoryEachAlways` | no two folders ever have one directory, in memory, in `config.json` or in a pass's list |
| `AgentFoldersFilesProofs!NothingCrossesAlways` | no circle's bucket gets another circle's files, or what the member had in a directory before (under `calm`) |
| `AgentFoldersFilesProofs!FoldersKeepTheirFilesEver` | a folder that was here keeps its files through updates and renames (under `calm`) |
| `SelfUpdateProofs!TypeCorrect` | types |
| `SelfUpdateProofs!AllOrNoneAlways` | outside a swap and a rollback, the programs are all of one version (under `clean`) |
| `SelfUpdateProofs!AWayBackAlways` | an installed update that is not confirmed has every ".prev", of one version that works (under `clean`) |

`SavedWithTheTreesKey` is not inductive: a bundle, a join or a re-key could bring a key of another generation unless the
generations in flight are ones the circle had, the founder's computer could be given a key for a generation a heartbeat had
overtaken, and the second half of an update could find other settings than its first half stored. `SyncInv` adds `UpdateInv`
(one update at a time, whose second half finds what the first stored, and outside of one a known folder that does not need a
key has that of its generation, removed or not), `PositiveInv` (every generation a computer stores, or has on its way in a
bundle, a join or a re-key, is at least 1) and `FoundingInv` (before the circle exists it has no members, at most one computer
is creating it, and until it is created nobody holds any key). Each action has one lemma per conjunct it can disturb.

For the storage credential, `CredentialInv` adds what a generation handler holds between its new credential and its switch:
one of its own that is live until it is stored, which is neither the row's nor the one any handler found when it began
(`FreshKeysInv`). Without that, one handler's switch could delete the credential another has just stored, since each deletes
the one it found. That the one it found is not the row's any more when it is deleted needs that storing the new one worked.
`KeysAreNeverLost` and `JoinsNeverDowngrade` follow step by step from `SyncInv` and the types.

For re-keys, a property of keys that computers hold is not inductive, because a key comes to a computer from a grant that was
stored for a generation the hub had not reached. `PhaseInv` says where each re-key stands to the hub: its key is for the next
generation until the hub has switched, and for the present one after; one re-key is under way. This is where `OneRemoval` or
`OneOwnerComputer` enters: the handler checks the generation in one statement and sets it in another, so a late request of a
second computer sets it back. Both hold as long as every switch was stored, which is why the properties ask for it.
`BehindInv` then covers every key that is `Around`, stored, under a link, in an answer, or granted for a generation the hub
has reached. For one key per generation, `OneKeyInv` says that keys that are around are equal when their generations are,
that a re-key under way is the only source of its generation's key after the switch, and that the grants of the next
generation are all of its key: storing its grants replaces what an attempt before it left, because `PeopleInv` says that
whoever has such a grant is still in the folder and in the answer this re-key works from. Only `OneRemoval` gives that, since
a second removal takes people out of the folder without taking them out of the first one's answer. `OwnInv` says that a
joining computer grants to its own person's others only. For someone who was removed, `OutInv` says that nothing their
computers hold, were answered or are granted was made after they left: a re-key posts to members only, which `PeopleInv`
knows, and a joining computer passes on, however late, only a key it was let in with. For the credential, `FreshInv` and
`HandedInv` say that whatever credential a computer holds or is being handed was made before, is never the one a handler has
just made, and is dead unless it is the row's, or the one a handler is about to delete, or one whose deletion failed;
`LeftInv` that what someone had when they left is dead once a handler has passed its deletion, with the same exception.

For choices, `KeepInv` adds that a choice always has its full sync pending and that a two-way run started on a choice
carries it out and is never a healing. For refusals, `RefusedInv` adds that only the end of a run refuses a folder, so
one that is refused during a run was when the run began, and that the run goes as `resyncMode` decided then.

For links, `TypeInv` adds `InFlight`, what a request knows at each of its statements (a foreign key holds after
`DeletePerson` only because its statement fails while a row refers to the person). `OnceInv` adds that a link is made
once, that a consumed link is not live, and that whoever is past the consuming UPDATE, holds a payload or has come in by a
link is its redeemer: without the last, an installer's second request, or an enrolment long after, could let in another.
Each action has one lemma for its rows and requests and one for the abstract step it makes: a row's insertion is `Make`,
the UPDATE is `Redeem`, a deletion of a person closes any number of links at once (`OnlyCloses`), and a membership, a
payload or a device row is `Enter` (`OnlyEnters`). `InFlight` and `OnceInv` were checked with TLC on the instance of the
run `HubLinks` before they were proved.

For what a join leaves behind, `JoinInv` has five parts. `SpentInv`: whoever has a row, was invited or asks is of a code
that is spent, so a person who is gone does not come back. `RecordInv`: from the statement that gives the row to the
joiner on, it is theirs for as long as there is a joiner, which is why deleting the minted person cannot take it along.
`MintedInv`: until that statement the row, and each request that read it, names the person the link minted. `AloneInv`: of
a minted person the operator has not invited, nothing exists but their link (no other row, request, computer or payload),
until an installer redeems it. `GoneInv`: when the join answers, either the person is gone or their deletion is under way
and what it has passed is still empty, so it meets no row that refers to them. Its last statement would otherwise fail, and
the join with it leave the placeholder. `JoinInv` was checked with TLC on the instance of the run, and on 20 million states
of one with two links and three computers, before it was proved.

For the operator's keystore, `OperatorInv` begins with what a command has at hand in each phase (`PhaseInv`, enough for the
types in any number of terminals). With one terminal, its copy of the keystore is the one on disk (`AloneInv`), and every key
ever made is there until the machine is lost (`KeptInv`: that is `EveryKeyIsKept`, which two terminals break and no run
checks). `BornInv` says that a key found anywhere (a tree, a grant, a link, a computer, a bundle) is of the generation it was
made for, which turns `OneEach` into "the same key". `GenInv` and `SettledInv` say where a rotation stands to the hub: what
was settled is in the present tree, and from the end of the copy in the next one, under the key the rotation saved.
`VerifiedInv` adds that a good bundle has a key of its generation; `OutInv` that someone offboarded has no membership, no
open link and no grant of a later generation, is in no rotation's list, and ever got only keys up to the generation they left
in; `StayedInv` that a rotation's list has everyone who stayed, and after the grants each of them has one.

For directories, `FreeIsFree` says that `freeFolder` finds a candidate that no other live circle records: there are more
candidates than other circles, so by the pigeonhole principle one is free, and the least such index exists. `FoldersInv`
adds `RunNamed` (a run's circle has a directory, given or by its name) and `TodoNamed` (what an update takes in has a
name). Every step then either gives one circle a free directory (`GivenApart`) or leaves each live circle the directory it
had, or none (`KeepsApart`); a pass's list, whichever state of the shared slice it caught, and the saved config are of
the second kind. That a reader may catch the slice in the middle of an update does therefore no harm to this property,
while it does to the contents of the directories (section 4).

For the contents, `StandInv` says where an installation, an update and a pass stand to each other in each phase, and that a
directory that is not there is empty. `CalmInv` holds while `calm` does: the buckets are pure; every live circle the update
is not about to place has a directory, and an idle store has saved its config (`PlacedInv`); a pass works from directories
that are still the config's, with only circles that left since (`ListInv`); and a directory that need not be emptied any more
holds its own circle's files only (`Clean`), from the installer's emptying on (`Emptied`: before it the member's own files
are where folders were placed, and while `calm` holds nothing starts the agent before it, `Ready`). `ListInv` is what fails
without `calm`: a directory given out during a pass is another's in its list.

For updates, `Newer` says that one under way goes to a version above the one that runs, so that a swap that fails with its
note is not taken for an installed one, and `BundleInv` says, as long as `clean` holds, what is true in the middle: at most
one update is at work and the agent that started it works (`OneAtWork`); what is staged is of the update's version
(`InStage`); in a swap the programs before the one it is at are new, with the running version behind them, and the others as
they were (`Swapped`); a rollback has brought the programs before the one it is at back to one version that works, and the
others still have it behind them (`OnTheWayBack`); and else all are whole, what runs is what is installed, and an unconfirmed
update has its way back (`Whole`). The undo puts back exactly what `Swapped` says is new, and a rollback begins with the way
back of `Whole`. `clean` is needed: without it the property is false (section 4).

Only model-checked are the liveness properties (`GrantsArrive`, `ChosenFullSyncsRun`, `LostListingsHeal`,
`ExpiredKeysAreWiped`, `FailedUpdatesGoBack`): they rest on fairness and `ENABLED`, which are out of the prover's reach. Every
invariant and every action property of a passing run is a theorem, and so is the implementation of `OneTimeLink`.

## 6. Not modelled

- **Locks and channels of the agent.** `applyBundle` takes the state's lock inside the store's, `syncCircle` the store's
  inside the state's; the bounded trigger channels drop when full. The models split a handler only where it holds no lock,
  so what waits for what is not in them.
- **Limits**: sign-ups, folders per person and open links are counted in one statement and used in another; they bound load,
  and nothing else of the hub relies on them.
- **A person's id given to another**: `person.id` is a rowid too (`hubdb.go:25`), so the id of the newest person may go to
  the next one minted once they are deleted. A request that still holds it, as `removeMintedPerson` does between its reads
  and `PersonDelete` (`api_agent.go:452`), would then act on the next person. `HubLinks` gives folders their ids this way,
  not people.
- **Reports**: disk space, statistics, events, audit and what a heartbeat tells the hub beyond its conditions are stored and
  shown.
- **The operator's and the owner's re-key of one circle at once.** Each is modelled by itself (`OperatorKeys`,
  `CircleKeys`), and the statements on the hub are the same.
- **A folder's runs in detail over several folders**: `SyncCycle` has the decisions of a run for one folder, `AgentFolders`
  where runs read and write for several; pruning of old versions, quotas and pauses are in neither.
- Pages and wording, logging, installers and services of the operating systems, downloads of third-party programs, the
  cryptography itself, Shamir's sharing, the command line's listings, and deployment scripts: they have no protocol state,
  or are third-party code.
