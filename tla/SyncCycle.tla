----------------------------- MODULE SyncCycle ------------------------------
(***************************************************************************)
(* The sync runs of one folder on one computer (internal/agent/agent.go,   *)
(* rclone.go): which runs are normal, which are full syncs and whose copies *)
(* they keep, what a failed run leads to, and what the hub is told.        *)
(*                                                                         *)
(* A run works on the CircleState it read when it started and takes        *)
(* minutes or hours.  Meanwhile heartbeats, joins, the hourly long-path    *)
(* check and the person at the computer change the stored one, and the     *)
(* agent may stop.  Runs are made one at a time (syncMu).                  *)
(***************************************************************************)
EXTENDS Naturals, FiniteSets

CONSTANTS
    Dir,        \* directories the folder may be given here
    Changes,    \* what the hub and the checks may change while the agent runs
    Asks,       \* choices the person at the computer may make
    Failures,   \* what rclone may fail with
    MaxGen,     \* bound: generations of the folder
    MaxStops    \* bound: times the agent stops and starts again

AllChanges  == {"removed", "generation", "name", "role", "long_paths"}
AllAsks     == {"this", "hub", "newer"}
AllFailures == {"refused", "unusable", "other"}

ASSUME BoundAssumption  == MaxGen \in Nat /\ MaxStops \in Nat
ASSUME ChoiceAssumption == /\ Changes \subseteq AllChanges /\ Asks \subseteq AllAsks
                           /\ Failures \subseteq AllFailures
ASSUME DirAssumption    == Dir # {}

VARIABLES
    cs,          \* the stored CircleState
    listings,    \* bisync's saved listings, for each directory
    run,         \* the sync run in progress
    failures,    \* failed runs in a row, counted up to one past the report
    conditions,  \* conditions waiting for the next heartbeat
    beat,        \* the heartbeat in progress
    stops        \* times the agent stopped

vars == <<cs, listings, run, failures, conditions, beat, stops>>

-----------------------------------------------------------------------------
CircleState == [removed : BOOLEAN, aside : BOOLEAN, needsKey : BOOLEAN,
                gen : Nat, dir : Dir, twoWay : BOOLEAN,
                resync : BOOLEAN, keep : AllAsks \cup {""}, refused : BOOLEAN]

(* What bisync remembers of a directory: how much it held, the generation  *)
(* whose tree it was synced with, and whether the directory has since been *)
(* emptied, or moved, by anyone but a run.                                 *)
Listing   == [holds : {"none", "nothing", "marker", "files"}, gen : Nat, stale : BOOLEAN]
NoListing == [holds |-> "none", gen |-> 0, stale |-> FALSE]

NoResync == ""
Mode     == {NoResync, "path1", "path2", "newer"}
Run      == [pc : {"idle", "running", "healing"}, started : CircleState,
             mode : Mode, disturbed : BOOLEAN]

Condition == {"sync_refused", "sync_failing", "corrupt_state", "path_too_long"}
Beat      == [pc : {"none", "sent", "answered"}, sent : SUBSET Condition]
NoBeat    == [pc |-> "none", sent |-> {}]

RefusalsBeforeReport == 3

Syncable(c) == ~c.removed /\ ~c.needsKey /\ ~c.aside

(* Mutant: the person's word goes to rclone as it is.                      *)
KeepModeWord(keep) == keep

KeepMode(keep) == CASE keep = "hub"   -> "path2"
                    [] keep = "newer" -> "newer"
                    [] OTHER          -> "path1"

(* Mutant: a refusal does not hold the agent's own full syncs back.        *)
ResyncModeUnheld(c) == IF c.resync THEN KeepMode(c.keep) ELSE NoResync

(* Mutant: a refusal holds the person's full sync back as well.            *)
ResyncModeHeld(c) == IF ~c.resync \/ c.refused THEN NoResync ELSE KeepMode(c.keep)

(* How the next run goes: while the folder is refused, only a person makes *)
(* it a full sync.                                                         *)
ResyncMode(c) == IF ~c.resync \/ (c.refused /\ c.keep = "") THEN NoResync
                                                            ELSE KeepMode(c.keep)

(* Directories written by anyone but a run no longer match their listings. *)
Disturb(D)    == listings' = [d \in Dir |-> [listings[d] EXCEPT !.stale = @ \/ d \in D]]
DisturbRun(D) == run' = [run EXCEPT !.disturbed = @ \/ (run.pc # "idle" /\ run.started.dir \in D)]

-----------------------------------------------------------------------------
Arrived == [removed |-> FALSE, aside |-> FALSE, needsKey |-> FALSE, gen |-> 1,
            dir |-> CHOOSE d \in Dir : TRUE, twoWay |-> TRUE,
            resync |-> TRUE, keep |-> "", refused |-> FALSE]

Init ==
    /\ cs = Arrived
    /\ listings = [d \in Dir |-> NoListing]
    /\ run = [pc |-> "idle", started |-> Arrived, mode |-> NoResync, disturbed |-> FALSE]
    /\ failures = 0
    /\ conditions = {}
    /\ beat = NoBeat
    /\ stops = 0

-----------------------------------------------------------------------------
(* A run starts.  A directory that could not be emptied is tried again     *)
(* first.                                                                  *)
StartSync ==
    /\ run.pc = "idle"
    /\ \E emptied \in BOOLEAN :
        LET c == [cs EXCEPT !.aside = @ /\ ~emptied]
        IN  /\ emptied => cs.aside /\ ~cs.removed
            /\ Syncable(c)
            /\ cs' = c
            /\ run' = [pc |-> "running", started |-> c, disturbed |-> FALSE,
                       mode |-> IF c.twoWay THEN ResyncMode(c) ELSE NoResync]
            /\ Disturb(IF emptied THEN {c.dir} ELSE {})
    /\ UNCHANGED <<failures, conditions, beat, stops>>

(* What rclone can answer.  A normal two-way run needs listings with files *)
(* in them; a full sync and a one-way run need none.                       *)
Listed  == listings[run.started.dir].holds
Normal  == run.started.twoWay /\ run.mode = NoResync
CanFail(how) ==
    /\ how \in Failures
    /\ how = "refused"  => Normal /\ Listed \in {"marker", "files"}
    /\ how = "unusable" => run.started.twoWay

CanSucceed == Normal => Listed \in {"marker", "files"}

(* rclone saves listings when a two-way run ends well.                     *)
SaveListings ==
    IF run.started.twoWay
    THEN \E holds \in {"nothing", "marker", "files"} :
            listings' = [listings EXCEPT ![run.started.dir] =
                [holds |-> holds, gen |-> run.started.gen, stale |-> run.disturbed]]
    ELSE UNCHANGED listings

(* rclone sets its listings aside when it cannot use them, or stops.       *)
MayLoseListings ==
    \/ UNCHANGED listings
    \/ run.started.twoWay /\ listings' = [listings EXCEPT ![run.started.dir] = NoListing]

EndRun == run' = [run EXCEPT !.pc = "idle"]

(* Mutant: a success clears whatever request there is.                     *)
SucceededClearsAll(c, started) ==
    [c EXCEPT !.refused = FALSE, !.resync = FALSE, !.keep = ""]

(* What a success makes of the stored state.                               *)
Succeeded(c, started) ==
    IF c.keep = started.keep
    THEN [c EXCEPT !.refused = FALSE, !.resync = FALSE, !.keep = ""]
    ELSE [c EXCEPT !.refused = FALSE]

SyncSucceeds ==
    /\ run.pc \in {"running", "healing"} /\ CanSucceed
    /\ SaveListings
    /\ cs' = Succeeded(cs, run.started)
    /\ failures' = 0
    /\ EndRun
    /\ UNCHANGED <<conditions, beat, stops>>

(* The last run found nothing to list: not a failure, and the next run is  *)
(* a full sync.                                                            *)
EmptyListing ==
    /\ run.pc = "running" /\ Normal /\ Listed = "nothing"
    /\ cs' = [cs EXCEPT !.resync = @ \/ ~run.started.resync]
    /\ EndRun
    /\ UNCHANGED <<listings, failures, conditions, beat, stops>>

(* A refusal when no listing of the folder, in whichever directory it was  *)
(* made, knows more than the marker is settled at once by a full sync that *)
(* keeps the hub's copy.                                                   *)
OnlyTheMarker == \A d \in Dir : listings[d].holds # "files"

HealTheMarker ==
    /\ run.pc = "running" /\ CanFail("refused") /\ OnlyTheMarker
    /\ run' = [run EXCEPT !.pc = "healing", !.mode = "path2"]
    /\ UNCHANGED <<cs, listings, failures, conditions, beat, stops>>

(* Mutant: a cycle that lost its listings is left to the next one.         *)
AfterFailedBisyncWaits(how, resync, n) ==
    [full    |-> FALSE,
     refused |-> how = "refused" /\ n >= RefusalsBeforeReport,
     report  |-> IF n # RefusalsBeforeReport THEN {}
                 ELSE {IF how = "refused" THEN "sync_refused" ELSE "sync_failing"}]

(* What follows the n-th failure in a row of a two-way run.                *)
AfterFailedBisync(how, resync, n) ==
    LET full    == how = "unusable" /\ ~resync
        refused == how = "refused" /\ n >= RefusalsBeforeReport
    IN  [full    |-> full,
         refused |-> refused,
         report  |-> IF full \/ n # RefusalsBeforeReport THEN {}
                     ELSE {IF refused THEN "sync_refused" ELSE "sync_failing"}]

NextFailure == IF failures > RefusalsBeforeReport THEN failures ELSE failures + 1

SyncFails(how) ==
    LET after == IF run.started.twoWay
                 THEN AfterFailedBisync(how, run.started.resync, NextFailure)
                 ELSE [full |-> FALSE, refused |-> FALSE, report |-> {}]
    IN  /\ run.pc \in {"running", "healing"} /\ CanFail(how)
        /\ ~(run.pc = "running" /\ how = "refused" /\ OnlyTheMarker)
        /\ IF how = "unusable" \/ run.mode # NoResync THEN MayLoseListings
                                                      ELSE UNCHANGED listings
        /\ failures' = NextFailure
        /\ conditions' = conditions \cup after.report
                            \cup (IF after.full THEN {"corrupt_state"} ELSE {})
        /\ cs' = [cs EXCEPT !.resync = @ \/ after.full, !.refused = @ \/ after.refused]
        /\ EndRun
        /\ UNCHANGED <<beat, stops>>

-----------------------------------------------------------------------------
(* The person at the computer asks for one full sync.                      *)
RequestFullSync(keep) ==
    /\ keep \in Asks
    /\ ~cs.removed /\ ~cs.needsKey /\ cs.twoWay
    /\ cs' = [cs EXCEPT !.resync = TRUE, !.keep = keep]
    /\ UNCHANGED <<listings, run, failures, conditions, beat, stops>>

(* Remote names too long for this computer are excluded from now on, and   *)
(* a list of them that is news asks for a full sync.                       *)
LongPaths ==
    /\ "long_paths" \in Changes /\ ~cs.removed
    /\ \E some, news \in BOOLEAN :
          /\ cs' = [cs EXCEPT !.resync = @ \/ (news /\ cs.twoWay)]
          /\ conditions' = conditions \cup (IF some THEN {"path_too_long"} ELSE {})
    /\ UNCHANGED <<listings, run, failures, beat, stops>>

-----------------------------------------------------------------------------
(* Heartbeats: the conditions are copied, sent, and forgotten once the hub *)
(* has answered; then its bundle is applied.                               *)
SendHeartbeat ==
    /\ beat.pc = "none"
    /\ beat' = [pc |-> "sent", sent |-> conditions]
    /\ UNCHANGED <<cs, listings, run, failures, conditions, stops>>

HeartbeatAnswered ==
    /\ beat.pc = "sent"
    /\ conditions' = {}
    /\ beat' = [beat EXCEPT !.pc = "answered"]
    /\ UNCHANGED <<cs, listings, run, failures, stops>>

(* No answer, or the hub says this computer is revoked.                    *)
HeartbeatFails ==
    /\ beat.pc = "sent"
    /\ \/ UNCHANGED cs
       \/ "removed" \in Changes /\ cs' = [cs EXCEPT !.removed = TRUE]
    /\ beat' = NoBeat
    /\ UNCHANGED <<listings, run, failures, conditions, stops>>

(* A circle that comes back is given a directory, which is emptied, or     *)
(* waits until it can be.                                                  *)
Readmit(c, dir, emptied) ==
    [c EXCEPT !.removed = FALSE, !.dir = dir, !.aside = ~emptied, !.resync = TRUE]

(* What the hub's settings make of the stored state: gen, whether a grant  *)
(* (or a link) brings its key, and how the folder syncs here.              *)
Settled(c, gen, key, twoWay) ==
    LET needs == (gen # c.gen \/ c.needsKey) /\ ~key
    IN  [c EXCEPT !.gen = gen, !.twoWay = twoWay, !.needsKey = needs,
                  !.resync = @ \/ gen # c.gen \/ (c.needsKey /\ ~needs)]

Gens  == IF "generation" \in Changes /\ cs.gen < MaxGen THEN {cs.gen, cs.gen + 1} ELSE {cs.gen}
Modes == IF "role" \in Changes THEN BOOLEAN ELSE {cs.twoWay}
Dirs  == IF "name" \in Changes \/ cs.removed THEN Dir ELSE {cs.dir}

(* A live folder renamed on the hub moves with its files.                  *)
Moved(c, dir) == IF dir = c.dir THEN c ELSE [c EXCEPT !.dir = dir, !.resync = TRUE]

Placed(c, dir, emptied) == IF c.removed THEN Readmit(c, dir, emptied) ELSE Moved(c, dir)
Touched(dir) == IF cs.removed THEN {dir} ELSE IF dir # cs.dir THEN {cs.dir, dir} ELSE {}

ApplyBundle ==
    /\ beat.pc = "answered"
    /\ \/ /\ "removed" \in Changes
          /\ cs' = [cs EXCEPT !.removed = TRUE]
          /\ UNCHANGED <<listings, run>>
       \/ \E gen \in Gens, key \in BOOLEAN, twoWay \in Modes, dir \in Dirs, emptied \in BOOLEAN :
            /\ cs' = Settled(Placed(cs, dir, emptied), gen, key, twoWay)
            /\ Disturb(Touched(dir)) /\ DisturbRun(Touched(dir))
    /\ beat' = NoBeat
    /\ UNCHANGED <<failures, conditions, stops>>

(* A link for the folder is redeemed here: a full sync only when the       *)
(* folder comes back or the link's key is news.                            *)
JoinAs(gen, key, dir, emptied) ==
    LET news    == key /\ (gen # cs.gen \/ cs.needsKey)
        held    == gen = cs.gen /\ ~cs.needsKey
    IN  /\ ~cs.removed => dir = cs.dir
        /\ cs' = [Placed(cs, dir, emptied) EXCEPT !.gen = gen, !.resync = @ \/ news,
                                                  !.needsKey = ~(news \/ held)]
        /\ Disturb(Touched(dir)) /\ DisturbRun(Touched(dir))

Join ==
    /\ "removed" \in Changes
    /\ \E gen \in Gens, key \in BOOLEAN, dir \in Dirs, emptied \in BOOLEAN :
          JoinAs(gen, key, dir, emptied)
    /\ UNCHANGED <<failures, conditions, beat, stops>>

(* This computer re-keys the folder; no run is in progress (syncMu).  A    *)
(* heartbeat may have brought the new generation already.                  *)
Rekey ==
    /\ "generation" \in Changes /\ run.pc = "idle"
    /\ \E gen \in Gens :
          cs' = [cs EXCEPT !.gen = gen, !.needsKey = FALSE, !.resync = TRUE]
    /\ UNCHANGED <<listings, run, failures, conditions, beat, stops>>

-----------------------------------------------------------------------------
(* The agent stops, rclone with it, and starts again without conditions.   *)
AgentStops ==
    /\ stops < MaxStops
    /\ stops' = stops + 1
    /\ IF run.pc = "idle" THEN UNCHANGED listings ELSE MayLoseListings
    /\ EndRun
    /\ conditions' = {}
    /\ beat' = NoBeat
    /\ UNCHANGED <<cs, failures>>

-----------------------------------------------------------------------------
EndSync   == \/ SyncSucceeds \/ EmptyListing \/ HealTheMarker
             \/ \E how \in Failures : SyncFails(how)
Heartbeat == SendHeartbeat \/ HeartbeatAnswered \/ HeartbeatFails \/ ApplyBundle

Next == \/ StartSync \/ EndSync
        \/ \E keep \in Asks : RequestFullSync(keep)
        \/ LongPaths \/ Heartbeat \/ Join \/ Rekey \/ AgentStops

Spec == Init /\ [][Next]_vars

(* The sync loop starts a run every few minutes, rclone ends each run, and *)
(* the hub is within reach often enough for some runs to end well, and for *)
(* some that have no listings to say so.                                   *)
Fairness == /\ WF_vars(StartSync) /\ WF_vars(EndSync) /\ SF_vars(SyncSucceeds)
            /\ SF_vars(Normal /\ Listed = "none" /\ SyncFails("unusable"))
FairSpec == Spec /\ Fairness
-----------------------------------------------------------------------------
TypeOK ==
    /\ cs \in CircleState
    /\ listings \in [Dir -> Listing]
    /\ run \in Run
    /\ failures \in 0 .. RefusalsBeforeReport + 1
    /\ conditions \subseteq Condition
    /\ beat \in Beat
    /\ stops \in 0 .. MaxStops

(* While the folder is refused no run is a full sync that a person did not  *)
(* choose, and one they chose keeps the copies they chose, whatever arrived *)
(* since (resyncMode, ADR 0023).  The healing of a folder that is known to  *)
(* hold only the marker follows a normal run (ADR 0022).                    *)
OnlyChosenFullSyncsWhileRefused ==
    cs.refused /\ run.pc = "running" /\ run.mode # NoResync
        => run.started.keep # "" /\ run.mode = KeepMode(run.started.keep)

(* A person's choice lives in the configuration until they choose again or  *)
(* a sync ends well that was started on that choice, and in a two-way       *)
(* folder that sync was the full sync they chose (ADR 0023: "kept in the    *)
(* config until a sync succeeds").                                          *)
ChoicesAreKept ==
    [][cs.keep # "" /\ cs'.keep = ""
        => /\ run.started.keep = cs.keep
           /\ run.started.twoWay => run.mode = KeepMode(cs.keep)]_vars

(* What a person chose is carried out, unless the folder leaves, waits for  *)
(* its key, or is no longer synced both ways.                               *)
ChosenFullSyncsRun ==
    \A keep \in Asks :
        cs.keep = keep ~> (\/ run.pc # "idle" /\ run.mode = KeepMode(keep)
                          \/ cs.keep # keep \/ ~Syncable(cs) \/ ~cs.twoWay)

(* Listings lost in a crash, or set aside by rclone, are made again by a    *)
(* full sync the agent schedules itself, unless the folder is refused.      *)
LostListingsHeal ==
    listings[cs.dir].holds = "none"
        ~> (listings[cs.dir].holds # "none" \/ cs.refused \/ ~Syncable(cs) \/ ~cs.twoWay)

(* A normal run goes by listings of the tree it syncs: a change of          *)
(* generation is a new ciphertext tree, and its first run is a full sync    *)
(* (config.go: "next run must be --resync").  No run checks it: the code    *)
(* does not keep it when the change comes during a run (README, section 4). *)
ListingsAreOfTheTree ==
    run.pc = "running" /\ Normal /\ Listed = "files"
        => listings[run.started.dir].gen = run.started.gen

(* A directory emptied for a folder that arrives is filled by a full sync:  *)
(* a normal run would take its emptiness for deletions (ADR 0021: "The      *)
(* first sync of such a folder is a full resync").  No run checks it: the   *)
(* code does not keep it when the folder left while refused (README,        *)
(* section 4).                                                              *)
ArrivalsAreFilled ==
    run.pc = "running" /\ run.started.resync /\ Normal /\ Listed = "files" /\ ~run.disturbed
        => ~listings[run.started.dir].stale

=============================================================================
