--------------------------- MODULE SyncCycleProofs --------------------------
(***************************************************************************)
(* Theorems of SyncCycle, for every directory, every set of changes and    *)
(* choices, and every bound.                                               *)
(***************************************************************************)
EXTENDS SyncCycle, TLAPS

-----------------------------------------------------------------------------
(* Types.                                                                  *)

(* The directories disturbed by a step leave listings well typed.          *)
LEMMA DisturbType ==
    ASSUME TypeOK, NEW D, Disturb(D)
    PROVE  listings' \in [Dir -> Listing]
    BY DEF TypeOK, Disturb, Listing

(* A run stays well typed when its directory is disturbed, and keeps what  *)
(* it started from.                                                        *)
LEMMA DisturbRunType ==
    ASSUME TypeOK, NEW D, DisturbRun(D)
    PROVE  /\ run' \in Run
           /\ run'.pc = run.pc /\ run'.started = run.started /\ run'.mode = run.mode
    BY DEF TypeOK, DisturbRun, Run

(* rclone losing its listings leaves them well typed.                      *)
LEMMA MayLoseType ==
    ASSUME TypeOK, MayLoseListings
    PROVE  listings' \in [Dir -> Listing]
    <1>1. NoListing \in Listing
        BY DEF NoListing, Listing
    <1> QED BY <1>1 DEF TypeOK, MayLoseListings

(* The end of a run.                                                       *)
LEMMA EndRunType ==
    ASSUME TypeOK, EndRun
    PROVE  run' \in Run /\ run'.pc = "idle"
    BY DEF TypeOK, EndRun, Run

(* What the hub's settings make of a CircleState keeps its type, its       *)
(* request and any full sync already pending.                              *)
LEMMA SettledType ==
    ASSUME NEW c \in CircleState, NEW gen \in Nat, NEW key \in BOOLEAN, NEW twoWay \in BOOLEAN
    PROVE  /\ Settled(c, gen, key, twoWay) \in CircleState
           /\ Settled(c, gen, key, twoWay).keep = c.keep
           /\ c.resync => Settled(c, gen, key, twoWay).resync
    BY DEF Settled, CircleState

LEMMA PlacedType ==
    ASSUME NEW c \in CircleState, NEW dir \in Dir, NEW emptied \in BOOLEAN
    PROVE  /\ Placed(c, dir, emptied) \in CircleState
           /\ Placed(c, dir, emptied).keep = c.keep
           /\ c.resync => Placed(c, dir, emptied).resync
    BY DEF Placed, Readmit, Moved, CircleState

(* The values a bundle or a link brings.                                   *)
LEMMA InputType ==
    ASSUME TypeOK
    PROVE  Gens \subseteq Nat /\ Modes \subseteq BOOLEAN /\ Dirs \subseteq Dir
    <1>1. cs.gen \in Nat /\ cs.twoWay \in BOOLEAN /\ cs.dir \in Dir
        BY DEF TypeOK, CircleState
    <1>2. Gens \subseteq Nat
        BY <1>1 DEF Gens
    <1>3. Modes \subseteq BOOLEAN
        BY <1>1 DEF Modes
    <1>4. Dirs \subseteq Dir
        BY <1>1 DEF Dirs
    <1> QED BY <1>2, <1>3, <1>4

LEMMA ModeType ==
    ASSUME NEW c \in CircleState
    PROVE  ResyncMode(c) \in Mode /\ KeepMode(c.keep) \in Mode /\ KeepMode(c.keep) # NoResync
    BY DEF ResyncMode, KeepMode, Mode, NoResync, CircleState, AllAsks

-----------------------------------------------------------------------------
(* The strengthening: a person's choice always has its full sync pending,  *)
(* and a two-way run started on a choice carries that choice out and is    *)
(* never a healing of the marker.                                          *)
KeepInv ==
    /\ cs.keep # "" => cs.resync
    /\ run.pc # "idle" /\ run.started.twoWay /\ run.started.keep # ""
         => run.pc = "running" /\ run.mode = KeepMode(run.started.keep)

(* It holds at the start, before anyone chose.                             *)
LEMMA InitInv == Init => TypeOK /\ KeepInv
    <1> SUFFICES ASSUME Init PROVE TypeOK /\ KeepInv OBVIOUS
    <1>1. Arrived \in CircleState
        BY DirAssumption DEF Arrived, CircleState, AllAsks
    <1>2. run \in Run
        BY <1>1 DEF Init, Run, Mode, NoResync
    <1>3. listings \in [Dir -> Listing]
        BY DEF Init, Listing, NoListing
    <1>4. TypeOK
        <2>1. stops \in 0 .. MaxStops /\ failures \in 0 .. RefusalsBeforeReport + 1
            BY BoundAssumption DEF Init, RefusalsBeforeReport
        <2>2. beat \in Beat /\ conditions \subseteq Condition
            BY DEF Init, Beat, NoBeat
        <2>3. cs \in CircleState
            BY <1>1 DEF Init
        <2> QED BY <1>2, <1>3, <2>1, <2>2, <2>3 DEF TypeOK
    <1>5. KeepInv
        BY DEF Init, KeepInv, Arrived
    <1> QED BY <1>4, <1>5

(* A step of a run, of a heartbeat, of the person or of the agent keeps    *)
(* both.                                                                   *)
LEMMA NextInv == TypeOK /\ KeepInv /\ [Next]_vars => TypeOK' /\ KeepInv'
    <1> SUFFICES ASSUME TypeOK, KeepInv, [Next]_vars PROVE TypeOK' /\ KeepInv' OBVIOUS
    <1> USE DEF RefusalsBeforeReport
    <1>1. CASE StartSync
        <2>1. PICK emptied \in BOOLEAN :
                 LET c == [cs EXCEPT !.aside = @ /\ ~emptied]
                 IN  /\ cs' = c
                     /\ run' = [pc |-> "running", started |-> c, disturbed |-> FALSE,
                                mode |-> IF c.twoWay THEN ResyncMode(c) ELSE NoResync]
                     /\ Disturb(IF emptied THEN {c.dir} ELSE {})
            BY <1>1 DEF StartSync
        <2>2. cs' \in CircleState /\ cs'.keep = cs.keep /\ cs'.resync = cs.resync
            BY <2>1 DEF TypeOK, CircleState
        <2>3. run' = [pc |-> "running", started |-> cs', disturbed |-> FALSE,
                      mode |-> IF cs'.twoWay THEN ResyncMode(cs') ELSE NoResync]
            BY <2>1
        <2>4. run' \in Run
            BY <2>2, <2>3, ModeType DEF Run, Mode, NoResync
        <2>5. listings' \in [Dir -> Listing]
            BY <2>1, DisturbType
        <2>6. TypeOK'
            BY <1>1, <2>2, <2>4, <2>5 DEF TypeOK, StartSync
        <2>7. KeepInv'
            BY <2>2, <2>3 DEF KeepInv, ResyncMode
        <2> QED BY <2>6, <2>7
    <1>2. CASE SyncSucceeds
        <2>1. listings' \in [Dir -> Listing]
            <3>1. CASE UNCHANGED listings
                BY <3>1 DEF TypeOK
            <3>2. ASSUME NEW holds \in {"nothing", "marker", "files"},
                         listings' = [listings EXCEPT ![run.started.dir] =
                             [holds |-> holds, gen |-> run.started.gen, stale |-> run.disturbed]]
                  PROVE  listings' \in [Dir -> Listing]
                <4>1. [holds |-> holds, gen |-> run.started.gen, stale |-> run.disturbed] \in Listing
                    BY DEF TypeOK, Listing, Run, CircleState
                <4> QED BY <3>2, <4>1 DEF TypeOK
            <3> QED BY <1>2, <3>1, <3>2 DEF SyncSucceeds, SaveListings
        <2>2. run' \in Run /\ run'.pc = "idle"
            BY <1>2, EndRunType DEF SyncSucceeds
        <2>3. cs' \in CircleState /\ (cs'.keep # "" => cs'.resync)
            BY <1>2 DEF SyncSucceeds, Succeeded, TypeOK, KeepInv, CircleState
        <2>4. TypeOK'
            <3>1. UNCHANGED <<conditions, beat, stops>>
                BY <1>2 DEF SyncSucceeds
            <3>2. failures' \in 0 .. RefusalsBeforeReport + 1
                BY <1>2 DEF SyncSucceeds
            <3> QED BY <2>1, <2>2, <2>3, <3>1, <3>2 DEF TypeOK
        <2> QED BY <2>2, <2>3, <2>4 DEF KeepInv
    <1>3. CASE EmptyListing
        <2>1. run' \in Run /\ run'.pc = "idle"
            BY <1>3, EndRunType DEF EmptyListing
        <2>2. cs' \in CircleState /\ (cs'.keep # "" => cs'.resync)
            BY <1>3 DEF EmptyListing, TypeOK, KeepInv, CircleState, Run
        <2>3. TypeOK'
            BY <1>3, <2>1, <2>2 DEF EmptyListing, TypeOK
        <2> QED BY <2>1, <2>2, <2>3 DEF KeepInv
    <1>4. CASE HealTheMarker
        <2>1. run' \in Run /\ run'.started = run.started
            BY <1>4 DEF HealTheMarker, TypeOK, Run, Mode
        <2>2. ~(run.started.twoWay /\ run.started.keep # "")
            BY <1>4, ModeType DEF HealTheMarker, CanFail, Normal, KeepInv, TypeOK, Run
        <2>3. TypeOK'
            BY <1>4, <2>1 DEF HealTheMarker, TypeOK
        <2> QED BY <1>4, <2>1, <2>2, <2>3 DEF HealTheMarker, KeepInv
    <1>5. ASSUME NEW how \in Failures, SyncFails(how) PROVE TypeOK' /\ KeepInv'
        <2>1. listings' \in [Dir -> Listing]
            BY <1>5, MayLoseType DEF SyncFails, TypeOK
        <2>2. run' \in Run /\ run'.pc = "idle"
            BY <1>5, EndRunType DEF SyncFails
        <2>3. failures' \in 0 .. RefusalsBeforeReport + 1
            BY <1>5 DEF SyncFails, NextFailure, TypeOK
        <2>4. cs' \in CircleState /\ (cs'.keep # "" => cs'.resync)
            <3>1. \E full, refused : cs' = [cs EXCEPT !.resync = @ \/ full, !.refused = @ \/ refused]
                BY <1>5 DEF SyncFails
            <3> QED BY <3>1 DEF TypeOK, KeepInv, CircleState
        <2>5. conditions' \subseteq Condition
            BY <1>5 DEF SyncFails, AfterFailedBisync, TypeOK, Condition
        <2>6. TypeOK'
            BY <1>5, <2>1, <2>2, <2>3, <2>4, <2>5 DEF SyncFails, TypeOK
        <2> QED BY <2>2, <2>4, <2>6 DEF KeepInv
    <1>6. ASSUME NEW keep \in Asks, RequestFullSync(keep) PROVE TypeOK' /\ KeepInv'
        <2>1. cs' \in CircleState /\ cs'.resync
            BY <1>6, ChoiceAssumption DEF RequestFullSync, TypeOK, CircleState
        <2> QED BY <1>6, <2>1 DEF RequestFullSync, TypeOK, KeepInv
    <1>7. CASE LongPaths
        <2>1. cs' \in CircleState /\ (cs'.keep # "" => cs'.resync)
            BY <1>7 DEF LongPaths, TypeOK, KeepInv, CircleState
        <2> QED BY <1>7, <2>1 DEF LongPaths, TypeOK, KeepInv, Condition
    <1>8. CASE SendHeartbeat
        BY <1>8 DEF SendHeartbeat, TypeOK, KeepInv, Beat
    <1>9. CASE HeartbeatAnswered
        BY <1>9 DEF HeartbeatAnswered, TypeOK, KeepInv, Beat
    <1>10. CASE HeartbeatFails
        <2>1. cs' \in CircleState /\ (cs'.keep # "" => cs'.resync)
            BY <1>10 DEF HeartbeatFails, TypeOK, KeepInv, CircleState
        <2> QED BY <1>10, <2>1 DEF HeartbeatFails, TypeOK, KeepInv, Beat, NoBeat
    <1>11. CASE ApplyBundle
        <2>1. CASE cs' = [cs EXCEPT !.removed = TRUE] /\ UNCHANGED <<listings, run>>
            <3>1. cs' \in CircleState /\ (cs'.keep # "" => cs'.resync)
                BY <2>1 DEF TypeOK, KeepInv, CircleState
            <3> QED BY <1>11, <2>1, <3>1 DEF ApplyBundle, TypeOK, KeepInv, Beat, NoBeat
        <2>2. ASSUME NEW gen \in Gens, NEW key \in BOOLEAN, NEW twoWay \in Modes, NEW dir \in Dirs,
                     NEW emptied \in BOOLEAN,
                     cs' = Settled(Placed(cs, dir, emptied), gen, key, twoWay),
                     Disturb(Touched(dir)), DisturbRun(Touched(dir))
              PROVE  TypeOK' /\ KeepInv'
            <3>1. gen \in Nat /\ twoWay \in BOOLEAN /\ dir \in Dir /\ cs \in CircleState
                BY InputType DEF TypeOK
            <3>2. cs' \in CircleState /\ cs'.keep = cs.keep /\ (cs.resync => cs'.resync)
                BY <2>2, <3>1, PlacedType, SettledType
            <3>3. listings' \in [Dir -> Listing]
                BY <2>2, DisturbType
            <3>4. /\ run' \in Run
                  /\ run'.pc = run.pc /\ run'.started = run.started /\ run'.mode = run.mode
                BY <2>2, DisturbRunType
            <3>5. TypeOK'
                BY <1>11, <3>2, <3>3, <3>4 DEF ApplyBundle, TypeOK, Beat, NoBeat
            <3> QED BY <3>2, <3>4, <3>5 DEF KeepInv
        <2> QED BY <1>11, <2>1, <2>2 DEF ApplyBundle
    <1>12. CASE Join
        <2>1. PICK gen \in Gens, key \in BOOLEAN, dir \in Dirs, emptied \in BOOLEAN :
                 JoinAs(gen, key, dir, emptied)
            BY <1>12 DEF Join
        <2>2. gen \in Nat /\ dir \in Dir /\ cs \in CircleState
            BY InputType DEF TypeOK
        <2>3. \E news, needs \in BOOLEAN :
                 cs' = [Placed(cs, dir, emptied) EXCEPT !.gen = gen, !.resync = @ \/ news,
                                                        !.needsKey = needs]
            BY <2>1, <2>2 DEF JoinAs, CircleState
        <2>4. cs' \in CircleState /\ cs'.keep = cs.keep /\ (cs.resync => cs'.resync)
            <3>1. /\ Placed(cs, dir, emptied) \in CircleState
                  /\ Placed(cs, dir, emptied).keep = cs.keep
                  /\ cs.resync => Placed(cs, dir, emptied).resync
                BY <2>2, PlacedType
            <3>2. PICK news \in BOOLEAN, needs \in BOOLEAN :
                     cs' = [Placed(cs, dir, emptied) EXCEPT !.gen = gen, !.resync = @ \/ news,
                                                            !.needsKey = needs]
                BY <2>3
            <3>3. /\ cs' \in CircleState /\ cs'.keep = Placed(cs, dir, emptied).keep
                  /\ Placed(cs, dir, emptied).resync => cs'.resync
                BY <2>2, <3>1, <3>2 DEF CircleState
            <3> QED BY <3>1, <3>3
        <2>5. listings' \in [Dir -> Listing]
            BY <2>1, DisturbType DEF JoinAs
        <2>6. /\ run' \in Run
              /\ run'.pc = run.pc /\ run'.started = run.started /\ run'.mode = run.mode
            BY <2>1, DisturbRunType DEF JoinAs
        <2>7. TypeOK'
            BY <1>12, <2>4, <2>5, <2>6 DEF Join, TypeOK
        <2> QED BY <2>4, <2>6, <2>7 DEF KeepInv
    <1>13. CASE Rekey
        <2>1. cs' \in CircleState /\ cs'.resync
            <3>1. PICK gen \in Gens :
                     cs' = [cs EXCEPT !.gen = gen, !.needsKey = FALSE, !.resync = TRUE]
                BY <1>13 DEF Rekey
            <3>2. gen \in Nat
                BY InputType
            <3> QED BY <3>1, <3>2 DEF TypeOK, CircleState
        <2>2. UNCHANGED <<listings, run, failures, conditions, beat, stops>>
            BY <1>13 DEF Rekey
        <2> QED BY <2>1, <2>2 DEF TypeOK, KeepInv
    <1>14. CASE AgentStops
        <2>1. listings' \in [Dir -> Listing]
            BY <1>14, MayLoseType DEF AgentStops, TypeOK
        <2>2. run' \in Run /\ run'.pc = "idle"
            BY <1>14, EndRunType DEF AgentStops
        <2>3. stops' \in 0 .. MaxStops
            BY <1>14, BoundAssumption DEF AgentStops, TypeOK
        <2>4. beat' \in Beat
            BY <1>14 DEF AgentStops, Beat, NoBeat
        <2>5. UNCHANGED <<cs, failures>> /\ conditions' = {}
            BY <1>14 DEF AgentStops
        <2> QED BY <2>1, <2>2, <2>3, <2>4, <2>5 DEF TypeOK, KeepInv
    <1>15. CASE UNCHANGED vars
        BY <1>15 DEF vars, TypeOK, KeepInv, Listed, Normal
    <1> QED
        BY <1>1, <1>2, <1>3, <1>4, <1>5, <1>6, <1>7, <1>8, <1>9, <1>10, <1>11, <1>12,
           <1>13, <1>14, <1>15
        DEF Next, EndSync, Heartbeat

(* The state stays well typed.                                             *)
THEOREM TypeCorrect == Spec => []TypeOK
    <1>1. Spec => [](TypeOK /\ KeepInv)
        BY InitInv, NextInv, PTL DEF Spec
    <1> QED BY <1>1, PTL

-----------------------------------------------------------------------------
(* The request is only ever dropped by a success.                          *)
LEMMA StepKeeps ==
    ASSUME TypeOK, KeepInv, [Next]_vars, cs.keep # "", cs'.keep = ""
    PROVE  /\ run.started.keep = cs.keep
           /\ run.started.twoWay => run.mode = KeepMode(cs.keep)
    <1>0. cs \in CircleState
        BY DEF TypeOK
    <1> USE <1>0
    <1>1. CASE SyncSucceeds
        <2>1. run.started.keep = cs.keep
            BY <1>1 DEF SyncSucceeds, Succeeded, CircleState
        <2>2. run.started.twoWay => run.mode = KeepMode(run.started.keep)
            BY <1>1, <2>1 DEF SyncSucceeds, KeepInv
        <2> QED BY <2>1, <2>2
    <1>2. CASE StartSync
        BY <1>2 DEF StartSync, CircleState
    <1>3. CASE EmptyListing
        BY <1>3 DEF EmptyListing, CircleState
    <1>4. ASSUME NEW how \in Failures, SyncFails(how) PROVE FALSE
        BY <1>4 DEF SyncFails, CircleState
    <1>5. ASSUME NEW keep \in Asks, RequestFullSync(keep) PROVE FALSE
        BY <1>5, ChoiceAssumption DEF RequestFullSync, CircleState, AllAsks
    <1>6. CASE LongPaths \/ Rekey
        BY <1>6 DEF LongPaths, Rekey, CircleState
    <1>7. CASE HealTheMarker \/ SendHeartbeat \/ HeartbeatAnswered \/ AgentStops \/ UNCHANGED vars
        BY <1>7 DEF HealTheMarker, SendHeartbeat, HeartbeatAnswered, AgentStops, vars
    <1>8. CASE HeartbeatFails
        BY <1>8 DEF HeartbeatFails, CircleState
    <1>9. CASE ApplyBundle
        <2>1. ASSUME NEW gen \in Gens, NEW key \in BOOLEAN, NEW twoWay \in Modes, NEW dir \in Dirs,
                     NEW emptied \in BOOLEAN
              PROVE  Settled(Placed(cs, dir, emptied), gen, key, twoWay).keep = cs.keep
            <3>1. gen \in Nat /\ twoWay \in BOOLEAN /\ dir \in Dir
                BY InputType
            <3>2. Placed(cs, dir, emptied) \in CircleState /\ Placed(cs, dir, emptied).keep = cs.keep
                BY <3>1, PlacedType
            <3>3. Settled(Placed(cs, dir, emptied), gen, key, twoWay).keep
                    = Placed(cs, dir, emptied).keep
                BY <3>2 DEF Settled, CircleState
            <3> QED BY <3>2, <3>3
        <2>2. [cs EXCEPT !.removed = TRUE].keep = cs.keep
            BY DEF CircleState
        <2>3. cs'.keep = cs.keep
            <3>1. CASE cs' = [cs EXCEPT !.removed = TRUE]
                BY <2>2, <3>1
            <3>2. CASE \E gen \in Gens, key \in BOOLEAN, twoWay \in Modes, dir \in Dirs,
                        emptied \in BOOLEAN :
                          cs' = Settled(Placed(cs, dir, emptied), gen, key, twoWay)
                <4>1. PICK gen \in Gens, key \in BOOLEAN, twoWay \in Modes, dir \in Dirs,
                           emptied \in BOOLEAN :
                             cs' = Settled(Placed(cs, dir, emptied), gen, key, twoWay)
                    BY <3>2
                <4>2. Settled(Placed(cs, dir, emptied), gen, key, twoWay).keep = cs.keep
                    BY <2>1
                <4> QED BY <4>1, <4>2
            <3>3. \/ cs' = [cs EXCEPT !.removed = TRUE]
                  \/ \E gen \in Gens, key \in BOOLEAN, twoWay \in Modes, dir \in Dirs,
                        emptied \in BOOLEAN :
                          cs' = Settled(Placed(cs, dir, emptied), gen, key, twoWay)
                BY <1>9, Zenon DEF ApplyBundle
            <3> QED BY <3>1, <3>2, <3>3, Zenon
        <2> QED BY <2>3
    <1>10. CASE Join
        <2>1. PICK gen \in Gens, key \in BOOLEAN, dir \in Dirs, emptied \in BOOLEAN :
                 JoinAs(gen, key, dir, emptied)
            BY <1>10 DEF Join
        <2>2. gen \in Nat /\ dir \in Dir
            BY InputType
        <2>3. Placed(cs, dir, emptied) \in CircleState /\ Placed(cs, dir, emptied).keep = cs.keep
            BY <2>2, PlacedType
        <2>4. cs'.keep = Placed(cs, dir, emptied).keep
            BY <2>1, <2>3 DEF JoinAs, CircleState
        <2> QED BY <2>3, <2>4
    <1> QED
        BY <1>1, <1>2, <1>3, <1>4, <1>5, <1>6, <1>7, <1>8, <1>9, <1>10
        DEF Next, EndSync, Heartbeat

(* A person's choice is dropped only by a sync that was started on it, and *)
(* in a two-way folder was the full sync they chose, whatever heartbeats,  *)
(* links, re-keys, moves, failures and restarts come in between.           *)
THEOREM ChoicesAreKeptAlways == Spec => ChoicesAreKept
    <1>1. TypeOK /\ KeepInv /\ [Next]_vars
            => [cs.keep # "" /\ cs'.keep = ""
                  => /\ run.started.keep = cs.keep
                     /\ run.started.twoWay => run.mode = KeepMode(cs.keep)]_vars
        BY StepKeeps
    <1>2. Spec => [](TypeOK /\ KeepInv)
        BY InitInv, NextInv, PTL DEF Spec
    <1> QED BY <1>1, <1>2, PTL DEF Spec, ChoicesAreKept

-----------------------------------------------------------------------------
(* The strengthening for refusals: only the end of a run makes a folder    *)
(* refused, so a folder that is refused during a run was when it began, and *)
(* the run goes as resyncMode decided then.                                *)
RefusedInv ==
    /\ run.pc # "idle" /\ cs.refused => run.started.refused
    /\ run.pc = "running"
         => run.mode = IF run.started.twoWay THEN ResyncMode(run.started) ELSE NoResync

(* What the hub and a link make of a CircleState leaves a refusal as it is. *)
LEMMA SettledRefused ==
    ASSUME NEW c \in CircleState, NEW gen \in Nat, NEW key \in BOOLEAN, NEW twoWay \in BOOLEAN
    PROVE  Settled(c, gen, key, twoWay).refused = c.refused
    BY DEF Settled, CircleState

LEMMA PlacedRefused ==
    ASSUME NEW c \in CircleState, NEW dir \in Dir, NEW emptied \in BOOLEAN
    PROVE  Placed(c, dir, emptied).refused = c.refused
    BY DEF Placed, Readmit, Moved, CircleState

(* A step that makes no folder refused, and leaves the run as it is but for *)
(* its directory, keeps the invariant.                                     *)
LEMMA RunStays ==
    ASSUME RefusedInv, cs'.refused => cs.refused,
           run'.pc = run.pc, run'.started = run.started, run'.mode = run.mode
    PROVE  RefusedInv'
    BY DEF RefusedInv, ResyncMode, KeepMode, NoResync

LEMMA RefusedStep == TypeOK /\ RefusedInv /\ [Next]_vars => RefusedInv'
    <1> SUFFICES ASSUME TypeOK, RefusedInv, [Next]_vars PROVE RefusedInv' OBVIOUS
    <1>0. cs \in CircleState /\ run \in Run
        BY DEF TypeOK
    <1> USE <1>0
    <1>1. CASE StartSync
        <2>1. PICK c \in {cs, [cs EXCEPT !.aside = FALSE]} :
                 /\ cs' = c
                 /\ run' = [pc |-> "running", started |-> c, disturbed |-> FALSE,
                            mode |-> IF c.twoWay THEN ResyncMode(c) ELSE NoResync]
            <3>1. PICK emptied \in BOOLEAN :
                     LET c == [cs EXCEPT !.aside = @ /\ ~emptied]
                     IN  /\ cs' = c
                         /\ run' = [pc |-> "running", started |-> c, disturbed |-> FALSE,
                                    mode |-> IF c.twoWay THEN ResyncMode(c) ELSE NoResync]
                BY <1>1 DEF StartSync
            <3>2. [cs EXCEPT !.aside = @ /\ ~emptied] \in {cs, [cs EXCEPT !.aside = FALSE]}
                BY DEF CircleState
            <3> QED BY <3>1, <3>2
        <2> QED BY <2>1 DEF RefusedInv, ResyncMode, KeepMode, NoResync
    <1>2. CASE SyncSucceeds \/ EmptyListing \/ AgentStops \/ \E how \in Failures : SyncFails(how)
        <2>1. run'.pc = "idle"
            BY <1>2, EndRunType DEF SyncSucceeds, EmptyListing, AgentStops, SyncFails
        <2> QED BY <2>1 DEF RefusedInv
    <1>3. CASE HealTheMarker
        <2>1. cs' = cs /\ run'.started = run.started /\ run'.pc = "healing" /\ run.pc = "running"
            BY <1>3 DEF HealTheMarker, Run
        <2> QED BY <2>1 DEF RefusedInv
    <1>4. ASSUME NEW keep \in Asks, RequestFullSync(keep) PROVE RefusedInv'
        BY <1>4, RunStays DEF RequestFullSync, CircleState
    <1>5. CASE LongPaths \/ Rekey \/ SendHeartbeat \/ HeartbeatAnswered \/ HeartbeatFails
        BY <1>5, RunStays
        DEF LongPaths, Rekey, SendHeartbeat, HeartbeatAnswered, HeartbeatFails, CircleState
    <1>6. CASE ApplyBundle
        <2>1. CASE cs' = [cs EXCEPT !.removed = TRUE] /\ UNCHANGED run
            BY <2>1, RunStays DEF CircleState
        <2>2. ASSUME NEW gen \in Gens, NEW key \in BOOLEAN, NEW twoWay \in Modes, NEW dir \in Dirs,
                     NEW emptied \in BOOLEAN,
                     cs' = Settled(Placed(cs, dir, emptied), gen, key, twoWay),
                     DisturbRun(Touched(dir))
              PROVE  RefusedInv'
            <3>1. gen \in Nat /\ twoWay \in BOOLEAN /\ dir \in Dir
                BY InputType
            <3>2. Placed(cs, dir, emptied) \in CircleState
                BY <3>1, PlacedType
            <3>3. cs'.refused = cs.refused
                BY <2>2, <3>1, <3>2, PlacedRefused, SettledRefused
            <3> QED BY <2>2, <3>3, DisturbRunType, RunStays
        <2> QED BY <1>6, <2>1, <2>2 DEF ApplyBundle
    <1>7. CASE Join
        <2>1. PICK gen \in Gens, key \in BOOLEAN, dir \in Dirs, emptied \in BOOLEAN :
                 JoinAs(gen, key, dir, emptied)
            BY <1>7 DEF Join
        <2>2. dir \in Dir
            BY InputType
        <2>3. Placed(cs, dir, emptied) \in CircleState /\ Placed(cs, dir, emptied).refused = cs.refused
            BY <2>2, PlacedType, PlacedRefused
        <2>4. cs'.refused = cs.refused
            BY <2>1, <2>3 DEF JoinAs, CircleState
        <2>5. DisturbRun(Touched(dir))
            BY <2>1 DEF JoinAs
        <2> QED BY <2>4, <2>5, DisturbRunType, RunStays
    <1>8. CASE UNCHANGED vars
        BY <1>8, RunStays DEF vars
    <1> QED
        BY <1>1, <1>2, <1>3, <1>4, <1>5, <1>6, <1>7, <1>8 DEF Next, EndSync, Heartbeat

(* While a folder is refused, every run of it that is a full sync is the    *)
(* one a person chose: no heartbeat, link, re-key, move, exclusion, failure *)
(* or restart brings the agent's own full syncs back before a sync ends     *)
(* well.                                                                   *)
THEOREM OnlyChosenAlways == Spec => []OnlyChosenFullSyncsWhileRefused
    <1>1. Init => RefusedInv
        BY DEF Init, RefusedInv
    <1>2. Spec => [](TypeOK /\ RefusedInv)
        BY <1>1, TypeCorrect, RefusedStep, PTL DEF Spec
    <1>3. TypeOK /\ RefusedInv => OnlyChosenFullSyncsWhileRefused
        <2> SUFFICES ASSUME TypeOK, RefusedInv, cs.refused, run.pc = "running", run.mode # NoResync
                     PROVE  run.started.keep # "" /\ run.mode = KeepMode(run.started.keep)
            BY DEF OnlyChosenFullSyncsWhileRefused
        <2>1. run.started.refused /\ run.mode = ResyncMode(run.started)
            BY DEF RefusedInv
        <2> QED BY <2>1 DEF ResyncMode
    <1> QED BY <1>2, <1>3, PTL

=============================================================================
