-------------------------- MODULE SelfUpdateProofs --------------------------
(***************************************************************************)
(* Theorems of SelfUpdate, for any programs, versions, downloads and       *)
(* bounds: its types; that an update replaces all programs or none; and    *)
(* that one not yet confirmed can be taken back.                           *)
(***************************************************************************)
EXTENDS SelfUpdate, TLAPS

-----------------------------------------------------------------------------
(* Types.                                                                  *)

(* Where in the bundle an update is, and that it has a version.            *)
InPlace(r) ==
    /\ r.pc # "idle" => r.version \in Version
    /\ r.pc \in {"extract", "place"} => r.at \in 1 .. Len(Files)
    /\ r.pc = "lock" => r.at = 1
    /\ r.pc = "swap" => r.at >= 1
    /\ r.pc \notin {"swap", "place", "written"} => r.done = {}

(* Before the process is up, and in its boot check, nothing else runs.     *)
Quiet ==
    /\ running = Missing \/ booting # NotBooting =>
          ~ confirming /\ \A w \in Worker : worker[w].pc = "idle"
    /\ running = Missing => booting = NotBooting

Updates == worker \in [Worker -> Work] /\ \A w \in Worker : InPlace(worker[w])

(* The inductive form of TypeOK.                                           *)
TypeInv == TypeOK /\ Updates /\ Quiet

(* The programs, by their places in the bundle.                            *)
LEMMA Bundle ==
    /\ DOMAIN Files = 1 .. Len(Files) /\ Len(Files) \in Nat \ {0}
    /\ \A i \in 1 .. Len(Files) : Files[i] \in File
    /\ \A f \in File : \E i \in 1 .. Len(Files) : f = Files[i]
    /\ Agent \in File
    BY UpdateAssumption DEF File, Agent

(* No update at work.                                                      *)
LEMMA RestType ==
    /\ AtRest \in Work /\ InPlace(AtRest)
    /\ NoWork \in [Worker -> Work] /\ \A w \in Worker : NoWork[w] = AtRest
    BY UpdateAssumption, Bundle DEF AtRest, NoWork, Work, Pc, VersionOrNone, Missing, InPlace

(* What the steps of an update write.                                      *)
LEMMA WorkFields ==
    ASSUME NEW r \in Work
    PROVE  /\ \A pc \in Pc : [r EXCEPT !.pc = pc] \in Work
           /\ \A i \in 0 .. Len(Files) + 1 : [r EXCEPT !.at = i] \in Work
           /\ \A n \in 0 .. Pieces : [r EXCEPT !.off = n] \in Work
           /\ \A b \in BOOLEAN : [r EXCEPT !.lost = b] \in Work
           /\ \A v \in VersionOrNone : [r EXCEPT !.served = v] \in Work
           /\ \A v \in VersionOrNone : [r EXCEPT !.version = v] \in Work
           /\ \A D \in SUBSET File : [r EXCEPT !.done = D] \in Work
           /\ \A pc \in Pc, i \in 0 .. Len(Files) + 1 : [r EXCEPT !.pc = pc, !.at = i] \in Work
    BY DEF Work

(* What is written to update.json.                                         *)
LEMMA StateType ==
    /\ NoState \in UpdateState
    /\ \A v \in Version, b \in BOOLEAN :
          Noted(v, b) \in UpdateState /\ Noted(v, b).failed = b
    BY DEF Noted, NoState, UpdateState, VersionOrNone

(* One update goes on, and the others stay.                                *)
LEMMA StepUpdates ==
    ASSUME Updates, NEW w \in Worker, NEW r \in Work, InPlace(r), Step(w, r)
    PROVE  Updates'
    BY DEF Updates, Step

(* One goes on, and the others may lose the file they write to.            *)
LEMMA RemovedUpdates ==
    ASSUME Updates, NEW w \in Worker, NEW v \in Version, NEW r \in Work, InPlace(r),
           RemovedAnd(w, v, r)
    PROVE  Updates'
    <1>1. \A x \in Worker : [worker[x] EXCEPT !.lost = TRUE] \in Work
                            /\ InPlace([worker[x] EXCEPT !.lost = TRUE])
        BY DEF Updates, Work, InPlace
    <1> QED BY <1>1 DEF Updates, RemovedAnd

(* The hub, the heartbeats and the clock.                                  *)
LEMMA HubType ==
    ASSUME TypeInv,
           (\E v \in Version : Release(v)) \/ HeartbeatFails \/ Heartbeat \/ TimePasses
    PROVE  TypeInv'
    <1>1. CASE \E v \in Version : Release(v)
        BY <1>1 DEF TypeInv, TypeOK, Updates, Quiet, Release, bootVars, fileVars, stageVars, counters
    <1>2. CASE HeartbeatFails
        BY <1>2 DEF TypeInv, TypeOK, Updates, Quiet, HeartbeatFails, fileVars, stageVars, counters
    <1>3. CASE Heartbeat
      <2> DEFINE r == [AtRest EXCEPT !.pc = "ask", !.version = release]
      <2>1. worker' = worker \/ \E w \in Worker : worker' = [worker EXCEPT ![w] = r]
          BY <1>3 DEF Heartbeat
      <2>2. r \in Work
          BY RestType, WorkFields DEF TypeInv, TypeOK, Pc, VersionOrNone
      <2>3. InPlace(r)
          BY DEF TypeInv, TypeOK, AtRest, InPlace
      <2>4. Updates'
          BY <2>1, <2>2, <2>3 DEF TypeInv, Updates
      <2>5. TypeOK'
          BY <1>3, <2>4 DEF TypeInv, TypeOK, Updates, Heartbeat, Work, Pc, fileVars, stageVars, counters
      <2>6. Quiet'
          BY <1>3 DEF TypeInv, Quiet, Heartbeat
      <2> QED BY <2>4, <2>5, <2>6 DEF TypeInv
    <1>4. CASE TimePasses
        BY <1>4 DEF TypeInv, TypeOK, UpdateState, Updates, Quiet, TimePasses, bootVars, fileVars, stageVars, counters
    <1> QED BY <1>1, <1>2, <1>3, <1>4

(* The steps of an update leave alone whether the process is up.           *)
LEMMA UpdateQuiet ==
    ASSUME TypeInv, NEW w \in Worker, worker[w].pc # "idle",
           UNCHANGED <<running, booting>>
    PROVE  Quiet'
    BY DEF TypeInv, Quiet

(* The download.                                                           *)
LEMMA DownloadType ==
    ASSUME TypeInv, NEW w \in Worker, Ask(w) \/ Piece(w) \/ Downloaded(w) \/ GiveUp(w)
    PROVE  TypeInv'
    <1> DEFINE r == worker[w]
    <1>1. r \in Work /\ InPlace(r) /\ r.pc # "idle" /\ r.version \in Version
        BY DEF TypeInv, Updates, InPlace, Ask, Piece, Downloaded, GiveUp
    <1>2. AtRest \in Work /\ InPlace(AtRest)
        BY RestType
    <1>3. Quiet'
        BY <1>1, UpdateQuiet DEF Ask, Piece, Downloaded, GiveUp, bootVars
    <1>4. Updates' /\ part' \in [Version -> Partial]
      <2>1. [part EXCEPT ![r.version] = NoPart] \in [Version -> Partial]
          BY DEF TypeInv, TypeOK, NoPart, Partial
      <2>2. CASE Ask(w)
        <3>1. CASE part[r.version].have >= Pieces
            BY <1>1, <1>2, <2>1, <2>2, <3>1, RemovedUpdates DEF Ask, TypeInv, RemovedAnd
        <3>2. CASE ~ part[r.version].have >= Pieces
          <4> DEFINE q == [r EXCEPT !.pc = "download", !.served = release,
                                    !.off = part[r.version].have]
          <4>1. part[r.version].have \in 0 .. Pieces /\ release \in VersionOrNone
              BY <1>1, <3>2, UpdateAssumption DEF TypeInv, TypeOK, Partial, VersionOrNone
          <4>2. q \in Work /\ InPlace(q)
              BY <1>1, <2>2, <4>1 DEF Work, Pc, InPlace, Ask
          <4> QED BY <2>2, <3>2, <4>2, StepUpdates DEF Ask, TypeInv, TypeOK
        <3> QED BY <3>1, <3>2
      <2>3. CASE Piece(w)
        <3>1. r.off + 1 \in 0 .. Pieces
            BY <1>1, <2>3, UpdateAssumption DEF Work, Piece
        <3>2. [r EXCEPT !.off = @ + 1] \in Work /\ InPlace([r EXCEPT !.off = @ + 1])
            BY <1>1, <3>1, WorkFields DEF Work, InPlace
        <3>3. part' \in [Version -> Partial]
            BY <1>1, <2>3 DEF Piece, TypeInv, TypeOK, Partial
        <3> QED BY <2>3, <3>2, <3>3, StepUpdates DEF Piece, TypeInv
      <2>4. CASE Downloaded(w)
        <3>1. [r EXCEPT !.pc = "wipe", !.lost = FALSE] \in Work
              /\ InPlace([r EXCEPT !.pc = "wipe", !.lost = FALSE])
            BY <1>1, <2>4 DEF Work, Pc, InPlace, Downloaded
        <3>2. CASE part[r.version].have = 0
            BY <1>2, <2>4, <3>2, StepUpdates DEF Downloaded, TypeInv, TypeOK
        <3>3. CASE part[r.version].have # 0
            BY <1>1, <1>2, <2>1, <2>4, <3>1, <3>3, RemovedUpdates DEF Downloaded, TypeInv, RemovedAnd
        <3> QED BY <3>2, <3>3
      <2>5. CASE GiveUp(w)
          BY <1>2, <2>5, StepUpdates DEF GiveUp, TypeInv, TypeOK
      <2> QED BY <2>2, <2>3, <2>4, <2>5
    <1>5. TypeOK'
        BY <1>4 DEF TypeInv, TypeOK, Updates, Ask, Piece, Downloaded, GiveUp, Fault,
                    bootVars, fileVars, stageVars, counters
    <1> QED BY <1>3, <1>4, <1>5 DEF TypeInv

(* The staging directory, and the lock.                                    *)
LEMMA StageType ==
    ASSUME TypeInv, NEW w \in Worker, Wipe(w) \/ Extract(w) \/ Lock(w)
    PROVE  TypeInv'
    <1> DEFINE r == worker[w]
    <1>1. r \in Work /\ InPlace(r) /\ r.pc # "idle"
        BY DEF TypeInv, Updates, Wipe, Extract, Lock
    <1>2. AtRest \in Work /\ InPlace(AtRest)
        BY RestType
    <1>3. Quiet'
        BY <1>1, UpdateQuiet DEF Wipe, Extract, Lock, bootVars
    <1>4. Updates'
      <2>1. CASE Wipe(w)
        <3>1. r.done = {} /\ 1 \in 0 .. Len(Files) + 1 /\ 1 \in 1 .. Len(Files)
            BY <1>1, <2>1, Bundle DEF InPlace, Wipe
        <3>2. [r EXCEPT !.pc = "extract", !.at = 1] \in Work
            BY <1>1, <3>1, WorkFields DEF Pc
        <3>3. [r EXCEPT !.pc = "extract", !.at = 1] \in Work /\ InPlace([r EXCEPT !.pc = "extract", !.at = 1])
            BY <1>1, <3>1, <3>2 DEF Work, InPlace
        <3> QED BY <2>1, <3>3, StepUpdates DEF Wipe, TypeInv
      <2>2. CASE Extract(w)
        <3>1. r.at < Len(Files) => [r EXCEPT !.at = @ + 1] \in Work /\ InPlace([r EXCEPT !.at = @ + 1])
            BY <1>1, <2>2, Bundle DEF Work, Pc, InPlace, Extract
        <3>2. r.done = {} /\ 1 \in 0 .. Len(Files) + 1
            BY <1>1, <2>2, Bundle DEF InPlace, Extract
        <3>3. [r EXCEPT !.pc = "lock", !.at = 1] \in Work
            BY <1>1, <3>2, WorkFields DEF Pc
        <3>4. [r EXCEPT !.pc = "lock", !.at = 1] \in Work /\ InPlace([r EXCEPT !.pc = "lock", !.at = 1])
            BY <1>1, <3>2, <3>3 DEF Work, InPlace
        <3> QED BY <1>2, <2>2, <3>1, <3>4, StepUpdates DEF Extract, TypeInv
      <2>3. CASE Lock(w)
        <3>1. [r EXCEPT !.pc = "swap"] \in Work /\ InPlace([r EXCEPT !.pc = "swap"])
            BY <1>1, <2>3 DEF Work, Pc, InPlace, Lock
        <3> QED BY <2>3, <3>1, StepUpdates DEF Lock, TypeInv
      <2> QED BY <2>1, <2>2, <2>3
    <1>5. staged' \in BOOLEAN /\ stage' \in [File -> VersionOrNone]
        BY <1>1 DEF TypeInv, TypeOK, Wipe, Extract, Lock, Nothing, VersionOrNone, stageVars, InPlace, Work
    <1>6. TypeOK'
        BY <1>4, <1>5 DEF TypeInv, TypeOK, Updates, Wipe, Extract, Lock,
                          bootVars, fileVars, stageVars, counters
    <1> QED BY <1>3, <1>4, <1>6 DEF TypeInv

(* Steps that may fail count their failures, and never make things clean.  *)
LEMMA FailsCounted ==
    ASSUME TypeOK,
           \/ Start \/ RollBack \/ RolledBack \/ Confirm
           \/ \E w \in Worker : SwapFails(w) \/ Written(w)
    PROVE  /\ faults' \in Nat /\ clean' \in BOOLEAN
           /\ clean' => clean
    <1>1. /\ clean' \in {clean, FALSE, clean /\ Swapping = {}}
          /\ faults' \in {faults, faults + 1}
        BY DEF Start, RollBack, RolledBack, Confirm, SwapFails, Written, Fault
    <1>2. clean \in BOOLEAN /\ faults \in Nat
        BY DEF TypeOK
    <1>3. faults' \in Nat
        BY <1>1, <1>2
    <1>4. clean' \in BOOLEAN /\ (clean' => clean)
        BY <1>1, <1>2, Zenon
    <1> QED BY <1>3, <1>4

(* The swap.                                                               *)
LEMMA SwapType ==
    ASSUME TypeInv, NEW w \in Worker, BackUp(w) \/ PlaceNew(w) \/ SwapFails(w) \/ Written(w)
    PROVE  TypeInv'
    <1> DEFINE r == worker[w]
    <1>1. r \in Work /\ InPlace(r) /\ r.pc # "idle" /\ r.version \in Version
        BY DEF TypeInv, Updates, InPlace, BackUp, PlaceNew, SwapFails, Written
    <1>2. AtRest \in Work /\ InPlace(AtRest)
        BY RestType
    <1>3. Quiet'
        BY <1>1, UpdateQuiet DEF BackUp, PlaceNew, SwapFails, Written, bootVars
    <1>4. CASE BackUp(w)
      <2>1. r.at + 1 \in 0 .. Len(Files) + 1 /\ r.at \in 1 .. Len(Files) /\ r.at + 1 >= 1
          BY <1>1, <1>4, Bundle DEF Work, InPlace, BackUp
      <2>2. [r EXCEPT !.at = @ + 1] \in Work /\ InPlace([r EXCEPT !.at = @ + 1])
          BY <1>1, <1>4, <2>1, WorkFields DEF Work, InPlace, BackUp
      <2>3. [r EXCEPT !.pc = "place"] \in Work /\ InPlace([r EXCEPT !.pc = "place"])
        <3>1. [r EXCEPT !.pc = "place"] \in Work
            BY <1>1, WorkFields DEF Pc
        <3> QED BY <1>1, <2>1, <3>1 DEF Work, InPlace
      <2>4. Updates'
          BY <1>4, <2>2, <2>3, StepUpdates DEF BackUp, TypeInv
      <2>5. cur' \in [File -> VersionOrNone] /\ prev' \in [File -> VersionOrNone]
          BY <1>4, <2>1, Bundle DEF BackUp, TypeInv, TypeOK, VersionOrNone, fileVars
      <2>6. TypeOK'
          BY <1>4, <2>4, <2>5 DEF TypeInv, TypeOK, Updates, BackUp,
                                  bootVars, stageVars, counters
      <2> QED BY <1>3, <2>4, <2>6 DEF TypeInv
    <1>5. CASE PlaceNew(w)
      <2>1. /\ r.at + 1 \in 0 .. Len(Files) + 1 /\ r.at \in 1 .. Len(Files) /\ r.at + 1 >= 1
            /\ r.done \cup {Files[r.at]} \in SUBSET File
          BY <1>1, <1>5, Bundle DEF Work, InPlace, PlaceNew
      <2> DEFINE q == [r EXCEPT !.pc = "swap", !.at = @ + 1, !.done = @ \cup {Files[r.at]}]
      <2>2. q \in Work
        <3>1. [r EXCEPT !.pc = "swap", !.at = r.at + 1] \in Work
            BY <1>1, <2>1, WorkFields DEF Pc
        <3>2. q = [[r EXCEPT !.pc = "swap", !.at = r.at + 1] EXCEPT !.done = r.done \cup {Files[r.at]}]
            BY <1>1 DEF Work
        <3> QED BY <2>1, <3>1, <3>2, WorkFields
      <2>3. InPlace(q)
          BY <1>1, <2>1 DEF Work, InPlace
      <2>4. Updates'
          BY <1>5, <2>2, <2>3, StepUpdates DEF PlaceNew, TypeInv
      <2>5. cur' \in [File -> VersionOrNone] /\ stage' \in [File -> VersionOrNone]
          BY <1>5, <2>1, Bundle DEF PlaceNew, TypeInv, TypeOK, VersionOrNone
      <2>6. TypeOK'
          BY <1>5, <2>4, <2>5 DEF TypeInv, TypeOK, Updates, PlaceNew, bootVars, counters
      <2> QED BY <1>3, <2>4, <2>6 DEF TypeInv
    <1>6. CASE SwapFails(w)
      <2>1. Updates'
          BY <1>2, <1>6, StepUpdates DEF SwapFails, TypeInv
      <2>2. cur' \in [File -> VersionOrNone] /\ prev' \in [File -> VersionOrNone]
        <3>1. PICK lost \in SUBSET Replaced(r), stuck \in SUBSET Replaced(r) : PutBack(w, lost, stuck)
            BY <1>6 DEF SwapFails
        <3> QED BY <3>1 DEF PutBack, TypeInv, TypeOK, VersionOrNone
      <2>3. /\ staged' \in BOOLEAN /\ stage' \in [File -> VersionOrNone]
            /\ state' \in UpdateState
        <3>1. state' \in {Noted(r.version, TRUE), state, NoState}
            BY <1>6 DEF SwapFails, Unwritten
        <3> QED BY <1>1, <1>6, <3>1, StateType DEF SwapFails, Nothing, VersionOrNone, TypeInv, TypeOK
      <2>4. faults' \in Nat /\ clean' \in BOOLEAN
          BY <1>6, FailsCounted DEF TypeInv, TypeOK
      <2>5. TypeOK'
          BY <1>6, <2>1, <2>2, <2>3, <2>4
          DEF TypeInv, TypeOK, Updates, SwapFails, bootVars
      <2> QED BY <1>3, <2>1, <2>5 DEF TypeInv
    <1>7. CASE Written(w)
      <2>1. [r EXCEPT !.pc = "written"] \in Work /\ InPlace([r EXCEPT !.pc = "written"])
        <3>1. [r EXCEPT !.pc = "written"] \in Work
            BY <1>1, WorkFields DEF Pc
        <3> QED BY <1>1, <3>1 DEF Work, InPlace
      <2>2. Updates'
          BY <1>7, <2>1, StepUpdates DEF Written, TypeInv
      <2>3. /\ staged' \in BOOLEAN /\ stage' \in [File -> VersionOrNone]
            /\ state' \in UpdateState
        <3>1. state' \in {Noted(r.version, FALSE), state, NoState}
            BY <1>7 DEF Written, Unwritten
        <3> QED BY <1>1, <1>7, <3>1, StateType DEF Written, Nothing, VersionOrNone, TypeInv, TypeOK
      <2>5. faults' \in Nat /\ clean' \in BOOLEAN
          BY <1>7, FailsCounted DEF TypeInv, TypeOK
      <2>4. TypeOK'
          BY <1>7, <2>2, <2>3, <2>5 DEF TypeInv, TypeOK, Updates, Written,
                                  bootVars, fileVars, counters
      <2> QED BY <1>3, <2>2, <2>4 DEF TypeInv
    <1> QED BY <1>4, <1>5, <1>6, <1>7

(* The process ends, and its updates and its confirmation with it.         *)
LEMMA GoneType ==
    ASSUME TypeInv, Gone
    PROVE  /\ Updates' /\ Quiet' /\ worker' \in [Worker -> Work]
           /\ running' \in VersionOrNone /\ booting' \in 0 .. Len(Files) + 1
           /\ confirming' \in BOOLEAN
    <1>1. worker' = NoWork /\ running' = Missing /\ booting' = 0 /\ confirming' = FALSE
        BY DEF Gone, NotBooting
    <1>2. AtRest.pc = "idle"
        BY DEF AtRest
    <1>3. 0 \in 0 .. Len(Files) + 1
        BY Bundle
    <1>4. Updates' /\ worker' \in [Worker -> Work]
        BY <1>1, RestType DEF Updates
    <1>5. Quiet'
        BY <1>1, <1>2, RestType DEF Quiet, NotBooting
    <1> QED BY <1>1, <1>3, <1>4, <1>5 DEF VersionOrNone

(* The new programs are started, or are not.                               *)
LEMMA ReexecType ==
    ASSUME TypeInv, NEW w \in Worker, Reexec(w)
    PROVE  TypeInv'
    <1>1. CASE Gone
      <2>1. faults' \in Nat
          BY DEF TypeInv, TypeOK, Reexec, Fault
      <2>2. clean' \in BOOLEAN
          BY DEF TypeInv, TypeOK, Reexec
      <2>3. TypeOK'
          BY <1>1, <2>1, <2>2, GoneType DEF TypeInv, TypeOK, Reexec, fileVars, stageVars
      <2> QED BY <1>1, <2>3, GoneType DEF TypeInv
    <1>2. CASE ~ Gone
      <2>1. Updates' /\ Quiet'
          BY <1>2, RestType, StepUpdates, UpdateQuiet DEF Reexec, TypeInv
      <2>2. faults' \in Nat /\ worker' \in [Worker -> Work]
          BY <1>2, <2>1 DEF Reexec, Fault, TypeInv, TypeOK, Updates
      <2>3. TypeOK'
          BY <1>2, <2>2 DEF TypeInv, TypeOK, Reexec, fileVars, stageVars
      <2> QED BY <2>1, <2>3 DEF TypeInv
    <1> QED BY <1>1, <1>2

(* Starts, the boot check, confirmations and stops.                        *)
LEMMA BootType ==
    ASSUME TypeInv, Start \/ RollBack \/ RolledBack \/ Confirm \/ Crash \/ Stop
    PROVE  TypeInv'
    <1>0. Start \/ RollBack \/ RolledBack \/ Confirm => faults' \in Nat /\ clean' \in BOOLEAN
        BY FailsCounted DEF TypeInv
    <1>1. CASE Start
      <2>1. cur[Agent] \in Version
          BY <1>1, Bundle DEF Start, TypeInv, TypeOK, VersionOrNone
      <2>2. booting' \in 0 .. Len(Files) + 1
          BY <1>1, Bundle DEF Start, TypeInv, TypeOK
      <2>3. confirming' \in BOOLEAN
          BY <1>1 DEF Start, TypeInv, TypeOK
      <2>4. state' \in UpdateState
        <3>1. ~ Exhausted => state.attempts + 1 \in 0 .. 2
            BY DEF Exhausted, TypeInv, TypeOK, UpdateState
        <3>2. \/ state' = state \/ state' = NoState
              \/ ~ Exhausted /\ state' = [state EXCEPT !.attempts = @ + 1]
            BY <1>1 DEF Start, Counted
        <3> QED BY <3>1, <3>2, StateType DEF TypeInv, TypeOK, UpdateState
      <2>5. TypeOK' /\ Updates'
          BY <1>0, <1>1, <2>1, <2>2, <2>4, <2>3
          DEF Start, TypeInv, TypeOK, Updates, VersionOrNone, fileVars, stageVars
      <2>6. Quiet'
          BY <1>1, <2>1, UpdateAssumption
          DEF Start, TypeInv, Quiet, NotBooting, Version, Missing
      <2> QED BY <2>5, <2>6 DEF TypeInv
    <1>2. CASE RollBack
      <2>1. booting \in 1 .. Len(Files) /\ booting' \in 0 .. Len(Files) + 1 /\ booting' # 0
          BY <1>2, Bundle DEF RollBack
      <2>2. cur' \in [File -> VersionOrNone] /\ prev' \in [File -> VersionOrNone]
          BY <1>2, <2>1, Bundle DEF RollBack, TypeInv, TypeOK, VersionOrNone, fileVars
      <2>3. TypeOK' /\ Updates'
          BY <1>0, <1>2, <2>1, <2>2 DEF RollBack, TypeInv, TypeOK, Updates, stageVars
      <2>4. Quiet'
          BY <1>2, <2>1 DEF RollBack, TypeInv, Quiet, NotBooting
      <2> QED BY <2>3, <2>4 DEF TypeInv
    <1>3. CASE RolledBack
      <2>1. TypeOK'
          BY <1>0, <1>3, StateType, GoneType DEF RolledBack, TypeInv, TypeOK, fileVars, stageVars
      <2> QED BY <1>3, <2>1, GoneType DEF RolledBack, TypeInv
    <1>4. CASE Confirm
      <2>1. prev' \in [File -> VersionOrNone] /\ state' \in UpdateState
          BY <1>4, StateType DEF Confirm, TypeInv, TypeOK, Nothing, VersionOrNone
      <2>2. TypeOK' /\ Updates'
          BY <1>0, <1>4, <2>1 DEF Confirm, TypeInv, TypeOK, Updates, stageVars
      <2>3. Quiet'
          BY <1>4 DEF Confirm, TypeInv, Quiet
      <2> QED BY <2>2, <2>3 DEF TypeInv
    <1>5. CASE Crash
      <2>1. TypeOK'
          BY <1>5, GoneType DEF Crash, TypeInv, TypeOK, fileVars, stageVars, counters
      <2> QED BY <1>5, <2>1, GoneType DEF Crash, TypeInv
    <1>6. CASE Stop
      <2>1. cur' \in [File -> VersionOrNone] /\ stops' \in Nat
          BY <1>6 DEF Stop, TypeInv, TypeOK, VersionOrNone
      <2>2. clean' \in BOOLEAN
          BY <1>6 DEF Stop, TypeInv, TypeOK
      <2>3. TypeOK'
          BY <1>6, <2>1, <2>2, GoneType DEF Stop, TypeInv, TypeOK, stageVars
      <2> QED BY <1>6, <2>3, GoneType DEF Stop, TypeInv
    <1> QED BY <1>1, <1>2, <1>3, <1>4, <1>5, <1>6

(* At the start version 1 is installed and runs.                           *)
LEMMA InitType == Init => TypeInv
    <1> SUFFICES ASSUME Init PROVE TypeInv
        OBVIOUS
    <1>1. 1 \in Version /\ 0 \in 0 .. Len(Files) + 1
        BY UpdateAssumption, Bundle DEF Version
    <1>2. Updates
        BY RestType DEF Init, Updates
    <1>3. /\ cur \in [File -> VersionOrNone] /\ prev \in [File -> VersionOrNone]
          /\ stage \in [File -> VersionOrNone]
          /\ part \in [Version -> Partial]
          /\ state \in UpdateState
        BY <1>1, StateType DEF Init, Nothing, NoPart, Partial, VersionOrNone
    <1>4. TypeOK
        BY <1>1, <1>2, <1>3 DEF Init, TypeOK, Updates, VersionOrNone, NotBooting
    <1>5. Quiet
        BY DEF Init, Quiet, Missing, NotBooting
    <1> QED BY <1>2, <1>4, <1>5 DEF TypeInv

(* Every step keeps the types.                                             *)
LEMMA NextType == TypeInv /\ [Next]_vars => TypeInv'
    <1> SUFFICES ASSUME TypeInv, [Next]_vars PROVE TypeInv'
        OBVIOUS
    <1>1. CASE Next
        BY <1>1, HubType, DownloadType, StageType, SwapType, ReexecType, BootType DEF Next, Update
    <1>2. CASE UNCHANGED vars
        BY <1>2 DEF vars, TypeInv, TypeOK, Updates, Quiet
    <1> QED BY <1>1, <1>2

(* The state of the programs, the downloads and update.json stays well     *)
(* typed, through any updates at once and any stops.                       *)
THEOREM TypeCorrect == Spec => []TypeOK
    <1>1. TypeInv => TypeOK
        BY DEF TypeInv
    <1> QED BY <1>1, InitType, NextType, PTL DEF Spec

-----------------------------------------------------------------------------
(* All or none, and a way back.                                            *)

(* The programs before the i-th.                                           *)
Before(i) == {Files[j] : j \in 1 .. (i - 1)}

(* An update goes to a version newer than the one that runs.               *)
Newer == \A w \in Worker : worker[w].pc # "idle" => worker[w].version > running

LEMMA NextNewer == TypeInv /\ Newer /\ [Next]_vars => Newer'
    <1> SUFFICES ASSUME TypeInv, Newer, [Next]_vars PROVE Newer'
        OBVIOUS
    <1>0. worker \in [Worker -> Work] /\ AtRest.pc = "idle"
        BY DEF TypeInv, Updates, AtRest
    <1>1. ASSUME NEW w \in Worker, NEW q, running' = running,
                 Step(w, q) \/ (\E v \in Version : RemovedAnd(w, v, q)),
                 q.pc # "idle" => q.version = worker[w].version /\ worker[w].pc # "idle"
          PROVE  Newer'
      <2>1. \A x \in Worker : worker[x] \in Work
          BY <1>0
      <2>2. worker'[w] = q /\ \A x \in Worker \ {w} :
               worker'[x].pc = worker[x].pc /\ worker'[x].version = worker[x].version
        <3>1. CASE Step(w, q)
            BY <1>0, <3>1 DEF Step
        <3>2. ASSUME NEW v \in Version, RemovedAnd(w, v, q) PROVE worker'[w] = q /\ \A x \in Worker \ {w} :
                     worker'[x].pc = worker[x].pc /\ worker'[x].version = worker[x].version
          <4>1. \A x \in Worker \ {w} : worker'[x] \in {worker[x], [worker[x] EXCEPT !.lost = TRUE]}
              BY <3>2 DEF RemovedAnd
          <4>2. \A x \in Worker : LET t == [worker[x] EXCEPT !.lost = TRUE]
                                  IN  t.pc = worker[x].pc /\ t.version = worker[x].version
              BY <2>1 DEF Work
          <4> QED BY <3>2, <4>1, <4>2 DEF RemovedAnd
        <3> QED BY <1>1, <3>1, <3>2
      <2> QED BY <1>1, <2>2 DEF Newer
    <1>2. CASE UNCHANGED <<worker, running>>
        BY <1>2 DEF Newer
    <1>3. CASE Gone
        BY <1>3, RestType, <1>0 DEF Newer, Gone
    <1>4. CASE Heartbeat
      <2>1. CASE worker' = worker
          BY <1>4, <2>1 DEF Heartbeat, Newer
      <2>2. CASE worker' # worker
        <3> DEFINE q == [AtRest EXCEPT !.pc = "ask", !.version = release]
        <3>1. PICK w \in Worker : worker' = [worker EXCEPT ![w] = q]
            BY <1>4, <2>2 DEF Heartbeat
        <3>2. q.version = release /\ release > running /\ running' = running
            BY <1>4, <2>2 DEF Heartbeat, AtRest
        <3>3. worker'[w].version > running' /\ \A x \in Worker \ {w} : worker'[x] = worker[x]
            BY <1>0, <3>1, <3>2
        <3> QED BY <3>2, <3>3 DEF Newer
      <2> QED BY <2>1, <2>2
    <1>5. CASE Start
        BY <1>5, <1>0 DEF Start, TypeInv, Quiet, Newer
    <1>6. ASSUME NEW w \in Worker, Ask(w) PROVE Newer'
      <2> DEFINE r == worker[w]
                 q == [r EXCEPT !.pc = "download", !.served = release, !.off = part[r.version].have]
      <2>1. q.version = r.version /\ r.pc # "idle" /\ running' = running /\ r.version \in Version
          BY <1>0, <1>6 DEF Ask, Work, bootVars, TypeInv, Updates, InPlace
      <2>2. RemovedAnd(w, r.version, AtRest) \/ Step(w, q)
          BY <1>6 DEF Ask
      <2> HIDE DEF q
      <2> QED BY <1>0, <1>1, <2>1, <2>2
    <1>7. ASSUME NEW w \in Worker, Piece(w) PROVE Newer'
      <2>1. /\ [worker[w] EXCEPT !.off = @ + 1].version = worker[w].version
            /\ worker[w].pc # "idle" /\ running' = running
          BY <1>0, <1>7 DEF Piece, Work, bootVars
      <2> QED BY <1>1, <1>7, <2>1 DEF Piece
    <1>8. ASSUME NEW w \in Worker, Downloaded(w) PROVE Newer'
      <2> DEFINE r == worker[w]
                 q == [r EXCEPT !.pc = "wipe", !.lost = FALSE]
      <2>1. q.version = r.version /\ r.pc # "idle" /\ running' = running /\ r.version \in Version
          BY <1>0, <1>8 DEF Downloaded, Work, bootVars, TypeInv, Updates, InPlace
      <2>2. \E x \in {q, AtRest} : Step(w, x) \/ RemovedAnd(w, r.version, x)
          BY <1>8 DEF Downloaded
      <2> HIDE DEF q
      <2> QED BY <1>0, <1>1, <2>1, <2>2
    <1>9. ASSUME NEW w \in Worker, GiveUp(w) \/ SwapFails(w) PROVE Newer'
        BY <1>0, <1>1, <1>9 DEF GiveUp, SwapFails, bootVars
    <1>10. ASSUME NEW w \in Worker, Wipe(w) PROVE Newer'
      <2>1. /\ [worker[w] EXCEPT !.pc = "extract", !.at = 1].version = worker[w].version
            /\ worker[w].pc # "idle" /\ running' = running
          BY <1>0, <1>10 DEF Wipe, Work, bootVars
      <2> QED BY <1>1, <1>10, <2>1 DEF Wipe
    <1>11. ASSUME NEW w \in Worker, Extract(w) PROVE Newer'
      <2>1. /\ [worker[w] EXCEPT !.at = @ + 1].version = worker[w].version
            /\ [worker[w] EXCEPT !.pc = "lock", !.at = 1].version = worker[w].version
            /\ worker[w].pc # "idle" /\ running' = running
          BY <1>0, <1>11 DEF Extract, Work, bootVars
      <2> QED BY <1>0, <1>1, <1>11, <2>1 DEF Extract
    <1>12. ASSUME NEW w \in Worker, Lock(w) PROVE Newer'
      <2>1. /\ [worker[w] EXCEPT !.pc = "swap"].version = worker[w].version
            /\ worker[w].pc # "idle" /\ running' = running
          BY <1>0, <1>12 DEF Lock, Work, bootVars
      <2> QED BY <1>1, <1>12, <2>1 DEF Lock
    <1>13. ASSUME NEW w \in Worker, BackUp(w) PROVE Newer'
      <2>1. /\ [worker[w] EXCEPT !.at = @ + 1].version = worker[w].version
            /\ [worker[w] EXCEPT !.pc = "place"].version = worker[w].version
            /\ worker[w].pc # "idle" /\ running' = running
          BY <1>0, <1>13 DEF BackUp, Work, bootVars
      <2> QED BY <1>1, <1>13, <2>1 DEF BackUp
    <1>14. ASSUME NEW w \in Worker, PlaceNew(w) PROVE Newer'
      <2> DEFINE q == [worker[w] EXCEPT !.pc = "swap", !.at = @ + 1, !.done = @ \cup {Files[worker[w].at]}]
      <2>1. /\ q.version = worker[w].version
            /\ worker[w].pc # "idle" /\ running' = running /\ Step(w, q)
          BY <1>0, <1>14 DEF PlaceNew, Work, bootVars
      <2> HIDE DEF q
      <2> QED BY <1>1, <2>1
    <1>15. ASSUME NEW w \in Worker, Written(w) PROVE Newer'
      <2>1. /\ [worker[w] EXCEPT !.pc = "written"].version = worker[w].version
            /\ worker[w].pc # "idle" /\ running' = running
          BY <1>0, <1>15 DEF Written, Work, bootVars
      <2> QED BY <1>1, <1>15, <2>1 DEF Written
    <1>16. ASSUME NEW w \in Worker, Reexec(w) PROVE Newer'
        BY <1>0, <1>1, <1>3, <1>16 DEF Reexec
    <1>17. CASE Update
        BY <1>6, <1>7, <1>8, <1>9, <1>10, <1>11, <1>12, <1>13, <1>14, <1>15, <1>16, <1>17 DEF Update
    <1>18. CASE (\E v \in Version : Release(v)) \/ HeartbeatFails \/ TimePasses \/ RollBack \/ Confirm
        BY <1>2, <1>18 DEF Release, HeartbeatFails, TimePasses, RollBack, Confirm
    <1>19. CASE RolledBack \/ Crash \/ Stop
        BY <1>3, <1>19 DEF RolledBack, Crash, Stop
    <1> QED BY <1>2, <1>4, <1>5, <1>17, <1>18, <1>19 DEF Next, vars

(* One update at a time, started by an agent that works.                   *)
OneAtWork ==
    \A w \in Worker : worker[w].pc # "idle" =>
        /\ running \in Version \ Fails
        /\ \A v \in Worker : worker[v].pc # "idle" => v = w

(* What is staged is of the update's version.                              *)
InStage ==
    \A w \in Worker :
        /\ worker[w].pc = "extract" => \A f \in Before(worker[w].at) : stage[f] = worker[w].version
        /\ worker[w].pc = "lock" => \A f \in File : stage[f] = worker[w].version

(* In the swap the programs already replaced have their ".prev", and the   *)
(* others are still as they were, or next.                                 *)
Swapped(r) ==
    /\ IF r.pc = "written" THEN r.done = File ELSE r.done = Before(r.at)
    /\ \A f \in r.done : cur[f] = r.version /\ prev[f] = running
                         /\ (r.pc # "written" => stage[f] = Missing)
    /\ \A f \in File \ r.done :
          /\ stage[f] = r.version
          /\ IF r.pc = "place" /\ f = Files[r.at] THEN prev[f] = running ELSE cur[f] = running
    /\ r.pc = "place" => Files[r.at] \notin r.done

InSwap == \A w \in Swapping : Swapped(worker[w])

(* Else they are whole, and what runs is what is installed.                *)
Whole ==
    Swapping = {} /\ booting = NotBooting =>
        /\ cur[Agent] \in Version /\ \A f \in File : cur[f] = cur[Agent]
        /\ running # Missing => running = cur[Agent]
        /\ state.version = cur[Agent] /\ ~ state.failed =>
              \A f \in File : /\ prev[f] \in Version \ Fails /\ prev[f] = prev[Agent]
                              /\ prev[f] # cur[Agent]

(* A rollback is on its way to a version that works.                       *)
OnTheWayBack ==
    booting # NotBooting =>
        \E p \in Version \ (Fails \cup {state.version}) :
            \A f \in File : IF f \in Before(booting) THEN cur[f] = p /\ prev[f] = Missing
                                                     ELSE prev[f] = p

BundleInv == clean => OneAtWork /\ InStage /\ InSwap /\ Whole /\ OnTheWayBack

(* The programs, one after the other.                                      *)
LEMMA BeforeNext ==
    /\ Before(1) = {}
    /\ \A i \in 1 .. Len(Files) : Before(i + 1) = Before(i) \cup {Files[i]}
    /\ Before(Len(Files) + 1) = File
    <1>1. Before(1) = {}
        BY DEF Before
    <1>2. ASSUME NEW i \in 1 .. Len(Files)
          PROVE  Before(i + 1) = Before(i) \cup {Files[i]}
      <2>1. 1 .. ((i + 1) - 1) = (1 .. (i - 1)) \cup {i}
          BY Bundle
      <2> QED BY <2>1 DEF Before
    <1>3. Before(Len(Files) + 1) = File
      <2>1. 1 .. ((Len(Files) + 1) - 1) = DOMAIN Files
          BY Bundle
      <2> QED BY <2>1 DEF Before, File
    <1> QED BY <1>1, <1>2, <1>3

(* An update at work is alone, and nothing boots.                          *)
LEMMA Alone ==
    ASSUME TypeInv, OneAtWork, NEW w \in Worker, worker[w].pc # "idle"
    PROVE  /\ running \in Version \ Fails /\ running # Missing /\ booting = NotBooting
           /\ \A x \in Worker \ {w} : worker[x].pc = "idle"
           /\ Swapping \subseteq {w}
    <1>1. running \in Version \ Fails /\ \A x \in Worker \ {w} : worker[x].pc = "idle"
        BY DEF OneAtWork
    <1>2. running # Missing
        BY <1>1, UpdateAssumption DEF Version, Missing
    <1>3. booting = NotBooting
        BY <1>2 DEF TypeInv, Quiet
    <1> QED BY <1>1, <1>2, <1>3 DEF Swapping

(* A step of the only update.                                              *)
LEMMA StepAlone ==
    ASSUME TypeInv, OneAtWork, NEW w \in Worker, worker[w].pc # "idle",
           NEW r, Step(w, r) \/ (\E v \in Version : RemovedAnd(w, v, r)),
           UNCHANGED running
    PROVE  /\ OneAtWork'
           /\ worker'[w] = r
           /\ \A x \in Worker \ {w} : worker'[x].pc = "idle"
           /\ Swapping' = IF r.pc \in {"swap", "place", "written"} THEN {w} ELSE {}
    <1>1. \A x \in Worker \ {w} : worker[x].pc = "idle"
        BY Alone
    <1>2. /\ worker'[w] = r
          /\ \A x \in Worker \ {w} : worker'[x].pc = "idle"
        BY <1>1 DEF Step, RemovedAnd, TypeInv, Updates
    <1>3. OneAtWork'
        BY <1>2 DEF OneAtWork
    <1>4. Swapping' = IF r.pc \in {"swap", "place", "written"} THEN {w} ELSE {}
        BY <1>2 DEF Swapping
    <1> QED BY <1>2, <1>3, <1>4

(* Nothing of the hub or the heartbeats touches the programs.              *)
LEMMA HubBundle ==
    ASSUME TypeInv, BundleInv, clean',
           (\E v \in Version : Release(v)) \/ HeartbeatFails \/ Heartbeat \/ TimePasses
    PROVE  BundleInv'
    <1>1. clean /\ UNCHANGED <<running, booting, cur, prev, stage>>
          /\ state'.version = state.version /\ state'.failed = state.failed
        BY DEF Release, HeartbeatFails, Heartbeat, TimePasses, bootVars, fileVars, stageVars,
               TypeInv, TypeOK, UpdateState
    <1>2. CASE UNCHANGED worker
        BY <1>1, <1>2 DEF BundleInv, OneAtWork, InStage, InSwap, Swapped, Swapping, Whole, OnTheWayBack
    <1>3. CASE Heartbeat /\ worker' # worker
      <2>1. /\ running \in Version \ Fails /\ \A w \in Worker : worker[w].pc = "idle"
          BY <1>3, <1>1 DEF Heartbeat, Busy, TypeInv, TypeOK, VersionOrNone
      <2>2. PICK w \in Worker :
               worker' = [worker EXCEPT ![w] = [AtRest EXCEPT !.pc = "ask", !.version = release]]
          BY <1>3 DEF Heartbeat
      <2>3. /\ worker'[w].pc = "ask" /\ \A x \in Worker \ {w} : worker'[x].pc = "idle"
          BY <2>1, <2>2 DEF TypeInv, Updates, AtRest
      <2>4. OneAtWork' /\ InStage' /\ Swapping = {} /\ Swapping' = {}
          BY <1>1, <2>1, <2>3 DEF OneAtWork, InStage, Swapping
      <2> QED BY <1>1, <2>4 DEF BundleInv, InSwap, Whole, OnTheWayBack
    <1> QED BY <1>2, <1>3 DEF Release, HeartbeatFails, TimePasses

(* Nor does the download; what is staged is whole when the swap begins.    *)
LEMMA FetchBundle ==
    ASSUME TypeInv, BundleInv, clean, NEW w \in Worker,
           \/ Ask(w) \/ Piece(w) \/ Downloaded(w) \/ GiveUp(w)
           \/ Wipe(w) \/ Extract(w) \/ Lock(w)
    PROVE  BundleInv'
    <1> DEFINE r == worker[w]
    <1>1. r \in Work /\ InPlace(r) /\ AtRest \in Work /\ AtRest.pc = "idle"
        BY RestType DEF TypeInv, Updates, AtRest
    <1>2. r.pc # "idle" /\ r.pc \notin {"swap", "place", "written"} /\ r.version \in Version
        BY <1>1 DEF InPlace, Ask, Piece, Downloaded, GiveUp, Wipe, Extract, Lock
    <1>3. /\ running \in Version \ Fails /\ running # Missing /\ booting = NotBooting
          /\ Swapping = {}
        BY <1>2, Alone DEF BundleInv, Swapping
    <1>4. UNCHANGED <<running, booting, cur, prev, state>>
        BY DEF Ask, Piece, Downloaded, GiveUp, Wipe, Extract, Lock, bootVars, fileVars
    <1>5. ASSUME NEW q, q.pc \notin {"swap", "place", "written"},
                 Step(w, q) \/ (\E v \in Version : RemovedAnd(w, v, q)),
                 q.pc = "extract" => \A f \in Before(q.at) : stage'[f] = q.version,
                 q.pc = "lock" => \A f \in File : stage'[f] = q.version
          PROVE  BundleInv'
      <2>1. /\ OneAtWork' /\ worker'[w] = q /\ Swapping' = {}
            /\ \A x \in Worker \ {w} : worker'[x].pc = "idle"
          BY <1>2, <1>4, <1>5, StepAlone DEF BundleInv
      <2>2. InStage'
          BY <1>5, <2>1 DEF InStage
      <2>3. InSwap' /\ Whole' /\ OnTheWayBack'
          BY <1>3, <1>4, <2>1 DEF BundleInv, InSwap, Whole, OnTheWayBack
      <2> QED BY <2>1, <2>2, <2>3 DEF BundleInv
    <1>6. CASE Ask(w)
      <2>1. PICK q : /\ q.pc \in {"idle", "download"}
                     /\ Step(w, q) \/ (\E v \in Version : RemovedAnd(w, v, q))
        <3>1. CASE part[r.version].have >= Pieces
            BY <1>1, <1>2, <1>6, <3>1 DEF Ask
        <3>2. CASE ~ part[r.version].have >= Pieces
          <4> DEFINE q == [r EXCEPT !.pc = "download", !.served = release,
                                    !.off = part[r.version].have]
          <4>1. q.pc = "download"
              BY <1>1 DEF Work
          <4>2. Step(w, q)
              BY <1>6, <3>2 DEF Ask
          <4> HIDE DEF q
          <4> QED BY <4>1, <4>2
        <3> QED BY <3>1, <3>2
      <2> QED BY <1>5, <2>1
    <1>7. CASE Piece(w)
      <2>1. [r EXCEPT !.off = @ + 1].pc = "download"
          BY <1>1, <1>7 DEF Piece, Work
      <2> QED BY <1>5, <1>7, <2>1 DEF Piece
    <1>8. CASE Downloaded(w)
      <2>1. [r EXCEPT !.pc = "wipe", !.lost = FALSE].pc = "wipe"
          BY <1>1 DEF Work
      <2>2. CASE part[r.version].have = 0
          BY <1>1, <1>5, <1>8, <2>2 DEF Downloaded
      <2>3. CASE part[r.version].have # 0
        <3>1. \/ RemovedAnd(w, r.version, [r EXCEPT !.pc = "wipe", !.lost = FALSE])
              \/ RemovedAnd(w, r.version, AtRest)
            BY <1>8, <2>3 DEF Downloaded
        <3> QED BY <1>1, <1>2, <1>5, <2>1, <3>1
      <2> QED BY <2>2, <2>3
    <1>9. CASE GiveUp(w)
        BY <1>1, <1>5, <1>9 DEF GiveUp
    <1>10. CASE Wipe(w)
      <2>1. /\ [r EXCEPT !.pc = "extract", !.at = 1].pc = "extract"
            /\ [r EXCEPT !.pc = "extract", !.at = 1].at = 1
          BY <1>1 DEF Work
      <2> QED BY <1>5, <1>10, <2>1, BeforeNext DEF Wipe
    <1>11. CASE Extract(w)
      <2>1. CASE ~ staged
          BY <1>1, <1>5, <1>11, <2>1 DEF Extract
      <2>2. CASE staged
        <3>1. /\ r.at \in 1 .. Len(Files) /\ Files[r.at] \in File
              /\ \A f \in Before(r.at) : stage[f] = r.version
            BY <1>1, <1>11, Bundle DEF InPlace, Extract, BundleInv, InStage
        <3>2. stage' = [stage EXCEPT ![Files[r.at]] = r.version]
            BY <1>11, <2>2 DEF Extract
        <3>3. /\ Before(r.at + 1) \subseteq File
              /\ \A f \in Before(r.at + 1) : stage'[f] = r.version
          <4>1. Before(r.at + 1) = Before(r.at) \cup {Files[r.at]} /\ Before(r.at) \subseteq File
            <5>1. Before(r.at) \subseteq File
                BY <3>1, Bundle DEF Before
            <5> QED BY <3>1, <5>1, BeforeNext
          <4> QED BY <3>1, <3>2, <4>1 DEF TypeInv, TypeOK
        <3>4. CASE r.at < Len(Files)
          <4>1. /\ [r EXCEPT !.at = @ + 1].pc = "extract" /\ [r EXCEPT !.at = @ + 1].at = r.at + 1
                /\ [r EXCEPT !.at = @ + 1].version = r.version
              BY <1>1, <1>11 DEF Extract, Work
          <4> QED BY <1>5, <1>11, <2>2, <3>3, <3>4, <4>1 DEF Extract
        <3>5. CASE ~ r.at < Len(Files)
          <4>1. /\ [r EXCEPT !.pc = "lock", !.at = 1].pc = "lock"
                /\ [r EXCEPT !.pc = "lock", !.at = 1].version = r.version
              BY <1>1 DEF Work
          <4>2. r.at = Len(Files)
              BY <3>1, <3>5, Bundle
          <4>3. \A f \in File : stage'[f] = r.version
              BY <3>3, <4>2, BeforeNext
          <4> QED BY <1>5, <1>11, <2>2, <3>5, <4>1, <4>3 DEF Extract
        <3> QED BY <3>4, <3>5
      <2> QED BY <2>1, <2>2
    <1>12. CASE Lock(w)
      <2> DEFINE q == [r EXCEPT !.pc = "swap"]
      <2>1. /\ q.pc = "swap" /\ q.version = r.version /\ q.done = {} /\ q.at = 1
          BY <1>1, <1>2, <1>12 DEF Work, InPlace, Lock
      <2>2. /\ OneAtWork' /\ worker'[w] = q /\ Swapping' = {w}
            /\ \A x \in Worker \ {w} : worker'[x].pc = "idle"
          BY <1>2, <1>4, <1>12, <2>1, StepAlone DEF BundleInv, Lock
      <2>3. /\ \A f \in File : stage[f] = r.version /\ cur[f] = running
          BY <1>3, <1>12 DEF BundleInv, InStage, Lock, Whole
      <2>4. Swapped(worker[w])'
          BY <2>2, <1>4, <1>12, <2>1, <2>3, BeforeNext DEF Swapped, Lock, stageVars
      <2>5. InSwap' /\ InStage' /\ Whole' /\ OnTheWayBack'
          BY <1>3, <1>4, <2>1, <2>2, <2>4 DEF InSwap, InStage, Whole, OnTheWayBack
      <2> QED BY <2>2, <2>5 DEF BundleInv
    <1> QED BY <1>6, <1>7, <1>8, <1>9, <1>10, <1>11, <1>12

(* The swap replaces one program after the other, or puts all back.        *)
LEMMA SwapBundle ==
    ASSUME TypeInv, BundleInv, clean, clean', NEW w \in Worker,
           BackUp(w) \/ PlaceNew(w) \/ SwapFails(w) \/ Written(w)
    PROVE  BundleInv'
    <1> DEFINE r == worker[w]
               f == Files[r.at]
    <1>1. r \in Work /\ InPlace(r) /\ AtRest.pc = "idle"
        BY DEF TypeInv, Updates, AtRest
    <1>2. r.pc \in {"swap", "place"} /\ w \in Swapping /\ r.version \in Version
        BY <1>1 DEF InPlace, Swapping, BackUp, PlaceNew, SwapFails, Written
    <1>3. /\ running \in Version \ Fails /\ running # Missing /\ booting = NotBooting
          /\ Swapped(r) /\ r.done = Before(r.at)
        BY <1>2, Alone DEF BundleInv, InSwap, Swapped
    <1>4. UNCHANGED <<running, booting>>
        BY DEF BackUp, PlaceNew, SwapFails, Written, bootVars
    <1>5. ASSUME NEW q, Step(w, q), worker'[w].pc \in {"swap", "place", "written"},
                 Swapped(worker[w])'
          PROVE  BundleInv'
      <2>1. /\ OneAtWork' /\ worker'[w] = q /\ Swapping' = {w}
            /\ \A x \in Worker \ {w} : worker'[x].pc = "idle"
        <3>1. /\ OneAtWork' /\ worker'[w] = q
              /\ \A x \in Worker \ {w} : worker'[x].pc = "idle"
            BY <1>2, <1>4, <1>5, StepAlone DEF BundleInv
        <3> QED BY <1>5, <3>1 DEF Swapping
      <2>2. InSwap' /\ InStage' /\ Whole' /\ OnTheWayBack'
          BY <1>3, <1>4, <1>5, <2>1 DEF InSwap, InStage, Whole, OnTheWayBack
      <2> QED BY <2>1, <2>2 DEF BundleInv
    <1>6. ASSUME NEW q, Step(w, q) PROVE worker'[w] = q
        BY <1>6 DEF Step, TypeInv, Updates
    <1>7. CASE BackUp(w)
      <2>1. r.pc = "swap" /\ r.at \in 1 .. Len(Files) /\ f \in File
          BY <1>1, <1>7, Bundle DEF BackUp, InPlace, Work
      <2>2. CASE stage[f] = Missing
        <3> DEFINE q == [r EXCEPT !.at = @ + 1]
        <3>1. Step(w, q) /\ UNCHANGED <<cur, prev, stage, running>>
            BY <1>7, <2>2 DEF BackUp, fileVars, stageVars
        <3>2. /\ q.pc = "swap" /\ q.at = r.at + 1 /\ q.version = r.version /\ q.done = r.done
            BY <1>1, <2>1 DEF Work
        <3>3. f \in r.done
            BY <1>2, <1>3, <2>1, <2>2 DEF Swapped, Version, Missing
        <3>4. Before(r.at + 1) = r.done
          <4>1. Before(r.at + 1) = r.done \cup {f}
              BY <1>3, <2>1, BeforeNext
          <4> HIDE DEF f
          <4> QED BY <3>3, <4>1
        <3>5. worker'[w] = q
            BY <1>6, <3>1
        <3> HIDE DEF q
        <3>6. Swapped(worker[w])'
            BY <1>3, <2>1, <3>1, <3>2, <3>4, <3>5 DEF Swapped
        <3> QED BY <1>5, <3>1, <3>2, <3>5, <3>6
      <2>3. CASE stage[f] # Missing
        <3> DEFINE q == [r EXCEPT !.pc = "place"]
        <3>1. /\ Step(w, q) /\ UNCHANGED <<stage, running>>
              /\ prev' = [prev EXCEPT ![f] = cur[f]] /\ cur' = [cur EXCEPT ![f] = Missing]
            BY <1>7, <2>3 DEF BackUp, stageVars
        <3>2. /\ q.pc = "place" /\ q.at = r.at /\ q.version = r.version /\ q.done = r.done
            BY <1>1 DEF Work
        <3>3. f \notin r.done /\ cur[f] = running /\ stage[f] = r.version
            BY <1>3, <2>1, <2>3 DEF Swapped
        <3>4. \A g \in File : cur'[g] = (IF g = f THEN Missing ELSE cur[g])
                               /\ prev'[g] = (IF g = f THEN running ELSE prev[g])
            BY <3>1, <3>3 DEF TypeInv, TypeOK
        <3>5. worker'[w] = q
            BY <1>6, <3>1
        <3>6. r.done \subseteq File
            BY <1>1 DEF Work
        <3> HIDE DEF q
        <3>7. Swapped(worker[w])'
          <4> HIDE DEF f
          <4> QED BY <1>3, <2>1, <3>1, <3>2, <3>3, <3>4, <3>5, <3>6 DEF Swapped, f
        <3> QED BY <1>5, <3>1, <3>2, <3>5, <3>7
      <2> QED BY <2>2, <2>3
    <1>8. CASE PlaceNew(w)
      <2> DEFINE q == [r EXCEPT !.pc = "swap", !.at = @ + 1, !.done = @ \cup {f}]
      <2>1. r.pc = "place" /\ r.at \in 1 .. Len(Files) /\ f \in File
          BY <1>1, <1>8, Bundle DEF PlaceNew, InPlace
      <2>2. /\ Step(w, q) /\ UNCHANGED <<prev, running>>
            /\ cur' = [cur EXCEPT ![f] = stage[f]] /\ stage' = [stage EXCEPT ![f] = Missing]
          BY <1>8 DEF PlaceNew
      <2>3. /\ q.pc = "swap" /\ q.at = r.at + 1 /\ q.version = r.version
            /\ q.done = r.done \cup {f}
          BY <1>1, <2>1 DEF Work
      <2>4. f \notin r.done /\ prev[f] = running /\ stage[f] = r.version
          BY <1>3, <2>1 DEF Swapped
      <2>5. /\ r.done \subseteq File
            /\ \A g \in File : cur'[g] = (IF g = f THEN r.version ELSE cur[g])
                                /\ stage'[g] = (IF g = f THEN Missing ELSE stage[g])
          BY <1>1, <2>2, <2>4 DEF TypeInv, TypeOK, Work
      <2>6. Before(r.at + 1) = r.done \cup {f}
          BY <1>3, <2>1, BeforeNext
      <2>7. worker'[w] = q
          BY <1>6, <2>2
      <2> HIDE DEF q
      <2>8. Swapped(worker[w])'
        <3>1. \A g \in r.done : cur[g] = r.version /\ prev[g] = running /\ stage[g] = Missing
            BY <1>3, <2>1 DEF Swapped
        <3>2. \A g \in File \ r.done : stage[g] = r.version /\ (g # f => cur[g] = running)
            BY <1>3, <2>1 DEF Swapped
        <3> HIDE DEF f, r
        <3>3. \A g \in q.done : /\ cur'[g] = q.version
                                /\ prev'[g] = running' /\ stage'[g] = Missing
            BY <2>1, <2>2, <2>3, <2>4, <2>5, <3>1
        <3>4. \A g \in File \ q.done : stage'[g] = q.version /\ cur'[g] = running'
            BY <2>2, <2>3, <2>5, <3>2
        <3> QED BY <2>3, <2>6, <2>7, <3>3, <3>4 DEF Swapped
      <2> QED BY <1>5, <2>2, <2>3, <2>7, <2>8
    <1>9. CASE SwapFails(w)
      <2> DEFINE back == r.done \cup (IF r.pc = "place" THEN {f} ELSE {})
      <2>0. PutBack(w, {}, {}) /\ state' = Noted(r.version, TRUE)
          BY <1>9 DEF SwapFails
      <2>1. \A g \in File : cur'[g] = IF g \in back THEN prev[g] ELSE cur[g]
          BY <2>0 DEF PutBack, Replaced
      <2>2. \A g \in File : cur'[g] = running
        <3>1. \A g \in File : g \in back => prev[g] = running
            BY <1>3 DEF Swapped
        <3>2. \A g \in File \ back : cur[g] = running
            BY <1>3 DEF Swapped
        <3> QED BY <2>1, <3>1, <3>2
      <2>3. Step(w, AtRest) /\ state'.failed = TRUE
          BY <1>2, <1>9, <2>0, StateType DEF SwapFails
      <2>4. /\ OneAtWork' /\ Swapping' = {} /\ worker'[w].pc = "idle"
            /\ \A x \in Worker \ {w} : worker'[x].pc = "idle"
          BY <1>1, <1>2, <1>4, <2>3, StepAlone DEF BundleInv
      <2>5. Whole'
          BY <1>3, <1>4, <2>2, <2>3, Bundle DEF Whole
      <2>6. InSwap' /\ InStage' /\ OnTheWayBack'
          BY <1>3, <1>4, <2>4 DEF InSwap, InStage, OnTheWayBack
      <2> QED BY <2>4, <2>5, <2>6 DEF BundleInv
    <1>10. CASE Written(w)
      <2> DEFINE q == [r EXCEPT !.pc = "written"]
      <2>1. Step(w, q) /\ UNCHANGED <<cur, prev, running>>
          BY <1>10 DEF Written, fileVars
      <2>2. q.pc = "written" /\ q.version = r.version /\ q.done = r.done
          BY <1>1 DEF Work
      <2>3. r.done = File
        <3>1. r.at = Len(Files) + 1
            BY <1>1, <1>10, Bundle DEF Work, Written
        <3> QED BY <1>3, <3>1, BeforeNext
      <2>4. worker'[w] = q
          BY <1>6, <2>1
      <2> HIDE DEF q
      <2>5. Swapped(worker[w])'
          BY <1>3, <2>1, <2>2, <2>3, <2>4 DEF Swapped
      <2> QED BY <1>5, <2>1, <2>2, <2>4, <2>5
    <1> QED BY <1>7, <1>8, <1>9, <1>10

(* When the process ends between updates, the programs stay as they are.   *)
LEMMA GoneBundle ==
    ASSUME TypeInv, Gone,
           cur[Agent]' \in Version /\ \A f \in File : cur'[f] = cur'[Agent],
           state'.version = cur'[Agent] /\ ~ state'.failed =>
               \A f \in File : /\ prev'[f] \in Version \ Fails /\ prev'[f] = prev'[Agent]
                               /\ prev'[f] # cur'[Agent]
    PROVE  BundleInv'
    <1>1. /\ running' = Missing /\ booting' = NotBooting
          /\ \A w \in Worker : worker'[w].pc = "idle"
        BY RestType DEF Gone, AtRest, NotBooting
    <1>2. Swapping' = {}
        BY <1>1 DEF Swapping
    <1> QED BY <1>1, <1>2 DEF BundleInv, OneAtWork, InStage, InSwap, Whole, OnTheWayBack

(* The new programs are all there when they are started.                   *)
LEMMA ReexecBundle ==
    ASSUME TypeInv, Newer, BundleInv, clean, clean', NEW w \in Worker, Reexec(w)
    PROVE  BundleInv'
    <1>1. Gone /\ UNCHANGED <<cur, prev>>
        BY DEF Reexec, fileVars
    <1>2. worker[w].pc = "written" /\ w \in Swapping /\ worker[w].version \in Version
        BY DEF Reexec, Swapping, TypeInv, Updates, InPlace
    <1>3. running \in Version \ Fails /\ worker[w].done = File /\ Swapped(worker[w])
        BY <1>2, Alone DEF BundleInv, InSwap, Swapped
    <1>4. \A f \in File : cur[f] = worker[w].version /\ prev[f] = running
        BY <1>2, <1>3 DEF Swapped
    <1>5. worker[w].version # running
        BY <1>2, <1>3 DEF Newer, Version
    <1> QED BY <1>1, <1>2, <1>3, <1>4, <1>5, GoneBundle, Bundle

(* Starts, rollbacks, confirmations and stops.                             *)
LEMMA BootBundle ==
    ASSUME TypeInv, BundleInv, clean, clean',
           Start \/ RollBack \/ RolledBack \/ Confirm \/ Crash \/ Stop
    PROVE  BundleInv'
    <1>1. CASE Start
      <2>1. /\ booting = NotBooting /\ Swapping = {} /\ \A w \in Worker : worker[w].pc = "idle"
          BY <1>1 DEF Start, TypeInv, Quiet, Swapping
      <2>2. /\ UNCHANGED <<cur, prev, worker>> /\ running' = cur[Agent]
            /\ state'.version = state.version /\ state'.failed = state.failed
        <3>1. state' = state \/ state' = [state EXCEPT !.attempts = @ + 1]
            BY <1>1 DEF Start, Counted
        <3> QED BY <1>1, <3>1 DEF Start, fileVars, TypeInv, TypeOK, UpdateState
      <2>3. OneAtWork' /\ InStage' /\ InSwap' /\ Swapping' = {}
          BY <2>1, <2>2 DEF OneAtWork, InStage, InSwap, Swapping
      <2>4. Whole'
          BY <2>1, <2>2 DEF Whole, BundleInv
      <2>5. OnTheWayBack'
        <3>1. CASE booting' = booting
            BY <2>1, <3>1 DEF OnTheWayBack
        <3>2. CASE booting' # booting
          <4>1. booting' = 1 /\ state.version = cur[Agent] /\ ~ state.failed
              BY <1>1, <3>2 DEF Start
          <4>2. \A f \in File : /\ prev[f] \in Version \ Fails /\ prev[f] = prev[Agent]
                                 /\ prev[f] # state.version
              BY <2>1, <4>1 DEF BundleInv, Whole
          <4> QED BY <2>2, <4>1, <4>2, BeforeNext, Bundle DEF OnTheWayBack
        <3> QED BY <3>1, <3>2
      <2> QED BY <2>3, <2>4, <2>5 DEF BundleInv
    <1>2. CASE RollBack
      <2> DEFINE f == Files[booting]
      <2>1. /\ booting \in 1 .. Len(Files) /\ booting # NotBooting /\ f \in File
            /\ booting' = booting + 1 /\ booting' # NotBooting
          BY <1>2, Bundle DEF RollBack, NotBooting
      <2>2. \A w \in Worker : worker[w].pc = "idle" /\ worker'[w].pc = "idle"
          BY <1>2, <2>1 DEF RollBack, TypeInv, Quiet
      <2>3. PICK p \in Version \ (Fails \cup {state.version}) :
               \A g \in File : IF g \in Before(booting) THEN cur[g] = p /\ prev[g] = Missing
                                                       ELSE prev[g] = p
          BY <2>1 DEF BundleInv, OnTheWayBack
      <2>4. Before(booting') = Before(booting) \cup {f} /\ p # Missing
          BY <2>1, BeforeNext DEF Version, Missing
      <2>5. \A g \in File : IF g \in Before(booting') THEN cur'[g] = p /\ prev'[g] = Missing
                                                       ELSE prev'[g] = p
        <3>1. CASE f \in Before(booting)
            BY <1>2, <2>1, <2>3, <2>4, <3>1 DEF RollBack, fileVars
        <3>2. CASE f \notin Before(booting)
          <4>1. cur' = [cur EXCEPT ![f] = prev[f]] /\ prev' = [prev EXCEPT ![f] = Missing]
              BY <1>2, <2>1, <2>3, <2>4, <3>2 DEF RollBack
          <4> QED BY <2>1, <2>3, <2>4, <3>2, <4>1 DEF TypeInv, TypeOK
        <3> QED BY <3>1, <3>2
      <2>6. OneAtWork' /\ InStage' /\ InSwap' /\ state' = state
          BY <1>2, <2>2 DEF OneAtWork, InStage, InSwap, Swapping, RollBack
      <2> QED BY <2>1, <2>5, <2>6 DEF BundleInv, Whole, OnTheWayBack
    <1>3. CASE RolledBack
      <2>1. booting = Len(Files) + 1 /\ booting # NotBooting
          BY <1>3, Bundle DEF RolledBack, TypeInv, TypeOK, NotBooting
      <2>2. PICK p \in Version \ (Fails \cup {state.version}) : \A f \in File : cur[f] = p
          BY <2>1, BeforeNext DEF BundleInv, OnTheWayBack
      <2>3. cur' = cur /\ state'.version \in {Missing, state.version} /\ p # Missing
          BY <1>3 DEF RolledBack, NoState, fileVars, Version, Missing
      <2> QED BY <1>3, <2>2, <2>3, GoneBundle, Bundle DEF RolledBack
    <1>4. CASE Confirm
      <2>1. booting = NotBooting /\ UNCHANGED <<cur, worker, running, booting, stage>>
          BY <1>4 DEF Confirm, TypeInv, Quiet, stageVars
      <2>2. CASE UNCHANGED <<state, prev>>
          BY <2>1, <2>2 DEF BundleInv, OneAtWork, InStage, InSwap, Swapped, Swapping, Whole, OnTheWayBack
      <2>3. CASE ~ UNCHANGED <<state, prev>>
        <3>1. Swapping = {} /\ state'.version = Missing
          <4>1. state' = NoState /\ clean' = (clean /\ Swapping = {})
              BY <1>4, <2>3 DEF Confirm
          <4> QED BY <4>1 DEF NoState
        <3>2. cur[Agent] # Missing
            BY <2>1, <3>1 DEF BundleInv, Whole, Version, Missing
        <3> QED BY <2>1, <3>1, <3>2
                DEF BundleInv, OneAtWork, InStage, InSwap, Swapping, Whole, OnTheWayBack
      <2> QED BY <2>2, <2>3
    <1>5. CASE Crash
      <2>1. booting = NotBooting /\ Swapping = {}
          BY <1>5 DEF Crash, BundleInv, OneAtWork, Swapping
      <2> QED BY <1>5, <2>1, GoneBundle DEF Crash, BundleInv, Whole, fileVars
    <1>6. CASE Stop
      <2>1. booting = NotBooting /\ Swapping = {}
          BY <1>6 DEF Stop
      <2>2. UNCHANGED <<cur, prev, state>>
          BY <1>6, <2>1, Bundle DEF Stop, NotBooting
      <2> QED BY <1>6, <2>1, <2>2, GoneBundle DEF Stop, BundleInv, Whole
    <1> QED BY <1>1, <1>2, <1>3, <1>4, <1>5, <1>6

(* Every step keeps the programs whole, in a swap or on their way back.    *)
LEMMA NextBundle == TypeInv /\ Newer /\ BundleInv /\ [Next]_vars => BundleInv'
    <1> SUFFICES ASSUME TypeInv, Newer, BundleInv, [Next]_vars PROVE BundleInv'
        OBVIOUS
    <1>1. CASE ~ clean'
        BY <1>1 DEF BundleInv
    <1>2. CASE Next /\ clean'
      <2>1. CASE Update
        <3>1. PICK w \in Worker :
                 \/ Ask(w) \/ Piece(w) \/ Downloaded(w) \/ GiveUp(w) \/ Wipe(w) \/ Extract(w) \/ Lock(w)
                 \/ BackUp(w) \/ PlaceNew(w) \/ SwapFails(w) \/ Written(w) \/ Reexec(w)
            BY <2>1 DEF Update
        <3>2. clean
          <4>1. CASE SwapFails(w) \/ Written(w)
              BY <1>2, <4>1, FailsCounted DEF TypeInv
          <4>2. CASE ~ (SwapFails(w) \/ Written(w))
              BY <1>2, <3>1, <4>2 DEF Ask, Piece, Downloaded, GiveUp, Wipe, Extract, Lock, BackUp,
                                      PlaceNew, Reexec
          <4> QED BY <4>1, <4>2
        <3> QED BY <1>2, <3>1, <3>2, FetchBundle, SwapBundle, ReexecBundle
      <2>2. CASE Start \/ RollBack \/ RolledBack \/ Confirm \/ Crash \/ Stop
        <3>1. clean
            BY <1>2, <2>2, FailsCounted DEF TypeInv, Crash, Stop
        <3> QED BY <1>2, <2>2, <3>1, BootBundle
      <2> QED BY <1>2, <2>1, <2>2, HubBundle DEF Next
    <1>3. CASE UNCHANGED vars
        BY <1>3 DEF vars, BundleInv, OneAtWork, InStage, InSwap, Swapped, Swapping, Whole, OnTheWayBack
    <1> QED BY <1>1, <1>2, <1>3

(* Version 1 is whole.                                                     *)
LEMMA InitBundle == Init => Newer /\ BundleInv
    <1> SUFFICES ASSUME Init PROVE Newer /\ BundleInv
        OBVIOUS
    <1>1. \A w \in Worker : worker[w].pc = "idle"
        BY RestType DEF Init, AtRest
    <1>2. Swapping = {}
        BY <1>1 DEF Swapping
    <1>3. Whole
        BY UpdateAssumption, Bundle DEF Init, Whole, NoState, Version, Missing
    <1> QED BY <1>1, <1>2, <1>3 DEF Init, Newer, BundleInv, OneAtWork, InStage, InSwap, OnTheWayBack

(* Whenever no swap and no rollback is at work, the programs are all of    *)
(* one version: swapBundle installs "all of them or none", and rollback    *)
(* takes them all back, wherever a download, the unpacking, the swap or    *)
(* the count of a start fails or the agent stops between swap and          *)
(* rollback, as long as no two updates are at work at once and neither     *)
(* undo, the renames of rollback nor a write of update.json by an update   *)
(* fails (clean).                                                          *)
THEOREM AllOrNoneAlways == Spec => []AllOrNone
    <1>1. BundleInv => AllOrNone
        BY Bundle DEF BundleInv, Whole, AllOrNone, Settled, Together, Version, Missing
    <1> QED BY <1>1, InitType, NextType, InitBundle, NextNewer, NextBundle, PTL DEF Spec

(* An update that is installed and not confirmed has every ".prev" of one  *)
(* version that works: what it was installed by. Under the same condition. *)
THEOREM AWayBackAlways == Spec => []AWayBack
    <1>1. BundleInv => AWayBack
        BY DEF BundleInv, Whole, AWayBack, Settled
    <1> QED BY <1>1, InitType, NextType, InitBundle, NextNewer, NextBundle, PTL DEF Spec

=============================================================================
