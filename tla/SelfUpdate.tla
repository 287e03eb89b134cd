----------------------------- MODULE SelfUpdate -----------------------------
(***************************************************************************)
(* The agent replaces its own programs: src/internal/agent/update.go and   *)
(* Download of hubclient.go, with the hub's releases (src/cmd/qp-hub).     *)
(*                                                                         *)
(* Every heartbeat that is offered a newer version starts an update beside *)
(* the ones still at work. They share the partial download, the staging    *)
(* directory and the programs, and only the swap is under a lock. The      *)
(* agent may stop anywhere, and a version may turn out not to start.       *)
(***************************************************************************)
EXTENDS Naturals, Sequences

CONSTANTS
    Files,       \* the programs of a bundle, in the order of bundleFiles
    Latest,      \* versions are 1 .. Latest, the first one is installed
    Fails,       \* the versions whose agent stops soon after its start
    Worker,      \* the updates one process can have at work
    Pieces,      \* a download arrives in this many pieces
    MaxStops,    \* bound on sudden stops
    MaxFaults    \* bound on failures of the disk

Version == 1 .. Latest
Missing == 0
File    == {Files[i] : i \in DOMAIN Files}
Agent   == Files[1]

ASSUME UpdateAssumption ==
    /\ Latest \in Nat \ {0} /\ Pieces \in Nat \ {0}
    /\ Files \in Seq(File) /\ Len(Files) > 0
    /\ Fails \subseteq 2 .. Latest
    /\ MaxStops \in Nat /\ MaxFaults \in Nat

VARIABLES
    release,     \* the version the hub offers
    running,     \* the version of the running agent, Missing when none runs
    booting,     \* checkUpdateBoot is rolling back: which program it is at
    cur, prev,   \* the version of each program, and of its ".prev"
    staged,      \* is the staging directory there?
    stage,       \* the version of each program in it
    part,        \* update-<version>.part: its pieces, and are they as served
    state,       \* update.json
    confirming,  \* the goroutine that waits three minutes to confirm
    heard,       \* the last heartbeat: did it succeed, is it recent?
    worker,      \* the updates at work
    clean,       \* no stop within a swap or a rollback, no two updates at
                 \* once, no failed restart, no confirmation within a swap;
                 \* and no failure while programs are put back or rolled
                 \* back, or update.json is written
    stops, faults

fileVars  == <<cur, prev>>
stageVars == <<staged, stage>>
bootVars  == <<booting, confirming, heard>>
counters  == <<stops, faults>>
vars == <<release, running, booting, cur, prev, staged, stage, part, state,
          confirming, heard, worker, clean, stops, faults>>

NoState  == [version |-> Missing, attempts |-> 0, failed |-> FALSE, recent |-> FALSE]
NoPart   == [have |-> 0, bad |-> FALSE]
NotBooting == 0
AtRest   == [pc |-> "idle", version |-> Missing, served |-> Missing, off |-> 0,
             lost |-> FALSE, at |-> 0, done |-> {}]
NoWork   == [w \in Worker |-> AtRest]
Nothing  == [f \in File |-> Missing]

Init ==
    /\ release = 1 /\ running = 1 /\ booting = NotBooting
    /\ cur = [f \in File |-> 1] /\ prev = Nothing
    /\ staged = FALSE /\ stage = Nothing
    /\ part = [v \in Version |-> NoPart]
    /\ state = NoState /\ confirming = FALSE
    /\ heard = [ok |-> TRUE, recent |-> TRUE]
    /\ worker = NoWork
    /\ clean = TRUE /\ stops = 0 /\ faults = 0

Fault == faults < MaxFaults /\ faults' = faults + 1

\* update.json, as an update writes it. The write may leave the file as it was
\* or, cut short by a full disk or a stop, as one that reads like none.
Noted(v, failed) == [version |-> v, attempts |-> 0, failed |-> failed, recent |-> TRUE]
Unwritten        == {state, NoState}

Busy(w)  == worker[w].pc # "idle"
Swapping == {w \in Worker : worker[w].pc \in {"swap", "place", "written"}}

-----------------------------------------------------------------------------
(* The hub and the heartbeats *)

\* release add
Release(v) ==
    /\ v # release
    /\ release' = v
    /\ UNCHANGED <<running, bootVars, fileVars, stageVars, part, state, worker, clean, counters>>

\* The hub cannot be reached
HeartbeatFails ==
    /\ running # Missing /\ booting = NotBooting /\ heard.ok
    /\ heard' = [heard EXCEPT !.ok = FALSE]
    /\ UNCHANGED <<release, running, booting, confirming, fileVars, stageVars, part, state, worker, clean, counters>>

Due(v) == ~ (state.version = v /\ state.recent)

\* A heartbeat succeeds. When the hub has a newer version, and it is due, an
\* update to it starts.
Heartbeat ==
    /\ running \notin Fails \cup {Missing} /\ booting = NotBooting
    /\ heard' = [ok |-> TRUE, recent |-> TRUE]
    /\ \/ /\ release > running /\ Due(release)
          /\ \E w \in Worker :
                /\ ~ Busy(w)
                /\ worker' = [worker EXCEPT ![w] = [AtRest EXCEPT !.pc = "ask", !.version = release]]
          /\ clean' = (clean /\ ~ \E w \in Worker : Busy(w))
       \/ ~ (release > running /\ Due(release)) /\ heard' # heard /\ UNCHANGED <<worker, clean>>
    /\ UNCHANGED <<release, running, booting, confirming, fileVars, stageVars, part, state, counters>>

\* Minutes, or an hour, go by
TimePasses ==
    /\ \/ heard.recent /\ heard' = [heard EXCEPT !.recent = FALSE] /\ UNCHANGED state
       \/ state.recent /\ state' = [state EXCEPT !.recent = FALSE] /\ UNCHANGED heard
    /\ UNCHANGED <<release, running, booting, confirming, fileVars, stageVars, part, worker, clean, counters>>

-----------------------------------------------------------------------------
(* The download *)

Step(w, r) == worker' = [worker EXCEPT ![w] = r]

\* Removing the partial file leaves the others that write to it without a name
\* for what they write.
RemovedAnd(w, v, r) ==
    /\ part' = [part EXCEPT ![v] = NoPart]
    /\ worker' = [x \in Worker |->
                    CASE x = w -> r
                      [] x # w /\ worker[x].pc = "download" /\ worker[x].version = v
                           -> [worker[x] EXCEPT !.lost = TRUE]
                      [] OTHER -> worker[x]]

\* The request resumes the partial file of this version, from the release the
\* hub has by now; one that is complete already is removed.
Ask(w) ==
    LET v == worker[w].version IN
    /\ worker[w].pc = "ask"
    /\ IF part[v].have >= Pieces THEN RemovedAnd(w, v, AtRest)
       ELSE /\ Step(w, [worker[w] EXCEPT !.pc = "download", !.served = release, !.off = part[v].have])
            /\ UNCHANGED part
    /\ UNCHANGED <<release, running, bootVars, fileVars, stageVars, state, clean, counters>>

\* A piece arrives and is appended to the file
Piece(w) ==
    LET r == worker[w]
        p == part[r.version]
    IN
    /\ r.pc = "download" /\ r.off < Pieces
    /\ Step(w, [r EXCEPT !.off = @ + 1])
    /\ part' = IF r.lost THEN part
               ELSE [part EXCEPT ![r.version] =
                       [have |-> p.have + 1, bad |-> p.bad \/ p.have # r.off \/ r.served # r.version]]
    /\ UNCHANGED <<release, running, bootVars, fileVars, stageVars, state, clean, counters>>

\* The end of the answer: the file is read, and gone unless it cannot be read.
\* Only one that is whole, as its checksum and signature say, goes on.
Downloaded(w) ==
    LET r == worker[w]
        p == part[r.version]
    IN
    /\ r.pc = "download" /\ r.off = Pieces
    /\ IF p.have = 0 THEN Step(w, AtRest) /\ UNCHANGED part
       ELSE RemovedAnd(w, r.version, IF p.have = Pieces /\ ~ p.bad
                                     THEN [r EXCEPT !.pc = "wipe", !.lost = FALSE] ELSE AtRest)
    /\ UNCHANGED <<release, running, bootVars, fileVars, stageVars, state, clean, counters>>

\* The download, or the unpacking, fails
GiveUp(w) ==
    /\ worker[w].pc \in {"ask", "download", "extract"}
    /\ Fault
    /\ Step(w, AtRest)
    /\ UNCHANGED <<release, running, bootVars, fileVars, stageVars, part, state, clean, stops>>

Wipe(w) ==
    /\ worker[w].pc = "wipe"
    /\ staged' = TRUE /\ stage' = Nothing
    /\ Step(w, [worker[w] EXCEPT !.pc = "extract", !.at = 1])
    /\ UNCHANGED <<release, running, bootVars, fileVars, part, state, clean, counters>>

\* extract: one file after the other, as long as the directory is there
Extract(w) ==
    LET r == worker[w] IN
    /\ r.pc = "extract"
    /\ IF staged
       THEN /\ stage' = [stage EXCEPT ![Files[r.at]] = r.version]
            /\ Step(w, IF r.at < Len(Files) THEN [r EXCEPT !.at = @ + 1]
                                            ELSE [r EXCEPT !.pc = "lock", !.at = 1])
       ELSE Step(w, AtRest) /\ UNCHANGED stage
    /\ UNCHANGED <<release, running, bootVars, fileVars, staged, part, state, clean, counters>>

-----------------------------------------------------------------------------
(* The swap, under syncMu *)

Lock(w) ==
    /\ worker[w].pc = "lock" /\ Swapping = {}
    /\ Step(w, [worker[w] EXCEPT !.pc = "swap"])
    /\ UNCHANGED <<release, running, bootVars, fileVars, stageVars, part, state, clean, counters>>

\* The program in place becomes the ".prev", whatever that was. One that is
\* not in the stage is passed over.
BackUp(w) ==
    LET r == worker[w]
        f == Files[r.at]
    IN
    /\ r.pc = "swap" /\ r.at <= Len(Files)
    /\ IF stage[f] = Missing
       THEN Step(w, [r EXCEPT !.at = @ + 1]) /\ UNCHANGED fileVars
       ELSE /\ prev' = [prev EXCEPT ![f] = cur[f]]
            /\ cur' = [cur EXCEPT ![f] = Missing]
            /\ Step(w, [r EXCEPT !.pc = "place"])
    /\ UNCHANGED <<release, running, bootVars, stageVars, part, state, clean, counters>>

PlaceNew(w) ==
    LET r == worker[w]
        f == Files[r.at]
    IN
    /\ r.pc = "place" /\ stage[f] # Missing
    /\ cur' = [cur EXCEPT ![f] = stage[f]]
    /\ stage' = [stage EXCEPT ![f] = Missing]
    /\ Step(w, [r EXCEPT !.pc = "swap", !.at = @ + 1, !.done = @ \cup {f}])
    /\ UNCHANGED <<release, running, bootVars, prev, staged, part, state, clean, counters>>

Replaced(r) == r.done \cup (IF r.pc = "place" THEN {Files[r.at]} ELSE {})

\* Mutant: only the program that failed is put back
PutBackOne(w, lost, stuck) ==
    LET back == IF worker[w].pc = "place" THEN {Files[worker[w].at]} ELSE {} IN
    /\ cur' = [f \in File |-> IF f \in back THEN prev[f] ELSE cur[f]]
    /\ prev' = [f \in File |-> IF f \in back THEN Missing ELSE prev[f]]

\* undo: every program already replaced is put back, but for those that are
\* lost (removed, and its ".prev" not renamed) or stuck (neither). The backup
\* that was in the way of the one that failed may be gone.
PutBack(w, lost, stuck) ==
    LET r    == worker[w]
        back == Replaced(r) \ (lost \cup stuck)
    IN
    /\ cur' = [f \in File |-> IF f \in back THEN prev[f]
                              ELSE IF f \in lost THEN Missing ELSE cur[f]]
    /\ \E gone \in {back, back \cup ({Files[r.at]} \ (lost \cup stuck))} :
          prev' = [f \in File |-> IF f \in gone THEN Missing ELSE prev[f]]

\* A step of the swap fails, by the disk or because the stage is not as it was;
\* all is put back and noted, unless the failure goes on: no error is looked at
SwapFails(w) ==
    LET r == worker[w]
        f == Files[r.at]
    IN
    /\ r.pc \in {"swap", "place"} /\ r.at <= Len(Files)
    /\ \/ /\ \/ stage[f] # Missing /\ Fault
             \/ stage[f] = Missing /\ r.pc = "place" /\ UNCHANGED faults
          /\ PutBack(w, {}, {})
          /\ state' = Noted(r.version, TRUE)
          /\ UNCHANGED clean
       \/ /\ stage[f] # Missing \/ r.pc = "place"
          /\ Fault
          /\ \E lost, stuck \in SUBSET Replaced(r) : PutBack(w, lost, stuck)
          /\ state' \in {Noted(r.version, TRUE)} \cup Unwritten
          /\ clean' = FALSE
    /\ staged' = FALSE /\ stage' = Nothing
    /\ Step(w, AtRest)
    /\ UNCHANGED <<release, running, bootVars, part, stops>>

Written(w) ==
    LET r == worker[w] IN
    /\ r.pc = "swap" /\ r.at > Len(Files)
    /\ staged' = FALSE /\ stage' = Nothing
    /\ \/ state' = Noted(r.version, FALSE) /\ UNCHANGED <<clean, faults>>
       \/ state' \in Unwritten /\ clean' = FALSE /\ Fault
    /\ Step(w, [r EXCEPT !.pc = "written"])
    /\ UNCHANGED <<release, running, bootVars, fileVars, part, stops>>

\* The process is gone: its updates and its confirmation with it
Gone ==
    /\ running' = Missing
    /\ worker' = NoWork
    /\ confirming' = FALSE /\ booting' = NotBooting

\* reexec. On Windows the new process may not start, and the old one goes on.
Reexec(w) ==
    /\ worker[w].pc = "written"
    /\ \/ Gone /\ UNCHANGED <<clean, faults>>
       \/ /\ Fault
          /\ Step(w, AtRest)
          /\ clean' = FALSE
          /\ UNCHANGED <<running, confirming, booting>>
    /\ UNCHANGED <<release, heard, fileVars, stageVars, part, state, stops>>

Update == \E w \in Worker :
    \/ Ask(w) \/ Piece(w) \/ Downloaded(w) \/ GiveUp(w) \/ Wipe(w) \/ Extract(w) \/ Lock(w)
    \/ BackUp(w) \/ PlaceNew(w) \/ SwapFails(w) \/ Written(w) \/ Reexec(w)

-----------------------------------------------------------------------------
(* Starts, stops, confirmation and rollback *)

\* Mutant: the attempts are counted in memory only
UncountedState == state

Counted == [state EXCEPT !.attempts = @ + 1]

\* Mutant: a third attempt is allowed
ExhaustedLater == state.attempts > 2

Exhausted == state.attempts >= 2

\* checkUpdateBoot, of the program that is there. The count may not be stored,
\* or the file be cut short when it is.
Start ==
    /\ running = Missing /\ cur[Agent] # Missing
    /\ running' = cur[Agent]
    /\ IF state.version = cur[Agent] /\ ~ state.failed
       THEN IF Exhausted
            THEN booting' = 1 /\ UNCHANGED <<state, confirming, clean, faults>>
            ELSE /\ confirming' = TRUE
                 /\ UNCHANGED booting
                 /\ \/ state' = Counted /\ UNCHANGED <<clean, faults>>
                    \/ UNCHANGED <<state, clean>> /\ Fault
                    \/ state' = NoState /\ clean' = FALSE /\ Fault
       ELSE UNCHANGED <<state, confirming, booting, clean, faults>>
    /\ UNCHANGED <<release, heard, fileVars, stageVars, part, worker, stops>>

\* rollback: every program that has a ".prev" gives way to it. When it does not,
\* it is still there, or neither is, and the rollback goes on.
RollBack ==
    /\ booting \in DOMAIN Files
    /\ LET f == Files[booting] IN
       \/ prev[f] = Missing /\ UNCHANGED <<fileVars, clean, faults>>
       \/ /\ prev[f] # Missing
          /\ cur' = [cur EXCEPT ![f] = prev[f]] /\ prev' = [prev EXCEPT ![f] = Missing]
          /\ UNCHANGED <<clean, faults>>
       \/ /\ prev[f] # Missing
          /\ cur' \in {cur, [cur EXCEPT ![f] = Missing]} /\ UNCHANGED prev
          /\ clean' = FALSE /\ Fault
    /\ booting' = booting + 1
    /\ UNCHANGED <<release, running, confirming, heard, stageVars, part, state, worker, stops>>

\* update.json goes, or stays
RolledBack ==
    /\ booting > Len(Files)
    /\ \/ state' = NoState /\ UNCHANGED faults
       \/ UNCHANGED state /\ Fault
    /\ Gone
    /\ UNCHANGED <<release, heard, fileVars, stageVars, part, clean, stops>>

\* Mutant: the backups go before the heartbeat is looked at
ConfirmClears ==
    /\ confirming /\ running \notin Fails
    /\ confirming' = FALSE
    /\ prev' = Nothing
    /\ IF heard.ok /\ heard.recent
       THEN state' = NoState /\ clean' = (clean /\ Swapping = {})
       ELSE UNCHANGED <<state, clean>>
    /\ UNCHANGED <<release, running, booting, heard, cur, stageVars, part, worker, counters>>

\* Three minutes after the start: confirmed by a heartbeat of the last four.
\* update.json goes, and the backups, or one of them stays.
Confirm ==
    /\ confirming /\ running \notin Fails
    /\ confirming' = FALSE
    /\ IF heard.ok /\ heard.recent
       THEN \/ /\ state' = NoState /\ prev' = Nothing
               /\ clean' = (clean /\ Swapping = {})
               /\ UNCHANGED faults
            \/ /\ Fault
               /\ \E left \in SUBSET File :
                     prev' = [f \in File |-> IF f \in left THEN prev[f] ELSE Missing]
               /\ \/ state' = NoState /\ clean' = (clean /\ Swapping = {})
                  \/ UNCHANGED state /\ clean' = FALSE
       ELSE UNCHANGED <<state, prev, clean, faults>>
    /\ UNCHANGED <<release, running, booting, heard, cur, stageVars, part, worker, stops>>

\* A version that does not work stops by itself
Crash ==
    /\ running \in Fails /\ booting = NotBooting
    /\ Gone
    /\ UNCHANGED <<release, heard, fileVars, stageVars, part, state, clean, counters>>

\* The computer goes down, or the agent is killed. In a swap or a rollback a
\* program may be under neither name.
Stop ==
    /\ running # Missing /\ stops < MaxStops
    /\ stops' = stops + 1
    /\ Gone
    /\ clean' = (clean /\ Swapping = {} /\ booting = NotBooting)
    /\ \/ UNCHANGED cur
       \/ /\ booting \in DOMAIN Files /\ prev[Files[booting]] # Missing
          /\ cur' = [cur EXCEPT ![Files[booting]] = Missing]
    /\ UNCHANGED <<release, heard, prev, stageVars, part, state, faults>>

Next ==
    \/ \E v \in Version : Release(v)
    \/ HeartbeatFails \/ Heartbeat \/ TimePasses
    \/ Update
    \/ Start \/ RollBack \/ RolledBack \/ Confirm \/ Crash \/ Stop

\* The system starts the agent again (KeepAlive, Restart=always), what was
\* started does its boot check, and a version that does not work stops.
Fairness == WF_vars(Start) /\ WF_vars(RollBack) /\ WF_vars(RolledBack) /\ WF_vars(Crash)

Spec == Init /\ [][Next]_vars /\ Fairness

-----------------------------------------------------------------------------
VersionOrNone == Version \cup {Missing}
Partial       == [have : Nat, bad : BOOLEAN]
UpdateState   == [version : VersionOrNone, attempts : 0 .. 2, failed : BOOLEAN, recent : BOOLEAN]

Pc   == {"idle", "ask", "download", "wipe", "extract", "lock", "swap", "place", "written"}
Work == [pc : Pc, version : VersionOrNone, served : VersionOrNone, off : 0 .. Pieces,
         lost : BOOLEAN, at : 0 .. Len(Files) + 1, done : SUBSET File]

TypeOK ==
    /\ release \in Version /\ running \in VersionOrNone
    /\ booting \in 0 .. Len(Files) + 1
    /\ cur \in [File -> VersionOrNone] /\ prev \in [File -> VersionOrNone]
    /\ staged \in BOOLEAN /\ stage \in [File -> VersionOrNone]
    /\ part \in [Version -> Partial]
    /\ state \in UpdateState
    /\ confirming \in BOOLEAN /\ heard \in [ok : BOOLEAN, recent : BOOLEAN]
    /\ worker \in [Worker -> Work]
    /\ clean \in BOOLEAN /\ stops \in Nat /\ faults \in Nat

Together == \A f, g \in File : cur[f] = cur[g]
Settled  == Swapping = {} /\ booting = NotBooting

\* The programs are of one version whenever no swap and no rollback is at
\* work: a bundle is installed "all of them or none", and taken back so. A stop
\* within the two, and a failure of what is to put things right (undo, the
\* renames of rollback, a write of update.json), are not made good (clean).
AllOrNone == clean /\ Settled => Together /\ cur[Agent] # Missing

\* The same whatever else happened, two updates at once included (swapBundle:
\* "all of them or none").
AlwaysAllOrNone == Settled => Together

\* An update that is installed and not confirmed can be taken back: each
\* program has its ".prev", of one version that works. Under the same condition.
AWayBack ==
    clean /\ Settled /\ state.version = cur[Agent] /\ ~ state.failed =>
        \A f \in File : prev[f] \in Version \ Fails /\ prev[f] = prev[Agent]

\* An agent that does not start gives way to one that does, even when a start
\* is not counted, unless update.json is lost or the rollback itself fails.
FailedUpdatesGoBack == running \in Fails ~> (running \in Version \ Fails \/ ~ clean)

=============================================================================
