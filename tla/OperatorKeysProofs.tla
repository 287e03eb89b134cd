------------------------- MODULE OperatorKeysProofs -------------------------
(***************************************************************************)
(* Proofs about OperatorKeys.  The state stays well typed whatever is run  *)
(* in how many terminals.  What the keystore, the store and the backups    *)
(* promise holds when one terminal runs everything that reads or writes    *)
(* the keystore, for any people, computers, bounds and lost machines: two  *)
(* terminals write each other's stale copies of the keystore back.         *)
(***************************************************************************)
EXTENDS OperatorKeys, TLAPS

(* Commands of which any number may run: they leave the keystore alone and *)
(* are one request each.                                                   *)
Peopling == {"remove", "revoke"}

(* The other commands are run in one terminal.                             *)
OneTerminal ==
    \A s, u \in Shell : May[s] \subseteq Peopling \/ May[u] \subseteq Peopling \/ s = u

-----------------------------------------------------------------------------
(* What a command has at hand in each of its phases.                       *)

Asking   == {"asked", "copying", "copied", "granting", "granted"}
Rotated  == {"copying", "copied", "granting", "granted", "switched", "purging"}

PhaseOK(h) ==
    /\ h.pc = "row" => h.gen = 1
    /\ h.pc \in {"canary", "sealed", "verify"} => h.gen # 0 /\ h.new # 0
    /\ h.pc = "sealed" => h.who \in Computer
    /\ h.pc = "adding" => h.gen # 0
    /\ h.pc = "asked" => h.gen # 0 /\ HasGen(h.mem, h.gen)
    /\ h.pc \in Rotated => /\ h.gen # 0 /\ h.gen < MaxGen /\ h.new # 0
                           /\ HasGen(h.mem, h.gen) /\ HasGen(h.mem, h.gen + 1)

PhaseInv ==
    /\ \A s \in Shell : PhaseOK(shell[s])
    /\ \A d \in Computer : /\ link[d].gen # 0 => link[d].key # 0
                           /\ at[d] # 0 => key[d] # 0

(* One terminal: its command works on the keystore as it is on disk.       *)
AloneInv ==
    \A s \in Shell : shell[s].pc # "idle" =>
        ~(May[s] \subseteq Peopling) /\ shell[s].mem = disk

(* Whatever is found of a key anywhere is of the generation it was made    *)
(* for.                                                                    *)
BornIn(k, g) == k \in DOMAIN born /\ born[k] = g

BornInv ==
    /\ \A g \in Generation :
          /\ \A x \in tree[g] : BornIn(x[1], g)
          /\ \A k \in KeysOf(disk, g) \cup KeysOf(bundle, g) : BornIn(k, g)
          /\ \A d \in Computer : grants[d][g] # 0 => BornIn(grants[d][g], g)
    /\ \A d \in Computer :
          /\ link[d].gen # 0 => BornIn(link[d].key, link[d].gen)
          /\ at[d] # 0 => BornIn(key[d], at[d])
    /\ \A s \in Shell :
          /\ shell[s].pc \in {"canary", "sealed"} => BornIn(shell[s].new, shell[s].gen)
          /\ shell[s].pc \in Rotated => BornIn(shell[s].new, shell[s].gen + 1)

(* Every key made is on the disk, until the machine is lost.               *)
KeptInv ==
    ~lost => \A k \in DOMAIN born : k \in KeysOf(disk, born[k])

(* Where a rotation stands to the hub's generation.                        *)
GenInv ==
    /\ gen = 0 => settled = {}
    /\ \A s \in Shell :
          /\ shell[s].pc \in Asking => shell[s].gen = gen
          /\ shell[s].pc \in {"switched", "purging"} => shell[s].gen + 1 = gen
          /\ shell[s].pc = "sealed" => shell[s].gen <= gen
    /\ \A d \in Computer : link[d].gen <= gen

(* What was settled is in the tree, and from the copy's end in the next.   *)
SettledInv ==
    gen > 0 /\ OneEach =>
        /\ \A i \in settled : \E k \in Key : <<k, i>> \in tree[gen]
        /\ \A s \in Shell :
              /\ shell[s].pc = "copying" => shell[s].todo = settled
              /\ shell[s].pc \in {"copied", "granting", "granted"} =>
                    \A i \in settled : <<shell[s].new, i>> \in tree[gen + 1]

VerifiedInv ==
    /\ verified # 0 => HasGen(bundle, verified)
    /\ \A s \in Shell : shell[s].pc = "verify" /\ shell[s].cmd = "verify" =>
          HasGen(bundle, shell[s].gen)

(* Someone offboarded has nothing of a later generation, nor will have.    *)
OutInv ==
    /\ \A d \in Computer : /\ \A k \in got[d] : k \in DOMAIN born /\ born[k] <= gen
                           /\ link[d].state = "open" => link[d].gen # 0
    /\ \A d \in Computer : outAt[d] < MaxGen =>
          /\ d \notin members /\ person[d] = "offboarded" /\ link[d].state # "open"
          /\ \A k \in got[d] : born[k] <= outAt[d]
          /\ \A g \in Generation : g > outAt[d] => grants[d][g] = 0
          /\ \A s \in Shell : shell[s].pc \in Asking \cup {"adding"} => d \notin shell[s].people
    /\ \A s \in Shell : shell[s].pc \in {"memberships", "links"} =>
          /\ shell[s].who \in Computer
          /\ \A g \in Generation : grants[shell[s].who][g] = 0

StayedInv ==
    \A s \in Shell :
        /\ shell[s].pc \in Asking => \A d \in stayed : d \in shell[s].people /\ device[d] = "active"
        /\ shell[s].pc = "granted" => \A d \in stayed : grants[d][shell[s].gen + 1] # 0

-----------------------------------------------------------------------------
(* Keystores.                                                              *)

LEMMA GenerationRange ==
  /\ 1 \in Generation
  /\ \A n \in 0..MaxGen : n # 0 => n \in Generation
  /\ \A n \in Generation : n \in Nat /\ n \in 0..MaxGen /\ n # 0
  /\ \A n \in 0..MaxGen : n < MaxGen => n + 1 \in Generation
BY BoundAssumption DEF Generation

LEMMA EmptyKeysType == EmptyKeys \in Keystore /\ \A g \in Generation : ~HasGen(EmptyKeys, g)
BY DEF EmptyKeys, Keystore, HasGen

(* A key added is the keystore's, beside those it had.                     *)
LEMMA AddKeeps ==
  ASSUME NEW ks \in Keystore, NEW g \in Generation, NEW k \in Key
  PROVE  /\ Add(ks, g, k) \in Keystore
         /\ HasGen(Add(ks, g, k), g)
         /\ \A f \in Generation : HasGen(ks, f) => HasGen(Add(ks, g, k), f)
         /\ KeysOf(Add(ks, g, k), g) = KeysOf(ks, g) \cup {k}
         /\ \A f \in Generation : f # g => KeysOf(Add(ks, g, k), f) = KeysOf(ks, f)
<1>1. ks[g] \in Seq(Key)
  BY DEF Keystore
<1>2. Add(ks, g, k) \in Keystore /\ Add(ks, g, k)[g] = Append(ks[g], k)
      /\ \A f \in Generation : f # g => Add(ks, g, k)[f] = ks[f]
  BY <1>1 DEF Add, Keystore
<1>3. Append(ks[g], k) # <<>>
  BY <1>1
<1>4. KeysOf(Add(ks, g, k), g) = KeysOf(ks, g) \cup {k}
  <2>1. /\ Len(Append(ks[g], k)) = Len(ks[g]) + 1 /\ Len(ks[g]) \in Nat
        /\ \A i \in 1..Len(ks[g]) : Append(ks[g], k)[i] = ks[g][i]
        /\ Append(ks[g], k)[Len(ks[g]) + 1] = k
    BY <1>1
  <2>2. QED
    BY <1>2, <2>1 DEF KeysOf
<1>5. \A f \in Generation : f # g => KeysOf(Add(ks, g, k), f) = KeysOf(ks, f)
  BY <1>2 DEF KeysOf
<1>6. QED
  BY <1>2, <1>3, <1>4, <1>5 DEF HasGen

(* The key a command takes from a keystore is one of the keystore's.       *)
LEMMA FirstAndLast ==
  ASSUME NEW ks \in Keystore, NEW g \in Generation, HasGen(ks, g)
  PROVE  /\ Gen(ks, g) \in Key /\ Gen(ks, g) \in KeysOf(ks, g)
         /\ Newest(ks, g) \in Key /\ Newest(ks, g) \in KeysOf(ks, g)
<1>1. ks[g] \in Seq(Key) /\ ks[g] # <<>>
  BY DEF Keystore, HasGen
<1>2. Len(ks[g]) \in Nat /\ Len(ks[g]) >= 1
  BY <1>1
<1>3. Head(ks[g]) = ks[g][1] /\ ks[g][1] \in Key /\ ks[g][Len(ks[g])] \in Key
  BY <1>1, <1>2
<1>4. QED
  BY <1>2, <1>3 DEF Gen, Newest, KeysOf

LEMMA KeysHaveGen ==
  ASSUME NEW ks \in Keystore, NEW g \in Generation
  PROVE  HasGen(ks, g) <=> KeysOf(ks, g) # {}
<1>1. ks[g] \in Seq(Key)
  BY DEF Keystore
<1>2. CASE ks[g] # <<>>
  <2>1. 1 \in 1..Len(ks[g])
    BY <1>1, <1>2
  <2>2. ks[g][1] \in KeysOf(ks, g)
    BY <2>1 DEF KeysOf
  <2>3. QED
    BY <1>2, <2>2 DEF HasGen
<1>3. CASE ks[g] = <<>>
  <2>1. 1..Len(ks[g]) = {}
    BY <1>3
  <2>2. KeysOf(ks, g) = {}
    BY <2>1 DEF KeysOf
  <2>3. QED
    BY <1>3, <2>2 DEF HasGen
<1>4. QED
  BY <1>2, <1>3

(* An import takes nothing away, and adds nothing but keys of the bundle.  *)
LEMMA ImportKeeps ==
  ASSUME NEW ks \in Keystore, NEW b \in Keystore, NEW g \in Generation
  PROVE  /\ Import(ks, b) \in Keystore
         /\ KeysOf(ks, g) \subseteq KeysOf(Import(ks, b), g)
         /\ KeysOf(Import(ks, b), g) \subseteq KeysOf(ks, g) \cup KeysOf(b, g)
         /\ ~HasGen(ks, g) /\ HasGen(b, g) => KeysOf(Import(ks, b), g) = {Gen(b, g)}
<1>1. \A f \in Generation : ~HasGen(ks, f) /\ HasGen(b, f) => <<Gen(b, f)>> \in Seq(Key)
  BY FirstAndLast
<1>2. Import(ks, b) \in Keystore
  BY <1>1 DEF Import, Keystore
<1>3. CASE ~HasGen(ks, g) /\ HasGen(b, g)
  <2>1. KeysOf(Import(ks, b), g) = {Gen(b, g)}
    BY <1>3 DEF Import, KeysOf
  <2>2. KeysOf(ks, g) = {} /\ Gen(b, g) \in KeysOf(b, g)
    BY <1>3, KeysHaveGen, FirstAndLast
  <2>3. QED
    BY <1>2, <2>1, <2>2
<1>4. CASE ~(~HasGen(ks, g) /\ HasGen(b, g))
  <2>1. Import(ks, b)[g] = ks[g]
    BY <1>4 DEF Import
  <2>2. KeysOf(Import(ks, b), g) = KeysOf(ks, g)
    BY <2>1 DEF KeysOf
  <2>3. QED
    BY <1>2, <1>4, <2>2
<1>5. QED
  BY <1>3, <1>4

-----------------------------------------------------------------------------
(* Commands.                                                               *)

LEMMA IdleType == Idle \in Work /\ PhaseOK(Idle) /\ Idle.pc = "idle"
<1>1. Idle \in Work
  BY EmptyKeysType, BoundAssumption DEF Idle, Work, Pc
<1>2. QED
  BY <1>1 DEF Idle, PhaseOK, Rotated

LEMMA RunFields ==
  ASSUME TypeOK, NEW cmd \in Command, NEW p \in Pc
  PROVE  /\ Run(cmd, p) \in Work /\ Run(cmd, p).cmd = cmd /\ Run(cmd, p).pc = p
         /\ Run(cmd, p).mem = disk /\ Run(cmd, p).gen = 0 /\ Run(cmd, p).people = {}
         /\ Run(cmd, p).new = 0 /\ Run(cmd, p).todo = {} /\ Run(cmd, p).who = Nobody
BY IdleType DEF Run, Idle, Work, TypeOK

LEMMA WorkPc ==
  ASSUME NEW h \in Work, NEW p \in Pc
  PROVE  LET w == [h EXCEPT !.pc = p]
         IN  /\ w \in Work /\ w.pc = p /\ w.cmd = h.cmd /\ w.mem = h.mem /\ w.gen = h.gen
             /\ w.people = h.people /\ w.new = h.new /\ w.todo = h.todo /\ w.who = h.who
BY DEF Work

LEMMA SetShell ==
  ASSUME TypeOK, PhaseInv, NEW s \in Shell, NEW h \in Work, PhaseOK(h),
         shell' = [shell EXCEPT ![s] = h]
  PROVE  shell' \in [Shell -> Work] /\ \A u \in Shell : PhaseOK(shell'[u])
BY DEF TypeOK, PhaseInv

LEMMA Finished ==
  ASSUME TypeOK, PhaseInv, NEW s \in Shell, Done(s)
  PROVE  shell' \in [Shell -> Work] /\ \A u \in Shell : PhaseOK(shell'[u])
BY SetShell, IdleType DEF Done

LEMMA InitPhase == Init => TypeOK /\ PhaseInv
<1>1. SUFFICES ASSUME Init PROVE TypeOK /\ PhaseInv
  OBVIOUS
<1>2. EmptyKeys \in Keystore /\ Idle \in Work /\ PhaseOK(Idle) /\ 0 \in 0..MaxGen
      /\ MaxGen \in 0..MaxGen
      /\ 0 \in 0..MaxKeys
  BY EmptyKeysType, IdleType, BoundAssumption
<1>3. NoLink \in Link
  BY <1>2 DEF NoLink, Link
<1>4. TypeOK
  <2>1. shell \in [Shell -> Work] /\ link \in [Computer -> Link]
    BY <1>1, <1>2, <1>3 DEF Init
  <2>2. grants \in [Computer -> [Generation -> 0..MaxKeys]]
    BY <1>1, <1>2 DEF Init
  <2>3. tree \in [Generation -> SUBSET (Key \X Item)] /\ got \in [Computer -> SUBSET (0..MaxKeys)]
    BY <1>1 DEF Init
  <2>4. born \in Seq(Generation)
    BY <1>1 DEF Init
  <2>5. QED
    BY <1>1, <1>2, <2>1, <2>2, <2>3, <2>4 DEF Init, TypeOK
<1>5. PhaseInv
  <2>1. \A s \in Shell : PhaseOK(shell[s])
    BY <1>1, <1>2 DEF Init
  <2>2. \A d \in Computer : link[d].gen = 0 /\ at[d] = 0
    BY <1>1 DEF Init, NoLink
  <2>3. QED
    BY <2>1, <2>2 DEF PhaseInv
<1>6. QED
  BY <1>4, <1>5

LEMMA FreshRow ==
  ASSUME TypeOK, NEW g \in Generation, NEW k \in Key, NEW D \in SUBSET Computer,
         NEW ks \in Keystore, HasGen(ks, g)
  PROVE  /\ GrantToDevices(ks, g, D) \in [Computer -> [Generation -> 0..MaxKeys]]
         /\ NoGrants(grants, D) \in [Computer -> [Generation -> 0..MaxKeys]]
<1>1. Gen(ks, g) \in 0..MaxKeys
  BY FirstAndLast, BoundAssumption DEF Key
<1>2. 0 \in 0..MaxKeys
  BY BoundAssumption
<1>3. QED
  BY <1>1, <1>2 DEF GrantToDevices, NoGrants, TypeOK

(* A key is made for a generation and saved.                               *)
LEMMA KeyMade ==
  ASSUME TypeOK, Len(born) < MaxKeys, NEW g \in Generation, NEW ks \in Keystore,
         born' = Append(born, g), disk' = Add(ks, g, Len(born'))
  PROVE  /\ born' \in Seq(Generation) /\ disk' \in Keystore /\ HasGen(disk', g)
         /\ Len(born') = Len(born) + 1
         /\ Len(born') \in Key /\ Len(born') \in 0..MaxKeys /\ Len(born') # 0
         /\ Len(born') \notin DOMAIN born
         /\ DOMAIN born' = DOMAIN born \cup {Len(born')}
         /\ born'[Len(born')] = g
         /\ \A k \in DOMAIN born : born'[k] = born[k]
<1>1. born \in Seq(Generation)
  BY DEF TypeOK
<1>2. born' \in Seq(Generation) /\ Len(born') = Len(born) + 1 /\ Len(born) \in Nat
      /\ DOMAIN born = 1..Len(born) /\ DOMAIN born' = 1..Len(born')
  BY <1>1
<1>3. Len(born') \in Key /\ Len(born') \in 0..MaxKeys /\ Len(born') # 0
  BY <1>2, BoundAssumption DEF Key
<1>4. disk' \in Keystore /\ HasGen(disk', g)
  BY <1>3, AddKeeps
<1>5. born'[Len(born')] = g /\ \A k \in DOMAIN born : born'[k] = born[k]
  BY <1>1, <1>2
<1>6. QED
  BY <1>2, <1>3, <1>4, <1>5

-----------------------------------------------------------------------------
(* The types, whatever runs in how many terminals.                         *)

LEMMA CreatePhase ==
  ASSUME TypeOK, PhaseInv, NEW s \in Shell, Create(s)
  PROVE  TypeOK' /\ PhaseInv'
<1>1. CASE CircleCreate(s)
  <2> DEFINE h == [Run("create", "row") EXCEPT !.gen = 1]
  <2>1. h \in Work /\ PhaseOK(h)
    <3>1. Run("create", "row") \in Work /\ Run("create", "row").pc = "row"
      BY RunFields DEF Command, Pc
    <3>2. h \in Work /\ h.pc = "row" /\ h.gen = 1
      BY <3>1, BoundAssumption DEF Work
    <3>3. QED
      BY <3>2 DEF PhaseOK, Rotated
  <2>2. shell' \in [Shell -> Work] /\ \A u \in Shell : PhaseOK(shell'[u])
    BY <1>1, <2>1, SetShell DEF CircleCreate
  <2>3. gen' \in 0..MaxGen
    BY <1>1, BoundAssumption DEF CircleCreate
  <2>4. QED
    BY <1>1, <2>2, <2>3 DEF CircleCreate, TypeOK, PhaseInv, agents, history
<1>2. CASE FirstKey(s)
  <2> DEFINE h == [shell[s] EXCEPT !.pc = "canary", !.mem = disk', !.new = Len(born')]
  <2>1. shell[s] \in Work /\ PhaseOK(shell[s]) /\ shell[s].pc = "row" /\ shell[s].gen = 1
    BY <1>2 DEF FirstKey, At, TypeOK, PhaseInv, PhaseOK
  <2>2. shell[s].mem \in Keystore /\ 1 \in Generation
    BY <2>1, GenerationRange DEF Work
  <2>3. born' \in Seq(Generation) /\ disk' \in Keystore /\ Len(born') \in 0..MaxKeys
        /\ Len(born') # 0
    BY <1>2, <2>2, KeyMade DEF FirstKey
  <2>4. h \in Work /\ h.pc = "canary" /\ h.gen = 1 /\ h.new = Len(born')
    BY <2>1, <2>3 DEF Work, Pc
  <2>5. PhaseOK(h)
    BY <2>3, <2>4 DEF PhaseOK, Rotated
  <2>6. shell' = [shell EXCEPT ![s] = h]
    BY <1>2 DEF FirstKey, TypeOK
  <2>7. shell' \in [Shell -> Work] /\ \A u \in Shell : PhaseOK(shell'[u])
    BY <2>4, <2>5, <2>6, SetShell
  <2>8. QED
    BY <1>2, <2>3, <2>7 DEF FirstKey, TypeOK, PhaseInv, rows, agents, history
<1>3. CASE CanaryAgain(s)
  <2> DEFINE h == [Run("canary", "canary") EXCEPT !.gen = gen, !.new = Gen(disk, gen)]
  <2>1. gen \in Generation /\ gen \in 0..MaxGen /\ disk \in Keystore /\ HasGen(disk, gen)
        /\ gen # 0
    BY <1>3, GenerationRange DEF CanaryAgain, TypeOK
  <2>2. Gen(disk, gen) \in 0..MaxKeys /\ Gen(disk, gen) # 0
    BY <2>1, FirstAndLast, BoundAssumption DEF Key
  <2>3. h \in Work /\ h.pc = "canary" /\ h.gen = gen /\ h.new = Gen(disk, gen)
    <3>1. Run("canary", "canary") \in Work /\ Run("canary", "canary").pc = "canary"
      BY RunFields DEF Command, Pc
    <3>2. QED
      BY <2>1, <2>2, <3>1 DEF Work
  <2>4. PhaseOK(h)
    BY <2>1, <2>2, <2>3 DEF PhaseOK, Rotated
  <2>5. shell' \in [Shell -> Work] /\ \A u \in Shell : PhaseOK(shell'[u])
    BY <1>3, <2>3, <2>4, SetShell DEF CanaryAgain
  <2>6. QED
    BY <1>3, <2>5 DEF CanaryAgain, TypeOK, PhaseInv, rows, agents, history
<1>4. CASE WriteCanary(s)
  <2>1. shell' \in [Shell -> Work] /\ \A u \in Shell : PhaseOK(shell'[u])
    BY <1>4, Finished DEF WriteCanary
  <2>2. shell[s] \in Work /\ shell[s].gen # 0 /\ shell[s].new # 0
    BY <1>4 DEF WriteCanary, At, TypeOK, PhaseInv, PhaseOK
  <2>3. <<shell[s].new, Canary>> \in Key \X Item
    BY <2>2, BoundAssumption DEF Work, Key, Item
  <2>4. tree' \in [Generation -> SUBSET (Key \X Item)]
    BY <1>4, <2>3 DEF WriteCanary, TypeOK
  <2>5. QED
    BY <1>4, <2>1, <2>4 DEF WriteCanary, TypeOK, PhaseInv, rows, agents, history
<1>5. QED
  BY <1>1, <1>2, <1>3, <1>4 DEF Create

LEMMA InvitePhase ==
  ASSUME TypeOK, PhaseInv, NEW s \in Shell, Invite(s)
  PROVE  TypeOK' /\ PhaseInv'
<1>1. ASSUME NEW d \in Computer, InviteSeal(s, d) PROVE TypeOK' /\ PhaseInv'
  <2> DEFINE h == [Run("invite", "sealed") EXCEPT !.gen = gen, !.new = Gen(disk, gen), !.who = d]
  <2>1. gen \in Generation /\ gen \in 0..MaxGen /\ disk \in Keystore /\ HasGen(disk, gen)
        /\ gen # 0
    BY <1>1, GenerationRange DEF InviteSeal, TypeOK
  <2>2. Gen(disk, gen) \in 0..MaxKeys /\ Gen(disk, gen) # 0
    BY <2>1, FirstAndLast, BoundAssumption DEF Key
  <2>3. h \in Work /\ h.pc = "sealed" /\ h.gen = gen /\ h.new = Gen(disk, gen) /\ h.who = d
    <3>1. Run("invite", "sealed") \in Work /\ Run("invite", "sealed").pc = "sealed"
      BY RunFields DEF Command, Pc
    <3>2. QED
      BY <2>1, <2>2, <3>1 DEF Work
  <2>4. PhaseOK(h)
    BY <2>1, <2>2, <2>3 DEF PhaseOK, Rotated
  <2>5. shell' \in [Shell -> Work] /\ \A u \in Shell : PhaseOK(shell'[u])
    BY <1>1, <2>3, <2>4, SetShell DEF InviteSeal
  <2>6. QED
    BY <1>1, <2>5 DEF InviteSeal, TypeOK, PhaseInv, rows, agents, history
<1>2. CASE InvitePost(s)
  <2> DEFINE h == shell[s]
  <2>1. h \in Work /\ h.gen # 0 /\ h.new # 0 /\ h.who \in Computer
    BY <1>2 DEF InvitePost, At, TypeOK, PhaseInv, PhaseOK
  <2>2. shell' \in [Shell -> Work] /\ \A u \in Shell : PhaseOK(shell'[u])
    BY <1>2, Finished DEF InvitePost
  <2>3. [state |-> "open", gen |-> h.gen, key |-> h.new] \in Link
    BY <2>1 DEF Link, Work
  <2>4. members' \subseteq Computer /\ link' \in [Computer -> Link]
    <3> DEFINE sealed == [state |-> "open", gen |-> h.gen, key |-> h.new]
    <3>1. link' = link \/ link' = [link EXCEPT ![h.who] = sealed]
      BY <1>2 DEF InvitePost
    <3>2. members' = members \/ members' = members \cup {h.who}
      BY <1>2 DEF InvitePost
    <3>3. link \in [Computer -> Link] /\ members \subseteq Computer /\ sealed \in Link
      BY <2>3 DEF TypeOK
    <3>4. link' \in [Computer -> Link]
      <4> HIDE DEF sealed
      <4>1. QED
        BY <3>1, <3>3
    <3>5. QED
      BY <2>1, <3>2, <3>3, <3>4
  <2>5. \A d \in Computer : link'[d].gen # 0 => link'[d].key # 0
    <3>1. CASE link' = link
      BY <3>1 DEF PhaseInv
    <3>2. CASE link' = [link EXCEPT ![h.who] = [state |-> "open", gen |-> h.gen, key |-> h.new]]
      BY <2>1, <3>2 DEF PhaseInv, TypeOK
    <3>3. QED
      BY <1>2, <3>1, <3>2 DEF InvitePost
  <2>6. QED
    BY <1>2, <2>2, <2>4, <2>5 DEF InvitePost, TypeOK, PhaseInv, agents, history
<1>3. QED
  BY <1>1, <1>2 DEF Invite

LEMMA MembershipPhase ==
  ASSUME TypeOK, PhaseInv, NEW s \in Shell, Membership(s)
  PROVE  TypeOK' /\ PhaseInv'
<1>1. CASE PostGrant(s)
  <2> DEFINE h == shell[s]
  <2>1. shell' \in [Shell -> Work] /\ \A u \in Shell : PhaseOK(shell'[u])
    BY <1>1, Finished DEF PostGrant
  <2>2. h \in Work /\ h.gen \in Generation /\ h.people \subseteq Computer /\ h.mem \in Keystore
    BY <1>1, GenerationRange DEF PostGrant, At, TypeOK, PhaseInv, PhaseOK, Work
  <2>3. grants' \in [Computer -> [Generation -> 0..MaxKeys]]
    <3>1. CASE HasGen(h.mem, h.gen)
      <4>1. 1 \in Key
        BY BoundAssumption DEF Key
      <4>2. QED
        BY <1>1, <2>2, <3>1, <4>1, FreshRow DEF PostGrant
    <3>2. CASE ~HasGen(h.mem, h.gen)
      BY <1>1, <3>2 DEF PostGrant, TypeOK
    <3>3. QED
      BY <3>1, <3>2
  <2>4. QED
    BY <1>1, <2>1, <2>3 DEF PostGrant, TypeOK, PhaseInv, agents, history
<1>2. ASSUME NEW d \in Computer, AddMember(s, d) PROVE TypeOK' /\ PhaseInv'
  <2> DEFINE h == [Run("add", "adding") EXCEPT !.gen = gen, !.who = d,
                       !.people = {c \in {d} : device[c] = "active"}]
  <2>1. gen \in 0..MaxGen /\ gen # 0 /\ MaxGen \in 0..MaxGen
    BY <1>2, BoundAssumption DEF AddMember, TypeOK
  <2>2. h \in Work /\ h.pc = "adding" /\ h.gen = gen
    <3>1. Run("add", "adding") \in Work /\ Run("add", "adding").pc = "adding"
      BY RunFields DEF Command, Pc
    <3>2. QED
      BY <2>1, <3>1 DEF Work
  <2>3. PhaseOK(h)
    BY <2>1, <2>2 DEF PhaseOK, Rotated
  <2>4. shell' \in [Shell -> Work] /\ \A u \in Shell : PhaseOK(shell'[u])
    BY <1>2, <2>2, <2>3, SetShell DEF AddMember
  <2>5. QED
    BY <1>2, <2>1, <2>4 DEF AddMember, TypeOK, PhaseInv, agents
<1>3. ASSUME NEW d \in Computer, RemoveMember(s, d) PROVE TypeOK' /\ PhaseInv'
  <2>1. grants' \in [Computer -> [Generation -> 0..MaxKeys]]
    BY <1>3, BoundAssumption DEF RemoveMember, NoGrants, TypeOK
  <2>2. QED
    BY <1>3, <2>1 DEF RemoveMember, TypeOK, PhaseInv, operator, agents
<1>4. QED
  BY <1>1, <1>2, <1>3 DEF Membership

LEMMA OffboardPhase ==
  ASSUME TypeOK, PhaseInv, NEW s \in Shell, Offboard(s)
  PROVE  TypeOK' /\ PhaseInv'
<1>1. ASSUME NEW d \in Computer, OffboardDevice(s, d) PROVE TypeOK' /\ PhaseInv'
  <2> DEFINE h == [Run("offboard", "memberships") EXCEPT !.who = d]
  <2>1. grants' \in [Computer -> [Generation -> 0..MaxKeys]]
    BY <1>1, BoundAssumption DEF OffboardDevice, NoGrants, TypeOK
  <2>2. h \in Work /\ h.pc = "memberships"
    <3>1. Run("offboard", "memberships") \in Work
          /\ Run("offboard", "memberships").pc = "memberships"
      BY RunFields DEF Command, Pc
    <3>2. QED
      BY <3>1 DEF Work
  <2>3. PhaseOK(h)
    BY <2>2 DEF PhaseOK, Rotated
  <2>4. shell' \in [Shell -> Work] /\ \A u \in Shell : PhaseOK(shell'[u])
    BY <1>1, <2>2, <2>3, SetShell DEF OffboardDevice
  <2>5. QED
    BY <1>1, <2>1, <2>4 DEF OffboardDevice, TypeOK, PhaseInv, agents
<1>2. CASE OffboardMembership(s)
  <2> DEFINE h == [shell[s] EXCEPT !.pc = "links", !.people = members \cap {shell[s].who}]
  <2>1. h \in Work /\ h.pc = "links"
    <3>1. shell[s] \in Work /\ members \cap {shell[s].who} \subseteq Computer
      BY DEF TypeOK
    <3>2. QED
      BY <3>1 DEF Work, Pc
  <2>2. PhaseOK(h)
    BY <2>1 DEF PhaseOK, Rotated
  <2>3. shell' = [shell EXCEPT ![s] = h]
    BY <1>2 DEF OffboardMembership, TypeOK
  <2>4. shell' \in [Shell -> Work] /\ \A u \in Shell : PhaseOK(shell'[u])
    BY <2>1, <2>2, <2>3, SetShell
  <2>5. QED
    BY <1>2, <2>4 DEF OffboardMembership, TypeOK, PhaseInv, agents, history
<1>3. CASE OffboardPerson(s)
  <2> DEFINE h == IF shell[s].people = {} THEN Idle ELSE [shell[s] EXCEPT !.pc = "rotate"]
  <2>1. h \in Work /\ h.pc \in {"idle", "rotate"}
    BY IdleType DEF Work, Pc, TypeOK
  <2>2. PhaseOK(h)
    BY <2>1 DEF PhaseOK, Rotated
  <2>3. shell' = [shell EXCEPT ![s] = h]
    BY <1>3 DEF OffboardPerson, TypeOK
  <2>4. shell' \in [Shell -> Work] /\ \A u \in Shell : PhaseOK(shell'[u])
    BY <2>1, <2>2, <2>3, SetShell
  <2>5. link' \in [Computer -> Link] /\ \A d \in Computer : link'[d].gen # 0 => link'[d].key # 0
    <3>1. NoLink \in Link /\ NoLink.gen = 0
      BY BoundAssumption DEF NoLink, Link
    <3>2. link \in [Computer -> Link] /\ \A d \in Computer : link'[d] \in {link[d], NoLink}
      BY <1>3 DEF OffboardPerson, TypeOK
    <3>3. link' \in [Computer -> Link]
      BY <1>3, <3>1, <3>2 DEF OffboardPerson
    <3>4. QED
      BY <3>1, <3>2, <3>3 DEF PhaseInv
  <2>6. outAt' \in [Computer -> 0..MaxGen] /\ person' \in [Computer -> {"active", "offboarded"}]
    <3>1. MaxGen \in 0..MaxGen /\ gen \in 0..MaxGen /\ outAt \in [Computer -> 0..MaxGen]
      BY BoundAssumption DEF TypeOK
    <3>2. outAt' \in [Computer -> 0..MaxGen]
      BY <1>3, <3>1 DEF OffboardPerson
    <3>3. QED
      BY <1>3, <3>2 DEF OffboardPerson, TypeOK
  <2>7. QED
    BY <1>3, <2>4, <2>5, <2>6 DEF OffboardPerson, TypeOK, PhaseInv, agents
<1>4. QED
  BY <1>1, <1>2, <1>3 DEF Offboard

LEMMA RotatePhase ==
  ASSUME TypeOK, PhaseInv, NEW s \in Shell, RotateKey(s)
  PROVE  TypeOK' /\ PhaseInv'
<1>0. shell[s] \in Work /\ PhaseOK(shell[s])
  BY DEF TypeOK, PhaseInv
<1>1. CASE RotateRead(s)
  <2> DEFINE g == IF At(s, "rotate") THEN shell[s] ELSE Run("rotate", "rotate")
             h == [g EXCEPT !.pc = "asked", !.gen = gen, !.people = members]
  <2>1. g \in Work
    <3>1. Run("rotate", "rotate") \in Work
      BY RunFields DEF Command, Pc
    <3>2. QED
      BY <1>0, <3>1
  <2>2. gen \in 0..MaxGen /\ gen # 0 /\ HasGen(g.mem, gen) /\ members \subseteq Computer
    BY <1>1 DEF RotateRead, TypeOK
  <2>3. h \in Work /\ h.pc = "asked" /\ h.gen = gen /\ h.mem = g.mem
    BY <2>1, <2>2 DEF Work, Pc
  <2>4. PhaseOK(h)
    BY <2>2, <2>3 DEF PhaseOK, Rotated
  <2>5. shell' \in [Shell -> Work] /\ \A u \in Shell : PhaseOK(shell'[u])
    BY <1>1, <2>3, <2>4, SetShell DEF RotateRead
  <2>6. stayed' \subseteq Computer
    BY <1>1, <2>2 DEF RotateRead
  <2>7. QED
    BY <1>1, <2>5, <2>6 DEF RotateRead, TypeOK, PhaseInv, rows, agents
<1>2. CASE RotateSave(s)
  <2> DEFINE g == shell[s]
             left == {x[2] : x \in tree[g.gen]}
             h == [g EXCEPT !.pc = "copying", !.mem = disk', !.new = Len(born'), !.todo = left]
  <2>1. g.gen \in Generation /\ g.gen < MaxGen /\ g.gen + 1 \in Generation /\ HasGen(g.mem, g.gen)
        /\ g.mem \in Keystore /\ g.gen # 0 /\ g.gen # g.gen + 1
    <3>1. g.gen \in 0..MaxGen /\ g.gen # 0 /\ g.gen < MaxGen /\ HasGen(g.mem, g.gen)
          /\ g.mem \in Keystore
      BY <1>0, <1>2 DEF RotateSave, At, PhaseOK, Work
    <3>2. QED
      BY <3>1, GenerationRange
  <2>2. born' \in Seq(Generation) /\ disk' \in Keystore /\ Len(born') \in 0..MaxKeys
        /\ Len(born') # 0
        /\ HasGen(disk', g.gen + 1)
    BY <1>2, <2>1, KeyMade DEF RotateSave
  <2>3. HasGen(disk', g.gen)
    <3>1. Len(born') \in Key
      BY <2>2, BoundAssumption DEF Key
    <3>2. QED
      BY <1>2, <2>1, <3>1, AddKeeps DEF RotateSave
  <2>4. left \subseteq Item
    BY <2>1 DEF TypeOK
  <2>5. h \in Work /\ h.pc = "copying" /\ h.gen = g.gen /\ h.new = Len(born') /\ h.mem = disk'
    BY <1>0, <2>2, <2>4 DEF Work, Pc
  <2>6. PhaseOK(h)
    BY <2>1, <2>2, <2>3, <2>5 DEF PhaseOK, Rotated
  <2>7. shell' \in [Shell -> Work] /\ \A u \in Shell : PhaseOK(shell'[u])
    BY <1>2, <2>5, <2>6, SetShell DEF RotateSave
  <2>8. settled' \subseteq Item
    BY <1>2, <2>4 DEF RotateSave
  <2>9. QED
    BY <1>2, <2>2, <2>7, <2>8 DEF RotateSave, TypeOK, PhaseInv, rows, agents
<1>3. ASSUME shell[s].pc \in Rotated, NEW p \in Rotated, Goto(s, p)
      PROVE  shell' \in [Shell -> Work] /\ \A u \in Shell : PhaseOK(shell'[u])
  <2> DEFINE h == [shell[s] EXCEPT !.pc = p]
  <2>1. p \in Pc
    BY DEF Rotated, Pc
  <2>2. h \in Work /\ h.pc = p /\ h.mem = shell[s].mem /\ h.gen = shell[s].gen
        /\ h.new = shell[s].new
    BY <1>0, <2>1, WorkPc
  <2>3. PhaseOK(h)
    BY <1>0, <1>3, <2>2 DEF PhaseOK, Rotated
  <2>4. shell' = [shell EXCEPT ![s] = h]
    BY <1>3 DEF Goto, TypeOK
  <2>5. QED
    BY <2>2, <2>3, <2>4, SetShell
<1>4. shell[s].pc \in Rotated =>
         /\ shell[s].gen \in Generation /\ shell[s].gen + 1 \in Generation
         /\ shell[s].gen # shell[s].gen + 1 /\ shell[s].gen + 1 \in 0..MaxGen
         /\ shell[s].new \in Key /\ shell[s].mem \in Keystore /\ shell[s].people \subseteq Computer
         /\ HasGen(shell[s].mem, shell[s].gen + 1)
  <2>1. ASSUME shell[s].pc \in Rotated
        PROVE  shell[s].gen \in 0..MaxGen /\ shell[s].gen # 0 /\ shell[s].gen < MaxGen
               /\ shell[s].new \in 0..MaxKeys /\ shell[s].new # 0
               /\ HasGen(shell[s].mem, shell[s].gen + 1)
    BY <1>0, <2>1 DEF PhaseOK, Work
  <2>2. ASSUME shell[s].pc \in Rotated
        PROVE  shell[s].gen \in Generation /\ shell[s].gen + 1 \in Generation
               /\ shell[s].gen # shell[s].gen + 1 /\ shell[s].gen + 1 \in 0..MaxGen
    BY <2>1, <2>2, GenerationRange
  <2>3. ASSUME shell[s].pc \in Rotated
        PROVE  shell[s].new \in Key
    BY <2>1, <2>3, BoundAssumption DEF Key
  <2>4. QED
    BY <1>0, <2>1, <2>2, <2>3 DEF Work
<1>5. ASSUME NEW i \in Item, CopyItem(s, i) PROVE TypeOK' /\ PhaseInv'
  <2>1. shell[s].pc \in Rotated
    BY <1>5 DEF CopyItem, At, Rotated
  <2>2. tree' \in [Generation -> SUBSET (Key \X Item)]
    BY <1>4, <1>5, <2>1 DEF CopyItem, TypeOK
  <2>3. QED
    BY <1>5, <2>2 DEF CopyItem, TypeOK, PhaseInv, operator, rows, agents, history
<1>6. CASE CopyDone(s)
  <2>1. shell' \in [Shell -> Work] /\ \A u \in Shell : PhaseOK(shell'[u])
    BY <1>3, <1>6 DEF CopyDone, At, Rotated
  <2>2. QED
    BY <1>6, <2>1 DEF CopyDone, TypeOK, PhaseInv, rows, agents, history
<1>7. CASE ReadDevices(s)
  <2> DEFINE h == [shell[s] EXCEPT !.pc = "granting", !.people = Eligible(shell[s])]
  <2>1. shell[s].pc \in Rotated /\ Eligible(shell[s]) \subseteq Computer
    BY <1>0, <1>7 DEF ReadDevices, At, Rotated, Eligible, Work
  <2>2. h \in Work /\ h.pc = "granting" /\ h.mem = shell[s].mem /\ h.gen = shell[s].gen
        /\ h.new = shell[s].new
    BY <1>0, <2>1 DEF Work, Pc
  <2>3. PhaseOK(h)
    BY <1>0, <2>1, <2>2 DEF PhaseOK, Rotated
  <2>4. shell' = [shell EXCEPT ![s] = h]
    BY <1>7 DEF ReadDevices, TypeOK
  <2>5. shell' \in [Shell -> Work] /\ \A u \in Shell : PhaseOK(shell'[u])
    BY <2>2, <2>3, <2>4, SetShell
  <2>6. QED
    BY <1>7, <2>5 DEF ReadDevices, TypeOK, PhaseInv, rows, agents, history
<1>8. CASE PostGrants(s)
  <2>1. shell[s].pc \in Rotated
    BY <1>8 DEF PostGrants, At, Rotated
  <2>2. Goto(s, "granted") \/ Done(s)
    BY <1>8 DEF PostGrants
  <2>3. shell' \in [Shell -> Work] /\ \A u \in Shell : PhaseOK(shell'[u])
    BY <1>3, <2>1, <2>2, Finished DEF Rotated
  <2>4. PICK D \in SUBSET shell[s].people :
           grants' = GrantToDevices(shell[s].mem, shell[s].gen + 1, D)
    BY <1>8 DEF PostGrants
  <2>5. grants' \in [Computer -> [Generation -> 0..MaxKeys]]
    <3>1. D \in SUBSET Computer
      BY <1>4, <2>1
    <3>2. QED
      BY <1>4, <2>1, <2>4, <3>1, FreshRow
  <2>6. QED
    BY <1>8, <2>3, <2>5 DEF PostGrants, TypeOK, PhaseInv, agents, history
<1>9. CASE SetGeneration(s)
  <2>1. shell[s].pc \in Rotated
    BY <1>9 DEF SetGeneration, At, Rotated
  <2>2. Goto(s, "switched") \/ Done(s)
    BY <1>9 DEF SetGeneration
  <2>3. shell' \in [Shell -> Work] /\ \A u \in Shell : PhaseOK(shell'[u])
    BY <1>3, <2>1, <2>2, Finished DEF Rotated
  <2>4. gen' \in 0..MaxGen
    BY <1>4, <1>9, <2>1 DEF SetGeneration, TypeOK
  <2>5. QED
    BY <1>9, <2>3, <2>4 DEF SetGeneration, TypeOK, PhaseInv, agents, history
<1>10. CASE DropOldGrants(s)
  <2>1. shell' \in [Shell -> Work] /\ \A u \in Shell : PhaseOK(shell'[u])
    BY <1>3, <1>10 DEF DropOldGrants, At, Rotated
  <2>2. grants' \in [Computer -> [Generation -> 0..MaxKeys]]
    BY <1>10, BoundAssumption DEF DropOldGrants, TypeOK
  <2>3. QED
    BY <1>10, <2>1, <2>2 DEF DropOldGrants, TypeOK, PhaseInv, agents, history
<1>11. CASE Purge(s)
  <2>1. shell' \in [Shell -> Work] /\ \A u \in Shell : PhaseOK(shell'[u])
    BY <1>11, Finished DEF Purge
  <2>2. tree' \in [Generation -> SUBSET (Key \X Item)]
    BY <1>11 DEF Purge, TypeOK
  <2>3. QED
    BY <1>11, <2>1, <2>2 DEF Purge, TypeOK, PhaseInv, rows, agents, history
<1>12. QED
  BY <1>1, <1>2, <1>5, <1>6, <1>7, <1>8, <1>9, <1>10, <1>11 DEF RotateKey

LEMMA KeysPhase ==
  ASSUME TypeOK, PhaseInv, NEW s \in Shell, Keys(s)
  PROVE  TypeOK' /\ PhaseInv'
<1>0. shell[s] \in Work /\ shell[s].mem \in Keystore
  BY DEF TypeOK, Work
<1>1. CASE ExportRead(s)
  <2>1. Run("export", "export") \in Work /\ Run("export", "export").pc = "export"
    BY RunFields DEF Command, Pc
  <2>2. PhaseOK(Run("export", "export"))
    BY <2>1 DEF PhaseOK, Rotated
  <2>3. shell' \in [Shell -> Work] /\ \A u \in Shell : PhaseOK(shell'[u])
    BY <1>1, <2>1, <2>2, SetShell DEF ExportRead
  <2>4. QED
    BY <1>1, <2>3 DEF ExportRead, TypeOK, PhaseInv, rows, agents, history
<1>2. CASE ExportWrite(s)
  <2>1. shell' \in [Shell -> Work] /\ \A u \in Shell : PhaseOK(shell'[u])
    BY <1>2, Finished DEF ExportWrite
  <2>2. QED
    BY <1>0, <1>2, <2>1, BoundAssumption DEF ExportWrite, TypeOK, PhaseInv, rows, agents, history
<1>3. CASE VerifyRead(s)
  <2>1. PICK cmd \in {"verify", "live"} :
           LET keys == IF cmd = "verify" THEN bundle ELSE disk
           IN  /\ gen > 0 /\ HasGen(keys, gen)
               /\ shell' = [shell EXCEPT ![s] =
                     [Run(cmd, "verify") EXCEPT !.gen = gen, !.new = Newest(keys, gen)]]
    BY <1>3 DEF VerifyRead
  <2> DEFINE keys == IF cmd = "verify" THEN bundle ELSE disk
             h == [Run(cmd, "verify") EXCEPT !.gen = gen, !.new = Newest(keys, gen)]
  <2>2. gen \in 0..MaxGen /\ gen # 0 /\ gen \in Generation /\ keys \in Keystore
        /\ HasGen(keys, gen)
    BY <2>1, GenerationRange DEF TypeOK
  <2>3. Newest(keys, gen) \in 0..MaxKeys /\ Newest(keys, gen) # 0
    BY <2>2, FirstAndLast, BoundAssumption DEF Key
  <2>4. Run(cmd, "verify") \in Work /\ Run(cmd, "verify").pc = "verify"
    BY RunFields DEF Command, Pc
  <2>5. h \in Work /\ h.pc = "verify" /\ h.gen = gen /\ h.new = Newest(keys, gen)
    BY <2>2, <2>3, <2>4 DEF Work
  <2>6. PhaseOK(h)
    BY <2>2, <2>3, <2>5 DEF PhaseOK, Rotated
  <2>7. shell' \in [Shell -> Work] /\ \A u \in Shell : PhaseOK(shell'[u])
    BY <2>1, <2>5, <2>6, SetShell
  <2>8. QED
    BY <1>3, <2>7 DEF VerifyRead, TypeOK, PhaseInv, rows, agents, history
<1>4. CASE VerifyCat(s)
  <2>1. shell' \in [Shell -> Work] /\ \A u \in Shell : PhaseOK(shell'[u])
    BY <1>4, Finished DEF VerifyCat
  <2>2. verified' \in 0..MaxGen /\ disk' \in Keystore
    BY <1>0, <1>4 DEF VerifyCat, TypeOK, Work
  <2>3. QED
    BY <1>4, <2>1, <2>2 DEF VerifyCat, TypeOK, PhaseInv, rows, agents, history
<1>5. CASE Recover(s)
  <2>1. 1 \in Generation
    BY GenerationRange
  <2>2. disk' \in Keystore
    BY <1>5, <2>1, ImportKeeps DEF Recover, TypeOK
  <2>3. QED
    BY <1>5, <2>2 DEF Recover, TypeOK, PhaseInv, rows, agents, history
<1>6. QED
  BY <1>1, <1>2, <1>3, <1>4, <1>5 DEF Keys

LEMMA OperatePhase ==
  ASSUME TypeOK, PhaseInv, NEW s \in Shell, Operate(s)
  PROVE  TypeOK' /\ PhaseInv'
<1>1. CASE Fail(s)
  <2>1. shell' \in [Shell -> Work] /\ \A u \in Shell : PhaseOK(shell'[u])
    BY <1>1, Finished DEF Fail
  <2>2. QED
    BY <1>1, <2>1 DEF Fail, TypeOK, PhaseInv, rows, agents, history
<1>2. ASSUME NEW d \in Computer, DeviceRevoke(s, d) PROVE TypeOK' /\ PhaseInv'
  <2>1. grants' \in [Computer -> [Generation -> 0..MaxKeys]]
    BY <1>2, BoundAssumption DEF DeviceRevoke, NoGrants, TypeOK
  <2>2. QED
    BY <1>2, <2>1 DEF DeviceRevoke, TypeOK, PhaseInv, operator, agents
<1>3. QED
  BY <1>1, <1>2, CreatePhase, InvitePhase, MembershipPhase, OffboardPhase, RotatePhase, KeysPhase
     DEF Operate

LEMMA LosePhase ==
  ASSUME TypeOK, PhaseInv, LoseMachine
  PROVE  TypeOK' /\ PhaseInv'
<1>1. shell' \in [Shell -> Work] /\ \A u \in Shell : PhaseOK(shell'[u])
  BY IdleType DEF LoseMachine
<1>2. QED
  BY <1>1, EmptyKeysType DEF LoseMachine, TypeOK, PhaseInv, rows, agents, history

LEMMA MemberPhase ==
  ASSUME TypeOK, PhaseInv, NEW d \in Computer, Member(d)
  PROVE  TypeOK' /\ PhaseInv'
<1>0. NoLink \in Link /\ NoLink.gen = 0
  BY BoundAssumption DEF NoLink, Link
<1>1. CASE Redeem(d)
  <2>1. link' \in [Computer -> Link]
        /\ \A c \in Computer : link'[c].gen = link[c].gen /\ link'[c].key = link[c].key
    BY <1>1 DEF Redeem, TypeOK, Link
  <2>2. got' \in [Computer -> SUBSET (0..MaxKeys)]
    BY <1>1 DEF Redeem, TypeOK, Link
  <2>3. QED
    BY <1>1, <2>1, <2>2 DEF Redeem, TypeOK, PhaseInv, operator, agents
<1>2. CASE Expire(d)
  <2>1. link' \in [Computer -> Link] /\ \A c \in Computer : link'[c] \in {link[c], NoLink}
    BY <1>0, <1>2 DEF Expire, TypeOK
  <2>2. QED
    BY <1>0, <1>2, <2>1 DEF Expire, TypeOK, PhaseInv, operator, agents, history
<1>3. CASE EnrolCheck(d)
  BY <1>3 DEF EnrolCheck, TypeOK, PhaseInv, operator, rows, history
<1>4. CASE EnrolStore(d)
  <2>1. link' \in [Computer -> Link] /\ \A c \in Computer : link'[c] \in {link[c], NoLink}
    BY <1>0, <1>4 DEF EnrolStore, TypeOK
  <2>2. grants' \in [Computer -> [Generation -> 0..MaxKeys]]
    BY <1>4, BoundAssumption DEF EnrolStore, NoGrants, TypeOK
  <2>3. key' \in [Computer -> 0..MaxKeys] /\ at' \in [Computer -> 0..MaxGen]
    BY <1>4 DEF EnrolStore, TypeOK, Link
  <2>4. \A c \in Computer : at'[c] # 0 => key'[c] # 0
    BY <1>4 DEF EnrolStore, TypeOK, PhaseInv
  <2>5. QED
    BY <1>0, <1>4, <2>1, <2>2, <2>3, <2>4 DEF EnrolStore, TypeOK, PhaseInv, operator
<1>5. CASE Heartbeat(d)
  <2>1. gen \in Generation /\ gen \in 0..MaxGen
    BY <1>5, GenerationRange DEF Heartbeat, Served, TypeOK
  <2>2. key' \in [Computer -> 0..MaxKeys] /\ at' \in [Computer -> 0..MaxGen]
        /\ got' \in [Computer -> SUBSET (0..MaxKeys)]
    BY <1>5, <2>1 DEF Heartbeat, TypeOK
  <2>3. \A c \in Computer : at'[c] # 0 => key'[c] # 0
    BY <1>5 DEF Heartbeat, TypeOK, PhaseInv
  <2>4. QED
    BY <1>5, <2>2, <2>3 DEF Heartbeat, TypeOK, PhaseInv, operator, rows
<1>6. CASE Write(d)
  <2>1. gen \in Generation /\ key[d] \in Key
    BY <1>6, GenerationRange, BoundAssumption DEF Write, Served, TypeOK, PhaseInv, Key
  <2>2. tree' \in [Generation -> SUBSET (Key \X Item)]
    BY <1>6, <2>1 DEF Write, TypeOK, Item
  <2>3. QED
    BY <1>6, <2>2 DEF Write, TypeOK, PhaseInv, operator, rows, agents, history
<1>7. QED
  BY <1>1, <1>2, <1>3, <1>4, <1>5, <1>6 DEF Member

LEMMA NextPhase == TypeOK /\ PhaseInv /\ [Next]_vars => TypeOK' /\ PhaseInv'
<1>1. SUFFICES ASSUME TypeOK, PhaseInv, [Next]_vars PROVE TypeOK' /\ PhaseInv'
  OBVIOUS
<1>2. CASE Next
  BY <1>1, <1>2, OperatePhase, LosePhase, MemberPhase DEF Next
<1>3. CASE UNCHANGED vars
  BY <1>1, <1>3 DEF vars, operator, rows, agents, history, TypeOK, PhaseInv
<1>4. QED
  BY <1>1, <1>2, <1>3

(* The state is well typed, in however many terminals the commands run: no *)
(* command takes the key of a generation its keystore has none of, or      *)
(* works on a tree that is not one of the circle's.                        *)
THEOREM OperatorTypeOK == Spec => []TypeOK
<1>1. TypeOK /\ PhaseInv /\ [Next]_vars => TypeOK' /\ PhaseInv'
  BY NextPhase
<1>2. QED
  BY <1>1, InitPhase, PTL DEF Spec

-----------------------------------------------------------------------------
(* One terminal: who writes what, and what brings a command to a phase.    *)

WhoWrites ==
    /\ \/ UNCHANGED disk
       \/ (\E s \in Shell : FirstKey(s) \/ RotateSave(s) \/ ExportWrite(s) \/ VerifyCat(s)
                            \/ Recover(s))
       \/ LoseMachine
    /\ \/ UNCHANGED bundle
       \/ (\E s \in Shell : ExportWrite(s))
    /\ \/ UNCHANGED verified
       \/ (\E s \in Shell : ExportWrite(s) \/ VerifyCat(s))
    /\ \/ UNCHANGED lost
       \/ LoseMachine
    /\ \/ UNCHANGED born
       \/ (\E s \in Shell : FirstKey(s) \/ RotateSave(s))
    /\ \/ UNCHANGED gen
       \/ (\E s \in Shell : CircleCreate(s) \/ SetGeneration(s))
    /\ \/ UNCHANGED members
       \/ (\E s \in Shell : InvitePost(s) \/ OffboardMembership(s))
       \/ (\E s \in Shell, d \in Computer : AddMember(s, d) \/ RemoveMember(s, d))
    /\ \/ UNCHANGED person
       \/ (\E s \in Shell : OffboardPerson(s))
    /\ \/ UNCHANGED device
       \/ (\E s \in Shell, d \in Computer : DeviceRevoke(s, d) \/ OffboardDevice(s, d))
       \/ (\E d \in Computer : EnrolStore(d))
    /\ \/ UNCHANGED grants
       \/ (\E s \in Shell : PostGrant(s) \/ PostGrants(s) \/ DropOldGrants(s))
       \/ (\E s \in Shell, d \in Computer : RemoveMember(s, d) \/ DeviceRevoke(s, d)
                                            \/ OffboardDevice(s, d))
       \/ (\E d \in Computer : EnrolStore(d))
    /\ \/ UNCHANGED link
       \/ (\E s \in Shell : InvitePost(s) \/ OffboardPerson(s))
       \/ (\E d \in Computer : Redeem(d) \/ Expire(d) \/ EnrolStore(d))
    /\ \/ UNCHANGED tree
       \/ (\E s \in Shell : WriteCanary(s) \/ Purge(s))
       \/ (\E s \in Shell, i \in Item : CopyItem(s, i))
       \/ (\E d \in Computer : Write(d))
    /\ \/ UNCHANGED key
       \/ (\E d \in Computer : EnrolStore(d) \/ Heartbeat(d))
    /\ \/ UNCHANGED at
       \/ (\E d \in Computer : EnrolStore(d) \/ Heartbeat(d))
    /\ \/ UNCHANGED settled
       \/ (\E s \in Shell : RotateSave(s))
    /\ \/ UNCHANGED stayed
       \/ (\E s \in Shell : RotateRead(s))
       \/ (\E s \in Shell, d \in Computer : RemoveMember(s, d) \/ DeviceRevoke(s, d)
                                            \/ OffboardDevice(s, d))
       \/ (\E d \in Computer : EnrolStore(d))
    /\ \/ UNCHANGED got
       \/ (\E d \in Computer : Redeem(d) \/ Heartbeat(d))
    /\ \/ UNCHANGED outAt
       \/ (\E s \in Shell : OffboardPerson(s))
       \/ (\E s \in Shell, d \in Computer : AddMember(s, d))

LEMMA Writers == Next => WhoWrites
<1>1. SUFFICES ASSUME Next PROVE WhoWrites
  OBVIOUS
<1>2. ASSUME NEW s \in Shell, CircleCreate(s) PROVE WhoWrites
  <2>1. UNCHANGED <<disk, bundle, verified, lost, born, members, person, device, grants,
                    link, tree, enrolling, key, at, settled, stayed, got, outAt>>
    BY <1>2 DEF CircleCreate, operator, rows, agents, history
  <2>2. QED
    BY <1>2, <2>1 DEF WhoWrites
<1>3. ASSUME NEW s \in Shell, FirstKey(s) PROVE WhoWrites
  <2>1. UNCHANGED <<bundle, verified, lost, gen, members, person, device, grants, link, tree,
                    enrolling, key, at, settled, stayed, got, outAt>>
    BY <1>3 DEF FirstKey, operator, rows, agents, history
  <2>2. QED
    BY <1>3, <2>1 DEF WhoWrites
<1>4. ASSUME NEW s \in Shell, CanaryAgain(s) PROVE WhoWrites
  <2>1. UNCHANGED <<disk, bundle, verified, lost, born, gen, members, person, device, grants,
                    link, tree, enrolling, key, at, settled, stayed, got, outAt>>
    BY <1>4 DEF CanaryAgain, operator, rows, agents, history
  <2>2. QED
    BY <1>4, <2>1 DEF WhoWrites
<1>5. ASSUME NEW s \in Shell, WriteCanary(s) PROVE WhoWrites
  <2>1. UNCHANGED <<disk, bundle, verified, lost, born, gen, members, person, device, grants,
                    link, enrolling, key, at, settled, stayed, got, outAt>>
    BY <1>5 DEF WriteCanary, operator, rows, agents, history
  <2>2. QED
    BY <1>5, <2>1 DEF WhoWrites
<1>6. ASSUME NEW s \in Shell, NEW d \in Computer, InviteSeal(s, d) PROVE WhoWrites
  <2>1. UNCHANGED <<disk, bundle, verified, lost, born, gen, members, person, device, grants,
                    link, tree, enrolling, key, at, settled, stayed, got, outAt>>
    BY <1>6 DEF InviteSeal, operator, rows, agents, history
  <2>2. QED
    BY <1>6, <2>1 DEF WhoWrites
<1>7. ASSUME NEW s \in Shell, InvitePost(s) PROVE WhoWrites
  <2>1. UNCHANGED <<disk, bundle, verified, lost, born, gen, person, device, grants, tree,
                    enrolling, key, at, settled, stayed, got, outAt>>
    BY <1>7 DEF InvitePost, operator, rows, agents, history
  <2>2. QED
    BY <1>7, <2>1 DEF WhoWrites
<1>8. ASSUME NEW s \in Shell, PostGrant(s) PROVE WhoWrites
  <2>1. UNCHANGED <<disk, bundle, verified, lost, born, gen, members, person, device, link,
                    tree, enrolling, key, at, settled, stayed, got, outAt>>
    BY <1>8 DEF PostGrant, operator, rows, agents, history
  <2>2. QED
    BY <1>8, <2>1 DEF WhoWrites
<1>9. ASSUME NEW s \in Shell, NEW d \in Computer, AddMember(s, d) PROVE WhoWrites
  <2>1. UNCHANGED <<disk, bundle, verified, lost, born, gen, person, device, grants, link,
                    tree, enrolling, key, at, settled, stayed, got>>
    BY <1>9 DEF AddMember, operator, rows, agents, history
  <2>2. QED
    BY <1>9, <2>1 DEF WhoWrites
<1>10. ASSUME NEW s \in Shell, NEW d \in Computer, RemoveMember(s, d) PROVE WhoWrites
  <2>1. UNCHANGED <<disk, bundle, verified, lost, born, gen, person, device, link, tree,
                    enrolling, key, at, settled, got, outAt>>
    BY <1>10 DEF RemoveMember, operator, rows, agents, history
  <2>2. QED
    BY <1>10, <2>1 DEF WhoWrites
<1>11. ASSUME NEW s \in Shell, NEW d \in Computer, DeviceRevoke(s, d) PROVE WhoWrites
  <2>1. UNCHANGED <<disk, bundle, verified, lost, born, gen, members, person, link, tree,
                    enrolling, key, at, settled, got, outAt>>
    BY <1>11 DEF DeviceRevoke, operator, rows, agents, history
  <2>2. QED
    BY <1>11, <2>1 DEF WhoWrites
<1>12. ASSUME NEW s \in Shell, NEW d \in Computer, OffboardDevice(s, d) PROVE WhoWrites
  <2>1. UNCHANGED <<disk, bundle, verified, lost, born, gen, members, person, link, tree,
                    enrolling, key, at, settled, got, outAt>>
    BY <1>12 DEF OffboardDevice, operator, rows, agents, history
  <2>2. QED
    BY <1>12, <2>1 DEF WhoWrites
<1>13. ASSUME NEW s \in Shell, OffboardMembership(s) PROVE WhoWrites
  <2>1. UNCHANGED <<disk, bundle, verified, lost, born, gen, person, device, grants, link,
                    tree, enrolling, key, at, settled, stayed, got, outAt>>
    BY <1>13 DEF OffboardMembership, operator, rows, agents, history
  <2>2. QED
    BY <1>13, <2>1 DEF WhoWrites
<1>14. ASSUME NEW s \in Shell, OffboardPerson(s) PROVE WhoWrites
  <2>1. UNCHANGED <<disk, bundle, verified, lost, born, gen, members, device, grants, tree,
                    enrolling, key, at, settled, stayed, got>>
    BY <1>14 DEF OffboardPerson, operator, rows, agents, history
  <2>2. QED
    BY <1>14, <2>1 DEF WhoWrites
<1>15. ASSUME NEW s \in Shell, RotateRead(s) PROVE WhoWrites
  <2>1. UNCHANGED <<disk, bundle, verified, lost, born, gen, members, person, device, grants,
                    link, tree, enrolling, key, at, settled, got, outAt>>
    BY <1>15 DEF RotateRead, operator, rows, agents, history
  <2>2. QED
    BY <1>15, <2>1 DEF WhoWrites
<1>16. ASSUME NEW s \in Shell, RotateSave(s) PROVE WhoWrites
  <2>1. UNCHANGED <<bundle, verified, lost, gen, members, person, device, grants, link, tree,
                    enrolling, key, at, stayed, got, outAt>>
    BY <1>16 DEF RotateSave, operator, rows, agents, history
  <2>2. QED
    BY <1>16, <2>1 DEF WhoWrites
<1>17. ASSUME NEW s \in Shell, NEW i \in Item, CopyItem(s, i) PROVE WhoWrites
  <2>1. UNCHANGED <<disk, bundle, verified, lost, born, gen, members, person, device, grants,
                    link, enrolling, key, at, settled, stayed, got, outAt>>
    BY <1>17 DEF CopyItem, operator, rows, agents, history
  <2>2. QED
    BY <1>17, <2>1 DEF WhoWrites
<1>18. ASSUME NEW s \in Shell, CopyDone(s) PROVE WhoWrites
  <2>1. UNCHANGED <<disk, bundle, verified, lost, born, gen, members, person, device, grants,
                    link, tree, enrolling, key, at, settled, stayed, got, outAt>>
    BY <1>18 DEF CopyDone, operator, rows, agents, history
  <2>2. QED
    BY <1>18, <2>1 DEF WhoWrites
<1>19. ASSUME NEW s \in Shell, ReadDevices(s) PROVE WhoWrites
  <2>1. UNCHANGED <<disk, bundle, verified, lost, born, gen, members, person, device, grants,
                    link, tree, enrolling, key, at, settled, stayed, got, outAt>>
    BY <1>19 DEF ReadDevices, operator, rows, agents, history
  <2>2. QED
    BY <1>19, <2>1 DEF WhoWrites
<1>20. ASSUME NEW s \in Shell, PostGrants(s) PROVE WhoWrites
  <2>1. UNCHANGED <<disk, bundle, verified, lost, born, gen, members, person, device, link,
                    tree, enrolling, key, at, settled, stayed, got, outAt>>
    BY <1>20 DEF PostGrants, operator, rows, agents, history
  <2>2. QED
    BY <1>20, <2>1 DEF WhoWrites
<1>21. ASSUME NEW s \in Shell, SetGeneration(s) PROVE WhoWrites
  <2>1. UNCHANGED <<disk, bundle, verified, lost, born, members, person, device, grants,
                    link, tree, enrolling, key, at, settled, stayed, got, outAt>>
    BY <1>21 DEF SetGeneration, operator, rows, agents, history
  <2>2. QED
    BY <1>21, <2>1 DEF WhoWrites
<1>22. ASSUME NEW s \in Shell, DropOldGrants(s) PROVE WhoWrites
  <2>1. UNCHANGED <<disk, bundle, verified, lost, born, gen, members, person, device, link,
                    tree, enrolling, key, at, settled, stayed, got, outAt>>
    BY <1>22 DEF DropOldGrants, operator, rows, agents, history
  <2>2. QED
    BY <1>22, <2>1 DEF WhoWrites
<1>23. ASSUME NEW s \in Shell, Purge(s) PROVE WhoWrites
  <2>1. UNCHANGED <<disk, bundle, verified, lost, born, gen, members, person, device, grants,
                    link, enrolling, key, at, settled, stayed, got, outAt>>
    BY <1>23 DEF Purge, operator, rows, agents, history
  <2>2. QED
    BY <1>23, <2>1 DEF WhoWrites
<1>24. ASSUME NEW s \in Shell, ExportRead(s) PROVE WhoWrites
  <2>1. UNCHANGED <<disk, bundle, verified, lost, born, gen, members, person, device, grants,
                    link, tree, enrolling, key, at, settled, stayed, got, outAt>>
    BY <1>24 DEF ExportRead, operator, rows, agents, history
  <2>2. QED
    BY <1>24, <2>1 DEF WhoWrites
<1>25. ASSUME NEW s \in Shell, ExportWrite(s) PROVE WhoWrites
  <2>1. UNCHANGED <<lost, born, gen, members, person, device, grants, link, tree, enrolling,
                    key, at, settled, stayed, got, outAt>>
    BY <1>25 DEF ExportWrite, operator, rows, agents, history
  <2>2. QED
    BY <1>25, <2>1 DEF WhoWrites
<1>26. ASSUME NEW s \in Shell, VerifyRead(s) PROVE WhoWrites
  <2>1. UNCHANGED <<disk, bundle, verified, lost, born, gen, members, person, device, grants,
                    link, tree, enrolling, key, at, settled, stayed, got, outAt>>
    BY <1>26 DEF VerifyRead, operator, rows, agents, history
  <2>2. QED
    BY <1>26, <2>1 DEF WhoWrites
<1>27. ASSUME NEW s \in Shell, VerifyCat(s) PROVE WhoWrites
  <2>1. UNCHANGED <<bundle, lost, born, gen, members, person, device, grants, link, tree,
                    enrolling, key, at, settled, stayed, got, outAt>>
    BY <1>27 DEF VerifyCat, operator, rows, agents, history
  <2>2. QED
    BY <1>27, <2>1 DEF WhoWrites
<1>28. ASSUME NEW s \in Shell, Recover(s) PROVE WhoWrites
  <2>1. UNCHANGED <<bundle, verified, lost, born, gen, members, person, device, grants, link,
                    tree, enrolling, key, at, settled, stayed, got, outAt>>
    BY <1>28 DEF Recover, operator, rows, agents, history
  <2>2. QED
    BY <1>28, <2>1 DEF WhoWrites
<1>29. ASSUME NEW s \in Shell, Fail(s) PROVE WhoWrites
  <2>1. UNCHANGED <<disk, bundle, verified, lost, born, gen, members, person, device, grants,
                    link, tree, enrolling, key, at, settled, stayed, got, outAt>>
    BY <1>29 DEF Fail, operator, rows, agents, history
  <2>2. QED
    BY <1>29, <2>1 DEF WhoWrites
<1>30. ASSUME NEW d \in Computer, Redeem(d) PROVE WhoWrites
  <2>1. UNCHANGED <<disk, bundle, verified, lost, born, gen, members, person, device, grants,
                    tree, enrolling, key, at, settled, stayed, outAt>>
    BY <1>30 DEF Redeem, operator, rows, agents, history
  <2>2. QED
    BY <1>30, <2>1 DEF WhoWrites
<1>31. ASSUME NEW d \in Computer, Expire(d) PROVE WhoWrites
  <2>1. UNCHANGED <<disk, bundle, verified, lost, born, gen, members, person, device, grants,
                    tree, enrolling, key, at, settled, stayed, got, outAt>>
    BY <1>31 DEF Expire, operator, rows, agents, history
  <2>2. QED
    BY <1>31, <2>1 DEF WhoWrites
<1>32. ASSUME NEW d \in Computer, EnrolCheck(d) PROVE WhoWrites
  <2>1. UNCHANGED <<disk, bundle, verified, lost, born, gen, members, person, device, grants,
                    link, tree, key, at, settled, stayed, got, outAt>>
    BY <1>32 DEF EnrolCheck, operator, rows, agents, history
  <2>2. QED
    BY <1>32, <2>1 DEF WhoWrites
<1>33. ASSUME NEW d \in Computer, EnrolStore(d) PROVE WhoWrites
  <2>1. UNCHANGED <<disk, bundle, verified, lost, born, gen, members, person, tree, settled,
                    got, outAt>>
    BY <1>33 DEF EnrolStore, operator, rows, agents, history
  <2>2. QED
    BY <1>33, <2>1 DEF WhoWrites
<1>34. ASSUME NEW d \in Computer, Heartbeat(d) PROVE WhoWrites
  <2>1. UNCHANGED <<disk, bundle, verified, lost, born, gen, members, person, device, grants,
                    link, tree, enrolling, settled, stayed, outAt>>
    BY <1>34 DEF Heartbeat, operator, rows, agents, history
  <2>2. QED
    BY <1>34, <2>1 DEF WhoWrites
<1>35. ASSUME NEW d \in Computer, Write(d) PROVE WhoWrites
  <2>1. UNCHANGED <<disk, bundle, verified, lost, born, gen, members, person, device, grants,
                    link, enrolling, key, at, settled, stayed, got, outAt>>
    BY <1>35 DEF Write, operator, rows, agents, history
  <2>2. QED
    BY <1>35, <2>1 DEF WhoWrites
<1>36. ASSUME LoseMachine PROVE WhoWrites
  <2>1. UNCHANGED <<bundle, verified, born, gen, members, person, device, grants, link, tree,
                    enrolling, key, at, settled, stayed, got, outAt>>
    BY <1>36 DEF LoseMachine, rows, agents, history
  <2>2. QED
    BY <1>36, <2>1 DEF WhoWrites
<1>37. QED
  BY <1>1, <1>2, <1>3, <1>4, <1>5, <1>6, <1>7, <1>8, <1>9, <1>10, <1>11, <1>12, <1>13,
     <1>14, <1>15, <1>16, <1>17, <1>18, <1>19, <1>20, <1>21, <1>22, <1>23, <1>24, <1>25,
     <1>26, <1>27, <1>28, <1>29, <1>30, <1>31, <1>32, <1>33, <1>34, <1>35, <1>36 DEF Next,
        Operate, Create, Invite, Membership,
     Offboard, RotateKey, Keys, Member

Turn(s) == \/ Create(s) \/ Invite(s) \/ PostGrant(s) \/ Offboard(s) \/ RotateKey(s) \/ Keys(s)
           \/ Fail(s) \/ \E d \in Computer : AddMember(s, d)

WhoMoves ==
    \A u \in Shell :
        \/ shell'[u] = shell[u] \/ shell'[u].pc = "idle"
        \/ shell'[u].pc = "row" /\ CircleCreate(u)
        \/ shell'[u].pc = "canary" /\ (FirstKey(u) \/ CanaryAgain(u))
        \/ shell'[u].pc = "sealed" /\ (\E d \in Computer : InviteSeal(u, d))
        \/ shell'[u].pc = "adding" /\ (\E d \in Computer : AddMember(u, d))
        \/ shell'[u].pc = "memberships" /\ (\E d \in Computer : OffboardDevice(u, d))
        \/ shell'[u].pc = "links" /\ OffboardMembership(u)
        \/ shell'[u].pc = "rotate" /\ OffboardPerson(u)
        \/ shell'[u].pc = "asked" /\ RotateRead(u)
        \/ shell'[u].pc = "copying" /\ RotateSave(u)
        \/ shell'[u].pc = "copied" /\ CopyDone(u)
        \/ shell'[u].pc = "granting" /\ ReadDevices(u)
        \/ shell'[u].pc = "granted" /\ PostGrants(u)
        \/ shell'[u].pc = "switched" /\ SetGeneration(u)
        \/ shell'[u].pc = "purging" /\ DropOldGrants(u)
        \/ shell'[u].pc = "export" /\ ExportRead(u)
        \/ shell'[u].pc = "verify" /\ VerifyRead(u)

LEMMA Movers ==
  ASSUME TypeOK, Next
  PROVE  WhoMoves
<1>1. shell \in [Shell -> Work]
  BY DEF TypeOK
<1>2. ASSUME NEW s \in Shell, CircleCreate(s) PROVE WhoMoves
  <2>1. \A u \in Shell : u # s => shell'[u] = shell[u]
    BY <1>1, <1>2 DEF CircleCreate, Done, Goto
  <2>2. shell'[s].pc = "row"
    BY <1>1, <1>2 DEF CircleCreate, Done, Goto, Run, Idle, Work
  <2>3. QED
    BY <1>2, <2>1, <2>2 DEF WhoMoves
<1>3. ASSUME NEW s \in Shell, FirstKey(s) PROVE WhoMoves
  <2>1. \A u \in Shell : u # s => shell'[u] = shell[u]
    BY <1>1, <1>3 DEF FirstKey, Done, Goto
  <2>2. shell'[s].pc = "canary"
    BY <1>1, <1>3 DEF FirstKey, Done, Goto, Run, Idle, Work
  <2>3. QED
    BY <1>3, <2>1, <2>2 DEF WhoMoves
<1>4. ASSUME NEW s \in Shell, CanaryAgain(s) PROVE WhoMoves
  <2>1. \A u \in Shell : u # s => shell'[u] = shell[u]
    BY <1>1, <1>4 DEF CanaryAgain, Done, Goto
  <2>2. shell'[s].pc = "canary"
    BY <1>1, <1>4 DEF CanaryAgain, Done, Goto, Run, Idle, Work
  <2>3. QED
    BY <1>4, <2>1, <2>2 DEF WhoMoves
<1>5. ASSUME NEW s \in Shell, WriteCanary(s) PROVE WhoMoves
  <2>1. \A u \in Shell : u # s => shell'[u] = shell[u]
    BY <1>1, <1>5 DEF WriteCanary, Done, Goto
  <2>2. shell'[s].pc = "idle"
    BY <1>1, <1>5 DEF WriteCanary, Done, Goto, Run, Idle, Work
  <2>3. QED
    BY <1>5, <2>1, <2>2 DEF WhoMoves
<1>6. ASSUME NEW s \in Shell, NEW d \in Computer, InviteSeal(s, d) PROVE WhoMoves
  <2>1. \A u \in Shell : u # s => shell'[u] = shell[u]
    BY <1>1, <1>6 DEF InviteSeal, Done, Goto
  <2>2. shell'[s].pc = "sealed"
    BY <1>1, <1>6 DEF InviteSeal, Done, Goto, Run, Idle, Work
  <2>3. QED
    BY <1>6, <2>1, <2>2 DEF WhoMoves
<1>7. ASSUME NEW s \in Shell, InvitePost(s) PROVE WhoMoves
  <2>1. \A u \in Shell : u # s => shell'[u] = shell[u]
    BY <1>1, <1>7 DEF InvitePost, Done, Goto
  <2>2. shell'[s].pc = "idle"
    BY <1>1, <1>7 DEF InvitePost, Done, Goto, Run, Idle, Work
  <2>3. QED
    BY <1>7, <2>1, <2>2 DEF WhoMoves
<1>8. ASSUME NEW s \in Shell, PostGrant(s) PROVE WhoMoves
  <2>1. \A u \in Shell : u # s => shell'[u] = shell[u]
    BY <1>1, <1>8 DEF PostGrant, Done, Goto
  <2>2. shell'[s].pc = "idle"
    BY <1>1, <1>8 DEF PostGrant, Done, Goto, Run, Idle, Work
  <2>3. QED
    BY <1>8, <2>1, <2>2 DEF WhoMoves
<1>9. ASSUME NEW s \in Shell, NEW d \in Computer, AddMember(s, d) PROVE WhoMoves
  <2>1. \A u \in Shell : u # s => shell'[u] = shell[u]
    BY <1>1, <1>9 DEF AddMember, Done, Goto
  <2>2. shell'[s].pc = "adding"
    BY <1>1, <1>9 DEF AddMember, Done, Goto, Run, Idle, Work
  <2>3. QED
    BY <1>9, <2>1, <2>2 DEF WhoMoves
<1>10. ASSUME NEW s \in Shell, NEW d \in Computer, RemoveMember(s, d) PROVE WhoMoves
  <2>1. shell' = shell
    BY <1>10 DEF RemoveMember, operator
  <2>2. QED
    BY <2>1 DEF WhoMoves
<1>11. ASSUME NEW s \in Shell, NEW d \in Computer, DeviceRevoke(s, d) PROVE WhoMoves
  <2>1. shell' = shell
    BY <1>11 DEF DeviceRevoke, operator
  <2>2. QED
    BY <2>1 DEF WhoMoves
<1>12. ASSUME NEW s \in Shell, NEW d \in Computer, OffboardDevice(s, d) PROVE WhoMoves
  <2>1. \A u \in Shell : u # s => shell'[u] = shell[u]
    BY <1>1, <1>12 DEF OffboardDevice, Done, Goto
  <2>2. shell'[s].pc = "memberships"
    BY <1>1, <1>12 DEF OffboardDevice, Done, Goto, Run, Idle, Work
  <2>3. QED
    BY <1>12, <2>1, <2>2 DEF WhoMoves
<1>13. ASSUME NEW s \in Shell, OffboardMembership(s) PROVE WhoMoves
  <2>1. \A u \in Shell : u # s => shell'[u] = shell[u]
    BY <1>1, <1>13 DEF OffboardMembership, Done, Goto
  <2>2. shell'[s].pc = "links"
    BY <1>1, <1>13 DEF OffboardMembership, Done, Goto, Run, Idle, Work
  <2>3. QED
    BY <1>13, <2>1, <2>2 DEF WhoMoves
<1>14. ASSUME NEW s \in Shell, OffboardPerson(s) PROVE WhoMoves
  <2>1. \A u \in Shell : u # s => shell'[u] = shell[u]
    BY <1>1, <1>14 DEF OffboardPerson, Done, Goto
  <2>2. shell'[s].pc \in {"idle", "rotate"}
    BY <1>1, <1>14 DEF OffboardPerson, Done, Goto, Run, Idle, Work
  <2>3. QED
    BY <1>14, <2>1, <2>2 DEF WhoMoves
<1>15. ASSUME NEW s \in Shell, RotateRead(s) PROVE WhoMoves
  <2>1. \A u \in Shell : u # s => shell'[u] = shell[u]
    BY <1>1, <1>15 DEF RotateRead, Done, Goto
  <2>2. shell'[s].pc = "asked"
    BY <1>1, <1>15 DEF RotateRead, Done, Goto, Run, Idle, Work
  <2>3. QED
    BY <1>15, <2>1, <2>2 DEF WhoMoves
<1>16. ASSUME NEW s \in Shell, RotateSave(s) PROVE WhoMoves
  <2>1. \A u \in Shell : u # s => shell'[u] = shell[u]
    BY <1>1, <1>16 DEF RotateSave, Done, Goto
  <2>2. shell'[s].pc = "copying"
    BY <1>1, <1>16 DEF RotateSave, Done, Goto, Run, Idle, Work
  <2>3. QED
    BY <1>16, <2>1, <2>2 DEF WhoMoves
<1>17. ASSUME NEW s \in Shell, NEW i \in Item, CopyItem(s, i) PROVE WhoMoves
  <2>1. shell' = shell
    BY <1>17 DEF CopyItem, operator
  <2>2. QED
    BY <2>1 DEF WhoMoves
<1>18. ASSUME NEW s \in Shell, CopyDone(s) PROVE WhoMoves
  <2>1. \A u \in Shell : u # s => shell'[u] = shell[u]
    BY <1>1, <1>18 DEF CopyDone, Done, Goto
  <2>2. shell'[s].pc = "copied"
    BY <1>1, <1>18 DEF CopyDone, Done, Goto, Run, Idle, Work
  <2>3. QED
    BY <1>18, <2>1, <2>2 DEF WhoMoves
<1>19. ASSUME NEW s \in Shell, ReadDevices(s) PROVE WhoMoves
  <2>1. \A u \in Shell : u # s => shell'[u] = shell[u]
    BY <1>1, <1>19 DEF ReadDevices, Done, Goto
  <2>2. shell'[s].pc = "granting"
    BY <1>1, <1>19 DEF ReadDevices, Done, Goto, Run, Idle, Work
  <2>3. QED
    BY <1>19, <2>1, <2>2 DEF WhoMoves
<1>20. ASSUME NEW s \in Shell, PostGrants(s) PROVE WhoMoves
  <2>1. \A u \in Shell : u # s => shell'[u] = shell[u]
    BY <1>1, <1>20 DEF PostGrants, Done, Goto
  <2>2. shell'[s].pc \in {"idle", "granted"}
    BY <1>1, <1>20 DEF PostGrants, Done, Goto, Run, Idle, Work
  <2>3. QED
    BY <1>20, <2>1, <2>2 DEF WhoMoves
<1>21. ASSUME NEW s \in Shell, SetGeneration(s) PROVE WhoMoves
  <2>1. \A u \in Shell : u # s => shell'[u] = shell[u]
    BY <1>1, <1>21 DEF SetGeneration, Done, Goto
  <2>2. shell'[s].pc \in {"idle", "switched"}
    BY <1>1, <1>21 DEF SetGeneration, Done, Goto, Run, Idle, Work
  <2>3. QED
    BY <1>21, <2>1, <2>2 DEF WhoMoves
<1>22. ASSUME NEW s \in Shell, DropOldGrants(s) PROVE WhoMoves
  <2>1. \A u \in Shell : u # s => shell'[u] = shell[u]
    BY <1>1, <1>22 DEF DropOldGrants, Done, Goto
  <2>2. shell'[s].pc = "purging"
    BY <1>1, <1>22 DEF DropOldGrants, Done, Goto, Run, Idle, Work
  <2>3. QED
    BY <1>22, <2>1, <2>2 DEF WhoMoves
<1>23. ASSUME NEW s \in Shell, Purge(s) PROVE WhoMoves
  <2>1. \A u \in Shell : u # s => shell'[u] = shell[u]
    BY <1>1, <1>23 DEF Purge, Done, Goto
  <2>2. shell'[s].pc = "idle"
    BY <1>1, <1>23 DEF Purge, Done, Goto, Run, Idle, Work
  <2>3. QED
    BY <1>23, <2>1, <2>2 DEF WhoMoves
<1>24. ASSUME NEW s \in Shell, ExportRead(s) PROVE WhoMoves
  <2>1. \A u \in Shell : u # s => shell'[u] = shell[u]
    BY <1>1, <1>24 DEF ExportRead, Done, Goto
  <2>2. shell'[s].pc = "export"
    BY <1>1, <1>24 DEF ExportRead, Done, Goto, Run, Idle, Work
  <2>3. QED
    BY <1>24, <2>1, <2>2 DEF WhoMoves
<1>25. ASSUME NEW s \in Shell, ExportWrite(s) PROVE WhoMoves
  <2>1. \A u \in Shell : u # s => shell'[u] = shell[u]
    BY <1>1, <1>25 DEF ExportWrite, Done, Goto
  <2>2. shell'[s].pc = "idle"
    BY <1>1, <1>25 DEF ExportWrite, Done, Goto, Run, Idle, Work
  <2>3. QED
    BY <1>25, <2>1, <2>2 DEF WhoMoves
<1>26. ASSUME NEW s \in Shell, VerifyRead(s) PROVE WhoMoves
  <2>1. \A u \in Shell : u # s => shell'[u] = shell[u]
    BY <1>1, <1>26 DEF VerifyRead, Done, Goto
  <2>2. shell'[s].pc = "verify"
    BY <1>1, <1>26 DEF VerifyRead, Done, Goto, Run, Idle, Work
  <2>3. QED
    BY <1>26, <2>1, <2>2 DEF WhoMoves
<1>27. ASSUME NEW s \in Shell, VerifyCat(s) PROVE WhoMoves
  <2>1. \A u \in Shell : u # s => shell'[u] = shell[u]
    BY <1>1, <1>27 DEF VerifyCat, Done, Goto
  <2>2. shell'[s].pc = "idle"
    BY <1>1, <1>27 DEF VerifyCat, Done, Goto, Run, Idle, Work
  <2>3. QED
    BY <1>27, <2>1, <2>2 DEF WhoMoves
<1>28. ASSUME NEW s \in Shell, Recover(s) PROVE WhoMoves
  <2>1. shell' = shell
    BY <1>28 DEF Recover
  <2>2. QED
    BY <2>1 DEF WhoMoves
<1>29. ASSUME NEW s \in Shell, Fail(s) PROVE WhoMoves
  <2>1. \A u \in Shell : u # s => shell'[u] = shell[u]
    BY <1>1, <1>29 DEF Fail, Done, Goto
  <2>2. shell'[s].pc = "idle"
    BY <1>1, <1>29 DEF Fail, Done, Goto, Run, Idle, Work
  <2>3. QED
    BY <1>29, <2>1, <2>2 DEF WhoMoves
<1>30. ASSUME NEW d \in Computer, Member(d) PROVE WhoMoves
  <2>1. shell' = shell
    BY <1>30 DEF Member, Redeem, Expire, EnrolCheck, EnrolStore, Heartbeat, Write, operator
  <2>2. QED
    BY <2>1 DEF WhoMoves
<1>31. ASSUME LoseMachine PROVE WhoMoves
  BY <1>31 DEF LoseMachine, WhoMoves, Idle
<1>32. QED
  BY <1>1, <1>2, <1>3, <1>4, <1>5, <1>6, <1>7, <1>8, <1>9, <1>10, <1>11, <1>12, <1>13,
     <1>14, <1>15, <1>16, <1>17, <1>18, <1>19, <1>20, <1>21, <1>22, <1>23, <1>24, <1>25,
     <1>26, <1>27, <1>28, <1>29, <1>30, <1>31 DEF Next, Operate, Create, Invite, Membership,
     Offboard, RotateKey, Keys

Acting(s) == shell[s].pc # "idle" \/ ~(May[s] \subseteq Peopling)

(* While a command works on the keystore, no other terminal does anything. *)
LEMMA OthersIdle ==
  ASSUME OneTerminal, AloneInv, NEW s \in Shell, Acting(s)
  PROVE  /\ ~(May[s] \subseteq Peopling)
         /\ \A u \in Shell : u # s => shell[u].pc = "idle"
BY DEF OneTerminal, AloneInv, Acting

LEMMA TurnActs ==
  ASSUME NEW s \in Shell, Turn(s)
  PROVE  Acting(s)
<1>1. ASSUME CircleCreate(s) PROVE Acting(s)
  BY <1>1, MayAssumption DEF CircleCreate, At, Free, Acting, Peopling
<1>2. ASSUME FirstKey(s) PROVE Acting(s)
  BY <1>2, MayAssumption DEF FirstKey, At, Free, Acting, Peopling
<1>3. ASSUME CanaryAgain(s) PROVE Acting(s)
  BY <1>3, MayAssumption DEF CanaryAgain, At, Free, Acting, Peopling
<1>4. ASSUME WriteCanary(s) PROVE Acting(s)
  BY <1>4, MayAssumption DEF WriteCanary, At, Free, Acting, Peopling
<1>5. ASSUME NEW d \in Computer, InviteSeal(s, d) PROVE Acting(s)
  BY <1>5, MayAssumption DEF InviteSeal, At, Free, Acting, Peopling
<1>6. ASSUME InvitePost(s) PROVE Acting(s)
  BY <1>6, MayAssumption DEF InvitePost, At, Free, Acting, Peopling
<1>7. ASSUME PostGrant(s) PROVE Acting(s)
  BY <1>7, MayAssumption DEF PostGrant, At, Free, Acting, Peopling
<1>8. ASSUME NEW d \in Computer, AddMember(s, d) PROVE Acting(s)
  BY <1>8, MayAssumption DEF AddMember, At, Free, Acting, Peopling
<1>9. ASSUME NEW d \in Computer, OffboardDevice(s, d) PROVE Acting(s)
  BY <1>9, MayAssumption DEF OffboardDevice, At, Free, Acting, Peopling
<1>10. ASSUME OffboardMembership(s) PROVE Acting(s)
  BY <1>10, MayAssumption DEF OffboardMembership, At, Free, Acting, Peopling
<1>11. ASSUME OffboardPerson(s) PROVE Acting(s)
  BY <1>11, MayAssumption DEF OffboardPerson, At, Free, Acting, Peopling
<1>12. ASSUME RotateRead(s) PROVE Acting(s)
  BY <1>12, MayAssumption DEF RotateRead, At, Free, Acting, Peopling
<1>13. ASSUME RotateSave(s) PROVE Acting(s)
  BY <1>13, MayAssumption DEF RotateSave, At, Free, Acting, Peopling
<1>14. ASSUME NEW i \in Item, CopyItem(s, i) PROVE Acting(s)
  BY <1>14, MayAssumption DEF CopyItem, At, Free, Acting, Peopling
<1>15. ASSUME CopyDone(s) PROVE Acting(s)
  BY <1>15, MayAssumption DEF CopyDone, At, Free, Acting, Peopling
<1>16. ASSUME ReadDevices(s) PROVE Acting(s)
  BY <1>16, MayAssumption DEF ReadDevices, At, Free, Acting, Peopling
<1>17. ASSUME PostGrants(s) PROVE Acting(s)
  BY <1>17, MayAssumption DEF PostGrants, At, Free, Acting, Peopling
<1>18. ASSUME SetGeneration(s) PROVE Acting(s)
  BY <1>18, MayAssumption DEF SetGeneration, At, Free, Acting, Peopling
<1>19. ASSUME DropOldGrants(s) PROVE Acting(s)
  BY <1>19, MayAssumption DEF DropOldGrants, At, Free, Acting, Peopling
<1>20. ASSUME Purge(s) PROVE Acting(s)
  BY <1>20, MayAssumption DEF Purge, At, Free, Acting, Peopling
<1>21. ASSUME ExportRead(s) PROVE Acting(s)
  BY <1>21, MayAssumption DEF ExportRead, At, Free, Acting, Peopling
<1>22. ASSUME ExportWrite(s) PROVE Acting(s)
  BY <1>22, MayAssumption DEF ExportWrite, At, Free, Acting, Peopling
<1>23. ASSUME VerifyRead(s) PROVE Acting(s)
  BY <1>23, MayAssumption DEF VerifyRead, At, Free, Acting, Peopling
<1>24. ASSUME VerifyCat(s) PROVE Acting(s)
  BY <1>24, MayAssumption DEF VerifyCat, At, Free, Acting, Peopling
<1>25. ASSUME Recover(s) PROVE Acting(s)
  BY <1>25, MayAssumption DEF Recover, At, Free, Acting, Peopling
<1>26. ASSUME Fail(s) PROVE Acting(s)
  BY <1>26, MayAssumption DEF Fail, At, Free, Acting, Peopling
<1>27. QED
  BY <1>1, <1>2, <1>3, <1>4, <1>5, <1>6, <1>7, <1>8, <1>9, <1>10, <1>11, <1>12, <1>13,
     <1>14, <1>15, <1>16, <1>17, <1>18, <1>19, <1>20, <1>21, <1>22, <1>23, <1>24, <1>25,
     <1>26 DEF Turn, Create, Invite, Offboard,
     RotateKey, Keys

(* The keystore is added to, brought back or lost, and never set back.     *)
LEMMA DiskSteps ==
  ASSUME TypeOK, PhaseInv, AloneInv, Next
  PROVE  \/ UNCHANGED <<disk, born, lost>>
         \/ \E g \in Generation : /\ Len(born) < MaxKeys /\ born' = Append(born, g)
                                  /\ disk' = Add(disk, g, Len(born')) /\ UNCHANGED lost
         \/ disk' = Import(disk, bundle) /\ UNCHANGED <<born, lost>>
         \/ disk' = EmptyKeys /\ UNCHANGED born /\ lost' # lost
<1> DEFINE Same == UNCHANGED <<disk, born, lost>>
           Made == \E g \in Generation : /\ Len(born) < MaxKeys /\ born' = Append(born, g)
                                         /\ disk' = Add(disk, g, Len(born')) /\ UNCHANGED lost
           Back == disk' = Import(disk, bundle) /\ UNCHANGED <<born, lost>>
           Gone == disk' = EmptyKeys /\ UNCHANGED born /\ lost' # lost
<1>1. ASSUME NEW s \in Shell, FirstKey(s) PROVE Made
  <2>1. shell[s].mem = disk
    BY <1>1 DEF FirstKey, At, AloneInv
  <2>2. 1 \in Generation
    BY GenerationRange
  <2>3. QED
    BY <1>1, <2>1, <2>2 DEF FirstKey
<1>2. ASSUME NEW s \in Shell, RotateSave(s) PROVE Made
  <2>1. shell[s].mem = disk
    BY <1>2 DEF RotateSave, At, AloneInv
  <2>2. shell[s] \in Work /\ shell[s].gen # 0 /\ shell[s].gen < MaxGen
    BY <1>2 DEF RotateSave, At, TypeOK, PhaseInv, PhaseOK
  <2>3. shell[s].gen + 1 \in Generation
    BY <2>2, GenerationRange DEF Work
  <2>4. QED
    BY <1>2, <2>1, <2>3 DEF RotateSave, rows
<1>3. ASSUME NEW s \in Shell, ExportWrite(s) \/ VerifyCat(s) PROVE Same
  <2>1. shell[s].mem = disk
    BY <1>3 DEF ExportWrite, VerifyCat, At, AloneInv
  <2>2. QED
    BY <1>3, <2>1 DEF ExportWrite, VerifyCat
<1>4. ASSUME NEW s \in Shell, Recover(s) PROVE Back
  BY <1>4 DEF Recover
<1>5. ASSUME LoseMachine PROVE Gone
  BY <1>5 DEF LoseMachine
<1>6. \/ Same
      \/ \E s \in Shell : FirstKey(s) \/ RotateSave(s) \/ ExportWrite(s) \/ VerifyCat(s) \/ Recover(s)
      \/ LoseMachine
  BY Writers DEF WhoWrites
<1>7. QED
  BY <1>1, <1>2, <1>3, <1>4, <1>5, <1>6

(* The commands that change the keystore end, or go on with it as changed. *)
LEMMA AloneStep ==
  ASSUME OneTerminal, TypeOK, PhaseInv, AloneInv, Next
  PROVE  AloneInv'
<1>1. SUFFICES ASSUME NEW u \in Shell, shell'[u].pc # "idle"
               PROVE  ~(May[u] \subseteq Peopling) /\ shell'[u].mem = disk'
  BY DEF AloneInv
<1>2. CASE shell'[u] = shell[u]
  <2>1. ~(May[u] \subseteq Peopling) /\ shell[u].mem = disk /\ shell[u].pc # "idle"
    BY <1>1, <1>2 DEF AloneInv
  <2>2. ASSUME NEW s \in Shell, Turn(s), shell'[s] # shell[s] \/ shell[s].pc = "idle" PROVE FALSE
    <3>1. u # s
      BY <1>2, <2>1, <2>2
    <3>2. QED
      BY <2>1, <2>2, <3>1, OthersIdle, TurnActs
  <2>3. ASSUME NEW s \in Shell, FirstKey(s) PROVE FALSE
    <3>1. shell'[s].pc = "canary" /\ shell[s].pc = "row"
      BY <2>3 DEF FirstKey, At, TypeOK, Work
    <3>2. QED
      BY <2>2, <2>3, <3>1 DEF Turn, Create
  <2>4. ASSUME NEW s \in Shell, RotateSave(s) PROVE FALSE
    <3>1. shell'[s].pc = "copying" /\ shell[s].pc = "asked"
      BY <2>4 DEF RotateSave, At, TypeOK, Work
    <3>2. QED
      BY <2>2, <2>4, <3>1 DEF Turn, RotateKey
  <2>5. ASSUME NEW s \in Shell, ExportWrite(s) \/ VerifyCat(s) PROVE FALSE
    <3>1. shell'[s].pc = "idle" /\ shell[s].pc # "idle"
      BY <2>5 DEF ExportWrite, VerifyCat, At, Done, TypeOK, Idle
    <3>2. QED
      BY <2>2, <2>5, <3>1 DEF Turn, Keys
  <2>6. ASSUME NEW s \in Shell, Recover(s) PROVE FALSE
    BY <2>2, <2>6 DEF Recover, Free, Turn, Keys
  <2>7. ASSUME LoseMachine PROVE FALSE
    BY <1>1, <2>7 DEF LoseMachine, Idle
  <2>8. UNCHANGED disk
    BY <2>3, <2>4, <2>5, <2>6, <2>7, Writers DEF WhoWrites
  <2>9. QED
    BY <1>2, <2>1, <2>8
<1>3. CASE shell'[u] # shell[u]
  <2>0. shell \in [Shell -> Work] /\ shell[u] \in Work
    BY DEF TypeOK
  <2>1. Turn(u)
    BY <1>1, <1>3, Movers DEF WhoMoves, Turn, Create, Invite, Offboard, RotateKey, Keys
  <2>2. ~(May[u] \subseteq Peopling)
    BY <2>1, TurnActs, OthersIdle
  <2>3. shell[u].pc # "idle" => shell[u].mem = disk
    BY DEF AloneInv
  <2>4. CASE \/ CircleCreate(u) \/ CanaryAgain(u) \/ ExportRead(u) \/ VerifyRead(u)
             \/ \E d \in Computer : InviteSeal(u, d) \/ AddMember(u, d) \/ OffboardDevice(u, d)
    <3>1. CASE CircleCreate(u) \/ CanaryAgain(u) \/ ExportRead(u) \/ VerifyRead(u)
      BY <2>0, <2>2, <3>1 DEF CircleCreate, CanaryAgain, ExportRead, VerifyRead, Run, Idle
    <3>2. CASE \E d \in Computer : InviteSeal(u, d)
      BY <2>0, <2>2, <3>2 DEF InviteSeal, Run, Idle
    <3>3. CASE \E d \in Computer : AddMember(u, d)
      BY <2>0, <2>2, <3>3 DEF AddMember, Run, Idle
    <3>4. CASE \E d \in Computer : OffboardDevice(u, d)
      BY <2>0, <2>2, <3>4 DEF OffboardDevice, Run, Idle
    <3>5. QED
      BY <2>4, <3>1, <3>2, <3>3, <3>4
  <2>5. CASE FirstKey(u) \/ RotateSave(u)
    <3>1. CASE FirstKey(u)
      BY <2>0, <2>2, <3>1 DEF FirstKey, Work
    <3>2. CASE RotateSave(u)
      BY <2>0, <2>2, <3>2 DEF RotateSave, Work
    <3>3. QED
      BY <2>5, <3>1, <3>2
  <2>6. CASE \/ OffboardMembership(u) \/ CopyDone(u) \/ ReadDevices(u) \/ DropOldGrants(u)
    BY <2>2, <2>0, <2>3, <2>6 DEF OffboardMembership, CopyDone, ReadDevices, DropOldGrants, At,
       Goto, Work
  <2>7. CASE OffboardPerson(u)
    BY <1>1, <2>2, <2>0, <2>3, <2>7 DEF OffboardPerson, At, Work, Idle
  <2>8. CASE RotateRead(u)
    BY <2>2, <2>0, <2>3, <2>8 DEF RotateRead, At, Run, Idle, Work, operator
  <2>9. CASE PostGrants(u) \/ SetGeneration(u)
    BY <1>1, <2>2, <2>0, <2>3, <2>9 DEF PostGrants, SetGeneration, At, Goto, Done, Idle, Work
  <2>10. QED
    BY <1>1, <1>3, <2>2, <2>4, <2>5, <2>6, <2>7, <2>8, <2>9, Movers DEF WhoMoves
<1>4. QED
  BY <1>2, <1>3

(* No command of that terminal takes a key out of the keystore.            *)
LEMMA KeysStay ==
  ASSUME TypeOK, PhaseInv, AloneInv, Next, lost' = lost, NEW g \in Generation
  PROVE  KeysOf(disk, g) \subseteq KeysOf(disk', g)
<1>1. disk \in Keystore /\ bundle \in Keystore
  BY DEF TypeOK
<1>2. CASE disk' = disk
  BY <1>2
<1>3. CASE \E f \in Generation : /\ Len(born) < MaxKeys /\ born' = Append(born, f)
                                 /\ disk' = Add(disk, f, Len(born'))
  <2>1. PICK f \in Generation : /\ Len(born) < MaxKeys /\ born' = Append(born, f)
                                /\ disk' = Add(disk, f, Len(born'))
    BY <1>3
  <2>2. Len(born') \in Key
    BY <1>1, <2>1, KeyMade
  <2>3. QED
    BY <1>1, <2>1, <2>2, AddKeeps
<1>4. CASE disk' = Import(disk, bundle)
  BY <1>1, <1>4, ImportKeeps
<1>5. QED
  BY <1>2, <1>3, <1>4, DiskSteps

(* While one terminal takes its turn, the others are idle, and stay so.    *)
LEMMA Quiet ==
  ASSUME OneTerminal, TypeOK, AloneInv, Next, NEW s \in Shell, Turn(s), NEW u \in Shell, u # s
  PROVE  shell'[u].pc = "idle" /\ shell[u].pc = "idle"
<1>1. ~(May[s] \subseteq Peopling) /\ shell[u].pc = "idle"
  BY TurnActs, OthersIdle
<1>2. ASSUME Turn(u) PROVE FALSE
  <2>1. ~(May[u] \subseteq Peopling)
    BY <1>2, TurnActs, OthersIdle
  <2>2. QED
    BY <1>1, <2>1 DEF OneTerminal
<1>3. shell'[u] = shell[u] \/ shell'[u].pc = "idle"
  BY <1>2, Movers DEF WhoMoves, Turn, Create, Invite, Offboard, RotateKey, Keys
<1>4. QED
  BY <1>1, <1>3

-----------------------------------------------------------------------------
(* Keys stay with the generation they were made for.                       *)

LEMMA BornStep ==
  ASSUME TypeOK, PhaseInv, AloneInv, BornInv, Next
  PROVE  BornInv'
<1> DEFINE Now(k, g) == k \in DOMAIN born' /\ born'[k] = g
<1>0. /\ disk \in Keystore /\ bundle \in Keystore /\ shell \in [Shell -> Work]
      /\ tree \in [Generation -> SUBSET (Key \X Item)]
      /\ grants \in [Computer -> [Generation -> 0..MaxKeys]] /\ link \in [Computer -> Link]
      /\ \A g \in Generation : EmptyKeys \in Keystore /\ KeysOf(EmptyKeys, g) = {}
  <2>1. \A g \in Generation : EmptyKeys \in Keystore /\ KeysOf(EmptyKeys, g) = {}
    BY EmptyKeysType, KeysHaveGen
  <2>2. QED
    BY <2>1 DEF TypeOK
<1>1. ASSUME NEW k, NEW g, BornIn(k, g) PROVE Now(k, g)
  <2>1. CASE born' = born
    BY <1>1, <2>1 DEF BornIn
  <2>2. CASE \E f \in Generation : /\ Len(born) < MaxKeys /\ born' = Append(born, f)
                                   /\ disk' = Add(disk, f, Len(born'))
    <3>1. DOMAIN born \subseteq DOMAIN born' /\ \A l \in DOMAIN born : born'[l] = born[l]
      BY <1>0, <2>2, KeyMade
    <3>2. QED
      BY <1>1, <3>1 DEF BornIn
  <2>3. QED
    BY <2>1, <2>2, DiskSteps
<1>2. ASSUME NEW g \in Generation, NEW x \in tree'[g] PROVE Now(x[1], g)
  <2>1. CASE x \in tree[g]
    BY <1>1, <2>1 DEF BornInv
  <2>2. ASSUME NEW s \in Shell, WriteCanary(s) PROVE Now(x[1], g)
    <3>1. x \in tree[g] \/ (g = shell[s].gen /\ x = <<shell[s].new, Canary>>)
      BY <1>0, <2>2 DEF WriteCanary
    <3>2. BornIn(shell[s].new, shell[s].gen)
      BY <2>2 DEF WriteCanary, At, BornInv
    <3>3. QED
      BY <1>1, <2>1, <3>1, <3>2
  <2>3. ASSUME NEW s \in Shell, NEW i \in Item, CopyItem(s, i) PROVE Now(x[1], g)
    <3>1. x \in tree[g] \/ (g = shell[s].gen + 1 /\ x = <<shell[s].new, i>>)
      BY <1>0, <2>3 DEF CopyItem
    <3>2. BornIn(shell[s].new, shell[s].gen + 1)
      BY <2>3 DEF CopyItem, At, BornInv, Rotated
    <3>3. QED
      BY <1>1, <2>1, <3>1, <3>2
  <2>4. ASSUME NEW d \in Computer, Write(d) PROVE Now(x[1], g)
    <3>1. x \in tree[g] \/ (g = gen /\ x = <<key[d], d>>)
      BY <1>0, <2>4 DEF Write
    <3>2. gen # 0 /\ at[d] = gen
      BY <2>4 DEF Write, Served
    <3>3. BornIn(key[d], gen)
      BY <3>2 DEF BornInv
    <3>4. QED
      BY <1>1, <2>1, <3>1, <3>3
  <2>5. ASSUME NEW s \in Shell, Purge(s) PROVE Now(x[1], g)
    <3>1. x \in tree[g]
      BY <1>0, <2>5 DEF Purge
    <3>2. QED
      BY <2>1, <3>1
  <2>6. QED
    BY <2>1, <2>2, <2>3, <2>4, <2>5, Writers DEF WhoWrites
<1>3. ASSUME NEW g \in Generation, NEW k \in KeysOf(disk', g) PROVE Now(k, g)
  <2>1. \A l \in KeysOf(disk, g) \cup KeysOf(bundle, g) : Now(l, g)
    BY <1>1 DEF BornInv
  <2>2. CASE \E f \in Generation : /\ Len(born) < MaxKeys /\ born' = Append(born, f)
                                   /\ disk' = Add(disk, f, Len(born'))
    <3>1. PICK f \in Generation : /\ Len(born) < MaxKeys /\ born' = Append(born, f)
                                  /\ disk' = Add(disk, f, Len(born'))
      BY <2>2
    <3>2. Len(born') \in Key /\ Now(Len(born'), f)
      BY <1>0, <3>1, KeyMade
    <3>3. k \in KeysOf(disk, g) \/ (g = f /\ k = Len(born'))
      BY <1>0, <3>1, <3>2, AddKeeps
    <3>4. QED
      BY <2>1, <3>2, <3>3
  <2>3. CASE disk' = Import(disk, bundle)
    BY <1>0, <2>1, <2>3, ImportKeeps
  <2>4. CASE disk' = disk \/ disk' = EmptyKeys
    BY <1>0, <2>1, <2>4
  <2>5. QED
    BY <2>2, <2>3, <2>4, DiskSteps
<1>4. ASSUME NEW g \in Generation, NEW k \in KeysOf(bundle', g) PROVE Now(k, g)
  <2>1. \A l \in KeysOf(disk, g) \cup KeysOf(bundle, g) : Now(l, g)
    BY <1>1 DEF BornInv
  <2>2. ASSUME NEW s \in Shell, ExportWrite(s) PROVE bundle' = disk
    BY <2>2 DEF ExportWrite, At, AloneInv
  <2>3. bundle' \in {bundle, disk}
    BY <2>2, Writers DEF WhoWrites
  <2>4. QED
    BY <2>1, <2>3
<1>5. ASSUME NEW d \in Computer, NEW g \in Generation, grants'[d][g] # 0 PROVE Now(grants'[d][g], g)
  <2>1. CASE grants'[d][g] = grants[d][g]
    BY <1>1, <1>5, <2>1 DEF BornInv
  <2>2. ASSUME NEW s \in Shell, PostGrant(s) PROVE Now(grants'[d][g], g)
    <3>1. shell[s].mem = disk
      BY <2>2 DEF PostGrant, At, AloneInv
    <3>2. grants'[d][g] = grants[d][g] \/ (g = shell[s].gen /\ HasGen(disk, g)
          /\ grants'[d][g] = Gen(disk, g))
      BY <1>0, <2>2, <3>1 DEF PostGrant, GrantToDevices
    <3>3. HasGen(disk, g) => Gen(disk, g) \in KeysOf(disk, g)
      BY <1>0, FirstAndLast
    <3>4. QED
      BY <1>1, <2>1, <3>2, <3>3 DEF BornInv
  <2>3. ASSUME NEW s \in Shell, PostGrants(s) PROVE Now(grants'[d][g], g)
    <3>1. shell[s].mem = disk /\ HasGen(disk, shell[s].gen + 1)
      BY <2>3 DEF PostGrants, At, AloneInv, PhaseInv, PhaseOK, Rotated
    <3>2. grants'[d][g] = grants[d][g] \/ (g = shell[s].gen + 1 /\ HasGen(disk, g)
          /\ grants'[d][g] = Gen(disk, g))
      BY <1>0, <2>3, <3>1 DEF PostGrants, GrantToDevices
    <3>3. HasGen(disk, g) => Gen(disk, g) \in KeysOf(disk, g)
      BY <1>0, FirstAndLast
    <3>4. QED
      BY <1>1, <2>1, <3>2, <3>3 DEF BornInv
  <2>4. ASSUME \/ \E s \in Shell : DropOldGrants(s)
               \/ \E s \in Shell, c \in Computer : \/ RemoveMember(s, c) \/ DeviceRevoke(s, c)
                                                   \/ OffboardDevice(s, c)
               \/ \E c \in Computer : EnrolStore(c)
        PROVE  grants'[d][g] \in {0, grants[d][g]}
    BY <1>0, <2>4 DEF DropOldGrants, RemoveMember, DeviceRevoke, OffboardDevice, EnrolStore,
       NoGrants
  <2>5. QED
    BY <1>5, <2>1, <2>2, <2>3, <2>4, Writers DEF WhoWrites
<1>6. ASSUME NEW d \in Computer, link'[d].gen # 0 PROVE Now(link'[d].key, link'[d].gen)
  <2>1. CASE link'[d].key = link[d].key /\ link'[d].gen = link[d].gen
    BY <1>1, <1>6, <2>1 DEF BornInv
  <2>2. ASSUME NEW s \in Shell, InvitePost(s) PROVE Now(link'[d].key, link'[d].gen)
    <3>1. BornIn(shell[s].new, shell[s].gen)
      BY <2>2 DEF InvitePost, At, BornInv
    <3>2. link'[d] = link[d] \/ (link'[d].key = shell[s].new /\ link'[d].gen = shell[s].gen)
      BY <1>0, <2>2 DEF InvitePost
    <3>3. QED
      BY <1>1, <2>1, <3>1, <3>2
  <2>3. ASSUME NEW s \in Shell, OffboardPerson(s) PROVE link'[d] \in {link[d], NoLink}
    BY <1>0, <2>3 DEF OffboardPerson
  <2>4. ASSUME NEW c \in Computer, Redeem(c)
        PROVE  link'[d].key = link[d].key /\ link'[d].gen = link[d].gen
    BY <1>0, <2>4 DEF Redeem, Link
  <2>5. ASSUME NEW c \in Computer, Expire(c) \/ EnrolStore(c) PROVE link'[d] \in {link[d], NoLink}
    BY <1>0, <2>5 DEF Expire, EnrolStore
  <2>6. NoLink.gen = 0
    BY DEF NoLink
  <2>7. QED
    BY <1>6, <2>1, <2>2, <2>3, <2>4, <2>5, <2>6, Writers DEF WhoWrites
<1>7. ASSUME NEW d \in Computer, at'[d] # 0 PROVE Now(key'[d], at'[d])
  <2>1. CASE key'[d] = key[d] /\ at'[d] = at[d]
    BY <1>1, <1>7, <2>1 DEF BornInv
  <2>2. ASSUME NEW c \in Computer, EnrolStore(c) PROVE Now(key'[d], at'[d])
    <3>1. \/ key'[d] = key[d] /\ at'[d] = at[d]
          \/ key'[d] = link[d].key /\ at'[d] = link[d].gen
      BY <2>2 DEF EnrolStore, TypeOK
    <3>2. QED
      BY <1>1, <1>7, <2>1, <3>1 DEF BornInv
  <2>3. ASSUME NEW c \in Computer, Heartbeat(c) PROVE Now(key'[d], at'[d])
    <3>1. gen \in Generation
      BY <2>3, GenerationRange DEF Heartbeat, Served, TypeOK
    <3>2. \/ key'[d] = key[d] /\ at'[d] = at[d]
          \/ key'[d] = grants[d][gen] /\ at'[d] = gen /\ grants[d][gen] # 0
      BY <2>3 DEF Heartbeat, TypeOK
    <3>3. QED
      BY <1>1, <2>1, <3>1, <3>2 DEF BornInv
  <2>4. QED
    BY <2>1, <2>2, <2>3, Writers DEF WhoWrites
<1>8. ASSUME NEW u \in Shell
      PROVE  /\ shell'[u].pc \in {"canary", "sealed"} => Now(shell'[u].new, shell'[u].gen)
             /\ shell'[u].pc \in Rotated => Now(shell'[u].new, shell'[u].gen + 1)
  <2>1. CASE shell'[u] = shell[u]
    BY <1>1, <2>1 DEF BornInv
  <2>2. CASE FirstKey(u)
    <3>1. shell'[u].pc = "canary" /\ shell'[u].gen = 1 /\ shell'[u].new = Len(born')
      BY <1>0, <2>2 DEF FirstKey, At, PhaseInv, PhaseOK, Work
    <3>2. 1 \in Generation /\ shell[u].mem \in Keystore
      BY <1>0, GenerationRange DEF Work
    <3>3. Now(Len(born'), 1)
      BY <2>2, <3>2, KeyMade DEF FirstKey
    <3>4. QED
      BY <3>1, <3>3 DEF Rotated
  <2>3. CASE CanaryAgain(u) \/ \E d \in Computer : InviteSeal(u, d)
    <3>1. shell'[u].pc \in {"canary", "sealed"} /\ shell'[u].gen = gen
          /\ shell'[u].new = Gen(disk, gen)
          /\ gen > 0 /\ HasGen(disk, gen)
      <4>1. CASE CanaryAgain(u)
        BY <1>0, <4>1 DEF CanaryAgain, Run, Idle
      <4>2. CASE \E d \in Computer : InviteSeal(u, d)
        BY <1>0, <4>2 DEF InviteSeal, Run, Idle
      <4>3. QED
        BY <2>3, <4>1, <4>2
    <3>2. gen \in Generation /\ HasGen(disk, gen)
      BY <3>1, GenerationRange DEF TypeOK
    <3>3. BornIn(Gen(disk, gen), gen)
      BY <1>0, <3>2, FirstAndLast DEF BornInv
    <3>4. QED
      BY <1>1, <3>1, <3>3 DEF Rotated
  <2>4. CASE RotateSave(u)
    <3>1. shell[u] \in Work /\ shell[u].gen # 0 /\ shell[u].gen < MaxGen
          /\ shell[u].mem \in Keystore
      BY <1>0, <2>4 DEF RotateSave, At, PhaseInv, PhaseOK, Work
    <3>2. shell[u].gen + 1 \in Generation
      BY <3>1, GenerationRange DEF Work
    <3>3. shell'[u].pc = "copying" /\ shell'[u].gen = shell[u].gen /\ shell'[u].new = Len(born')
      BY <1>0, <2>4, <3>1 DEF RotateSave, Work
    <3>4. Now(Len(born'), shell[u].gen + 1)
      BY <2>4, <3>1, <3>2, KeyMade DEF RotateSave
    <3>5. QED
      BY <3>3, <3>4
  <2>5. CASE CopyDone(u) \/ ReadDevices(u) \/ DropOldGrants(u)
    <3>1. shell[u].pc \in Rotated /\ shell'[u].gen = shell[u].gen /\ shell'[u].new = shell[u].new
          /\ shell'[u].pc \notin {"canary", "sealed"}
      BY <1>0, <2>5 DEF CopyDone, ReadDevices, DropOldGrants, At, Goto, Rotated, Work
    <3>2. QED
      BY <1>1, <3>1 DEF BornInv
  <2>6. CASE (PostGrants(u) \/ SetGeneration(u)) /\ shell'[u].pc # "idle"
    <3>1. Goto(u, "granted") \/ Goto(u, "switched")
      BY <1>0, <2>6 DEF PostGrants, SetGeneration, Done, Idle
    <3>2. shell[u].pc \in Rotated /\ shell'[u].gen = shell[u].gen /\ shell'[u].new = shell[u].new
          /\ shell'[u].pc \notin {"canary", "sealed"}
      BY <1>0, <2>6, <3>1 DEF PostGrants, SetGeneration, At, Goto, Rotated, Work
    <3>3. QED
      BY <1>1, <3>2 DEF BornInv
  <2>7. QED
    BY <2>1, <2>2, <2>3, <2>4, <2>5, <2>6, Movers DEF WhoMoves, Rotated
<1>9. QED
  <2> USE <1>2, <1>3, <1>4, <1>5, <1>6, <1>7, <1>8
  <2>1. \A g \in Generation :
          /\ \A x \in tree'[g] : Now(x[1], g)
          /\ \A k \in KeysOf(disk', g) \cup KeysOf(bundle', g) : Now(k, g)
          /\ \A d \in Computer : grants'[d][g] # 0 => Now(grants'[d][g], g)
    OBVIOUS
  <2>2. \A d \in Computer : /\ link'[d].gen # 0 => Now(link'[d].key, link'[d].gen)
                            /\ at'[d] # 0 => Now(key'[d], at'[d])
    OBVIOUS
  <2>3. QED
    BY <2>1, <2>2 DEF BornInv, BornIn, KeysOf

LEMMA KeptStep ==
  ASSUME TypeOK, PhaseInv, AloneInv, KeptInv, Next
  PROVE  KeptInv'
<1>0. disk \in Keystore /\ bundle \in Keystore /\ born \in Seq(Generation)
  BY DEF TypeOK
<1>1. SUFFICES ASSUME ~lost', NEW k \in DOMAIN born' PROVE k \in KeysOf(disk', born'[k])
  BY DEF KeptInv, KeysOf
<1>2. ~lost /\ lost' = lost
  <2>1. ASSUME LoseMachine PROVE FALSE
    BY <1>1, <2>1 DEF LoseMachine
  <2>2. QED
    BY <1>1, <2>1, Writers DEF WhoWrites
<1>3. CASE k \in DOMAIN born /\ born'[k] = born[k]
  <2>1. born[k] \in Generation /\ k \in KeysOf(disk, born[k])
    BY <1>0, <1>2, <1>3 DEF KeptInv
  <2>2. QED
    BY <1>2, <1>3, <2>1, KeysStay
<1>4. CASE \E f \in Generation : /\ Len(born) < MaxKeys /\ born' = Append(born, f)
                                 /\ disk' = Add(disk, f, Len(born'))
  <2>1. PICK f \in Generation : /\ Len(born) < MaxKeys /\ born' = Append(born, f)
                                /\ disk' = Add(disk, f, Len(born'))
    BY <1>4
  <2>2. /\ Len(born') \in Key /\ born'[Len(born')] = f
        /\ DOMAIN born' = DOMAIN born \cup {Len(born')}
        /\ \A l \in DOMAIN born : born'[l] = born[l]
    BY <1>0, <2>1, KeyMade
  <2>3. KeysOf(disk', f) = KeysOf(disk, f) \cup {Len(born')}
    BY <1>0, <2>1, <2>2, AddKeeps
  <2>4. QED
    BY <1>1, <1>3, <2>2, <2>3
<1>5. CASE born' = born
  BY <1>1, <1>3, <1>5
<1>6. QED
  BY <1>4, <1>5, DiskSteps

-----------------------------------------------------------------------------
(* The hub's generation, and where the rotation is.                        *)

LEMMA GenStep ==
  ASSUME OneTerminal, TypeOK, PhaseInv, AloneInv, GenInv, Next
  PROVE  GenInv' /\ (gen' # gen => \/ gen = 0 /\ settled' = settled
                                   \/ \E s \in Shell : SetGeneration(s) /\ gen' = shell[s].gen + 1
                                                       /\ shell[s].gen = gen)
<1>0. /\ shell \in [Shell -> Work] /\ gen \in 0..MaxGen /\ gen \in Nat
      /\ link \in [Computer -> Link]
      /\ \A s \in Shell : shell[s] \in Work /\ shell[s].gen \in Nat
      /\ \A d \in Computer : link[d].gen \in Nat
  BY BoundAssumption DEF TypeOK, Work, Link
<1>1. ASSUME NEW s \in Shell, SetGeneration(s)
      PROVE  /\ gen' = gen + 1 /\ shell[s].gen = gen /\ shell'[s].pc = "switched"
             /\ shell'[s].gen = gen /\ Turn(s) /\ settled' = settled
  <2>1. shell[s].pc = "granted" /\ shell[s].gen = gen
    BY <1>1 DEF SetGeneration, At, GenInv, Asking
  <2>2. gen < shell[s].gen + 1
    BY <1>0, <2>1
  <2>3. gen' = gen + 1 /\ Goto(s, "switched") /\ settled' = settled
    BY <1>1, <2>1, <2>2 DEF SetGeneration, history
  <2>4. QED
    BY <1>0, <1>1, <2>1, <2>3 DEF Goto, Work, Turn, RotateKey
<1>2. ASSUME NEW s \in Shell, CircleCreate(s)
      PROVE  gen = 0 /\ gen' = 1 /\ shell'[s].pc = "row" /\ Turn(s) /\ settled' = settled
  BY <1>0, <1>2 DEF CircleCreate, Run, Idle, Turn, Create, history
<1>3. gen' = gen \/ \E s \in Shell : CircleCreate(s) \/ SetGeneration(s)
  BY Writers DEF WhoWrites
<1>4. gen <= gen' /\ gen' \in Nat
  BY <1>0, <1>1, <1>2, <1>3
<1>5. gen' = 0 => settled' = {}
  <2>1. ASSUME NEW s \in Shell, RotateSave(s) PROVE gen # 0
    BY <2>1 DEF RotateSave, At, GenInv, Asking, PhaseInv, PhaseOK
  <2>2. settled' = settled \/ \E s \in Shell : RotateSave(s)
    BY Writers DEF WhoWrites
  <2>3. QED
    BY <1>0, <1>4, <2>1, <2>2 DEF GenInv
<1>6. ASSUME NEW u \in Shell
      PROVE  /\ shell'[u].pc \in Asking => shell'[u].gen = gen'
             /\ shell'[u].pc \in {"switched", "purging"} => shell'[u].gen + 1 = gen'
             /\ shell'[u].pc = "sealed" => shell'[u].gen <= gen'
  <2> DEFINE Fine == /\ shell'[u].pc \in Asking => shell'[u].gen = gen'
                     /\ shell'[u].pc \in {"switched", "purging"} => shell'[u].gen + 1 = gen'
                     /\ shell'[u].pc = "sealed" => shell'[u].gen <= gen'
  <2>1. CASE \E s \in Shell : s # u /\ (CircleCreate(s) \/ SetGeneration(s))
    <3>1. shell'[u].pc = "idle"
      BY <1>1, <1>2, <2>1, Quiet
    <3>2. QED
      BY <3>1 DEF Asking
  <2>2. CASE SetGeneration(u)
    BY <1>0, <1>1, <2>2 DEF Asking
  <2>3. CASE CircleCreate(u)
    BY <1>2, <2>3 DEF Asking
  <2>4. CASE gen' = gen
    <3>1. CASE shell'[u] = shell[u]
      BY <2>4, <3>1 DEF GenInv
    <3>2. CASE RotateRead(u)
      <4>1. Run("rotate", "rotate") \in Work
        BY RunFields DEF Command, Pc
      <4>2. shell'[u].pc = "asked" /\ shell'[u].gen = gen
        BY <1>0, <3>2, <4>1 DEF RotateRead, Work
      <4>3. QED
        BY <2>4, <4>2 DEF Asking
    <3>3. CASE RotateSave(u) \/ CopyDone(u) \/ ReadDevices(u)
      <4>1. shell'[u].gen = shell[u].gen /\ shell[u].pc \in Asking
            /\ shell'[u].pc \in Asking /\ shell'[u].pc \notin {"sealed", "switched", "purging"}
        <5>1. CASE RotateSave(u)
          BY <1>0, <5>1 DEF RotateSave, At, Work, Asking
        <5>2. CASE CopyDone(u)
          BY <1>0, <5>2 DEF CopyDone, At, Goto, Work, Asking
        <5>3. CASE ReadDevices(u)
          BY <1>0, <5>3 DEF ReadDevices, At, Work, Asking
        <5>4. QED
          BY <3>3, <5>1, <5>2, <5>3
      <4>2. QED
        BY <2>4, <4>1 DEF GenInv
    <3>4. CASE PostGrants(u) /\ shell'[u].pc = "granted"
      <4>1. shell'[u].gen = shell[u].gen /\ shell[u].pc \in Asking
        BY <1>0, <3>4 DEF PostGrants, At, Goto, Done, Idle, Work, Asking
      <4>2. QED
        BY <2>4, <3>4, <4>1 DEF GenInv
    <3>5. CASE DropOldGrants(u)
      <4>1. shell'[u].gen = shell[u].gen /\ shell[u].pc = "switched" /\ shell'[u].pc = "purging"
        BY <1>0, <3>5 DEF DropOldGrants, At, Goto, Work
      <4>2. QED
        BY <2>4, <4>1 DEF GenInv, Asking
    <3>6. CASE \E d \in Computer : InviteSeal(u, d)
      BY <1>0, <2>4, <3>6 DEF InviteSeal, Run, Idle, Asking
    <3>7. QED
      BY <1>1, <2>2, <3>1, <3>2, <3>3, <3>4, <3>5, <3>6, Movers DEF WhoMoves, Asking
  <2>5. QED
    BY <1>3, <2>1, <2>2, <2>3, <2>4
<1>7. ASSUME NEW d \in Computer PROVE link'[d].gen <= gen'
  <2>1. CASE link'[d].gen = link[d].gen
    <3>1. link[d].gen \in Nat /\ gen \in Nat /\ link[d].gen <= gen
      BY <1>0 DEF GenInv
    <3>2. QED
      BY <1>4, <2>1, <3>1
  <2>2. ASSUME NEW s \in Shell, InvitePost(s) PROVE link'[d].gen <= gen'
    <3>1. shell[s].gen <= gen
      BY <2>2 DEF InvitePost, At, GenInv
    <3>2. link'[d].gen \in {link[d].gen, shell[s].gen}
      BY <1>0, <2>2 DEF InvitePost
    <3>3. QED
      BY <1>0, <1>4, <2>1, <3>1, <3>2
  <2>3. CASE link'[d] = NoLink
    BY <1>0, <1>4, <2>3 DEF NoLink
  <2>4. ASSUME NEW s \in Shell, OffboardPerson(s) PROVE link'[d] \in {link[d], NoLink}
    BY <1>0, <2>4 DEF OffboardPerson
  <2>5. ASSUME NEW c \in Computer, Redeem(c) PROVE link'[d].gen = link[d].gen
    BY <1>0, <2>5 DEF Redeem, Link
  <2>6. ASSUME NEW c \in Computer, Expire(c) \/ EnrolStore(c) PROVE link'[d] \in {link[d], NoLink}
    BY <1>0, <2>6 DEF Expire, EnrolStore
  <2>7. QED
    BY <2>1, <2>2, <2>3, <2>4, <2>5, <2>6, Writers DEF WhoWrites
<1>8. GenInv'
  BY <1>5, <1>6, <1>7 DEF GenInv
<1>9. QED
  BY <1>1, <1>2, <1>3, <1>8

-----------------------------------------------------------------------------
(* What was settled can be read.                                           *)

LEMMA OneEachBefore ==
  ASSUME TypeOK, PhaseInv, AloneInv, Next, OneEach'
  PROVE  OneEach
<1>1. DOMAIN born \subseteq DOMAIN born' /\ \A k \in DOMAIN born : born'[k] = born[k]
  <2>1. CASE \E f \in Generation : /\ Len(born) < MaxKeys /\ born' = Append(born, f)
                                   /\ disk' = Add(disk, f, Len(born'))
    BY <2>1, KeyMade DEF TypeOK
  <2>2. CASE born' = born
    BY <2>2
  <2>3. QED
    BY <2>1, <2>2, DiskSteps
<1>2. QED
  BY <1>1 DEF OneEach

(* Nothing but a purge takes anything out of the tree.                     *)
LEMMA TreeGrows ==
  ASSUME TypeOK, Next, NEW g \in Generation, NEW x \in tree[g],
         \A s \in Shell : Purge(s) => shell[s].gen # g
  PROVE  x \in tree'[g]
<1>0. tree \in [Generation -> SUBSET (Key \X Item)]
  BY DEF TypeOK
<1>1. ASSUME NEW s \in Shell, WriteCanary(s) \/ Purge(s) PROVE x \in tree'[g]
  BY <1>0, <1>1 DEF WriteCanary, Purge
<1>2. ASSUME NEW s \in Shell, NEW i \in Item, CopyItem(s, i) PROVE x \in tree'[g]
  BY <1>0, <1>2 DEF CopyItem
<1>3. ASSUME NEW d \in Computer, Write(d) PROVE x \in tree'[g]
  BY <1>0, <1>3 DEF Write
<1>4. QED
  BY <1>1, <1>2, <1>3, Writers DEF WhoWrites

(* Without a second key for a generation, the key in the keystore is the   *)
(* key of everything in the tree.                                          *)
LEMMA OneKeyOpensAll ==
  ASSUME TypeOK, BornInv, OneEach, NEW g \in Generation,
         NEW k \in KeysOf(disk, g) \cup KeysOf(bundle, g), NEW x \in tree[g]
  PROVE  x = <<k, x[2]>>
<1>1. x \in Key \X Item
  BY DEF TypeOK
<1>2. BornIn(k, g) /\ BornIn(x[1], g)
  BY DEF BornInv
<1>3. x[1] = k
  BY <1>2 DEF BornIn, OneEach
<1>4. QED
  BY <1>1, <1>3

LEMMA SettledStep ==
  ASSUME OneTerminal, TypeOK, PhaseInv, AloneInv, BornInv, GenInv, SettledInv, Next
  PROVE  SettledInv'
<1> DEFINE late == {"copied", "granting", "granted"}
<1>0. /\ shell \in [Shell -> Work] /\ gen \in 0..MaxGen /\ gen \in Nat /\ settled \subseteq Item
      /\ tree \in [Generation -> SUBSET (Key \X Item)] /\ disk \in Keystore
      /\ \A s \in Shell : shell[s] \in Work /\ shell[s].gen \in Nat
  BY BoundAssumption DEF TypeOK, Work
<1>1. SUFFICES ASSUME gen' > 0, OneEach'
               PROVE  /\ \A i \in settled' : \E k \in Key : <<k, i>> \in tree'[gen']
                      /\ \A u \in Shell :
                            /\ shell'[u].pc = "copying" => shell'[u].todo = settled'
                            /\ shell'[u].pc \in late =>
                                  \A i \in settled' : <<shell'[u].new, i>> \in tree'[gen' + 1]
  BY DEF SettledInv
<1>2. OneEach
  BY <1>1, OneEachBefore
<1>3. gen = 0 => settled = {} /\ \A s \in Shell : shell[s].pc \notin Asking
  BY DEF GenInv, PhaseInv, PhaseOK, Asking, Rotated
<1>4. /\ \A i \in settled : \E k \in Key : <<k, i>> \in tree[gen]
      /\ \A s \in Shell :
            /\ shell[s].pc = "copying" => shell[s].todo = settled
            /\ shell[s].pc \in late => \A i \in settled : <<shell[s].new, i>> \in tree[gen + 1]
  <2>1. CASE gen = 0
    BY <1>3, <2>1 DEF Asking
  <2>2. CASE gen # 0
    <3>1. gen > 0
      BY <1>0, <2>2
    <3>2. QED
      BY <1>2, <3>1 DEF SettledInv
  <2>3. QED
    BY <2>1, <2>2
<1>5. \A s \in Shell : shell[s].pc \in Asking \ {"asked"} =>
         shell[s].gen = gen /\ gen \in Generation /\ gen + 1 \in Generation /\ shell[s].new \in Key
  <2>1. ASSUME NEW s \in Shell, shell[s].pc \in Asking \ {"asked"}
        PROVE  shell[s].gen = gen /\ gen # 0 /\ gen < MaxGen /\ shell[s].new \in 0..MaxKeys
               /\ shell[s].new # 0
    BY <1>0, <2>1 DEF GenInv, PhaseInv, PhaseOK, Asking, Rotated, Work
  <2>2. ASSUME NEW s \in Shell, shell[s].pc \in Asking \ {"asked"}
        PROVE  gen \in Generation /\ gen + 1 \in Generation
    BY <1>0, <2>1, <2>2, GenerationRange
  <2>3. ASSUME NEW s \in Shell, shell[s].pc \in Asking \ {"asked"}
        PROVE  shell[s].new \in Key
    BY <2>1, <2>3, BoundAssumption DEF Key
  <2>4. QED
    BY <2>1, <2>2, <2>3
<1>6. ASSUME NEW s \in Shell, RotateSave(s)
      PROVE  /\ settled' = {x[2] : x \in tree[gen]} /\ shell'[s].todo = settled' /\ Turn(s)
             /\ shell'[s].pc = "copying" /\ UNCHANGED <<tree, gen>>
             /\ gen \in Generation
  <2>1. shell[s].gen = gen /\ gen # 0
    BY <1>6 DEF RotateSave, At, GenInv, Asking, PhaseInv, PhaseOK
  <2>2. shell'[s].todo = settled' /\ shell'[s].pc = "copying"
    BY <1>0, <1>6 DEF RotateSave, Work
  <2>3. QED
    BY <1>0, <1>6, <2>1, <2>2, GenerationRange DEF RotateSave, Turn, RotateKey, rows
<1>7. ASSUME NEW s \in Shell, SetGeneration(s)
      PROVE  Turn(s) /\ gen' = gen + 1 /\ shell[s].gen = gen /\ UNCHANGED <<tree, settled>>
             /\ shell[s].pc = "granted" /\ shell'[s].pc = "switched"
  <2>1. shell[s].pc = "granted" /\ shell[s].gen = gen
    BY <1>7 DEF SetGeneration, At, GenInv, Asking
  <2>2. gen < shell[s].gen + 1
    BY <1>0, <2>1
  <2>3. QED
    BY <1>0, <1>7, <2>1, <2>2 DEF SetGeneration, Goto, Work, Turn, RotateKey, history
<1>8. ASSUME NEW s \in Shell, CircleCreate(s)
      PROVE  Turn(s) /\ gen = 0 /\ shell'[s].pc = "row" /\ UNCHANGED settled
  BY <1>0, <1>8 DEF CircleCreate, Run, Idle, Turn, Create, history
<1>9. ASSUME NEW s \in Shell, Purge(s)
      PROVE  Turn(s) /\ shell[s].gen # gen /\ shell[s].gen # gen + 1 /\ shell'[s].pc = "idle"
             /\ shell[s].gen + 1 = gen
  <2>1. shell[s].gen + 1 = gen /\ Turn(s) /\ shell'[s].pc = "idle"
    BY <1>0, <1>9 DEF Purge, At, GenInv, Done, Idle, Turn, RotateKey
  <2>2. QED
    BY <1>0, <2>1
<1>10. /\ gen' = gen \/ \E s \in Shell : CircleCreate(s) \/ SetGeneration(s)
       /\ settled' = settled \/ \E s \in Shell : RotateSave(s)
  BY Writers DEF WhoWrites
<1>11. ASSUME NEW i \in settled' PROVE \E k \in Key : <<k, i>> \in tree'[gen']
  <2>1. CASE \E s \in Shell : RotateSave(s)
    <3>1. PICK x \in tree[gen] : i = x[2]
      BY <1>6, <1>11, <2>1
    <3>2. x \in Key \X Item
      BY <1>0, <1>6, <2>1
    <3>3. QED
      BY <1>6, <2>1, <3>1, <3>2
  <2>2. CASE \E s \in Shell : SetGeneration(s)
    BY <1>4, <1>5, <1>7, <1>11, <2>2 DEF Asking
  <2>3. CASE \E s \in Shell : CircleCreate(s)
    BY <1>3, <1>8, <1>11, <2>3
  <2>4. CASE gen' = gen /\ settled' = settled
    <3>1. gen \in Generation
      BY <1>0, <1>1, <2>4, GenerationRange
    <3>2. QED
      BY <1>4, <1>9, <1>11, <2>4, <3>1, TreeGrows
  <2>5. QED
    BY <1>10, <2>1, <2>2, <2>3, <2>4
<1>12. ASSUME NEW u \in Shell, shell'[u].pc = "copying" PROVE shell'[u].todo = settled'
  <2>1. ASSUME NEW s \in Shell, RotateSave(s) PROVE shell'[u].todo = settled'
    BY <1>6, <1>12, <2>1, Quiet
  <2>2. CASE shell'[u] = shell[u] /\ settled' = settled
    BY <1>4, <1>12, <2>2
  <2>3. QED
    BY <1>10, <1>12, <2>1, <2>2, Movers DEF WhoMoves
<1>13. ASSUME NEW u \in Shell, shell'[u].pc \in late, NEW i \in settled'
       PROVE  <<shell'[u].new, i>> \in tree'[gen' + 1]
  <2>1. settled' = settled
    <3>1. ASSUME NEW s \in Shell, RotateSave(s) PROVE FALSE
      BY <1>6, <1>13, <3>1, Quiet
    <3>2. QED
      BY <1>10, <3>1
  <2>2. gen' = gen
    <3>1. ASSUME NEW s \in Shell, CircleCreate(s) \/ SetGeneration(s) PROVE FALSE
      BY <1>7, <1>8, <1>13, <3>1, Quiet
    <3>2. QED
      BY <1>10, <3>1
  <2>3. ASSUME gen + 1 \in Generation, NEW x \in tree[gen + 1] PROVE x \in tree'[gen + 1]
    BY <1>9, <2>3, TreeGrows
  <2>4. CASE shell'[u] = shell[u]
    <3>1. shell[u].pc \in Asking \ {"asked"} /\ <<shell[u].new, i>> \in tree[gen + 1]
      BY <1>4, <1>13, <2>1, <2>4 DEF Asking
    <3>2. QED
      BY <1>5, <2>2, <2>3, <2>4, <3>1
  <2>5. CASE ReadDevices(u) \/ (PostGrants(u) /\ shell'[u].pc = "granted")
    <3>1. shell[u].pc \in late /\ shell'[u].new = shell[u].new
      <4>1. CASE ReadDevices(u)
        BY <1>0, <4>1 DEF ReadDevices, At, Work
      <4>2. CASE PostGrants(u) /\ shell'[u].pc = "granted"
        BY <1>0, <4>2 DEF PostGrants, At, Goto, Done, Idle, Work
      <4>3. QED
        BY <2>5, <4>1, <4>2
    <3>2. shell[u].pc \in Asking \ {"asked"} /\ <<shell[u].new, i>> \in tree[gen + 1]
      BY <1>4, <1>13, <2>1, <3>1 DEF Asking
    <3>3. QED
      BY <1>5, <2>2, <2>3, <3>1, <3>2
  <2>6. CASE CopyDone(u)
    <3> DEFINE h == shell[u]
    <3>1. h.pc = "copying" /\ Opened(h) \cap h.todo \subseteq Copied(h) /\ shell'[u].new = h.new
      BY <1>0, <2>6 DEF CopyDone, At, Goto, Work
    <3>2. h.gen = gen /\ gen \in Generation /\ gen + 1 \in Generation
      BY <1>5, <3>1 DEF Asking
    <3>3. h.mem = disk /\ HasGen(disk, gen) /\ h.todo = settled
      BY <1>4, <3>1, <3>2 DEF AloneInv, PhaseInv, PhaseOK, Rotated
    <3>4. Gen(disk, gen) \in KeysOf(disk, gen)
      BY <1>0, <3>2, <3>3, FirstAndLast
    <3>5. PICK k \in Key : <<k, i>> \in tree[gen]
      BY <1>4, <2>1
    <3>6. <<k, i>> = <<Gen(disk, gen), i>>
      BY <1>2, <3>2, <3>4, <3>5, OneKeyOpensAll
    <3>7. i \in Opened(h)
      BY <1>0, <2>1, <3>2, <3>3, <3>5, <3>6 DEF Opened
    <3>8. <<h.new, i>> \in tree[gen + 1]
      BY <2>1, <3>1, <3>2, <3>3, <3>7 DEF Copied
    <3>9. QED
      BY <2>2, <2>3, <3>1, <3>2, <3>8
  <2>7. QED
    BY <1>13, <2>4, <2>5, <2>6, Movers DEF WhoMoves
<1>14. QED
  BY <1>11, <1>12, <1>13

LEMMA VerifiedStep ==
  ASSUME OneTerminal, TypeOK, AloneInv, VerifiedInv, Next
  PROVE  VerifiedInv'
<1>0. shell \in [Shell -> Work] /\ \A s \in Shell : shell[s] \in Work
  BY DEF TypeOK
<1>1. ASSUME NEW s \in Shell, ExportWrite(s)
      PROVE  verified' = 0 /\ Turn(s) /\ shell'[s].pc = "idle"
  BY <1>0, <1>1 DEF ExportWrite, Done, Idle, Turn, Keys
<1>2. ASSUME NEW s \in Shell, VerifyCat(s)
      PROVE  verified' = verified \/ (verified' # 0 => HasGen(bundle, verified'))
  BY <1>2 DEF VerifyCat, At, VerifiedInv
<1>3. bundle' = bundle \/ \E s \in Shell : ExportWrite(s)
  BY Writers DEF WhoWrites
<1>4. verified' # 0 => HasGen(bundle', verified')
  BY <1>1, <1>2, <1>3, Writers DEF WhoWrites, VerifiedInv
<1>5. ASSUME NEW u \in Shell, shell'[u].pc = "verify", shell'[u].cmd = "verify"
      PROVE  HasGen(bundle', shell'[u].gen)
  <2>1. bundle' = bundle
    BY <1>1, <1>3, <1>5, Quiet
  <2>2. CASE shell'[u] = shell[u]
    BY <1>5, <2>1, <2>2 DEF VerifiedInv
  <2>3. CASE VerifyRead(u)
    BY <1>0, <1>5, <2>1, <2>3 DEF VerifyRead, Run, Idle
  <2>4. QED
    BY <1>5, <2>2, <2>3, Movers DEF WhoMoves
<1>6. QED
  BY <1>4, <1>5 DEF VerifiedInv, HasGen

-----------------------------------------------------------------------------
(* Whoever was offboarded is given nothing newer.                          *)

LEMMA OutStep ==
  ASSUME OneTerminal, TypeOK, PhaseInv, AloneInv, BornInv, GenInv, OutInv, Next
  PROVE  OutInv'
<1>0. /\ shell \in [Shell -> Work] /\ gen \in 0..MaxGen /\ gen \in Nat /\ born \in Seq(Generation)
      /\ disk \in Keystore
      /\ grants \in [Computer -> [Generation -> 0..MaxKeys]] /\ link \in [Computer -> Link]
      /\ person \in [Computer -> {"active", "offboarded"}]
      /\ got \in [Computer -> SUBSET (0..MaxKeys)] /\ outAt \in [Computer -> 0..MaxGen]
      /\ \A s \in Shell : shell[s] \in Work
  BY BoundAssumption DEF TypeOK
<1>1. \A k \in DOMAIN born : k \in DOMAIN born' /\ born'[k] = born[k] /\ born[k] \in Nat
  <2>1. \A k \in DOMAIN born : born[k] \in Nat
    <3>1. \A k \in DOMAIN born : born[k] \in Generation
      BY <1>0
    <3>2. QED
      BY <3>1, GenerationRange
  <2>2. CASE \E f \in Generation : /\ Len(born) < MaxKeys /\ born' = Append(born, f)
                                   /\ disk' = Add(disk, f, Len(born'))
    <3>1. \A k \in DOMAIN born : k \in DOMAIN born' /\ born'[k] = born[k]
      BY <1>0, <2>2, KeyMade
    <3>2. QED
      BY <2>1, <3>1
  <2>3. CASE born' = born
    BY <2>1, <2>3
  <2>4. QED
    BY <2>2, <2>3, DiskSteps
<1>2. gen <= gen' /\ gen' \in Nat
  <2>1. ASSUME NEW s \in Shell, SetGeneration(s) PROVE gen <= gen' /\ gen' \in Nat
    <3>1. shell[s].gen \in Nat
      BY <1>0, BoundAssumption DEF Work
    <3>2. CASE gen < shell[s].gen + 1
      BY <1>0, <2>1, <3>1, <3>2 DEF SetGeneration
    <3>3. CASE ~(gen < shell[s].gen + 1)
      BY <1>0, <2>1, <3>3 DEF SetGeneration
    <3>4. QED
      BY <3>2, <3>3
  <2>2. ASSUME NEW s \in Shell, CircleCreate(s) PROVE gen <= gen' /\ gen' \in Nat
    BY <2>2 DEF CircleCreate
  <2>3. CASE gen' = gen
    BY <1>0, <2>3
  <2>4. QED
    BY <2>1, <2>2, <2>3, Writers DEF WhoWrites
<1>3. ASSUME NEW d \in Computer, NEW k \in got'[d]
      PROVE  \/ k \in got[d]
             \/ /\ k \in DOMAIN born /\ born[k] <= gen
                /\ ~(person[d] = "offboarded" /\ link[d].state # "open")
  <2>1. ASSUME NEW c \in Computer, Redeem(c), k \notin got[d]
        PROVE  /\ k \in DOMAIN born /\ born[k] <= gen
               /\ ~(person[d] = "offboarded" /\ link[d].state # "open")
    <3>1. link[d].state = "open" /\ k = link[d].key
      BY <1>0, <1>3, <2>1 DEF Redeem
    <3>2. link[d].gen # 0 /\ link[d].gen <= gen
      BY <3>1 DEF OutInv, GenInv
    <3>3. BornIn(link[d].key, link[d].gen)
      BY <3>2 DEF BornInv
    <3>4. QED
      BY <3>1, <3>2, <3>3 DEF BornIn
  <2>2. ASSUME NEW c \in Computer, Heartbeat(c), k \notin got[d]
        PROVE  /\ k \in DOMAIN born /\ born[k] <= gen
               /\ ~(person[d] = "offboarded" /\ link[d].state # "open")
    <3>1. person[d] = "active" /\ gen > 0 /\ k = grants[d][gen] /\ grants[d][gen] # 0
      BY <1>0, <1>3, <2>2 DEF Heartbeat, Served
    <3>2. gen \in Generation
      BY <1>0, <3>1, GenerationRange
    <3>3. BornIn(grants[d][gen], gen)
      BY <3>1, <3>2 DEF BornInv
    <3>4. QED
      BY <1>0, <3>1, <3>3 DEF BornIn
  <2>3. QED
    BY <1>3, <2>1, <2>2, Writers DEF WhoWrites
<1>4. ASSUME NEW d \in Computer, NEW k \in got'[d]
      PROVE  k \in DOMAIN born' /\ born'[k] <= gen'
  <2>1. k \in DOMAIN born /\ born[k] <= gen
    BY <1>3, <1>4 DEF OutInv
  <2>2. k \in DOMAIN born' /\ born'[k] = born[k] /\ born[k] \in Nat
    BY <1>1, <2>1
  <2>3. QED
    BY <1>0, <1>2, <2>1, <2>2
<1>5. ASSUME NEW d \in Computer
      PROVE  /\ link'[d].state = "open" => link'[d].gen # 0
             /\ link'[d].state = "open" => link[d].state = "open" \/ person[d] = "active"
  <2>1. CASE link'[d] = link[d]
    BY <2>1 DEF OutInv
  <2>2. CASE link'[d].state # "open"
    BY <2>2
  <2>3. ASSUME NEW s \in Shell, InvitePost(s), link'[d] # link[d]
        PROVE  link'[d].gen # 0 /\ person[d] = "active"
    <3>1. shell[s].gen # 0
      BY <2>3 DEF InvitePost, At, PhaseInv, PhaseOK
    <3>2. QED
      BY <1>0, <2>3, <3>1 DEF InvitePost
  <2>4. ASSUME NEW s \in Shell, OffboardPerson(s)
        PROVE  link'[d] = link[d] \/ link'[d].state # "open"
    BY <1>0, <2>4 DEF OffboardPerson, NoLink
  <2>5. ASSUME NEW c \in Computer, Redeem(c) \/ Expire(c) \/ EnrolStore(c)
        PROVE  link'[d] = link[d] \/ link'[d].state # "open"
    BY <1>0, <2>5 DEF Redeem, Expire, EnrolStore, NoLink, Link
  <2>6. QED
    BY <2>1, <2>2, <2>3, <2>4, <2>5, Writers DEF WhoWrites
<1>6. ASSUME NEW d \in Computer
      PROVE  \A g \in Generation : grants'[d][g] # 0 =>
                \/ grants[d][g] # 0
                \/ \E s \in Shell : /\ PostGrant(s) \/ PostGrants(s)
                                    /\ d \in shell[s].people
                                    /\ shell[s].pc \in Asking \cup {"adding"}
  <2>1. ASSUME NEW s \in Shell, PostGrant(s), NEW g \in Generation, grants'[d][g] # grants[d][g]
        PROVE  d \in shell[s].people /\ shell[s].pc \in Asking \cup {"adding"}
    BY <1>0, <2>1 DEF PostGrant, At, GrantToDevices
  <2>2. ASSUME NEW s \in Shell, PostGrants(s), NEW g \in Generation, grants'[d][g] # grants[d][g]
        PROVE  d \in shell[s].people /\ shell[s].pc \in Asking \cup {"adding"}
    BY <1>0, <2>2 DEF PostGrants, At, GrantToDevices, Asking
  <2>3. ASSUME \/ \E s \in Shell : DropOldGrants(s)
               \/ \E s \in Shell, c \in Computer : \/ RemoveMember(s, c) \/ DeviceRevoke(s, c)
                                                   \/ OffboardDevice(s, c)
               \/ \E c \in Computer : EnrolStore(c),
               NEW g \in Generation
        PROVE  grants'[d][g] \in {0, grants[d][g]}
    <3>1. CASE \E s \in Shell : DropOldGrants(s)
      BY <1>0, <3>1 DEF DropOldGrants
    <3>2. CASE \E c \in Computer : EnrolStore(c)
      BY <1>0, <3>2 DEF EnrolStore, NoGrants
    <3>3. CASE \E s \in Shell, c \in Computer : \/ RemoveMember(s, c) \/ DeviceRevoke(s, c)
                                                 \/ OffboardDevice(s, c)
      <4>1. PICK c \in Computer : grants' = NoGrants(grants, {c})
        BY <3>3 DEF RemoveMember, DeviceRevoke, OffboardDevice
      <4>2. QED
        BY <1>0, <4>1 DEF NoGrants
    <3>4. QED
      BY <2>3, <3>1, <3>2, <3>3
  <2>4. QED
    BY <2>1, <2>2, <2>3, Writers DEF WhoWrites
<1>7. ASSUME NEW d \in Computer, outAt'[d] < MaxGen, outAt'[d] = outAt[d],
             ~\E s \in Shell : OffboardPerson(s) /\ shell[s].who = d
      PROVE  /\ d \notin members' /\ person'[d] = "offboarded" /\ link'[d].state # "open"
             /\ \A k \in got'[d] : born'[k] <= outAt'[d]
             /\ \A g \in Generation : g > outAt'[d] => grants'[d][g] = 0
             /\ \A u \in Shell : shell'[u].pc \in Asking \cup {"adding"} => d \notin shell'[u].people
  <2>1. /\ d \notin members /\ person[d] = "offboarded" /\ link[d].state # "open"
        /\ \A k \in got[d] : born[k] <= outAt[d]
        /\ \A g \in Generation : g > outAt[d] => grants[d][g] = 0
        /\ \A s \in Shell : shell[s].pc \in Asking \cup {"adding"} => d \notin shell[s].people
    BY <1>7 DEF OutInv
  <2>2. ~\E s \in Shell : AddMember(s, d)
    <3>1. ASSUME NEW s \in Shell, AddMember(s, d) PROVE FALSE
      <4>1. outAt'[d] = MaxGen
        BY <1>0, <3>1 DEF AddMember
      <4>2. QED
        BY <1>7, <4>1, BoundAssumption
    <3>2. QED
      BY <3>1
  <2>3. d \notin members'
    <3>1. ASSUME NEW s \in Shell, InvitePost(s) PROVE d \notin members'
      BY <2>1, <3>1 DEF InvitePost
    <3>2. ASSUME NEW s \in Shell, NEW c \in Computer, AddMember(s, c) PROVE d \notin members'
      <4>1. c # d
        BY <2>2, <3>2
      <4>2. QED
        BY <2>1, <3>2, <4>1 DEF AddMember
    <3>3. ASSUME NEW s \in Shell, NEW c \in Computer, RemoveMember(s, c) PROVE d \notin members'
      BY <2>1, <3>3 DEF RemoveMember
    <3>4. ASSUME NEW s \in Shell, OffboardMembership(s) PROVE d \notin members'
      BY <2>1, <3>4 DEF OffboardMembership
    <3>5. QED
      BY <2>1, <3>1, <3>2, <3>3, <3>4, Writers DEF WhoWrites
  <2>4. person'[d] = "offboarded"
    <3>1. ASSUME NEW s \in Shell, OffboardPerson(s) PROVE person'[d] = "offboarded"
      BY <1>0, <2>1, <3>1 DEF OffboardPerson
    <3>2. QED
      BY <2>1, <3>1, Writers DEF WhoWrites
  <2>5. link'[d].state # "open"
    BY <1>5, <2>1
  <2>6. \A k \in got'[d] : born'[k] <= outAt'[d]
    <3>1. ASSUME NEW k \in got'[d] PROVE k \in got[d] /\ k \in DOMAIN born
      BY <1>3, <2>1, <3>1 DEF OutInv
    <3>2. QED
      BY <1>1, <1>7, <2>1, <3>1
  <2>7. \A g \in Generation : g > outAt'[d] => grants'[d][g] = 0
    <3>1. ASSUME NEW g \in Generation, g > outAt'[d], grants'[d][g] # 0 PROVE FALSE
      <4>1. grants[d][g] = 0
        BY <1>7, <2>1, <3>1
      <4>2. QED
        BY <1>6, <2>1, <3>1, <4>1
    <3>2. QED
      BY <3>1
  <2>8. ASSUME NEW u \in Shell, shell'[u].pc \in Asking \cup {"adding"} PROVE d \notin shell'[u].people
    <3>1. CASE shell'[u] = shell[u]
      BY <2>1, <2>8, <3>1
    <3>2. CASE \E c \in Computer : AddMember(u, c)
      <4>1. PICK c \in Computer : AddMember(u, c)
        BY <3>2
      <4>2. c # d
        BY <2>2, <4>1
      <4>3. shell'[u].people \subseteq {c}
        <5>1. Run("add", "adding") \in Work
          BY RunFields DEF Command, Pc
        <5>2. QED
          BY <1>0, <4>1, <5>1 DEF AddMember, Work
      <4>4. QED
        BY <4>2, <4>3
    <3>3. CASE RotateRead(u)
      <4>1. Run("rotate", "rotate") \in Work
        BY RunFields DEF Command, Pc
      <4>2. shell'[u].people = members
        BY <1>0, <3>3, <4>1 DEF RotateRead, Work
      <4>3. QED
        BY <2>1, <4>2
    <3>4. CASE RotateSave(u) \/ CopyDone(u) \/ ReadDevices(u) \/ (PostGrants(u)
          /\ shell'[u].pc = "granted")
      <4>1. CASE RotateSave(u)
        BY <1>0, <2>1, <4>1 DEF RotateSave, At, Work, Asking
      <4>2. CASE CopyDone(u)
        BY <1>0, <2>1, <4>2 DEF CopyDone, At, Goto, Work, Asking
      <4>3. CASE ReadDevices(u)
        BY <1>0, <2>1, <4>3 DEF ReadDevices, At, Eligible, Work, Asking
      <4>4. CASE PostGrants(u) /\ shell'[u].pc = "granted"
        <5>1. shell[u].pc = "granting" /\ shell'[u].people = shell[u].people
          BY <1>0, <4>4 DEF PostGrants, At, Goto, Done, Idle, Work
        <5>2. QED
          BY <2>1, <5>1 DEF Asking
      <4>5. QED
        BY <3>4, <4>1, <4>2, <4>3, <4>4
    <3>5. QED
      BY <2>8, <3>1, <3>2, <3>3, <3>4, Movers DEF WhoMoves, Asking
  <2>9. QED
    BY <2>3, <2>4, <2>5, <2>6, <2>7, <2>8
<1>8. ASSUME NEW d \in Computer, outAt'[d] < MaxGen, NEW s \in Shell, OffboardPerson(s), shell[s].who = d
      PROVE  /\ d \notin members' /\ person'[d] = "offboarded" /\ link'[d].state # "open"
             /\ \A k \in got'[d] : born'[k] <= outAt'[d]
             /\ \A g \in Generation : g > outAt'[d] => grants'[d][g] = 0
             /\ \A u \in Shell : shell'[u].pc \in Asking \cup {"adding"} => d \notin shell'[u].people
  <2>1. outAt'[d] = gen /\ d \notin members
    <3>1. outAt'[d] = IF d \in members THEN MaxGen ELSE gen
      BY <1>0, <1>8 DEF OffboardPerson
    <3>2. ~(MaxGen < MaxGen)
      BY BoundAssumption
    <3>3. QED
      BY <1>8, <3>1, <3>2
  <2>2. d \notin members' /\ person'[d] = "offboarded" /\ link'[d].state # "open"
    BY <1>0, <1>8, <2>1 DEF OffboardPerson, NoLink
  <2>3. \A k \in got'[d] : born'[k] <= outAt'[d]
    <3>1. got' = got
      BY <1>8 DEF OffboardPerson
    <3>2. \A k \in got[d] : k \in DOMAIN born /\ born[k] <= gen
      BY DEF OutInv
    <3>3. QED
      BY <1>1, <2>1, <3>1, <3>2
  <2>4. \A g \in Generation : grants'[d][g] = 0
    BY <1>8 DEF OffboardPerson, At, OutInv
  <2>5. ASSUME NEW u \in Shell PROVE shell'[u].pc \notin Asking \cup {"adding"}
    <3>1. CASE u = s
      BY <1>0, <1>8, <3>1 DEF OffboardPerson, Work, Idle, Asking
    <3>2. CASE u # s
      BY <1>8, <3>2, Quiet DEF Turn, Offboard, Asking
    <3>3. QED
      BY <3>1, <3>2
  <2>6. QED
    BY <2>2, <2>3, <2>4, <2>5
<1>9. ASSUME NEW d \in Computer, outAt'[d] < MaxGen,
             ~\E s \in Shell : OffboardPerson(s) /\ shell[s].who = d
      PROVE  outAt'[d] = outAt[d]
  <2>1. ASSUME NEW s \in Shell, OffboardPerson(s) PROVE outAt'[d] = outAt[d]
    BY <1>0, <1>9, <2>1 DEF OffboardPerson
  <2>2. ASSUME NEW s \in Shell, NEW c \in Computer, AddMember(s, c) PROVE outAt'[d] = outAt[d]
    <3>1. CASE c = d
      <4>1. outAt'[d] = MaxGen
        BY <1>0, <2>2, <3>1 DEF AddMember
      <4>2. QED
        BY <1>9, <4>1, BoundAssumption
    <3>2. CASE c # d
      BY <1>0, <2>2, <3>2 DEF AddMember
    <3>3. QED
      BY <3>1, <3>2
  <2>3. QED
    BY <2>1, <2>2, Writers DEF WhoWrites
<1>10. ASSUME NEW u \in Shell, shell'[u].pc \in {"memberships", "links"}
       PROVE  /\ shell'[u].who \in Computer
              /\ \A g \in Generation : grants'[shell'[u].who][g] = 0
  <2>1. ASSUME NEW s \in Shell, PostGrant(s) \/ PostGrants(s) \/ DropOldGrants(s) PROVE FALSE
    <3>1. Turn(s) /\ shell[s].pc \in Asking \cup {"adding", "switched"}
      BY <2>1 DEF PostGrant, PostGrants, DropOldGrants, At, Turn, RotateKey, Asking
    <3>2. u = s
      BY <1>10, <3>1, Quiet
    <3>3. shell'[u].pc \notin {"memberships", "links"}
      BY <1>0, <2>1, <3>2 DEF PostGrant, PostGrants, DropOldGrants, Goto, Done, Idle, Work
    <3>4. QED
      BY <1>10, <3>3
  <2>2. CASE /\ shell[u].pc \in {"memberships", "links"} /\ shell'[u].who = shell[u].who
    <3>1. shell[u].who \in Computer /\ \A g \in Generation : grants[shell[u].who][g] = 0
      BY <2>2 DEF OutInv
    <3>2. QED
      BY <1>6, <2>1, <2>2, <3>1
  <2>3. CASE \E d \in Computer : OffboardDevice(u, d)
    <3>1. PICK d \in Computer : OffboardDevice(u, d)
      BY <2>3
    <3>2. shell'[u].who = d
      <4>1. Run("offboard", "memberships") \in Work
        BY RunFields DEF Command, Pc
      <4>2. QED
        BY <1>0, <3>1, <4>1 DEF OffboardDevice, Work
    <3>3. QED
      BY <3>1, <3>2 DEF OffboardDevice, NoGrants
  <2>4. CASE OffboardMembership(u)
    <3>1. shell[u].pc = "memberships" /\ shell'[u].who = shell[u].who
      BY <1>0, <2>4 DEF OffboardMembership, At, Work
    <3>2. QED
      BY <2>2, <3>1
  <2>5. QED
    BY <1>10, <2>2, <2>3, <2>4, Movers DEF WhoMoves
<1>11. QED
  <2>1. ASSUME NEW d \in Computer, outAt'[d] < MaxGen
        PROVE  /\ d \notin members' /\ person'[d] = "offboarded" /\ link'[d].state # "open"
               /\ \A k \in got'[d] : born'[k] <= outAt'[d]
               /\ \A g \in Generation : g > outAt'[d] => grants'[d][g] = 0
               /\ \A u \in Shell : shell'[u].pc \in Asking \cup {"adding"} => d \notin shell'[u].people
    BY <1>7, <1>8, <1>9, <2>1
  <2>2. QED
    BY <1>4, <1>5, <1>10, <2>1 DEF OutInv

-----------------------------------------------------------------------------
(* Whoever stays through a rotation has a grant before the switch.         *)

LEMMA StayedStep ==
  ASSUME OneTerminal, TypeOK, PhaseInv, AloneInv, StayedInv, Next
  PROVE  StayedInv'
<1>0. /\ shell \in [Shell -> Work] /\ stayed \subseteq Computer
      /\ grants \in [Computer -> [Generation -> 0..MaxKeys]]
      /\ device \in [Computer -> {"none", "active", "revoked"}]
      /\ disk \in Keystore
      /\ \A s \in Shell : shell[s] \in Work
  BY DEF TypeOK
<1>1. ASSUME NEW u \in Shell, shell'[u].pc \in Asking, ~RotateRead(u)
      PROVE  /\ shell[u].pc \in Asking
             /\ shell'[u].people = shell[u].people \/ shell'[u].people = Eligible(shell[u])
             /\ shell'[u].gen = shell[u].gen
             /\ shell'[u] = shell[u] \/ shell'[u].pc # "granted" \/ PostGrants(u)
  <2>1. CASE shell'[u] = shell[u]
    BY <1>1, <2>1
  <2>2. CASE RotateSave(u)
    BY <1>0, <2>2 DEF RotateSave, At, Work, Asking
  <2>3. CASE CopyDone(u)
    BY <1>0, <2>3 DEF CopyDone, At, Goto, Work, Asking
  <2>4. CASE ReadDevices(u)
    BY <1>0, <2>4 DEF ReadDevices, At, Work, Asking
  <2>5. CASE PostGrants(u)
    <3>1. shell[u].pc = "granting" /\ shell'[u].people = shell[u].people
          /\ shell'[u].gen = shell[u].gen
      BY <1>0, <1>1, <2>5 DEF PostGrants, At, Goto, Done, Idle, Work, Asking
    <3>2. QED
      BY <2>5, <3>1 DEF Asking
  <2>6. QED
    BY <1>1, <2>1, <2>2, <2>3, <2>4, <2>5, Movers DEF WhoMoves, Asking
<1>2. ASSUME NEW u \in Shell, NEW s \in Shell, RotateRead(s)
      PROVE  u = s \/ shell'[u].pc = "idle"
  BY <1>2, Quiet DEF Turn, RotateKey
<1>3. stayed' \subseteq stayed \/ \E s \in Shell : RotateRead(s)
  BY Writers DEF WhoWrites, RemoveMember, DeviceRevoke, OffboardDevice, EnrolStore
<1>4. ASSUME NEW d \in stayed', NEW u \in Shell, shell'[u].pc \in Asking, ~RotateRead(u)
      PROVE  /\ d \in stayed /\ d \in shell[u].people /\ device[d] = "active"
             /\ device'[d] = "active"
             /\ ~\E s \in Shell : RemoveMember(s, d) \/ DeviceRevoke(s, d) \/ OffboardDevice(s, d)
             /\ ~EnrolStore(d)
  <2>1. d \in stayed
    BY <1>2, <1>3, <1>4 DEF Asking
  <2>2. d \in shell[u].people /\ device[d] = "active"
    BY <1>1, <1>4, <2>1 DEF StayedInv
  <2>3. /\ ~\E s \in Shell : RemoveMember(s, d) \/ DeviceRevoke(s, d) \/ OffboardDevice(s, d)
        /\ ~EnrolStore(d)
    BY <1>4 DEF RemoveMember, DeviceRevoke, OffboardDevice, EnrolStore
  <2>4. ASSUME NEW s \in Shell, NEW c \in Computer, DeviceRevoke(s, c) \/ OffboardDevice(s, c)
        PROVE  device'[d] = device[d]
    <3>1. c # d
      BY <2>3, <2>4
    <3>2. QED
      BY <1>0, <2>1, <2>4, <3>1 DEF DeviceRevoke, OffboardDevice
  <2>5. ASSUME NEW c \in Computer, EnrolStore(c) PROVE device'[d] = device[d]
    <3>1. c # d
      BY <2>3, <2>5
    <3>2. QED
      BY <1>0, <2>1, <2>5, <3>1 DEF EnrolStore
  <2>6. device'[d] = device[d]
    BY <2>4, <2>5, Writers DEF WhoWrites
  <2>7. QED
    BY <2>1, <2>2, <2>3, <2>6
<1>5. ASSUME NEW d \in stayed', NEW u \in Shell, shell'[u].pc \in Asking
      PROVE  d \in shell'[u].people /\ device'[d] = "active"
  <2>1. CASE RotateRead(u)
    <3>1. Run("rotate", "rotate") \in Work
      BY RunFields DEF Command, Pc
    <3>2. shell'[u].people = members
      BY <1>0, <2>1, <3>1 DEF RotateRead, Work
    <3>3. QED
      BY <1>5, <2>1, <3>2 DEF RotateRead, rows
  <2>2. CASE ~RotateRead(u)
    <3>1. d \in shell[u].people /\ device[d] = "active" /\ device'[d] = "active"
      BY <1>4, <1>5, <2>2
    <3>2. d \in Eligible(shell[u])
      BY <3>1 DEF Eligible
    <3>3. QED
      BY <1>1, <1>5, <2>2, <3>1, <3>2
  <2>3. QED
    BY <2>1, <2>2
<1>6. ASSUME NEW d \in stayed', NEW u \in Shell, shell'[u].pc = "granted"
      PROVE  grants'[d][shell'[u].gen + 1] # 0
  <2>1. ~RotateRead(u)
    <3>1. ASSUME RotateRead(u) PROVE FALSE
      <4>1. Run("rotate", "rotate") \in Work
        BY RunFields DEF Command, Pc
      <4>2. shell'[u].pc = "asked"
        BY <1>0, <3>1, <4>1 DEF RotateRead, Work
      <4>3. QED
        BY <1>6, <4>2
    <3>2. QED
      BY <3>1
  <2>2. /\ shell[u].pc \in Asking /\ shell'[u].gen = shell[u].gen
        /\ shell'[u] = shell[u] \/ PostGrants(u)
        /\ d \in stayed /\ d \in Computer /\ d \in shell[u].people
        /\ ~\E s \in Shell : RemoveMember(s, d) \/ DeviceRevoke(s, d) \/ OffboardDevice(s, d)
        /\ ~EnrolStore(d)
    BY <1>0, <1>1, <1>4, <1>6, <2>1 DEF Asking
  <2>3. CASE PostGrants(u)
    <3>1. shell[u].pc = "granting" /\ shell[u].mem \in Keystore /\ shell[u].gen + 1 \in Generation
          /\ HasGen(shell[u].mem, shell[u].gen + 1)
      <4>1. shell[u].pc = "granting" /\ shell[u].gen \in 0..MaxGen /\ shell[u].gen < MaxGen
            /\ HasGen(shell[u].mem, shell[u].gen + 1) /\ shell[u].mem \in Keystore
        BY <1>0, <2>3 DEF PostGrants, At, PhaseInv, PhaseOK, Rotated, Work
      <4>2. QED
        BY <4>1, GenerationRange
    <3>2. Gen(shell[u].mem, shell[u].gen + 1) # 0
      BY <3>1, FirstAndLast, BoundAssumption DEF Key
    <3>3. grants' = GrantToDevices(shell[u].mem, shell[u].gen + 1, shell[u].people)
      BY <1>0, <1>6, <2>3 DEF PostGrants, Done, Idle
    <3>4. QED
      BY <1>0, <2>2, <3>1, <3>2, <3>3 DEF GrantToDevices
  <2>4. CASE shell'[u] = shell[u] /\ ~PostGrants(u)
    <3>1. shell[u].pc = "granted" /\ grants[d][shell[u].gen + 1] # 0
      BY <1>6, <2>2, <2>4 DEF StayedInv
    <3>2. ASSUME NEW s \in Shell, PostGrant(s) \/ PostGrants(s) \/ DropOldGrants(s) PROVE FALSE
      <4>1. Turn(s) /\ shell[s].pc # "granted"
        BY <3>2 DEF PostGrant, PostGrants, DropOldGrants, At, Turn, RotateKey
      <4>2. u # s
        BY <3>1, <4>1
      <4>3. QED
        BY <3>1, <4>1, <4>2, Quiet
    <3>3. ASSUME NEW s \in Shell, NEW c \in Computer,
                 RemoveMember(s, c) \/ DeviceRevoke(s, c) \/ OffboardDevice(s, c)
          PROVE  grants'[d] = grants[d]
      <4>1. c # d /\ grants' = NoGrants(grants, {c})
        BY <2>2, <3>3 DEF RemoveMember, DeviceRevoke, OffboardDevice
      <4>2. QED
        BY <2>2, <4>1 DEF NoGrants
    <3>4. ASSUME NEW c \in Computer, EnrolStore(c) PROVE grants'[d] = grants[d]
      <4>1. c # d /\ grants' = NoGrants(grants, {c})
        BY <2>2, <3>4 DEF EnrolStore
      <4>2. QED
        BY <2>2, <4>1 DEF NoGrants
    <3>5. grants'[d] = grants[d]
      BY <3>2, <3>3, <3>4, Writers DEF WhoWrites
    <3>6. QED
      BY <2>4, <3>1, <3>5
  <2>5. QED
    BY <2>2, <2>3, <2>4
<1>7. QED
  BY <1>5, <1>6 DEF StayedInv

-----------------------------------------------------------------------------
(* The invariant of one terminal, and what follows of it.                  *)

OperatorInv ==
    /\ OneTerminal /\ TypeOK /\ PhaseInv /\ AloneInv /\ BornInv /\ KeptInv
    /\ GenInv /\ SettledInv /\ VerifiedInv /\ OutInv /\ StayedInv

LEMMA OperatorInit == OneTerminal /\ Init => OperatorInv
<1>1. SUFFICES ASSUME OneTerminal, Init PROVE OperatorInv
  OBVIOUS
<1>2. /\ \A s \in Shell : shell[s] = Idle
      /\ \A g \in Generation : tree[g] = {}
      /\ \A d \in Computer : link[d] = NoLink /\ at[d] = 0 /\ outAt[d] = MaxGen /\ got[d] = {}
      /\ \A d \in Computer : \A g \in Generation : grants[d][g] = 0
      /\ disk = EmptyKeys /\ bundle = EmptyKeys /\ born = <<>> /\ settled = {} /\ stayed = {}
      /\ verified = 0 /\ gen = 0
  BY <1>1 DEF Init
<1>3. Idle.pc = "idle" /\ NoLink.gen = 0 /\ NoLink.state = "none" /\ ~(MaxGen < MaxGen)
  BY BoundAssumption DEF Idle, NoLink
<1>4. \A g \in Generation : KeysOf(EmptyKeys, g) = {}
  BY EmptyKeysType, KeysHaveGen
<1>5. AloneInv /\ KeptInv /\ StayedInv
  BY <1>2, <1>3 DEF AloneInv, KeptInv, StayedInv, Asking
<1>6. BornInv
  BY <1>2, <1>3, <1>4 DEF BornInv, Rotated
<1>7. GenInv
  BY <1>2, <1>3 DEF GenInv, Asking
<1>8. SettledInv /\ VerifiedInv
  BY <1>2, <1>3 DEF SettledInv, VerifiedInv
<1>9. OutInv
  BY <1>2, <1>3 DEF OutInv
<1>10. QED
  BY <1>1, <1>5, <1>6, <1>7, <1>8, <1>9, InitPhase DEF OperatorInv

LEMMA OperatorStep == OperatorInv /\ [Next]_vars => OperatorInv'
<1>1. CASE OperatorInv /\ Next
  <2>1. OneTerminal' /\ TypeOK' /\ PhaseInv'
    BY <1>1, NextPhase DEF OperatorInv, OneTerminal
  <2>2. AloneInv' /\ BornInv' /\ KeptInv'
    BY <1>1, AloneStep, BornStep, KeptStep DEF OperatorInv
  <2>3. GenInv' /\ SettledInv' /\ VerifiedInv'
    BY <1>1, GenStep, SettledStep, VerifiedStep DEF OperatorInv
  <2>4. OutInv' /\ StayedInv'
    BY <1>1, OutStep, StayedStep DEF OperatorInv
  <2>5. QED
    BY <2>1, <2>2, <2>3, <2>4 DEF OperatorInv
<1>2. CASE OperatorInv /\ UNCHANGED vars
  <2>1. OneTerminal' /\ TypeOK' /\ PhaseInv'
    BY <1>2, NextPhase DEF OperatorInv, OneTerminal
  <2>2. AloneInv' /\ BornInv' /\ KeptInv' /\ GenInv'
    BY <1>2 DEF OperatorInv, vars, operator, rows, agents, history, AloneInv, BornInv, BornIn,
       KeptInv, GenInv, KeysOf
  <2>3. SettledInv' /\ VerifiedInv' /\ OutInv' /\ StayedInv'
    BY <1>2 DEF OperatorInv, vars, operator, rows, agents, history, SettledInv, OneEach,
       VerifiedInv, HasGen, OutInv, StayedInv
  <2>4. QED
    BY <2>1, <2>2, <2>3 DEF OperatorInv
<1>3. QED
  BY <1>1, <1>2

(* rotateKey and keys recover: what the store held when a re-encryption    *)
(* began is read with the operator's keystore, wherever any number of      *)
(* rotations stopped, while none was tried again after it saved its key.   *)
THEOREM FilesStayReadableAlways == OneTerminal /\ Spec => []FilesStayReadable
<1>1. OperatorInv => FilesStayReadable
  <2>1. SUFFICES ASSUME OperatorInv, gen > 0, ~lost, OneEach, NEW i \in settled
                 PROVE  Reads(KeysOf(disk, gen), i)
    BY DEF FilesStayReadable
  <2>2. gen \in Generation
    BY <2>1, GenerationRange DEF OperatorInv, TypeOK
  <2>3. PICK k \in Key : <<k, i>> \in tree[gen]
    BY <2>1 DEF OperatorInv, SettledInv
  <2>4. k \in DOMAIN born /\ born[k] = gen
    BY <2>1, <2>2, <2>3 DEF OperatorInv, BornInv, BornIn
  <2>5. k \in KeysOf(disk, gen)
    BY <2>1, <2>4 DEF OperatorInv, KeptInv
  <2>6. QED
    BY <2>3, <2>5 DEF Reads
<1>2. QED
  BY <1>1, OperatorInit, OperatorStep, PTL DEF Spec

(* verifyKeys: a bundle found good for the circle's generation brings      *)
(* back, into an empty keystore, a key that reads what was settled.        *)
THEOREM VerifiedBackupsReadAlways == OneTerminal /\ Spec => []VerifiedBackupsRead
<1>1. OperatorInv => VerifiedBackupsRead
  <2>1. SUFFICES ASSUME OperatorInv, gen > 0, verified = gen, OneEach, NEW i \in settled
                 PROVE  Reads(KeysOf(Import(EmptyKeys, bundle), gen), i)
    BY DEF VerifiedBackupsRead
  <2>2. gen \in Generation /\ bundle \in Keystore /\ HasGen(bundle, gen)
    BY <2>1, GenerationRange DEF OperatorInv, TypeOK, VerifiedInv
  <2>3. PICK k \in Key : <<k, i>> \in tree[gen]
    BY <2>1 DEF OperatorInv, SettledInv
  <2>4. Gen(bundle, gen) \in KeysOf(bundle, gen)
    BY <2>2, FirstAndLast
  <2>5. <<k, i>> = <<Gen(bundle, gen), i>>
    BY <2>1, <2>2, <2>3, <2>4, OneKeyOpensAll DEF OperatorInv
  <2>6. KeysOf(Import(EmptyKeys, bundle), gen) = {Gen(bundle, gen)}
    BY <2>2, EmptyKeysType, ImportKeeps
  <2>7. QED
    BY <2>3, <2>5, <2>6 DEF Reads
<1>2. QED
  BY <1>1, OperatorInit, OperatorStep, PTL DEF Spec

(* offboard: after the switch, no key that the one offboarded ever got or  *)
(* was granted opens anything in the circle's tree.                        *)
THEOREM OffboardedHoldNoKeyAlways == OneTerminal /\ Spec => []OffboardedHoldNoKey
<1>1. OperatorInv => OffboardedHoldNoKey
  <2>1. SUFFICES ASSUME OperatorInv, NEW d \in Computer, gen > outAt[d],
                        NEW k \in got[d] \cup {grants[d][gen]}, NEW i \in Item,
                        <<k, i>> \in tree[gen]
                 PROVE  FALSE
    BY DEF OffboardedHoldNoKey
  <2>2. gen \in 0..MaxGen /\ outAt[d] \in 0..MaxGen /\ gen \in Nat /\ outAt[d] \in Nat
    BY <2>1, BoundAssumption DEF OperatorInv, TypeOK
  <2>3. outAt[d] < MaxGen /\ gen # 0
    BY <2>1, <2>2, BoundAssumption
  <2>4. gen \in Generation
    BY <2>2, <2>3, GenerationRange
  <2>5. k \in DOMAIN born /\ born[k] = gen
    BY <2>1, <2>4 DEF OperatorInv, BornInv, BornIn
  <2>6. CASE k \in got[d]
    <3>1. born[k] <= outAt[d]
      BY <2>1, <2>3, <2>6 DEF OperatorInv, OutInv
    <3>2. QED
      BY <2>1, <2>2, <2>5, <3>1
  <2>7. CASE k = grants[d][gen]
    <3>1. k = 0
      BY <2>1, <2>3, <2>4, <2>7 DEF OperatorInv, OutInv
    <3>2. k \in Key
      BY <2>1, <2>4 DEF OperatorInv, TypeOK
    <3>3. QED
      BY <3>1, <3>2 DEF Key
  <2>8. QED
    BY <2>1, <2>6, <2>7
<1>2. QED
  BY <1>1, OperatorInit, OperatorStep, PTL DEF Spec

(* rotateKey: when the generation changes, every computer in the circle    *)
(* since the rotation began has its grant of the new one.                  *)
THEOREM NobodyIsLeftOutEver == OneTerminal /\ Spec => NobodyIsLeftOut
<1>1. OperatorInv /\ [Next]_vars =>
         [gen > 0 /\ gen' > gen => \A d \in stayed : grants[d][gen'] # 0]_vars
  <2>1. SUFFICES ASSUME OperatorInv, Next, gen > 0, gen' > gen, NEW d \in stayed
                 PROVE  grants[d][gen'] # 0
    OBVIOUS
  <2>2. gen' # gen /\ gen # 0
    BY <2>1 DEF OperatorInv, TypeOK
  <2>3. PICK s \in Shell : SetGeneration(s) /\ gen' = shell[s].gen + 1
    BY <2>1, <2>2, GenStep DEF OperatorInv
  <2>4. QED
    BY <2>1, <2>3 DEF SetGeneration, At, OperatorInv, StayedInv
<1>2. QED
  BY <1>1, OperatorInit, OperatorStep, PTL DEF Spec, NobodyIsLeftOut

=============================================================================
