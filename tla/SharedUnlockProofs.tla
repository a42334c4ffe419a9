------------------------- MODULE SharedUnlockProofs -------------------------
(***************************************************************************)
(* Proofs about SharedUnlock: its types, that no date is invented, that    *)
(* the records of the devices implement LockRegister, that only what is    *)
(* shared is sent, and that no process locks itself again and again.       *)
(***************************************************************************)
EXTENDS SharedUnlock, TLAPS

Inv == TypeOK /\ Provenance

(* The type of a receive task that is under way. *)
LEMMA RxFields ==
    ASSUME TypeOK, NEW p \in Peers
    PROVE  /\ rx[p] \in RxTask
           /\ rx[p].pc # "idle" =>
                /\ rx[p] \in [pc : RxPc, from : Peers, user : Users,
                              state : TimestampedLockState, first : BOOLEAN]
                /\ rx[p].from \in Peers /\ rx[p].user \in Users
                /\ rx[p].state \in TimestampedLockState
BY DEF TypeOK, RxTask, RxIdle

LEMMA RxIdleType == RxIdle \in RxTask /\ RxIdle.pc = "idle"
BY DEF RxIdle, RxTask

(* Moving to another await keeps the rest of the task. *)
LEMMA RxGotoUpdates ==
    ASSUME TypeOK, NEW p \in Peers, NEW pc \in RxPc, rx[p].pc # "idle", RxGoto(p, pc)
    PROVE  /\ rx' \in [Peers -> RxTask]
           /\ rx'[p].pc = pc /\ rx'[p].user = rx[p].user
           /\ rx'[p].state = rx[p].state
           /\ \A q \in Peers \ {p} : rx'[q] = rx[q]
<1>. DEFINE t == [rx[p] EXCEPT !.pc = pc]
<1>1. /\ t \in RxTask /\ t.pc = pc /\ t.user = rx[p].user /\ t.state = rx[p].state
  BY RxFields DEF RxTask
<1>2. rx \in [Peers -> RxTask] /\ rx' = [rx EXCEPT ![p] = t]
  BY DEF TypeOK, RxGoto
<1>. HIDE DEF t
<1>. QED  BY <1>1, <1>2

(* Replacing the task of one peer. *)
LEMMA RxSetUpdates ==
    ASSUME TypeOK, NEW p \in Peers, NEW t \in RxTask, rx' = [rx EXCEPT ![p] = t]
    PROVE  /\ rx' \in [Peers -> RxTask] /\ rx'[p] = t
           /\ \A q \in Peers \ {p} : rx'[q] = rx[q]
BY DEF TypeOK

LEMMA RxDoneType ==
    ASSUME NEW t \in RxTask, t.pc # "idle"
    PROVE  RxDone(t) \in RxTask /\ RxDone(t).pc \in {"idle", "reply"}
<1>1. CASE t.first
  BY <1>1 DEF RxDone, RxTask, RxPc, RxIdle
<1>2. CASE ~t.first
  BY <1>2, RxIdleType DEF RxDone
<1>. QED  BY <1>1, <1>2

-----------------------------------------------------------------------------
(* Restoring and sending *)

LEMMA RestoredMade ==
    ASSUME Inv, NEW p \in Peers, NEW u \in Users
    PROVE  /\ Restored(p, u) \in TimestampedLockState \cup {None}
           /\ Restored(p, u) # None => Restored(p, u) \in made[u]
           /\ Restored(p, u) # states[p][u] =>
                /\ states[p][u] = None /\ Restored(p, u) # None
                /\ Restored(p, u) \in TimestampedLockState /\ Restored(p, u).at > 0
<1>1. CASE states[p][u] = None /\ persisted[p][u] # None
  <2>. DEFINE s == [lock |-> "Locked", at |-> persisted[p][u]]
  <2>1. Restored(p, u) = s
    BY <1>1 DEF Restored
  <2>2. persisted[p][u] \in Nat
    BY <1>1 DEF Inv, TypeOK
  <2>3. s \in TimestampedLockState
    BY <2>2 DEF TimestampedLockState, LockState
  <2>4. s \in made[u] /\ s.at > 0
    BY <1>1 DEF Inv, Provenance
  <2>5. s # None
    BY <2>3, NoneIsNoLockState
  <2>. HIDE DEF s
  <2>. QED  BY <2>1, <2>3, <2>4, <2>5, <1>1
<1>2. CASE ~(states[p][u] = None /\ persisted[p][u] # None)
  BY <1>2 DEF Restored, Inv, TypeOK, Provenance
<1>. QED  BY <1>1, <1>2

(* The register is stated with the definitions of the protocol. *)
LEMMA SameOrder ==
    /\ Register!TimestampedLockState = TimestampedLockState
    /\ \A s, r : Register!Supersedes(s, r) <=> Supersedes(s, r)
    /\ \A r : Register!DateOf(r) = DateOf(r)
BY DEF Register!TimestampedLockState, Register!LockState, TimestampedLockState,
       LockState, Register!Supersedes, Supersedes, Register!DateOf, DateOf

(* Recording what was restored is a step of the register. *)
LEMMA RestoreAdopts ==
    ASSUME Inv, NEW p \in Peers, NEW us \in SUBSET Users,
           RestoreAll(p, us), UNCHANGED made
    PROVE  /\ states' \in [Peers -> [Users -> TimestampedLockState \cup {None}]]
           /\ \A q \in Peers, u \in Users :
                states'[q][u] # None => states'[q][u] \in made[u]
           /\ Register!Adopt(p)
<1>. DEFINE new == [u \in Users |-> IF u \in us THEN Restored(p, u) ELSE states[p][u]]
<1>1. states \in [Peers -> [Users -> TimestampedLockState \cup {None}]]
  BY DEF Inv, TypeOK
<1>2. states' = [states EXCEPT ![p] = new]
  BY <1>1 DEF RestoreAll
<1>3. new \in [Users -> TimestampedLockState \cup {None}]
  BY <1>1, RestoredMade
<1>4. \A u \in Users : new[u] = states[p][u] \/ new[u] = Restored(p, u)
  OBVIOUS
<1>. HIDE DEF new
<1>5. /\ states' \in [Peers -> [Users -> TimestampedLockState \cup {None}]]
      /\ states'[p] = new /\ \A q \in Peers \ {p} : states'[q] = states[q]
  BY <1>1, <1>2, <1>3
<1>6. \A q \in Peers, u \in Users :
         states'[q][u] # None => states'[q][u] \in made[u]
  <2>. SUFFICES ASSUME NEW q \in Peers, NEW u \in Users, states'[q][u] # None
                PROVE  states'[q][u] \in made[u]
    OBVIOUS
  <2>1. states[q][u] # None => states[q][u] \in made[u]
    BY DEF Inv, Provenance
  <2>2. CASE states'[q][u] = states[q][u]
    BY <2>1, <2>2
  <2>3. CASE states'[q][u] = Restored(p, u) /\ q = p
    BY <2>3, RestoredMade
  <2>. QED  BY <2>2, <2>3, <1>4, <1>5
<1>7. ASSUME NEW u \in Users, new[u] # states[p][u]
      PROVE  new[u] \in made[u] /\ Supersedes(new[u], states[p][u])
  <2>1. /\ new[u] = Restored(p, u) /\ states[p][u] = None
        /\ new[u] \in made[u] /\ new[u] \in TimestampedLockState /\ new[u].at > 0
    BY <1>4, <1>7, RestoredMade
  <2>. QED  BY <2>1 DEF Supersedes, DateOf
<1>8. Register!Adopt(p)
  BY <1>5, <1>7, SameOrder DEF Register!Adopt
<1>. QED  BY <1>5, <1>6, <1>8

LEMMA AdvertisedMade ==
    ASSUME Inv, NEW p \in Peers, NEW u \in Users
    PROVE  /\ Advertised(p, u) \in TimestampedLockState
           /\ Advertised(p, u) \in made[u] \cup {Default}
<1>1. Default \in TimestampedLockState
  BY DEF Default, TimestampedLockState, LockState
<1>. QED  BY <1>1, RestoredMade DEF Advertised

LEMMA DefaultType == Default \in TimestampedLockState
BY DEF Default, TimestampedLockState, LockState

(* The steps of a sync replace it by a later one, or end it. *)
LEMMA BeginUpdates ==
    ASSUME TypeOK, NEW p \in Peers, NEW w \in Sync, Begin(p, w)
    PROVE  /\ syncs' \in [Peers -> SUBSET Sync]
           /\ \A q \in Peers \ {p} : syncs'[q] = syncs[q]
           /\ \A x \in syncs'[p] : x \in syncs[p] \/ x = w
BY DEF TypeOK, Begin, Unless

LEMMA ContinueUpdates ==
    ASSUME TypeOK, NEW p \in Peers, NEW w, NEW v \in Sync, Continue(p, w, v)
    PROVE  /\ syncs' \in [Peers -> SUBSET Sync]
           /\ \A q \in Peers \ {p} : syncs'[q] = syncs[q]
           /\ \A x \in syncs'[p] : x \in syncs[p] \/ x = v
BY DEF TypeOK, Continue, Unless

LEMMA SyncTargetsType ==
    ASSUME NEW p \in Peers, NEW known \in SUBSET Peers
    PROVE  SyncTargets(p, known) \in SUBSET SyncTarget
<1>1. Leader[p] \in Peers \cup {None}
  BY ConfigAssumption
<1>. QED  BY <1>1 DEF SyncTargets, SyncTarget

LEMMA NewSyncType ==
    ASSUME NEW by \in Tasks, NEW at \in Nat, NEW u \in Users, NEW us \in SUBSET Users,
           NEW targets \in SUBSET SyncTarget, NEW only \in SyncTarget \cup {None},
           NEW relay \in TimestampedLockState \cup {None}
    PROVE  LET w == NewSync(by, at, u, us, targets, only, relay)
           IN  /\ w \in Sync /\ w.user = u /\ w.users = us /\ w.relay = relay
               /\ w.to = None /\ w.targets = targets /\ w.only = only
BY DEF NewSync, Sync

-----------------------------------------------------------------------------
(* Every step keeps the invariant and is a step of the register. *)

(* The parts of Provenance that depend on one variable each. *)
StatesMade ==
    \A p \in Peers, u \in Users : states[p][u] # None => states[p][u] \in made[u]
PersistedMade ==
    \A p \in Peers, u \in Users : persisted[p][u] # None =>
        [lock |-> "Locked", at |-> persisted[p][u]] \in made[u]
RxMade(p) ==
    rx[p].pc \notin {"idle", "reply"} =>
         /\ rx[p].state \in made[rx[p].user]
         /\ rx[p].pc = "persist" => rx[p].state.lock = "Locked"
DevMade ==
    \A p \in Peers : \A t \in dev[p] : [lock |-> "Locked", at |-> t.at] \in made[t.user]
SyncMade(w) ==
    /\ w.relay # None => w.users = {} /\ w.relay \in made[w.user]
    /\ w.to # None => w.msg \in made[w.user] \cup {Default}
SyncsMade == \A p \in Peers : \A w \in syncs[p] : SyncMade(w)
NetMade ==
    \A p, q \in Peers, u \in Users : net[p][q][u] \in Seq(made[u] \cup {Default})

Good == Inv' /\ [Register!RegNext]_<<states, made>>

(* A step that leaves records and history alone is a stutter of the register. *)
LEMMA Stutters == UNCHANGED <<states, made>> => [Register!RegNext]_<<states, made>>
OBVIOUS

LEMMA Adopts ==
    ASSUME NEW p \in Peers, Register!Adopt(p)
    PROVE  [Register!RegNext]_<<states, made>>
BY DEF Register!RegNext

LEMMA NextDateGrows ==
    ASSUME Inv, NEW p \in Peers, NEW u \in Users
    PROVE  /\ NextDate(p, u) \in Nat /\ NextDate(p, u) > 0
           /\ NextDate(p, u) > DateOf(states[p][u])
<1>1. now \in Nat /\ now > 0
  BY DEF Inv, TypeOK
<1>2. CASE states[p][u] = None
  BY <1>1, <1>2 DEF NextDate, DateOf
<1>3. CASE states[p][u] # None
  <2>1. states[p][u].at \in Nat
    BY <1>3 DEF Inv, TypeOK, TimestampedLockState
  <2>. QED  BY <2>1, <1>1, <1>3 DEF NextDate, DateOf
<1>. QED  BY <1>2, <1>3

LEMMA ProvenanceParts ==
    Provenance <=> /\ \A u \in Users : \A s \in made[u] : s.at > 0
                   /\ StatesMade /\ PersistedMade /\ (\A p \in Peers : RxMade(p))
                   /\ DevMade /\ SyncsMade /\ NetMade
BY DEF Provenance, StatesMade, PersistedMade, RxMade, DevMade, SyncsMade, SyncMade, NetMade

(* With the history unchanged, the parts of the new state suffice. *)
LEMMA InvFromParts ==
    ASSUME Inv, UNCHANGED made, TypeOK',
           StatesMade', PersistedMade', \A p \in Peers : RxMade(p)', DevMade',
           SyncsMade', NetMade'
    PROVE  Inv'
<1>1. \A u \in Users : \A s \in made'[u] : s.at > 0
  BY DEF Inv, Provenance
<1>. QED  BY <1>1, ProvenanceParts DEF Inv, Provenance, StatesMade, PersistedMade,
             RxMade, DevMade, SyncsMade, SyncMade, NetMade, Default

LEMMA Unchanged ==
    ASSUME Inv, UNCHANGED made
    PROVE  /\ UNCHANGED states => StatesMade'
           /\ UNCHANGED persisted => PersistedMade'
           /\ \A p \in Peers : rx'[p] = rx[p] => RxMade(p)'
           /\ UNCHANGED rx => \A p \in Peers : RxMade(p)'
           /\ UNCHANGED dev => DevMade'
           /\ UNCHANGED syncs => SyncsMade'
           /\ UNCHANGED net => NetMade'
BY DEF Inv, Provenance, StatesMade, PersistedMade, RxMade, DevMade, SyncsMade, SyncMade,
       NetMade, Default

(* A sync that begins or goes on has an entered state, or none yet. *)
LEMMA SyncsMadeBy ==
    ASSUME Inv, \A u \in Users : made[u] \subseteq made'[u], NEW p \in Peers,
           NEW v \in Sync, SyncMade(v), \A q \in Peers \ {p} : syncs'[q] = syncs[q],
           \A x \in syncs'[p] : x \in syncs[p] \/ x = v
    PROVE  SyncsMade'
<1>1. ASSUME NEW q \in Peers, NEW x \in syncs'[q]
      PROVE  SyncMade(x) /\ x.user \in Users
  <2>1. x \in syncs[q] \/ x = v
    BY <1>1
  <2>2. x \in syncs[q] => SyncMade(x)
    BY DEF Inv, Provenance, SyncMade
  <2>3. x \in Sync
    BY <2>1 DEF Inv, TypeOK
  <2>. QED  BY <2>1, <2>2, <2>3 DEF Sync
<1>. QED  BY <1>1 DEF SyncsMade, SyncMade, Default

(* The sync of one user that a device event or the relay begins. *)
LEMMA BeginOneGood ==
    ASSUME Inv, \A u \in Users : made[u] \subseteq made'[u], NEW p \in Peers,
           NEW by \in Tasks, NEW at \in Nat, NEW u \in Users,
           NEW relay \in TimestampedLockState \cup {None},
           relay # None => relay \in made[u], BeginOne(p, by, at, u, relay)
    PROVE  syncs' \in [Peers -> SUBSET Sync] /\ SyncsMade'
<1>. DEFINE w == NewSync(by, at, u, {}, SyncTargets(p, active[p]), None, relay)
<1>0. TypeOK /\ active[p] \in SUBSET Peers
  BY DEF Inv, TypeOK
<1>1. w \in Sync /\ w.user = u /\ w.users = {} /\ w.relay = relay /\ w.to = None
  BY <1>0, SyncTargetsType, NewSyncType
<1>2. Begin(p, w)
  BY DEF BeginOne
<1>. HIDE DEF w
<1>3. SyncMade(w)
  BY <1>1 DEF SyncMade
<1>. QED  BY <1>0, <1>1, <1>2, <1>3, BeginUpdates, SyncsMadeBy

(* The sync of all users that a tick or an introductory answer begins. *)
LEMMA BeginAllGood ==
    ASSUME Inv, \A u \in Users : made[u] \subseteq made'[u], NEW p \in Peers,
           NEW by \in Tasks, NEW targets \in SUBSET SyncTarget, NEW only \in SyncTarget \cup {None},
           BeginAll(p, by, targets, only)
    PROVE  syncs' \in [Peers -> SUBSET Sync] /\ SyncsMade'
<1>1. PICK u \in Accounts[p] :
        Begin(p, NewSync(by, 0, u, Accounts[p] \ {u}, targets, only, None))
  BY DEF BeginAll
<1>2. Accounts[p] \in SUBSET Users /\ u \in Users /\ TypeOK
  BY <1>1, ConfigAssumption DEF Inv
<1>. DEFINE w == NewSync(by, 0, u, Accounts[p] \ {u}, targets, only, None)
<1>3. w \in Sync /\ w.relay = None /\ w.to = None
  BY <1>2, NewSyncType
<1>4. Begin(p, w)
  BY <1>1
<1>. HIDE DEF w
<1>5. SyncMade(w)
  BY <1>3 DEF SyncMade
<1>. QED  BY <1>2, <1>3, <1>4, <1>5, BeginUpdates, SyncsMadeBy

LEMMA DeviceEventGood ==
    ASSUME Inv, NEW p \in Peers, NEW u \in Users, NEW lock \in LockState,
           DeviceEvent(p, u, lock)
    PROVE  Good
<1>. DEFINE at == NextDate(p, u)
            s == [lock |-> lock, at |-> at]
            t == [user |-> u, at |-> at]
<1>1. /\ s \in TimestampedLockState /\ s.at > 0 /\ s.at > DateOf(states[p][u])
      /\ s.lock = lock /\ s.at = at /\ at \in Nat
  BY NextDateGrows DEF TimestampedLockState
<1>2. t \in DevTask /\ t.user = u /\ t.at = at
  <2>. HIDE DEF s, at
  <2>. QED  BY <1>1 DEF DevTask
<1>2a. lock = "Locked" => s = [lock |-> "Locked", at |-> t.at]
  OBVIOUS
<1>3. /\ states' = [states EXCEPT ![p][u] = s]
      /\ made' = [made EXCEPT ![u] = @ \cup {s}]
      /\ AfterRecord(p, u, lock, at)
  BY DEF DeviceEvent
<1>3a. \/ /\ lock = "Locked" /\ dev' = [dev EXCEPT ![p] = @ \cup {t}] /\ UNCHANGED syncs
      \/ /\ BeginOne(p, "dev", at, u, None) /\ UNCHANGED dev
  BY <1>3 DEF AfterRecord
<1>. HIDE DEF s, t, at
<1>4. /\ \A v \in Users : made[v] \subseteq made'[v]
      /\ s \in made'[u]
      /\ \A v \in Users : \A x \in made'[v] : x \in made[v] \/ (v = u /\ x = s)
      /\ made' \in [Users -> SUBSET TimestampedLockState]
  BY <1>1, <1>3 DEF Inv, TypeOK
<1>5. /\ states' \in [Peers -> [Users -> TimestampedLockState \cup {None}]]
      /\ states'[p][u] = s
      /\ \A q \in Peers, v \in Users : states'[q][v] = states[q][v] \/ (q = p /\ v = u)
  BY <1>1, <1>3 DEF Inv, TypeOK
<1>6. /\ dev' \in [Peers -> SUBSET DevTask]
      /\ \A q \in Peers : \A x \in dev'[q] :
           x \in dev[q] \/ (x = t /\ lock = "Locked")
  <2>1. dev \in [Peers -> SUBSET DevTask]
    BY DEF Inv, TypeOK
  <2>. QED  BY <2>1, <1>2, <1>3a
<1>6a. syncs' \in [Peers -> SUBSET Sync] /\ SyncsMade'
  <2>1. CASE BeginOne(p, "dev", at, u, None)
    BY <2>1, <1>1, <1>4, BeginOneGood DEF Tasks
  <2>2. CASE UNCHANGED syncs
    BY <2>2, <1>4 DEF Inv, TypeOK, Provenance, SyncsMade, SyncMade, Sync, Default
  <2>. QED  BY <2>1, <2>2, <1>3a
<1>7. TypeOK'
  <2>1. vault' \in [Peers -> [Users -> LockState]]
    BY DEF DeviceEvent, Inv, TypeOK
  <2>. QED  BY <1>4, <1>5, <1>6, <1>6a, <2>1 DEF DeviceEvent, Inv, TypeOK
<1>8. Provenance'
  <2>1. \A v \in Users : \A x \in made'[v] : x.at > 0
    BY <1>1, <1>4 DEF Inv, Provenance
  <2>2. \A q \in Peers, v \in Users : states'[q][v] # None => states'[q][v] \in made'[v]
    <3>. SUFFICES ASSUME NEW q \in Peers, NEW v \in Users, states'[q][v] # None
                  PROVE  states'[q][v] \in made'[v]
      OBVIOUS
    <3>1. states[q][v] # None => states[q][v] \in made[v]
      BY DEF Inv, Provenance
    <3>. QED  BY <3>1, <1>4, <1>5
  <2>3. \A q \in Peers, v \in Users : persisted'[q][v] # None =>
           [lock |-> "Locked", at |-> persisted'[q][v]] \in made'[v]
    BY <1>4 DEF DeviceEvent, Inv, Provenance
  <2>4. \A q \in Peers : rx'[q].pc \notin {"idle", "reply"} =>
           /\ rx'[q].state \in made'[rx'[q].user]
           /\ rx'[q].pc = "persist" => rx'[q].state.lock = "Locked"
    <3>. SUFFICES ASSUME NEW q \in Peers, rx[q].pc \notin {"idle", "reply"}
                  PROVE  /\ rx[q].state \in made'[rx[q].user]
                         /\ rx[q].pc = "persist" => rx[q].state.lock = "Locked"
      BY DEF DeviceEvent
    <3>1. rx[q].user \in Users
      BY RxFields DEF Inv
    <3>. QED  BY <3>1, <1>4 DEF Inv, Provenance
  <2>5. \A q \in Peers : \A x \in dev'[q] : [lock |-> "Locked", at |-> x.at] \in made'[x.user]
    <3>. SUFFICES ASSUME NEW q \in Peers, NEW x \in dev'[q]
                  PROVE  [lock |-> "Locked", at |-> x.at] \in made'[x.user]
      OBVIOUS
    <3>1. CASE x \in dev[q]
      <4>1. x.user \in Users
        BY <3>1 DEF Inv, TypeOK, DevTask
      <4>. QED  BY <3>1, <4>1, <1>4 DEF Inv, Provenance
    <3>2. CASE x = t /\ lock = "Locked"
      BY <3>2, <1>2, <1>2a, <1>4
    <3>. QED  BY <3>1, <3>2, <1>6
  <2>6. \A q, r \in Peers, v \in Users : net'[q][r][v] \in Seq(made'[v] \cup {Default})
    <3>. SUFFICES ASSUME NEW q \in Peers, NEW r \in Peers, NEW v \in Users
                  PROVE  net'[q][r][v] \in Seq(made'[v] \cup {Default})
      OBVIOUS
    <3>1. net'[q][r][v] \in Seq(made[v] \cup {Default})
      BY DEF DeviceEvent, Inv, Provenance
    <3>. QED  BY <3>1, <1>4
  <2>. QED  BY <2>1, <2>2, <2>3, <2>4, <2>5, <2>6, <1>6a DEF Provenance, SyncsMade, SyncMade, Default
<1>9. Register!Make(p, u)
  BY <1>1, <1>3, <1>5, SameOrder DEF Register!Make
<1>. QED  BY <1>7, <1>8, <1>9 DEF Good, Inv, Register!RegNext

(* A peer whose task ended, or stays in the await of another state. *)
LEMMA RxEnds ==
    ASSUME Inv, UNCHANGED made, NEW p \in Peers, NEW t \in RxTask,
           t.pc \in {"idle", "reply"}, rx' = [rx EXCEPT ![p] = t]
    PROVE  rx' \in [Peers -> RxTask] /\ \A q \in Peers : RxMade(q)'
<1>1. /\ rx' \in [Peers -> RxTask] /\ rx'[p] = t
      /\ \A q \in Peers \ {p} : rx'[q] = rx[q]
  BY RxSetUpdates DEF Inv
<1>2. RxMade(p)'
  BY <1>1 DEF RxMade
<1>3. \A q \in Peers \ {p} : RxMade(q)'
  BY <1>1, Unchanged
<1>. QED  BY <1>1, <1>2, <1>3

LEMMA RxMoves ==
    ASSUME Inv, UNCHANGED made, NEW p \in Peers, NEW pc \in RxPc \ {"persist"},
           rx[p].pc \notin {"idle", "reply"}, RxGoto(p, pc)
    PROVE  rx' \in [Peers -> RxTask] /\ \A q \in Peers : RxMade(q)'
<1>1. /\ rx' \in [Peers -> RxTask]
      /\ rx'[p].pc = pc /\ rx'[p].user = rx[p].user /\ rx'[p].state = rx[p].state
      /\ \A q \in Peers \ {p} : rx'[q] = rx[q]
  BY RxGotoUpdates DEF Inv
<1>2. RxMade(p)'
  BY <1>1 DEF RxMade, Inv, Provenance
<1>3. \A q \in Peers \ {p} : RxMade(q)'
  BY <1>1, Unchanged
<1>. QED  BY <1>1, <1>2, <1>3

LEMMA DevicePersistGood ==
    ASSUME Inv, NEW p \in Peers, NEW t \in dev[p], DevicePersist(p, t)
    PROVE  Good
<1>1. /\ t \in DevTask /\ t.user \in Users /\ t.at \in Nat
      /\ [lock |-> "Locked", at |-> t.at] \in made[t.user]
  BY DEF Inv, TypeOK, Provenance, DevTask
<1>2. /\ persisted' = [persisted EXCEPT ![p][t.user] = t.at]
      /\ dev' = [dev EXCEPT ![p] = @ \ {t}]
      /\ BeginOne(p, "dev", t.at, t.user, None)
      /\ UNCHANGED <<states, vault, destinations, active, rx, net, now, counters, made>>
  BY DEF DevicePersist
<1>3. syncs' \in [Peers -> SUBSET Sync] /\ SyncsMade'
  BY <1>1, <1>2, BeginOneGood DEF Tasks
<1>4. TypeOK'
  BY <1>1, <1>2, <1>3 DEF Inv, TypeOK, counters
<1>5. PersistedMade'
  <2>1. \A q \in Peers, u \in Users :
           \/ persisted'[q][u] = persisted[q][u]
           \/ q = p /\ u = t.user /\ persisted'[q][u] = t.at
    BY <1>1, <1>2 DEF Inv, TypeOK
  <2>2. \A q \in Peers, u \in Users : persisted[q][u] # None =>
           [lock |-> "Locked", at |-> persisted[q][u]] \in made[u]
    BY DEF Inv, Provenance
  <2>. QED  BY <2>1, <2>2, <1>1, <1>2 DEF PersistedMade
<1>6. DevMade'
  <2>1. \A q \in Peers : dev'[q] \subseteq dev[q]
    BY <1>2 DEF Inv, TypeOK
  <2>. QED  BY <2>1, <1>2 DEF DevMade, Inv, Provenance
<1>. QED  BY <1>2, <1>3, <1>4, <1>5, <1>6, Unchanged, InvFromParts, Stutters DEF Good

(* Taking the next user of a sync. *)
LEMMA SyncUserGood ==
    ASSUME Inv, NEW p \in Peers, NEW w \in syncs[p], SyncUser(p, w)
    PROVE  Good
<1>1. w \in Sync /\ SyncMade(w)
  BY DEF Inv, TypeOK, Provenance, SyncMade
<1>. DEFINE ts == IF w.only = None THEN SyncTargets(p, active[p]) ELSE {w.only}
<1>2. PICK u \in w.users :
        Continue(p, w, [w EXCEPT !.users = @ \ {u}, !.user = u, !.targets = ts])
  BY DEF SyncUser
<1>3. ts \in SUBSET SyncTarget
  BY <1>1, SyncTargetsType DEF Inv, TypeOK, Sync
<1>. HIDE DEF ts
<1>. DEFINE v == [w EXCEPT !.users = @ \ {u}, !.user = u, !.targets = ts]
<1>4. v \in Sync /\ v.relay = w.relay /\ v.to = w.to
  BY <1>1, <1>2, <1>3 DEF Sync
<1>5. Continue(p, w, v)
  BY <1>2
<1>. HIDE DEF v
<1>6. w.to = None /\ w.relay = None
  BY <1>1, <1>2 DEF SyncUser, SyncMade
<1>7. SyncMade(v)
  BY <1>4, <1>6 DEF SyncMade
<1>8. UNCHANGED <<states, persisted, vault, destinations, active, rx, dev, net, now,
                  counters, made>>
  BY DEF SyncUser
<1>9. syncs' \in [Peers -> SUBSET Sync] /\ SyncsMade'
  BY <1>4, <1>5, <1>7, <1>8, ContinueUpdates, SyncsMadeBy DEF Inv
<1>10. TypeOK'
  BY <1>8, <1>9 DEF Inv, TypeOK, counters
<1>. QED  BY <1>8, <1>9, <1>10, Unchanged, InvFromParts, Stutters DEF Good

(* Checking the next target: the sync is refused, or gets its state. *)
LEMMA SyncCheckGood ==
    ASSUME Inv, NEW p \in Peers, NEW w \in syncs[p], SyncCheck(p, w)
    PROVE  Good
<1>0. /\ w \in Sync /\ SyncMade(w) /\ w.to = None /\ w.user \in Users
      /\ UNCHANGED <<persisted, vault, destinations, active, rx, dev, net, now,
                     counters, made>>
  BY DEF Inv, TypeOK, Provenance, SyncMade, Sync, SyncCheck
<1>1. PICK t \in w.targets :
        LET v == [w EXCEPT !.targets = @ \ {t}]
            to == [v EXCEPT !.to = t.endpoint]
        IN  \/ /\ Continue(p, w, [to EXCEPT !.msg = Advertised(p, w.user)])
               /\ RestoreAll(p, {w.user}) /\ w.relay = None
            \/ /\ Continue(p, w, [to EXCEPT !.msg = w.relay])
               /\ UNCHANGED states /\ w.relay # None
            \/ Continue(p, w, v) /\ UNCHANGED states
  BY DEF SyncCheck
<1>2. t \in SyncTarget /\ t.endpoint \in Peers
  BY <1>0 DEF Sync, SyncTarget, SyncTargetOf, WithoutOrigin
<1>. DEFINE v == [w EXCEPT !.targets = @ \ {t}]
            Msg(m) == [[v EXCEPT !.to = t.endpoint] EXCEPT !.msg = m]
<1>3. ASSUME NEW m \in TimestampedLockState, m \in made[w.user] \cup {Default}
      PROVE  Msg(m) \in Sync /\ SyncMade(Msg(m))
  <2>1. Msg(m) \in Sync
    BY <1>0, <1>2 DEF Sync
  <2>2. /\ Msg(m).relay = w.relay /\ Msg(m).users = w.users /\ Msg(m).user = w.user
        /\ Msg(m).msg = m
    BY <1>0 DEF Sync
  <2>. QED  BY <2>1, <2>2, <1>0, <1>3 DEF SyncMade
<1>4. v \in Sync /\ SyncMade(v)
  <2>1. /\ v \in Sync /\ v.relay = w.relay /\ v.users = w.users /\ v.user = w.user
        /\ v.to = w.to
    BY <1>0 DEF Sync
  <2>. QED  BY <2>1, <1>0 DEF SyncMade
<1>5. \/ /\ Continue(p, w, Msg(Advertised(p, w.user))) /\ RestoreAll(p, {w.user})
      \/ /\ Continue(p, w, Msg(w.relay)) /\ UNCHANGED states /\ w.relay # None
      \/ Continue(p, w, v) /\ UNCHANGED states
  BY <1>1
<1>. HIDE DEF v, Msg
<1>6. /\ UNCHANGED states \/ RestoreAll(p, {w.user})
      /\ \E x \in Sync : SyncMade(x) /\ Continue(p, w, x)
  <2>1. CASE Continue(p, w, Msg(Advertised(p, w.user))) /\ RestoreAll(p, {w.user})
    BY <2>1, <1>0, <1>3, AdvertisedMade
  <2>2. CASE Continue(p, w, Msg(w.relay)) /\ UNCHANGED states /\ w.relay # None
    <3>1. w.relay \in TimestampedLockState /\ w.relay \in made[w.user]
      BY <2>2, <1>0 DEF Sync, SyncMade
    <3>. QED  BY <2>2, <3>1, <1>3
  <2>3. CASE Continue(p, w, v) /\ UNCHANGED states
    BY <2>3, <1>4
  <2>. QED  BY <1>5, <2>1, <2>2, <2>3
<1>7. syncs' \in [Peers -> SUBSET Sync] /\ SyncsMade'
  BY <1>0, <1>6, ContinueUpdates, SyncsMadeBy DEF Inv
<1>8. /\ states' \in [Peers -> [Users -> TimestampedLockState \cup {None}]]
      /\ StatesMade' /\ [Register!RegNext]_<<states, made>>
  <2>1. CASE UNCHANGED states
    BY <2>1, <1>0, Unchanged, Stutters DEF Inv, TypeOK
  <2>2. CASE RestoreAll(p, {w.user})
    BY <2>2, <1>0, RestoreAdopts, Adopts DEF StatesMade
  <2>. QED  BY <1>6, <2>1, <2>2
<1>9. TypeOK'
  BY <1>0, <1>7, <1>8 DEF Inv, TypeOK, counters
<1>. QED  BY <1>0, <1>7, <1>8, <1>9, Unchanged, InvFromParts DEF Good

LEMMA SyncSendGood ==
    ASSUME Inv, NEW p \in Peers, NEW w \in syncs[p], SyncSend(p, w)
    PROVE  Good
<1>. DEFINE v == [w EXCEPT !.to = None, !.msg = None, !.late = FALSE]
<1>1. /\ w \in Sync /\ SyncMade(w) /\ w.user \in Users /\ w.to \in Peers
      /\ w.msg \in made[w.user] \cup {Default}
  BY DEF Inv, TypeOK, Provenance, SyncMade, Sync, SyncSend
<1>2. w.msg \in TimestampedLockState
  BY <1>1, DefaultType DEF Inv, TypeOK
<1>3. v \in Sync /\ SyncMade(v)
  <2>1. /\ v \in Sync /\ v.relay = w.relay /\ v.users = w.users /\ v.user = w.user
        /\ v.to = None
    BY <1>1 DEF Sync
  <2>. QED  BY <2>1, <1>1 DEF SyncMade
<1>4. /\ net' = [net EXCEPT ![p][w.to][w.user] = Append(@, w.msg)]
      /\ Continue(p, w, v)
      /\ UNCHANGED <<states, persisted, vault, destinations, active, rx, dev, now,
                     counters, made>>
  BY DEF SyncSend
<1>. HIDE DEF v
<1>5. syncs' \in [Peers -> SUBSET Sync] /\ SyncsMade'
  BY <1>3, <1>4, ContinueUpdates, SyncsMadeBy DEF Inv
<1>. DEFINE ch == net[p][w.to][w.user]
<1>6. /\ net \in [Peers -> [Peers -> [Users -> Seq(TimestampedLockState)]]]
      /\ ch \in Seq(TimestampedLockState)
      /\ \A r, s \in Peers, u \in Users : net[r][s][u] \in Seq(made[u] \cup {Default})
  <2>1. net \in [Peers -> [Peers -> [Users -> Seq(TimestampedLockState)]]]
    BY DEF Inv, TypeOK
  <2>2. \A r, s \in Peers, u \in Users : net[r][s][u] \in Seq(made[u] \cup {Default})
    BY DEF Inv, Provenance
  <2>3. ASSUME NEW to \in Peers, NEW u \in Users
        PROVE  net[p][to][u] \in Seq(TimestampedLockState)
    BY <2>1
  <2>4. ch \in Seq(TimestampedLockState)
    BY <2>3, <1>1
  <2>. HIDE DEF ch
  <2>. QED  BY <2>1, <2>2, <2>4
<1>7. Append(ch, w.msg) \in Seq(TimestampedLockState)
  BY <1>2, <1>6
<1>8. Append(ch, w.msg) \in Seq(made[w.user] \cup {Default})
  <2>1. ch \in Seq(made[w.user] \cup {Default})
    BY <1>1, <1>6
  <2>. QED  BY <2>1, <1>1
<1>9. /\ net' \in [Peers -> [Peers -> [Users -> Seq(TimestampedLockState)]]]
      /\ \A r, s \in Peers, u \in Users :
           \/ net'[r][s][u] = net[r][s][u]
           \/ r = p /\ s = w.to /\ u = w.user /\ net'[r][s][u] = Append(ch, w.msg)
  <2>. DEFINE to == w.to
              who == w.user
              new == Append(ch, w.msg)
  <2>1. /\ to \in Peers /\ who \in Users /\ new \in Seq(TimestampedLockState)
        /\ net' = [net EXCEPT ![p][to][who] = new]
    BY <1>1, <1>4, <1>7
  <2>. HIDE DEF to, who, new
  <2>2. /\ net' \in [Peers -> [Peers -> [Users -> Seq(TimestampedLockState)]]]
        /\ \A r, s \in Peers, u \in Users :
             \/ net'[r][s][u] = net[r][s][u]
             \/ r = p /\ s = to /\ u = who /\ net'[r][s][u] = new
    BY <2>1, <1>6
  <2>. QED  BY <2>2 DEF to, who, new
<1>. HIDE DEF ch
<1>10. NetMade'
  <2>1. ASSUME NEW r \in Peers, NEW s \in Peers, NEW u \in Users
        PROVE  net'[r][s][u] \in Seq(made[u] \cup {Default})
    <3>1. CASE net'[r][s][u] = net[r][s][u]
      BY <3>1, <1>6
    <3>2. CASE u = w.user /\ net'[r][s][u] = Append(ch, w.msg)
      BY <3>2, <1>8
    <3>. QED  BY <3>1, <3>2, <1>9
  <2>. QED  BY <2>1, <1>4 DEF NetMade, Default
<1>11. TypeOK'
  BY <1>4, <1>5, <1>9 DEF Inv, TypeOK, counters
<1>. QED  BY <1>4, <1>5, <1>10, <1>11, Unchanged, InvFromParts, Stutters DEF Good

(* A sync leaves the channel it was sent on. *)
LEMMA TailUpdates ==
    ASSUME Inv, NEW p \in Peers, NEW q \in Peers, NEW u \in Users,
           net[q][p][u] # <<>>, net' = [net EXCEPT ![q][p][u] = Tail(@)],
           UNCHANGED made
    PROVE  /\ net' \in [Peers -> [Peers -> [Users -> Seq(TimestampedLockState)]]]
           /\ NetMade'
           /\ Head(net[q][p][u]) \in TimestampedLockState
           /\ Head(net[q][p][u]) \in made[u] \cup {Default}
<1>1. /\ net \in [Peers -> [Peers -> [Users -> Seq(TimestampedLockState)]]]
      /\ net[q][p][u] \in Seq(TimestampedLockState)
      /\ \A r, s \in Peers, v \in Users : net[r][s][v] \in Seq(made[v] \cup {Default})
  BY DEF Inv, TypeOK, Provenance
<1>2. Tail(net[q][p][u]) \in Seq(TimestampedLockState)
  BY <1>1
<1>3. Tail(net[q][p][u]) \in Seq(made[u] \cup {Default})
  BY <1>1
<1>4. net' \in [Peers -> [Peers -> [Users -> Seq(TimestampedLockState)]]]
  BY <1>1, <1>2
<1>5. \A r, s \in Peers, v \in Users :
         \/ net'[r][s][v] = net[r][s][v]
         \/ r = q /\ s = p /\ v = u /\ net'[r][s][v] = Tail(net[q][p][u])
  BY <1>1
<1>6. \A r, s \in Peers, v \in Users : net'[r][s][v] \in Seq(made'[v] \cup {Default})
  <2>. SUFFICES ASSUME NEW r \in Peers, NEW s \in Peers, NEW v \in Users
                PROVE  net'[r][s][v] \in Seq(made[v] \cup {Default})
    OBVIOUS
  <2>1. CASE net'[r][s][v] = net[r][s][v]
    BY <2>1, <1>1
  <2>2. CASE r = q /\ s = p /\ v = u /\ net'[r][s][v] = Tail(net[q][p][u])
    BY <2>2, <1>3
  <2>. QED  BY <2>1, <2>2, <1>5
<1>7. NetMade'
  BY <1>6 DEF NetMade, Default
<1>8. Head(net[q][p][u]) \in TimestampedLockState
  BY <1>1
<1>9. net[q][p][u] \in Seq(made[u] \cup {Default})
  BY <1>1
<1>10. Head(net[q][p][u]) \in made[u] \cup {Default}
  BY <1>9
<1>. QED  BY <1>4, <1>7, <1>8, <1>10

(* Only an entered state can supersede: the default loses to everything. *)
LEMMA SupersedingMade ==
    ASSUME Inv, NEW u \in Users, NEW s \in TimestampedLockState,
           s \in made[u] \cup {Default},
           NEW r \in TimestampedLockState \cup {None}, r # None => r \in made[u],
           Supersedes(s, r)
    PROVE  s \in made[u]
<1>1. r # None => r.at > 0
  BY DEF Inv, Provenance
<1>2. ASSUME s = Default PROVE FALSE
  <2>1. s.at = 0
    BY <1>2 DEF Default
  <2>2. CASE r = None
    BY <2>1, <2>2 DEF Supersedes, DateOf
  <2>3. CASE r # None
    BY <2>1, <2>3, <1>1 DEF Supersedes, DateOf, TimestampedLockState
  <2>. QED  BY <2>2, <2>3
<1>. QED  BY <1>2

LEMMA ReceiveGood ==
    ASSUME Inv, NEW p \in Peers, NEW q \in Peers, NEW u \in Users, Receive(p, q, u)
    PROVE  Good
<1>. DEFINE s == Head(net[q][p][u])
            pc == IF s.lock = "Locked" THEN "persist" ELSE "compare"
            t == [pc |-> pc, from |-> q, user |-> u, state |-> s,
                  first |-> q \notin active[p]]
<1>1. /\ net[q][p][u] # <<>> /\ net' = [net EXCEPT ![q][p][u] = Tail(@)]
      /\ active' = [active EXCEPT ![p] = @ \cup {q}]
      /\ RestoreAll(p, {u})
      /\ UNCHANGED <<persisted, vault, destinations, dev, syncs, now, counters, made>>
  BY DEF Receive, Take
<1>2. /\ net' \in [Peers -> [Peers -> [Users -> Seq(TimestampedLockState)]]]
      /\ NetMade' /\ s \in TimestampedLockState /\ s \in made[u] \cup {Default}
  BY <1>1, TailUpdates
<1>3. /\ states' \in [Peers -> [Users -> TimestampedLockState \cup {None}]]
      /\ \A r \in Peers, v \in Users :
           states'[r][v] # None => states'[r][v] \in made[v]
      /\ Register!Adopt(p)
  BY <1>1, RestoreAdopts
<1>4. \/ Supersedes(s, Restored(p, u)) /\ rx' = [rx EXCEPT ![p] = t]
      \/ rx' = [rx EXCEPT ![p] = RxDone(t)]
  BY DEF Receive
<1>5. /\ t \in RxTask /\ t.user = u /\ t.state = s /\ t.pc = pc
      /\ pc = "persist" => s.lock = "Locked"
      /\ pc # "idle"
  <2>1. pc \in RxPc /\ (q \notin active[p]) \in BOOLEAN
    BY DEF RxPc
  <2>. HIDE DEF s, pc
  <2>2. t \in RxTask /\ t.user = u /\ t.state = s /\ t.pc = pc
    BY <2>1, <1>2 DEF RxTask
  <2>. QED  BY <2>2 DEF pc
<1>. HIDE DEF s, t, pc
<1>6. rx' \in [Peers -> RxTask] /\ \A r \in Peers : RxMade(r)'
  <2>1. CASE rx' = [rx EXCEPT ![p] = RxDone(t)]
    BY <2>1, <1>1, <1>5, RxDoneType, RxEnds
  <2>2. CASE Supersedes(s, Restored(p, u)) /\ rx' = [rx EXCEPT ![p] = t]
    <3>1. s \in made[u]
      BY <2>2, <1>2, RestoredMade, SupersedingMade
    <3>2. /\ rx' \in [Peers -> RxTask] /\ rx'[p] = t
          /\ \A r \in Peers \ {p} : rx'[r] = rx[r]
      BY <2>2, <1>5, RxSetUpdates DEF Inv
    <3>3. RxMade(p)'
      BY <3>1, <3>2, <1>1, <1>5 DEF RxMade
    <3>4. \A r \in Peers \ {p} : RxMade(r)'
      BY <3>2, <1>1, Unchanged
    <3>. QED  BY <3>2, <3>3, <3>4
  <2>. QED  BY <2>1, <2>2, <1>4
<1>7. TypeOK'
  <2>1. active' \in [Peers -> SUBSET Peers]
    BY <1>1 DEF Inv, TypeOK
  <2>. QED  BY <2>1, <1>1, <1>2, <1>3, <1>6 DEF Inv, TypeOK, counters
<1>8. StatesMade'
  BY <1>1, <1>3 DEF StatesMade
<1>. QED  BY <1>1, <1>2, <1>3, <1>6, <1>7, <1>8, Unchanged, InvFromParts, Adopts DEF Good

LEMMA IgnoreGood ==
    ASSUME Inv, NEW p \in Peers, NEW q \in Peers, NEW u \in Users, Ignore(p, q, u)
    PROVE  Good
<1>1. /\ net[q][p][u] # <<>> /\ net' = [net EXCEPT ![q][p][u] = Tail(@)]
      /\ UNCHANGED <<states, persisted, vault, destinations, active, rx, dev, syncs, now,
                     counters, made>>
  BY DEF Ignore, Take
<1>2. /\ net' \in [Peers -> [Peers -> [Users -> Seq(TimestampedLockState)]]]
      /\ NetMade'
  BY <1>1, TailUpdates
<1>3. TypeOK'
  BY <1>1, <1>2 DEF Inv, TypeOK, counters
<1>. QED  BY <1>1, <1>2, <1>3, Unchanged, InvFromParts, Stutters DEF Good

LEMMA LoseGood ==
    ASSUME Inv, NEW p \in Peers, NEW q \in Peers, NEW u \in Users, Lose(p, q, u)
    PROVE  Good
<1>1. /\ net[p][q][u] # <<>> /\ net' = [net EXCEPT ![p][q][u] = Tail(@)]
      /\ UNCHANGED <<states, persisted, vault, destinations, active, rx, dev, syncs, now,
                     events, changes, made>>
      /\ faults' = faults + 1
  BY DEF Lose
<1>2. /\ net' \in [Peers -> [Peers -> [Users -> Seq(TimestampedLockState)]]]
      /\ NetMade'
  BY <1>1, TailUpdates
<1>3. TypeOK'
  BY <1>1, <1>2 DEF Inv, TypeOK
<1>. QED  BY <1>1, <1>2, <1>3, Unchanged, InvFromParts, Stutters DEF Good

LEMMA ApplyPersistGood ==
    ASSUME Inv, NEW p \in Peers, ApplyPersist(p)
    PROVE  Good
<1>. DEFINE u == rx[p].user
            at == rx[p].state.at
<1>1. /\ rx[p].pc = "persist" /\ RxGoto(p, "compare")
      /\ persisted' = [persisted EXCEPT ![p][u] = at]
      /\ UNCHANGED <<states, vault, destinations, active, dev, syncs, net, now,
                     counters, made>>
  BY DEF ApplyPersist
<1>2. rx[p].state \in made[u] /\ rx[p].state.lock = "Locked"
  BY <1>1 DEF Inv, Provenance
<1>3. u \in Users /\ rx[p].state \in TimestampedLockState
  BY <1>1, RxFields DEF Inv
<1>4. at \in Nat /\ rx[p].state = [lock |-> "Locked", at |-> at]
  BY <1>2, <1>3 DEF TimestampedLockState
<1>5. rx' \in [Peers -> RxTask] /\ \A q \in Peers : RxMade(q)'
  BY <1>1, RxMoves DEF RxPc
<1>. HIDE DEF u, at
<1>6. TypeOK'
  BY <1>1, <1>3, <1>4, <1>5 DEF Inv, TypeOK, counters
<1>7. PersistedMade'
  <2>1. \A q \in Peers, v \in Users :
           \/ persisted'[q][v] = persisted[q][v]
           \/ q = p /\ v = u /\ persisted'[q][v] = at
    BY <1>1, <1>3 DEF Inv, TypeOK
  <2>2. \A q \in Peers, v \in Users : persisted[q][v] # None =>
           [lock |-> "Locked", at |-> persisted[q][v]] \in made[v]
    BY DEF Inv, Provenance
  <2>3. [lock |-> "Locked", at |-> at] \in made[u]
    BY <1>2, <1>4
  <2>. QED  BY <2>1, <2>2, <2>3, <1>1 DEF PersistedMade
<1>. QED  BY <1>1, <1>5, <1>6, <1>7, Unchanged, InvFromParts, Stutters DEF Good

LEMMA ApplyCompareGood ==
    ASSUME Inv, NEW p \in Peers, ApplyCompare(p)
    PROVE  Good
<1>. DEFINE u == rx[p].user
<1>1. /\ rx[p].pc = "compare" /\ RestoreAll(p, {u})
      /\ \/ BeginOne(p, "rx", 0, u, rx[p].state) /\ RxGoto(p, "drive")
         \/ RxGoto(p, "record") /\ UNCHANGED syncs
      /\ UNCHANGED <<persisted, vault, destinations, active, dev, net, now, counters, made>>
  BY DEF ApplyCompare
<1>2. u \in Users /\ rx[p].state \in made[u] /\ rx[p].state \in TimestampedLockState
  BY <1>1, RxFields DEF Inv, Provenance
<1>3. /\ states' \in [Peers -> [Users -> TimestampedLockState \cup {None}]]
      /\ \A q \in Peers, v \in Users :
           states'[q][v] # None => states'[q][v] \in made[v]
      /\ Register!Adopt(p)
  BY <1>1, <1>2, RestoreAdopts
<1>4. rx' \in [Peers -> RxTask] /\ \A q \in Peers : RxMade(q)'
  BY <1>1, RxMoves DEF RxPc
<1>5. syncs' \in [Peers -> SUBSET Sync] /\ SyncsMade'
  <2>1. CASE UNCHANGED syncs
    BY <2>1, <1>1, Unchanged DEF Inv, TypeOK
  <2>2. CASE BeginOne(p, "rx", 0, u, rx[p].state)
    BY <2>2, <1>1, <1>2, BeginOneGood DEF Tasks
  <2>. QED  BY <2>1, <2>2, <1>1
<1>6. TypeOK'
  BY <1>1, <1>3, <1>4, <1>5 DEF Inv, TypeOK, counters
<1>7. StatesMade'
  BY <1>1, <1>3 DEF StatesMade
<1>. QED  BY <1>1, <1>3, <1>4, <1>5, <1>6, <1>7, Unchanged, InvFromParts, Adopts DEF Good

LEMMA ApplyDriveGood ==
    ASSUME Inv, NEW p \in Peers, ApplyDrive(p) \/ ApplyDriveFails(p)
    PROVE  Good
<1>1. /\ rx[p].pc = "drive"
      /\ UNCHANGED <<states, persisted, destinations, active, dev, syncs, net, now,
                     events, changes, made>>
  BY DEF ApplyDrive, ApplyDriveFails, counters
<1>2. rx[p].user \in Users /\ rx[p].state.lock \in LockState
  BY <1>1, RxFields DEF Inv, TimestampedLockState
<1>3. rx' \in [Peers -> RxTask] /\ \A q \in Peers : RxMade(q)'
  BY <1>1, RxMoves, RxEnds, RxIdleType DEF ApplyDrive, ApplyDriveFails, RxPc
<1>4. vault' \in [Peers -> [Users -> LockState]] /\ faults' \in Nat
  <2>1. CASE ApplyDrive(p)
    BY <2>1, <1>2 DEF ApplyDrive, Inv, TypeOK, counters
  <2>2. CASE ApplyDriveFails(p)
    BY <2>2 DEF ApplyDriveFails, Inv, TypeOK
  <2>. QED  BY <2>1, <2>2
<1>5. TypeOK'
  BY <1>1, <1>3, <1>4 DEF Inv, TypeOK
<1>. QED  BY <1>1, <1>3, <1>5, Unchanged, InvFromParts, Stutters DEF Good

LEMMA ApplyRecordGood ==
    ASSUME Inv, NEW p \in Peers, ApplyRecord(p)
    PROVE  Good
<1>. DEFINE u == rx[p].user
            s == rx[p].state
<1>1. /\ rx[p].pc = "record" /\ rx' = [rx EXCEPT ![p] = RxDone(rx[p])]
      /\ \/ Supersedes(s, states[p][u]) /\ states' = [states EXCEPT ![p][u] = s]
         \/ UNCHANGED states
      /\ UNCHANGED <<persisted, vault, destinations, active, dev, syncs, net, now,
                     counters, made>>
  BY DEF ApplyRecord, Inv, TypeOK
<1>2. u \in Users /\ s \in made[u] /\ s \in TimestampedLockState
  BY <1>1, RxFields DEF Inv, Provenance
<1>3. rx' \in [Peers -> RxTask] /\ \A q \in Peers : RxMade(q)'
  BY <1>1, RxFields, RxDoneType, RxEnds DEF Inv
<1>. HIDE DEF u, s
<1>4. CASE UNCHANGED states
  <2>1. TypeOK'
    BY <1>1, <1>3, <1>4 DEF Inv, TypeOK, counters
  <2>. QED  BY <2>1, <1>1, <1>3, <1>4, Unchanged, InvFromParts, Stutters DEF Good
<1>5. CASE Supersedes(s, states[p][u]) /\ states' = [states EXCEPT ![p][u] = s]
  <2>1. /\ states' \in [Peers -> [Users -> TimestampedLockState \cup {None}]]
        /\ \A q \in Peers \ {p} : states'[q] = states[q]
        /\ \A v \in Users : states'[p][v] = IF v = u THEN s ELSE states[p][v]
    BY <1>2, <1>5 DEF Inv, TypeOK
  <2>2. TypeOK'
    BY <2>1, <1>1, <1>3 DEF Inv, TypeOK, counters
  <2>3. StatesMade'
    <3>1. \A q \in Peers, v \in Users : states[q][v] # None => states[q][v] \in made[v]
      BY DEF Inv, Provenance
    <3>. QED  BY <2>1, <3>1, <1>1, <1>2 DEF StatesMade
  <2>4. Register!Adopt(p)
    BY <2>1, <1>1, <1>2, <1>5, SameOrder DEF Register!Adopt
  <2>. QED  BY <2>2, <2>3, <2>4, <1>1, <1>3, Unchanged, InvFromParts, Adopts DEF Good
<1>. QED  BY <1>1, <1>4, <1>5

LEMMA ReplyGood ==
    ASSUME Inv, NEW p \in Peers, Reply(p)
    PROVE  Good
<1>. DEFINE from == SyncTargetOf(rx[p].from)
<1>1. /\ rx[p].pc = "reply" /\ BeginAll(p, "rx", {from}, from)
      /\ rx' = [rx EXCEPT ![p] = RxIdle]
      /\ UNCHANGED <<states, persisted, vault, destinations, active, dev, net, now,
                     counters, made>>
  BY DEF Reply
<1>2. from \in SyncTarget
  BY <1>1, RxFields DEF Inv, SyncTarget
<1>. HIDE DEF from
<1>3. syncs' \in [Peers -> SUBSET Sync] /\ SyncsMade'
  BY <1>1, <1>2, BeginAllGood DEF Tasks
<1>4. rx' \in [Peers -> RxTask] /\ \A q \in Peers : RxMade(q)'
  BY <1>1, RxEnds, RxIdleType
<1>5. TypeOK'
  BY <1>1, <1>3, <1>4 DEF Inv, TypeOK, counters
<1>. QED  BY <1>1, <1>3, <1>4, <1>5, Unchanged, InvFromParts, Stutters DEF Good

LEMMA TimerSyncGood ==
    ASSUME Inv, NEW p \in Peers, TimerSync(p)
    PROVE  Good
<1>1. PICK stale \in SUBSET active[p] :
        /\ faults' = IF stale = {} THEN faults ELSE faults + 1
        /\ active' = [active EXCEPT ![p] = active[p] \ stale]
        /\ BeginAll(p, "timer", SyncTargets(p, active[p] \ stale), None)
  BY DEF TimerSync
<1>2. UNCHANGED <<states, persisted, vault, destinations, rx, dev, net, now,
                  events, changes, made>>
  BY DEF TimerSync
<1>3. active' \in [Peers -> SUBSET Peers] /\ faults' \in Nat
      /\ active[p] \ stale \in SUBSET Peers
  BY <1>1 DEF Inv, TypeOK
<1>4. syncs' \in [Peers -> SUBSET Sync] /\ SyncsMade'
  BY <1>1, <1>2, <1>3, SyncTargetsType, BeginAllGood DEF Tasks
<1>5. TypeOK'
  BY <1>2, <1>3, <1>4 DEF Inv, TypeOK
<1>. QED  BY <1>2, <1>4, <1>5, Unchanged, InvFromParts, Stutters DEF Good

(* A call of set_destinations, which marks the syncs past their check. *)
LEMMA SetDestinationsGood ==
    ASSUME Inv, NEW p \in Peers, NEW u \in Users, NEW kinds \in DestinationSets,
           SetDestinations(p, u, kinds)
    PROVE  Good
<1>. DEFINE Marked(w) == [w EXCEPT !.late = @ \/ (w.to # None /\ w.user = u)]
<1>1. /\ changes' = changes + 1
      /\ destinations' = [destinations EXCEPT ![p][u] = kinds]
      /\ syncs' = [syncs EXCEPT ![p] = {Marked(w) : w \in syncs[p]}]
      /\ UNCHANGED <<states, persisted, vault, active, rx, dev, net, now,
                     events, faults, made>>
  BY DEF SetDestinations
<1>2. ASSUME NEW q \in Peers, NEW w \in syncs[q]
      PROVE  w \in Sync /\ SyncMade(w)
  BY DEF Inv, TypeOK, Provenance, SyncMade
<1>3. ASSUME NEW w \in Sync
      PROVE  /\ Marked(w) \in Sync /\ Marked(w).relay = w.relay /\ Marked(w).users = w.users
             /\ Marked(w).user = w.user /\ Marked(w).to = w.to /\ Marked(w).msg = w.msg
  BY DEF Sync
<1>. HIDE DEF Marked
<1>4. ASSUME NEW q \in Peers, NEW x \in syncs'[q]
      PROVE  x \in Sync /\ SyncMade(x)
  <2>1. x \in syncs[q] \/ \E w \in syncs[p] : x = Marked(w)
    BY <1>1, <1>4 DEF Inv, TypeOK
  <2>2. CASE x \in syncs[q]
    BY <2>2, <1>2
  <2>3. CASE \E w \in syncs[p] : x = Marked(w)
    BY <2>3, <1>2, <1>3 DEF SyncMade
  <2>. QED  BY <2>1, <2>2, <2>3
<1>5. syncs' \in [Peers -> SUBSET Sync] /\ SyncsMade'
  <2>1. DOMAIN syncs' = Peers /\ syncs' = [q \in Peers |-> syncs'[q]]
    BY <1>1 DEF Inv, TypeOK
  <2>2. syncs' \in [Peers -> SUBSET Sync]
    BY <2>1, <1>4
  <2>3. SyncsMade'
    BY <1>1, <1>4 DEF SyncsMade, SyncMade, Default
  <2>. QED  BY <2>2, <2>3
<1>6. destinations' \in [Peers -> [Users -> SUBSET Kinds]]
  BY <1>1, ConfigAssumption DEF Inv, TypeOK
<1>7. TypeOK'
  BY <1>1, <1>5, <1>6 DEF Inv, TypeOK
<1>. QED  BY <1>1, <1>5, <1>7, Unchanged, InvFromParts, Stutters DEF Good

LEMMA ReloadGood ==
    ASSUME Inv, NEW p \in Peers, Reload(p)
    PROVE  Good
<1>1. /\ states' = [states EXCEPT ![p] = [u \in Users |-> None]]
      /\ vault' = [vault EXCEPT ![p] = [u \in Users |-> "Locked"]]
      /\ active' = [active EXCEPT ![p] = {}]
      /\ rx' = [rx EXCEPT ![p] = RxIdle]
      /\ dev' = [dev EXCEPT ![p] = {}]
      /\ syncs' = [syncs EXCEPT ![p] = {}]
      /\ changes' = changes + 1
      /\ UNCHANGED <<persisted, destinations, net, now, events, faults, made>>
  BY DEF Reload
<1>2. /\ states' \in [Peers -> [Users -> TimestampedLockState \cup {None}]]
      /\ \A q \in Peers, u \in Users : states'[q][u] = None \/ states'[q][u] = states[q][u]
  BY <1>1 DEF Inv, TypeOK
<1>3. /\ dev' \in [Peers -> SUBSET DevTask]
      /\ \A q \in Peers : dev'[q] \subseteq dev[q]
  BY <1>1 DEF Inv, TypeOK
<1>3a. /\ syncs' \in [Peers -> SUBSET Sync]
       /\ \A q \in Peers : syncs'[q] \subseteq syncs[q]
  BY <1>1 DEF Inv, TypeOK
<1>4. rx' \in [Peers -> RxTask] /\ \A q \in Peers : RxMade(q)'
  BY <1>1, RxEnds, RxIdleType
<1>5. TypeOK'
  <2>1. vault' \in [Peers -> [Users -> LockState]] /\ active' \in [Peers -> SUBSET Peers]
    BY <1>1 DEF Inv, TypeOK, LockState
  <2>. QED  BY <2>1, <1>1, <1>2, <1>3, <1>3a, <1>4 DEF Inv, TypeOK
<1>6. StatesMade' /\ DevMade'
  BY <1>1, <1>2, <1>3 DEF StatesMade, DevMade, Inv, Provenance
<1>6a. SyncsMade'
  BY <1>1, <1>3a DEF SyncsMade, SyncMade, Default, Inv, Provenance
<1>7. Register!Forget(p)
  BY <1>1 DEF Register!Forget
<1>8. [Register!RegNext]_<<states, made>>
  BY <1>7 DEF Register!RegNext
<1>. QED  BY <1>1, <1>4, <1>5, <1>6, <1>6a, <1>8, Unchanged, InvFromParts DEF Good

LEMMA QuietGood ==
    ASSUME Inv, Tick \/ UNCHANGED vars
    PROVE  Good
<1>1. UNCHANGED <<states, persisted, vault, destinations, active, rx, dev, syncs, net,
                  counters, made>>
  BY DEF Tick, vars, counters
<1>2. now' \in Nat \ {0}
  BY BoundsAssumption DEF Tick, vars, Inv, TypeOK
<1>3. TypeOK'
  BY <1>1, <1>2 DEF Inv, TypeOK, counters
<1>. QED  BY <1>1, <1>3, Unchanged, InvFromParts, Stutters DEF Good

LEMMA NextGood == Inv /\ [Next]_vars => Good
<1>. SUFFICES ASSUME Inv, [Next]_vars PROVE Good
  OBVIOUS
<1>1. ASSUME NEW p \in Peers, RxStep(p) PROVE Good
  BY <1>1, ReceiveGood, IgnoreGood, ApplyPersistGood, ApplyCompareGood,
     ApplyDriveGood, ApplyRecordGood, ReplyGood DEF RxStep
<1>2. ASSUME NEW p \in Peers, DevStep(p) PROVE Good
  BY <1>2, DevicePersistGood DEF DevStep
<1>3. ASSUME NEW p \in Peers, NEW by \in Tasks, SyncStep(p, by) PROVE Good
  BY <1>3, SyncUserGood, SyncCheckGood, SyncSendGood DEF SyncStep
<1>. QED  BY <1>1, <1>2, <1>3, DeviceEventGood, TimerSyncGood, SetDestinationsGood,
             ReloadGood, LoseGood, QuietGood DEF Next

LEMMA InvInit == Init => Inv /\ Register!RegInit
<1>. SUFFICES ASSUME Init PROVE Inv /\ Register!RegInit
  OBVIOUS
<1>1. TypeOK
  BY RxIdleType, ConfigAssumption DEF Init, TypeOK, LockState
<1>2. Provenance
  BY RxIdleType DEF Init, Provenance
<1>3. Register!RegInit
  BY DEF Init, Register!RegInit
<1>. QED  BY <1>1, <1>2, <1>3 DEF Inv

LEMMA Invariance == Spec => []Inv
<1>1. Inv /\ [Next]_vars => Inv'
  BY NextGood DEF Good
<1>. QED  BY <1>1, InvInit, PTL DEF Spec

(* Every reachable state of the protocol is well typed. *)
THEOREM TypeCorrect == Spec => []TypeOK
<1>1. Inv => TypeOK
  BY DEF Inv
<1>. QED  BY <1>1, Invariance, PTL

(* What a device records, persists, applies or sends was entered by a user on
   some device, whatever is lost, reloaded or interleaved. *)
THEOREM NoInventedState == Spec => []Provenance
<1>1. Inv => Provenance
  BY DEF Inv
<1>. QED  BY <1>1, Invariance, PTL

(* The records of the devices implement the last-writer-wins register. *)
THEOREM RecordsAreRegisters == Spec => LastWriterWins
<1>1. Inv /\ [Next]_vars => [Register!RegNext]_<<states, made>>
  BY NextGood DEF Good
<1>2. Init => Register!RegInit
  BY InvInit
<1>. QED  BY <1>1, <1>2, Invariance, PTL DEF Spec, LastWriterWins, Register!RegSpec


-----------------------------------------------------------------------------
(* What is sent, what a restarted process locks, and what a reload leaves *)

(* Tasks are about accounts of the device.  A device lock that is being
   persisted is recorded, and so is what a lock that is about to be driven is
   compared with.  A remote state that is being applied to an empty record is
   the persisted one if there is one. *)
DevServed(p) == \A t \in dev[p] : t.user \in Accounts[p] /\ states[p][t.user] # None
RxServed(p) == rx[p].pc # "idle" => rx[p].user \in Accounts[p]
DriveRecorded(p) ==
    rx[p].pc = "drive" /\ rx[p].state.lock = "Locked" => states[p][rx[p].user] # None
RxKept(p) ==
    LET u == rx[p].user IN
    rx[p].pc \notin {"idle", "reply"} /\ states[p][u] = None /\ persisted[p][u] # None
        => rx[p].state = [lock |-> "Locked", at |-> persisted[p][u]]
TasksServed(p) == DevServed(p) /\ RxServed(p) /\ DriveRecorded(p) /\ RxKept(p)

(* A sync past its check is one its recipient was cleared for. *)
SyncServed(p, w) ==
    /\ w.user \in Accounts[p] /\ w.users \subseteq Accounts[p]
    /\ w.to # None =>
         /\ Origin[w.to] # None => VaultUrl[p][w.user] = Origin[w.to]
         /\ Kind[w.to] \in destinations[p][w.user] \/ w.late
SyncsServed(p) == \A w \in syncs[p] : SyncServed(p, w)

Served == \A p \in Peers : TasksServed(p) /\ SyncsServed(p)

(* The two action properties, of one step. *)
ClearedStep ==
    \A p, q \in Peers, u \in Users : Sends(p, q, u) =>
         \/ Entitled(p, u, q)
         \/ /\ u \in Accounts[p] /\ (Origin[q] # None => VaultUrl[p][u] = Origin[q])
            /\ \E w \in syncs[p] : w.user = u /\ w.to = q /\ w.late
SurvivesStep ==
    \A p \in Peers, u \in Users :
         /\ states[p][u] = None /\ states'[p][u] # None /\ UNCHANGED events
         /\ persisted[p][u] # None
         => LET kept == [lock |-> "Locked", at |-> persisted[p][u]]
            IN  states'[p][u] = kept \/ Supersedes(states'[p][u], kept)
Sound == Served' /\ ClearedStep /\ SurvivesStep

(* A step of p leaves the tasks of the other peers as they were. *)
LEMMA ServedFrame ==
    ASSUME Served, NEW p \in Peers,
           \A q \in Peers \ {p} :
             /\ rx'[q] = rx[q] /\ dev'[q] = dev[q] /\ syncs'[q] = syncs[q]
             /\ states'[q] = states[q] /\ persisted'[q] = persisted[q]
             /\ destinations'[q] = destinations[q],
           TasksServed(p)', SyncsServed(p)'
    PROVE  Served'
<1>1. ASSUME NEW q \in Peers \ {p} PROVE TasksServed(q)' /\ SyncsServed(q)'
  BY <1>1 DEF Served, TasksServed, DevServed, RxServed, DriveRecorded, RxKept,
              SyncsServed, SyncServed
<1>. QED  BY <1>1 DEF Served

(* The tasks of p are served when its receive task stays, no record is taken
   away and only the dates of recorded users are persisted. *)
LEMMA TasksKeep ==
    ASSUME TypeOK, Served, NEW p \in Peers, dev'[p] \subseteq dev[p], rx'[p] = rx[p],
           \A u \in Users : states[p][u] # None => states'[p][u] # None,
           \A u \in Users : persisted'[p][u] = persisted[p][u] \/ states[p][u] # None
    PROVE  TasksServed(p)'
<1>1. \A t \in dev[p] : t.user \in Users
  BY DEF TypeOK, DevTask
<1>2. rx[p].pc # "idle" => rx[p].user \in Users
  BY RxFields
<1>3. DevServed(p)'
  BY <1>1 DEF Served, TasksServed, DevServed
<1>4. RxServed(p)' /\ DriveRecorded(p)'
  BY <1>2 DEF Served, TasksServed, RxServed, DriveRecorded
<1>5. RxKept(p)'
  BY <1>2 DEF Served, TasksServed, RxKept
<1>. QED  BY <1>3, <1>4, <1>5 DEF TasksServed

LEMMA SyncsServedBy ==
    ASSUME Served, NEW p \in Peers, UNCHANGED destinations, NEW v, SyncServed(p, v),
           \A x \in syncs'[p] : x \in syncs[p] \/ x = v
    PROVE  SyncsServed(p)'
BY DEF Served, SyncsServed, SyncServed

LEMMA SyncsStay ==
    ASSUME Served, NEW p \in Peers, UNCHANGED <<destinations, syncs>>
    PROVE  SyncsServed(p)'
BY DEF Served, SyncsServed, SyncServed

(* Restoring records the persisted lock where nothing was recorded. *)
LEMMA RestoreKeeps ==
    ASSUME TypeOK, NEW p \in Peers, NEW us \in SUBSET Users, RestoreAll(p, us)
    PROVE  /\ \A q \in Peers \ {p} : states'[q] = states[q]
           /\ \A u \in Users : states[p][u] # None => states'[p][u] = states[p][u]
           /\ \A u \in us : states'[p][u] = Restored(p, u)
           /\ \A u \in us : states'[p][u] = None => persisted[p][u] = None
           /\ SurvivesStep
<1>. DEFINE new == [u \in Users |-> IF u \in us THEN Restored(p, u) ELSE states[p][u]]
<1>1. states \in [Peers -> [Users -> TimestampedLockState \cup {None}]]
  BY DEF TypeOK
<1>2. states' = [states EXCEPT ![p] = new]
  BY <1>1 DEF RestoreAll
<1>3. \A u \in Users : states[p][u] # None => new[u] = states[p][u]
  BY DEF Restored
<1>4. \A u \in us : new[u] = Restored(p, u)
  OBVIOUS
<1>5. ASSUME NEW u \in Users, states[p][u] = None, new[u] # None, persisted[p][u] # None
      PROVE  new[u] = [lock |-> "Locked", at |-> persisted[p][u]]
  BY <1>5 DEF Restored
<1>6. ASSUME NEW u \in us, new[u] = None PROVE persisted[p][u] = None
  <2>1. CASE persisted[p][u] = None
    BY <2>1
  <2>2. CASE persisted[p][u] # None
    <3>1. states[p][u] # None => states[p][u] = None
      BY <1>6 DEF Restored
    <3>2. new[u] = [lock |-> "Locked", at |-> persisted[p][u]]
      BY <2>2, <3>1 DEF Restored
    <3>3. persisted[p][u] \in Nat
      BY <2>2 DEF TypeOK
    <3>4. [lock |-> "Locked", at |-> persisted[p][u]] \in TimestampedLockState
      BY <3>3 DEF TimestampedLockState, LockState
    <3>. QED  BY <1>6, <3>2, <3>4, NoneIsNoLockState
  <2>. QED  BY <2>1, <2>2
<1>. HIDE DEF new
<1>7. states'[p] = new /\ \A q \in Peers \ {p} : states'[q] = states[q]
  BY <1>1, <1>2
<1>8. SurvivesStep
  <2>. SUFFICES ASSUME NEW q \in Peers, NEW u \in Users,
                       states[q][u] = None, states'[q][u] # None, persisted[q][u] # None
                PROVE  states'[q][u] = [lock |-> "Locked", at |-> persisted[q][u]]
    BY DEF SurvivesStep
  <2>1. q = p
    BY <1>7
  <2>. QED  BY <2>1, <1>5, <1>7
<1>. QED  BY <1>3, <1>4, <1>6, <1>7, <1>8

(* Without its head a sequence is shorter. *)
LEMMA TailLength ==
    ASSUME NEW S, NEW x \in Seq(S), x # <<>>
    PROVE  Len(Tail(x)) <= Len(x)
<1>1. Len(x) \in Nat /\ Len(Tail(x)) = Len(x) - 1
  OBVIOUS
<1>. QED  BY <1>1

(* A sync that leaves a channel makes no channel longer. *)
LEMMA TailShortens ==
    ASSUME TypeOK, NEW p \in Peers, NEW q \in Peers, NEW u \in Users,
           net[q][p][u] # <<>>, net' = [net EXCEPT ![q][p][u] = Tail(@)]
    PROVE  ClearedStep
<1>0. net \in [Peers -> [Peers -> [Users -> Seq(TimestampedLockState)]]]
  BY DEF TypeOK
<1>1. ASSUME NEW r \in Peers, NEW s \in Peers, NEW v \in Users
      PROVE  ~Sends(r, s, v)
  <2>1. /\ net[q][p][u] \in Seq(TimestampedLockState)
        /\ net[r][s][v] \in Seq(TimestampedLockState)
    BY <1>0
  <2>2. \/ net'[r][s][v] = net[r][s][v]
        \/ r = q /\ s = p /\ v = u /\ net'[r][s][v] = Tail(net[q][p][u])
    BY <1>0
  <2>3. Len(Tail(net[q][p][u])) <= Len(net[q][p][u])
    BY <2>1, TailLength
  <2>4. Len(net[r][s][v]) \in Nat
    BY <2>1
  <2>. QED  BY <2>2, <2>3, <2>4 DEF Sends
<1>. QED  BY <1>1 DEF ClearedStep

(* A step that sends nothing, and one that records nothing. *)
LEMMA QuietNet ==
    ASSUME TypeOK, UNCHANGED net
    PROVE  ClearedStep
<1>1. ASSUME NEW r \in Peers, NEW s \in Peers, NEW v \in Users
      PROVE  ~Sends(r, s, v)
  <2>1. Len(net[r][s][v]) \in Nat
    BY DEF TypeOK
  <2>. QED  BY <2>1 DEF Sends
<1>. QED  BY <1>1 DEF ClearedStep

LEMMA QuietStates == UNCHANGED states => SurvivesStep
BY DEF SurvivesStep

-----------------------------------------------------------------------------
LEMMA ReceiveSound ==
    ASSUME TypeOK, Served, NEW p \in Peers, NEW q \in Peers, NEW u \in Users, Receive(p, q, u)
    PROVE  Sound
<1>. DEFINE s == Head(net[q][p][u])
            t == [pc |-> IF s.lock = "Locked" THEN "persist" ELSE "compare",
                  from |-> q, user |-> u, state |-> s, first |-> q \notin active[p]]
<1>1. /\ net[q][p][u] # <<>> /\ net' = [net EXCEPT ![q][p][u] = Tail(@)]
      /\ u \in Accounts[p] /\ RestoreAll(p, {u})
      /\ UNCHANGED <<dev, syncs, persisted, destinations>>
      /\ rx' = [rx EXCEPT ![p] = t] \/ rx' = [rx EXCEPT ![p] = RxDone(t)]
  BY DEF Receive, Take, Accepts
<1>2. t.pc # "drive" /\ t.user = u
  OBVIOUS
<1>3. RxDone(t).pc = "idle" \/ (RxDone(t).pc = "reply" /\ RxDone(t).user = u)
  BY DEF RxDone, RxIdle
<1>. HIDE DEF s, t
<1>4. /\ \A r \in Peers \ {p} : rx'[r] = rx[r]
      /\ rx'[p] = t \/ rx'[p] = RxDone(t)
  BY <1>1 DEF TypeOK
<1>5. /\ \A r \in Peers \ {p} : states'[r] = states[r]
      /\ \A v \in Users : states[p][v] # None => states'[p][v] = states[p][v]
      /\ states'[p][u] = None => persisted[p][u] = None
      /\ SurvivesStep
  BY <1>1, RestoreKeeps
<1>6. DevServed(p)'
  <2>1. \A x \in dev[p] : x.user \in Users
    BY DEF TypeOK, DevTask
  <2>. QED  BY <2>1, <1>1, <1>5 DEF Served, TasksServed, DevServed
<1>7. RxServed(p)' /\ DriveRecorded(p)' /\ RxKept(p)'
  BY <1>1, <1>2, <1>3, <1>4, <1>5 DEF RxServed, DriveRecorded, RxKept
<1>8. TasksServed(p)' /\ SyncsServed(p)'
  BY <1>1, <1>6, <1>7, SyncsStay DEF TasksServed
<1>9. Served'
  BY <1>1, <1>4, <1>5, <1>8, ServedFrame
<1>. QED  BY <1>1, <1>5, <1>9, TailShortens DEF Sound

(* The sync of one user that begins is about an account. *)
LEMMA BeginOneServed ==
    ASSUME TypeOK, Served, NEW p \in Peers, UNCHANGED destinations, NEW by, NEW at,
           NEW u \in Accounts[p], NEW relay, BeginOne(p, by, at, u, relay)
    PROVE  SyncsServed(p)' /\ \A q \in Peers \ {p} : syncs'[q] = syncs[q]
<1>. DEFINE w == NewSync(by, at, u, {}, SyncTargets(p, active[p]), None, relay)
<1>1. SyncServed(p, w)
  BY DEF SyncServed, NewSync
<1>2. syncs' = [syncs EXCEPT ![p] = @ \cup Unless(w)] /\ Unless(w) \subseteq {w}
  BY DEF BeginOne, Begin, Unless
<1>. HIDE DEF w
<1>3. /\ \A x \in syncs'[p] : x \in syncs[p] \/ x = w
      /\ \A q \in Peers \ {p} : syncs'[q] = syncs[q]
  BY <1>2 DEF TypeOK
<1>. QED  BY <1>1, <1>3, SyncsServedBy

LEMMA BeginAllServed ==
    ASSUME TypeOK, Served, NEW p \in Peers, UNCHANGED destinations, NEW by, NEW targets,
           NEW only, BeginAll(p, by, targets, only)
    PROVE  SyncsServed(p)' /\ \A q \in Peers \ {p} : syncs'[q] = syncs[q]
<1>1. PICK u \in Accounts[p] :
        Begin(p, NewSync(by, 0, u, Accounts[p] \ {u}, targets, only, None))
  BY DEF BeginAll
<1>. DEFINE w == NewSync(by, 0, u, Accounts[p] \ {u}, targets, only, None)
<1>2. SyncServed(p, w)
  BY DEF SyncServed, NewSync
<1>3. syncs' = [syncs EXCEPT ![p] = @ \cup Unless(w)] /\ Unless(w) \subseteq {w}
  BY <1>1 DEF Begin, Unless
<1>. HIDE DEF w
<1>4. /\ \A x \in syncs'[p] : x \in syncs[p] \/ x = w
      /\ \A q \in Peers \ {p} : syncs'[q] = syncs[q]
  BY <1>3 DEF TypeOK
<1>. QED  BY <1>2, <1>4, SyncsServedBy

LEMMA ApplyPersistSound ==
    ASSUME Inv, Served, NEW p \in Peers, ApplyPersist(p)
    PROVE  Sound
<1>. DEFINE u == rx[p].user
            at == rx[p].state.at
<1>1. /\ rx[p].pc = "persist" /\ RxGoto(p, "compare")
      /\ persisted' = [persisted EXCEPT ![p][u] = at]
      /\ UNCHANGED <<states, dev, syncs, net, destinations>>
  BY DEF ApplyPersist
<1>2. /\ TypeOK /\ u \in Users /\ rx[p].state \in TimestampedLockState
      /\ rx[p].state.lock = "Locked"
  BY <1>1, RxFields DEF Inv, Provenance
<1>3. rx[p].state = [lock |-> "Locked", at |-> at]
  BY <1>2 DEF TimestampedLockState
<1>4. /\ rx'[p].pc = "compare" /\ rx'[p].user = u /\ rx'[p].state = rx[p].state
      /\ \A q \in Peers \ {p} : rx'[q] = rx[q]
  BY <1>1, <1>2, RxGotoUpdates DEF RxPc
<1>5. persisted'[p][u] = at /\ \A q \in Peers \ {p} : persisted'[q] = persisted[q]
  BY <1>1, <1>2 DEF TypeOK
<1>. HIDE DEF u, at
<1>6. DevServed(p)' /\ RxServed(p)' /\ DriveRecorded(p)'
  BY <1>1, <1>4 DEF u, Served, TasksServed, DevServed, RxServed, DriveRecorded
<1>7. RxKept(p)'
  BY <1>3, <1>4, <1>5 DEF RxKept
<1>8. Served'
  BY <1>1, <1>4, <1>5, <1>6, <1>7, SyncsStay, ServedFrame DEF TasksServed
<1>. QED  BY <1>1, <1>2, <1>8, QuietNet, QuietStates DEF Sound

LEMMA ApplyCompareSound ==
    ASSUME TypeOK, Served, NEW p \in Peers, ApplyCompare(p)
    PROVE  Sound
<1>. DEFINE u == rx[p].user
<1>1. /\ rx[p].pc = "compare" /\ RestoreAll(p, {u})
      /\ UNCHANGED <<dev, net, persisted, destinations>>
      /\ \/ /\ rx[p].state.lock # Advertised(p, u).lock /\ RxGoto(p, "drive")
            /\ BeginOne(p, "rx", 0, u, rx[p].state)
         \/ RxGoto(p, "record") /\ UNCHANGED syncs
  BY DEF ApplyCompare
<1>2. u \in Accounts[p] /\ u \in Users
  BY <1>1, RxFields DEF Served, TasksServed, RxServed
<1>3. /\ \A r \in Peers \ {p} : states'[r] = states[r]
      /\ \A v \in Users : states[p][v] # None => states'[p][v] = states[p][v]
      /\ states'[p][u] = Restored(p, u) /\ (states'[p][u] = None => persisted[p][u] = None)
      /\ SurvivesStep
  BY <1>1, <1>2, RestoreKeeps
<1>4. /\ rx'[p].user = u /\ rx'[p].state = rx[p].state
      /\ \A r \in Peers \ {p} : rx'[r] = rx[r]
      /\ rx'[p].pc = "record" \/ (rx'[p].pc = "drive" /\ rx[p].state.lock # Advertised(p, u).lock)
  BY <1>1, RxGotoUpdates DEF RxPc
<1>5. DevServed(p)'
  <2>1. \A x \in dev[p] : x.user \in Users
    BY DEF TypeOK, DevTask
  <2>. QED  BY <2>1, <1>1, <1>3 DEF Served, TasksServed, DevServed
<1>6. RxServed(p)' /\ RxKept(p)'
  BY <1>1, <1>2, <1>3, <1>4 DEF RxServed, RxKept
<1>7. DriveRecorded(p)'
  <2>1. Restored(p, u) = None => Advertised(p, u).lock = "Locked"
    BY DEF Advertised, Default
  <2>. QED  BY <2>1, <1>3, <1>4 DEF DriveRecorded
<1>8. SyncsServed(p)' /\ \A q \in Peers \ {p} : syncs'[q] = syncs[q]
  BY <1>1, <1>2, BeginOneServed, SyncsStay
<1>9. Served'
  BY <1>1, <1>3, <1>4, <1>5, <1>6, <1>7, <1>8, ServedFrame DEF TasksServed
<1>. QED  BY <1>1, <1>3, <1>9, QuietNet DEF Sound

LEMMA ApplyDriveSound ==
    ASSUME TypeOK, Served, NEW p \in Peers, ApplyDrive(p) \/ ApplyDriveFails(p)
    PROVE  Sound
<1>1. rx[p].pc = "drive" /\ UNCHANGED <<states, persisted, destinations, dev, syncs, net>>
  BY DEF ApplyDrive, ApplyDriveFails
<1>2. /\ \A q \in Peers \ {p} : rx'[q] = rx[q]
      /\ \/ rx'[p].pc = "record" /\ rx'[p].user = rx[p].user /\ rx'[p].state = rx[p].state
         \/ rx'[p].pc = "idle"
  BY <1>1, RxGotoUpdates, RxSetUpdates, RxIdleType DEF ApplyDrive, ApplyDriveFails, RxPc
<1>3. TasksServed(p)'
  BY <1>1, <1>2 DEF Served, TasksServed, DevServed, RxServed, DriveRecorded, RxKept
<1>4. Served'
  BY <1>1, <1>2, <1>3, SyncsStay, ServedFrame
<1>. QED  BY <1>1, <1>4, QuietNet, QuietStates DEF Sound

LEMMA ApplyRecordSound ==
    ASSUME TypeOK, Served, NEW p \in Peers, ApplyRecord(p)
    PROVE  Sound
<1>. DEFINE u == rx[p].user
            s == rx[p].state
<1>1. /\ rx[p].pc = "record" /\ rx' = [rx EXCEPT ![p] = RxDone(rx[p])]
      /\ UNCHANGED states \/ states' = [states EXCEPT ![p][u] = s]
      /\ UNCHANGED <<persisted, destinations, dev, syncs, net>>
  BY DEF ApplyRecord, TypeOK
<1>2. u \in Users /\ s # None /\ u \in Accounts[p]
  BY <1>1, RxFields, NoneIsNoLockState DEF Served, TasksServed, RxServed
<1>3. RxDone(rx[p]) \in RxTask
      /\ (RxDone(rx[p]).pc = "idle" \/ (RxDone(rx[p]).pc = "reply" /\ RxDone(rx[p]).user = u))
  BY <1>1, RxFields, RxDoneType DEF RxDone, RxIdle
<1>4. /\ \A q \in Peers \ {p} : rx'[q] = rx[q]
      /\ rx'[p] = RxDone(rx[p])
  BY <1>1, <1>3, RxSetUpdates
<1>5. /\ \A q \in Peers \ {p} : states'[q] = states[q]
      /\ \A v \in Users : states'[p][v] = states[p][v] \/ (v = u /\ states'[p][v] = s)
  BY <1>1, <1>2 DEF TypeOK
<1>6. states[p][u] = None /\ persisted[p][u] # None
        => s = [lock |-> "Locked", at |-> persisted[p][u]]
  BY <1>1 DEF Served, TasksServed, RxKept
<1>. HIDE DEF u, s
<1>7. DevServed(p)'
  <2>1. \A x \in dev[p] : x.user \in Users
    BY DEF TypeOK, DevTask
  <2>. QED  BY <2>1, <1>1, <1>2, <1>5 DEF Served, TasksServed, DevServed
<1>8. RxServed(p)' /\ DriveRecorded(p)' /\ RxKept(p)'
  BY <1>2, <1>3, <1>4 DEF RxServed, DriveRecorded, RxKept
<1>9. SurvivesStep
  BY <1>5, <1>6 DEF SurvivesStep
<1>10. Served'
  BY <1>1, <1>4, <1>5, <1>7, <1>8, SyncsStay, ServedFrame DEF TasksServed
<1>. QED  BY <1>1, <1>9, <1>10, QuietNet DEF Sound

LEMMA ReplySound ==
    ASSUME TypeOK, Served, NEW p \in Peers, Reply(p)
    PROVE  Sound
<1>. DEFINE from == SyncTargetOf(rx[p].from)
<1>1. /\ BeginAll(p, "rx", {from}, from) /\ rx' = [rx EXCEPT ![p] = RxIdle]
      /\ UNCHANGED <<states, persisted, destinations, dev, net>>
  BY DEF Reply
<1>. HIDE DEF from
<1>2. rx'[p].pc = "idle" /\ \A q \in Peers \ {p} : rx'[q] = rx[q]
  BY <1>1, RxSetUpdates, RxIdleType
<1>3. TasksServed(p)'
  BY <1>1, <1>2 DEF Served, TasksServed, DevServed, RxServed, DriveRecorded, RxKept
<1>4. Served'
  BY <1>1, <1>2, <1>3, BeginAllServed, ServedFrame
<1>. QED  BY <1>1, <1>4, QuietNet, QuietStates DEF Sound

LEMMA TimerSyncSound ==
    ASSUME TypeOK, Served, NEW p \in Peers, TimerSync(p)
    PROVE  Sound
<1>1. /\ \E targets : BeginAll(p, "timer", targets, None)
      /\ UNCHANGED <<states, persisted, destinations, rx, dev, net>>
  BY DEF TimerSync
<1>2. SyncsServed(p)' /\ \A q \in Peers \ {p} : syncs'[q] = syncs[q]
  BY <1>1, BeginAllServed
<1>3. Served'
  BY <1>1, <1>2, TasksKeep, ServedFrame
<1>. QED  BY <1>1, <1>3, QuietNet, QuietStates DEF Sound

LEMMA DevicePersistSound ==
    ASSUME TypeOK, Served, NEW p \in Peers, NEW t \in dev[p], DevicePersist(p, t)
    PROVE  Sound
<1>1. /\ persisted' = [persisted EXCEPT ![p][t.user] = t.at]
      /\ dev' = [dev EXCEPT ![p] = @ \ {t}]
      /\ BeginOne(p, "dev", t.at, t.user, None)
      /\ UNCHANGED <<states, destinations, rx, net>>
  BY DEF DevicePersist
<1>2. t.user \in Accounts[p] /\ states[p][t.user] # None
  BY DEF Served, TasksServed, DevServed
<1>3. /\ \A q \in Peers \ {p} : persisted'[q] = persisted[q] /\ dev'[q] = dev[q]
      /\ dev'[p] \subseteq dev[p]
      /\ \A u : persisted'[p][u] = persisted[p][u] \/ u = t.user
  BY <1>1 DEF TypeOK
<1>4. TasksServed(p)'
  BY <1>1, <1>2, <1>3, TasksKeep
<1>5. Served'
  BY <1>1, <1>2, <1>3, <1>4, BeginOneServed, ServedFrame
<1>. QED  BY <1>1, <1>5, QuietNet, QuietStates DEF Sound

LEMMA DeviceEventSound ==
    ASSUME TypeOK, Served, NEW p \in Peers, NEW u \in Users, NEW lock \in LockState,
           DeviceEvent(p, u, lock)
    PROVE  Sound
<1>. DEFINE at == NextDate(p, u)
            s == [lock |-> lock, at |-> at]
            t == [user |-> u, at |-> at]
<1>1. /\ u \in Accounts[p] /\ states' = [states EXCEPT ![p][u] = s]
      /\ made' = [made EXCEPT ![u] = @ \cup {s}]
      /\ UNCHANGED <<persisted, destinations, rx, net>>
      /\ \/ dev' = [dev EXCEPT ![p] = @ \cup {t}] /\ UNCHANGED syncs
         \/ BeginOne(p, "dev", at, u, None) /\ UNCHANGED dev
  BY DEF DeviceEvent, AfterRecord
<1>2. s # None /\ t.user = u
  <2>1. at \in Nat
    BY DEF NextDate, TypeOK, TimestampedLockState
  <2>. QED  BY <2>1, NoneIsNoLockState DEF TimestampedLockState
<1>. HIDE DEF at, s, t
<1>3. /\ \A q \in Peers \ {p} : states'[q] = states[q]
      /\ \A v \in Users : states'[p][v] = IF v = u THEN s ELSE states[p][v]
  BY <1>1 DEF TypeOK
<1>4. /\ \A q \in Peers \ {p} : dev'[q] = dev[q]
      /\ \A x \in dev'[p] : x \in dev[p] \/ x = t
  <2>1. dev \in [Peers -> SUBSET DevTask]
    BY DEF TypeOK
  <2>. QED  BY <2>1, <1>1
<1>5. DevServed(p)'
  <2>1. \A x \in dev[p] : x.user \in Users
    BY DEF TypeOK, DevTask
  <2>. QED  BY <2>1, <1>1, <1>2, <1>3, <1>4 DEF Served, TasksServed, DevServed
<1>6. RxServed(p)' /\ DriveRecorded(p)' /\ RxKept(p)'
  <2>1. rx[p].pc # "idle" => rx[p].user \in Users
    BY RxFields
  <2>. QED  BY <2>1, <1>1, <1>2, <1>3 DEF Served, TasksServed, RxServed, DriveRecorded, RxKept
<1>7. SyncsServed(p)' /\ \A q \in Peers \ {p} : syncs'[q] = syncs[q]
  BY <1>1, BeginOneServed, SyncsStay
<1>8. Served'
  BY <1>1, <1>3, <1>4, <1>5, <1>6, <1>7, ServedFrame DEF TasksServed
<1>9. SurvivesStep
  <2>. SUFFICES ASSUME NEW q \in Peers, NEW v \in Users, states[q][v] = None,
                       states'[q][v] # None, UNCHANGED events
                PROVE  FALSE
    BY DEF SurvivesStep
  <2>. QED  BY DEF DeviceEvent, TypeOK
<1>. QED  BY <1>1, <1>8, <1>9, QuietNet DEF Sound

-----------------------------------------------------------------------------
(* The sync w of p goes on as v: the other syncs stay. *)
LEMMA ContinueServed ==
    ASSUME TypeOK, Served, NEW p \in Peers, UNCHANGED destinations, NEW w, NEW v,
           SyncServed(p, v), Continue(p, w, v)
    PROVE  SyncsServed(p)' /\ \A q \in Peers \ {p} : syncs'[q] = syncs[q]
<1>1. syncs' = [syncs EXCEPT ![p] = (@ \ {w}) \cup Unless(v)] /\ Unless(v) \subseteq {v}
  BY DEF Continue, Unless
<1>2. syncs \in [Peers -> SUBSET Sync]
  BY DEF TypeOK
<1>3. /\ \A x \in syncs'[p] : x \in syncs[p] \/ x = v
      /\ \A q \in Peers \ {p} : syncs'[q] = syncs[q]
  BY <1>1, <1>2
<1>. QED  BY <1>3, SyncsServedBy

LEMMA SyncUserSound ==
    ASSUME TypeOK, Served, NEW p \in Peers, NEW w \in syncs[p], SyncUser(p, w)
    PROVE  Sound
<1>1. PICK u \in w.users :
        Continue(p, w, [w EXCEPT !.users = @ \ {u}, !.user = u,
                          !.targets = IF w.only = None THEN SyncTargets(p, active[p])
                                      ELSE {w.only}])
  BY DEF SyncUser
<1>. DEFINE v == [w EXCEPT !.users = @ \ {u}, !.user = u,
                    !.targets = IF w.only = None THEN SyncTargets(p, active[p])
                                ELSE {w.only}]
<1>2. /\ w.to = None
      /\ UNCHANGED <<states, persisted, destinations, rx, dev, net>>
  BY DEF SyncUser
<1>3. w \in Sync
  BY DEF TypeOK
<1>4. v.user = u /\ v.users = w.users \ {u} /\ v.to = None
  BY <1>2, <1>3 DEF Sync
<1>5. Continue(p, w, v)
  BY <1>1
<1>. HIDE DEF v
<1>6. SyncServed(p, v)
  BY <1>1, <1>4 DEF Served, SyncsServed, SyncServed
<1>7. SyncsServed(p)' /\ \A q \in Peers \ {p} : syncs'[q] = syncs[q]
  BY <1>2, <1>5, <1>6, ContinueServed
<1>8. Served'
  BY <1>2, <1>7, TasksKeep, ServedFrame
<1>. QED  BY <1>2, <1>8, QuietNet, QuietStates DEF Sound

(* A target that passes the check is a destination of the user, and is served
   by the vault of the user when it is a page. *)
LEMMA ClearedTarget ==
    ASSUME NEW p \in Peers, NEW u, NEW t \in SyncTarget, MaySyncUserTo(p, u, t)
    PROVE  /\ Kind[t.endpoint] \in destinations[p][u]
           /\ Origin[t.endpoint] # None => VaultUrl[p][u] = Origin[t.endpoint]
<1>1. t.origin = Origin[t.endpoint] \/ t.origin = None
  BY DEF SyncTarget, SyncTargetOf, WithoutOrigin
<1>. QED  BY <1>1 DEF MaySyncUserTo, IsDestination

LEMMA SyncCheckSound ==
    ASSUME TypeOK, Served, NEW p \in Peers, NEW w \in syncs[p], SyncCheck(p, w)
    PROVE  Sound
<1>1. PICK t \in w.targets :
        LET v == [w EXCEPT !.targets = @ \ {t}]
            to == [v EXCEPT !.to = t.endpoint]
        IN  \/ /\ MaySyncUserTo(p, w.user, t) /\ w.relay = None
               /\ Continue(p, w, [to EXCEPT !.msg = Advertised(p, w.user)])
               /\ RestoreAll(p, {w.user})
            \/ /\ MaySyncUserTo(p, w.user, t) /\ w.relay # None
               /\ Continue(p, w, [to EXCEPT !.msg = w.relay])
               /\ UNCHANGED states
            \/ /\ ~MaySyncUserTo(p, w.user, t)
               /\ Continue(p, w, v)
               /\ UNCHANGED states
  BY DEF SyncCheck
<1>2. w.to = None /\ UNCHANGED <<persisted, destinations, rx, dev, net>>
  BY DEF SyncCheck
<1>3. w \in Sync
  BY DEF TypeOK
<1>4. t \in SyncTarget /\ w.user \in Users
  BY <1>3 DEF Sync
<1>. DEFINE v == [w EXCEPT !.targets = @ \ {t}]
            to == [v EXCEPT !.to = t.endpoint]
<1>5. v.user = w.user /\ v.users = w.users /\ v.to = None
  BY <1>2, <1>3 DEF Sync
<1>6. ASSUME NEW m PROVE /\ [to EXCEPT !.msg = m].user = w.user
                         /\ [to EXCEPT !.msg = m].users = w.users
                         /\ [to EXCEPT !.msg = m].to = t.endpoint
  BY <1>3 DEF Sync
<1>7. PICK x : /\ Continue(p, w, x) /\ x.user = w.user /\ x.users = w.users
               /\ x.to = None \/ (x.to = t.endpoint /\ MaySyncUserTo(p, w.user, t))
  <2>. HIDE DEF v, to
  <2>1. CASE MaySyncUserTo(p, w.user, t) /\ w.relay = None
    BY <2>1, <1>1, <1>6 DEF v, to
  <2>2. CASE MaySyncUserTo(p, w.user, t) /\ w.relay # None
    BY <2>2, <1>1, <1>6 DEF v, to
  <2>3. CASE ~MaySyncUserTo(p, w.user, t)
    BY <2>3, <1>1, <1>5 DEF v
  <2>. QED  BY <2>1, <2>2, <2>3
<1>8. SyncServed(p, x)
  BY <1>4, <1>7, ClearedTarget DEF Served, SyncsServed, SyncServed
<1>9. SyncsServed(p)' /\ \A q \in Peers \ {p} : syncs'[q] = syncs[q]
  BY <1>2, <1>7, <1>8, ContinueServed
<1>10. RestoreAll(p, {w.user}) \/ UNCHANGED states
  BY <1>1
<1>11. /\ \A q \in Peers \ {p} : states'[q] = states[q]
       /\ \A u \in Users : states[p][u] # None => states'[p][u] # None
       /\ SurvivesStep
  BY <1>4, <1>10, RestoreKeeps, QuietStates
<1>12. TasksServed(p)'
  BY <1>2, <1>11, TasksKeep
<1>13. Served'
  BY <1>2, <1>9, <1>11, <1>12, ServedFrame
<1>. QED  BY <1>2, <1>11, <1>13, QuietNet DEF Sound

(* Only the channel to the recipient that was cleared grows. *)
LEMMA SyncSendSound ==
    ASSUME TypeOK, Served, NEW p \in Peers, NEW w \in syncs[p], SyncSend(p, w)
    PROVE  Sound
<1>. DEFINE v == [w EXCEPT !.to = None, !.msg = None, !.late = FALSE]
<1>1. /\ w.to # None /\ net' = [net EXCEPT ![p][w.to][w.user] = Append(@, w.msg)]
      /\ Continue(p, w, v)
      /\ UNCHANGED <<states, persisted, destinations, rx, dev>>
  BY DEF SyncSend
<1>2. w \in Sync
  BY DEF TypeOK
<1>3. v.user = w.user /\ v.users = w.users /\ v.to = None
  BY <1>2 DEF Sync
<1>. HIDE DEF v
<1>4. SyncServed(p, w)
  BY DEF Served, SyncsServed
<1>5. SyncServed(p, v)
  BY <1>3, <1>4 DEF SyncServed
<1>6. SyncsServed(p)' /\ \A q \in Peers \ {p} : syncs'[q] = syncs[q]
  BY <1>1, <1>5, ContinueServed
<1>7. Served'
  BY <1>1, <1>6, TasksKeep, ServedFrame
<1>8. ClearedStep
  <2>. SUFFICES ASSUME NEW r \in Peers, NEW q \in Peers, NEW u \in Users, Sends(r, q, u)
                PROVE  \/ Entitled(r, u, q)
                       \/ /\ u \in Accounts[r]
                          /\ Origin[q] # None => VaultUrl[r][u] = Origin[q]
                          /\ \E x \in syncs[r] : x.user = u /\ x.to = q /\ x.late
    BY DEF ClearedStep
  <2>1. net \in [Peers -> [Peers -> [Users -> Seq(TimestampedLockState)]]]
    BY DEF TypeOK
  <2>2. r = p /\ q = w.to /\ u = w.user
    <3>1. net'[r][q][u] = net[r][q][u] \/ (r = p /\ q = w.to /\ u = w.user)
      BY <1>1, <2>1
    <3>2. Len(net[r][q][u]) \in Nat
      BY <2>1
    <3>. QED  BY <3>1, <3>2 DEF Sends
  <2>. QED  BY <1>1, <1>4, <2>2 DEF SyncServed, Entitled
<1>. QED  BY <1>1, <1>7, <1>8, QuietStates DEF Sound

(* A sync that was cleared before the user changed its mind becomes late. *)
LEMMA SetDestinationsSound ==
    ASSUME TypeOK, Served, NEW p \in Peers, NEW u \in Users, NEW kinds,
           SetDestinations(p, u, kinds)
    PROVE  Sound
<1>. DEFINE Marked(w) == [w EXCEPT !.late = @ \/ (w.to # None /\ w.user = u)]
<1>1. /\ syncs' = [syncs EXCEPT ![p] = {Marked(w) : w \in syncs[p]}]
      /\ destinations' = [destinations EXCEPT ![p][u] = kinds]
      /\ UNCHANGED <<states, persisted, rx, dev, net>>
  BY DEF SetDestinations
<1>2. ASSUME NEW w \in syncs[p]
      PROVE  /\ Marked(w).user = w.user /\ Marked(w).users = w.users
             /\ Marked(w).to = w.to
             /\ w.late \/ (w.to # None /\ w.user = u) => Marked(w).late
  <2>1. w \in Sync
    BY DEF TypeOK
  <2>. QED  BY <2>1 DEF Sync
<1>. HIDE DEF Marked
<1>3. /\ \A q \in Peers \ {p} : destinations'[q] = destinations[q]
      /\ \A v \in Users : v # u => destinations'[p][v] = destinations[p][v]
  BY <1>1 DEF TypeOK
<1>4. syncs \in [Peers -> SUBSET Sync]
  BY DEF TypeOK
<1>5. /\ \A q \in Peers \ {p} : syncs'[q] = syncs[q]
      /\ \A x \in syncs'[p] : \E w \in syncs[p] : x = Marked(w)
  BY <1>1, <1>4
<1>6. SyncsServed(p)'
  <2>. SUFFICES ASSUME NEW x \in syncs'[p] PROVE SyncServed(p, x)'
    BY DEF SyncsServed
  <2>1. PICK w \in syncs[p] : x = Marked(w)
    BY <1>5
  <2>2. SyncServed(p, w) /\ w.user \in Users
    BY <1>4 DEF Served, SyncsServed, Sync
  <2>3. x.user = w.user /\ x.users = w.users /\ x.to = w.to
        /\ (w.late \/ (w.to # None /\ w.user = u) => x.late)
    BY <1>2, <2>1
  <2>. QED  BY <1>3, <2>2, <2>3 DEF SyncServed
<1>7. Served'
  BY <1>1, <1>3, <1>5, <1>6, TasksKeep, ServedFrame
<1>. QED  BY <1>1, <1>7, QuietNet, QuietStates DEF Sound

LEMMA ReloadSound ==
    ASSUME TypeOK, Served, NEW p \in Peers, Reload(p)
    PROVE  Sound
<1>1. /\ states' = [states EXCEPT ![p] = [u \in Users |-> None]]
      /\ rx' = [rx EXCEPT ![p] = RxIdle] /\ dev' = [dev EXCEPT ![p] = {}]
      /\ syncs' = [syncs EXCEPT ![p] = {}]
      /\ UNCHANGED <<persisted, destinations, net>>
  BY DEF Reload
<1>2. /\ \A q \in Peers \ {p} : /\ rx'[q] = rx[q] /\ dev'[q] = dev[q]
                                /\ syncs'[q] = syncs[q] /\ states'[q] = states[q]
      /\ rx'[p] = RxIdle /\ dev'[p] = {} /\ syncs'[p] = {}
      /\ states'[p] = [u \in Users |-> None]
  BY <1>1 DEF TypeOK
<1>3. TasksServed(p)' /\ SyncsServed(p)'
  BY <1>2 DEF TasksServed, DevServed, RxServed, DriveRecorded, RxKept, SyncsServed, RxIdle
<1>4. Served'
  BY <1>1, <1>2, <1>3, ServedFrame
<1>5. SurvivesStep
  BY <1>2 DEF SurvivesStep
<1>. QED  BY <1>1, <1>4, <1>5, QuietNet DEF Sound

(* Nothing but the clock, the counters and the channels. *)
LEMMA RestSound ==
    ASSUME TypeOK, Served, UNCHANGED <<states, persisted, destinations, rx, dev, syncs>>,
           ClearedStep
    PROVE  Sound
<1>1. Served'
  BY DEF Served, TasksServed, DevServed, RxServed, DriveRecorded, RxKept,
         SyncsServed, SyncServed
<1>. QED  BY <1>1, QuietStates DEF Sound

LEMMA NextSound == Inv /\ Served /\ [Next]_vars => Sound
<1>. SUFFICES ASSUME Inv, Served, [Next]_vars PROVE Sound
  OBVIOUS
<1>. USE DEF Inv
<1>1. CASE UNCHANGED vars
  BY <1>1, QuietNet, RestSound DEF vars
<1>2. CASE Tick
  BY <1>2, QuietNet, RestSound DEF Tick
<1>3. ASSUME NEW p \in Peers, NEW u \in Users, NEW lock \in LockState, DeviceEvent(p, u, lock)
      PROVE  Sound
  BY <1>3, DeviceEventSound
<1>4. ASSUME NEW p \in Peers, DevStep(p) PROVE Sound
  BY <1>4, DevicePersistSound DEF DevStep
<1>5. ASSUME NEW p \in Peers, NEW q \in Peers, NEW u \in Users, Receive(p, q, u)
      PROVE  Sound
  BY <1>5, ReceiveSound
<1>6. ASSUME NEW p \in Peers, NEW q \in Peers, NEW u \in Users, Ignore(p, q, u)
      PROVE  Sound
  BY <1>6, TailShortens, RestSound DEF Ignore, Take
<1>7. ASSUME NEW p \in Peers, RxStep(p) PROVE Sound
  BY <1>7, <1>5, <1>6, ApplyPersistSound, ApplyCompareSound, ApplyDriveSound,
     ApplyRecordSound, ReplySound DEF RxStep
<1>8. ASSUME NEW p \in Peers, NEW by, SyncStep(p, by) PROVE Sound
  BY <1>8, SyncUserSound, SyncCheckSound, SyncSendSound DEF SyncStep
<1>9. ASSUME NEW p \in Peers, NEW q \in Peers, NEW u \in Users, Lose(p, q, u)
      PROVE  Sound
  BY <1>9, TailShortens, RestSound DEF Lose
<1>. QED
  BY <1>1, <1>2, <1>3, <1>4, <1>7, <1>8, <1>9, TimerSyncSound, SetDestinationsSound,
     ReloadSound DEF Next

LEMMA ServedInvariance == Spec => [](Inv /\ Served)
<1>1. Init => Served
  BY DEF Init, Served, TasksServed, DevServed, RxServed, DriveRecorded, RxKept,
         SyncsServed, RxIdle
<1>2. Inv /\ Served /\ [Next]_vars => Served'
  BY NextSound DEF Sound
<1>. QED  BY <1>1, <1>2, Invariance, PTL DEF Spec

(* A peer syncs a user only to a client it shares that user with, or to one
   whose sync was past its check when the sharing ended; a page never gets the
   state of a user of another vault. *)
THEOREM SyncsEntitled == Spec => SyncsCleared
<1>1. Inv /\ Served /\ [Next]_vars => [ClearedStep]_vars
  BY NextSound DEF Sound
<1>. QED  BY <1>1, ServedInvariance, PTL DEF Spec, SyncsCleared, ClearedStep

(* What a reloaded process records first is its persisted lock or supersedes
   it, unless it is a new event of the device. *)
THEOREM LockKept == Spec => LockSurvivesReload
<1>1. Inv /\ Served /\ [Next]_vars => [SurvivesStep]_vars
  BY NextSound DEF Sound
<1>. QED  BY <1>1, ServedInvariance, PTL DEF Spec, LockSurvivesReload, SurvivesStep

(* A process that has observed nothing for a user since it started is never
   about to lock it: a client that restarts on lock cannot be kept locking. *)
THEOREM NoLockLoop == Spec => []NoRelockAfterRestart
<1>1. Served => NoRelockAfterRestart
  BY DEF Served, TasksServed, DriveRecorded, NoRelockAfterRestart
<1>. QED  BY <1>1, ServedInvariance, PTL
=============================================================================
