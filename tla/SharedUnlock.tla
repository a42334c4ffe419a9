---------------------------- MODULE SharedUnlock ----------------------------
(***************************************************************************)
(* The shared unlock protocol of bitwarden-shared-unlock: every client     *)
(* runs one peer that syncs each user's lock state, with the date it was   *)
(* entered, to its leader and to the peers that sync to it.                *)
(*                                                                         *)
(* The receive loop, the sync timer and the device events of one client    *)
(* are tasks that interleave at their awaits; each syncs user by user and  *)
(* target by target, with awaits between the check of a target, the        *)
(* reading of the state and the send.  All clients run on one              *)
(* machine and read one wall clock.  The driver (lock, unlock, the         *)
(* persisted date, the accounts, the leader) is the client's and modelled  *)
(* from its use.  A user has one key, so a lock state is its tag.          *)
(***************************************************************************)
EXTENDS Naturals, Sequences, LockStates

CONSTANTS
    Peers,        \* the endpoints of the clients
    Users,        \* user ids
    Leader,       \* Leader[p]: the endpoint discover_leader returns, or None
    Kind,         \* Kind[p]: the SharedUnlockClient of the endpoint p
    Origin,       \* Origin[p]: the origin of a web peer, None for the others
    VaultUrl,     \* VaultUrl[p][u]: get_vault_url of p for u, or None
    Accounts,     \* Accounts[p]: list_users of p
    OptIn,        \* OptIn[p][u]: the destinations p's client sets at start
    DestinationSets, \* what later calls of set_destinations may pass
    MaxTime,      \* bound: values of the wall clock
    MaxEvents,    \* bound: device events in a behaviour
    MaxFaults,    \* bound: lost syncs, failed driver calls and pruned peers
    MaxChanges    \* bound: process reloads and later calls of set_destinations

Kinds == {Kind[p] : p \in Peers}

ASSUME ConfigAssumption ==
    /\ None \notin Peers
    /\ Leader \in [Peers -> Peers \cup {None}]
    /\ Accounts \in [Peers -> SUBSET Users]
    /\ OptIn \in [Peers -> [Users -> SUBSET Kinds]]
    /\ DestinationSets \subseteq SUBSET Kinds
ASSUME BoundsAssumption ==
    /\ MaxTime \in Nat \ {0} /\ MaxEvents \in Nat
    /\ MaxFaults \in Nat /\ MaxChanges \in Nat

VARIABLES
    states,       \* states[p][u]: what p has recorded for u, or None
    persisted,    \* persisted[p][u]: p's last_manual_lock for u, or None
    vault,        \* vault[p][u]: whether p really holds u's key
    destinations, \* destinations[p][u]: the kinds p shares u with
    active,       \* active[p]: the peers p has heard from (ActivePeerTracker)
    rx,           \* rx[p]: the receive loop of p
    dev,          \* dev[p]: device locks of p that are being persisted
    syncs,        \* syncs[p]: the syncs that tasks of p are in the middle of
    net,          \* net[p][q][u]: syncs about u under way from p to q
    now,          \* the wall clock, in milliseconds
    events, faults, changes,    \* counters for the bounds
    made          \* history: made[u] is every state a device entered for u

vars == <<states, persisted, vault, destinations, active, rx, dev, syncs, net,
          now, events, faults, changes, made>>
counters == <<events, faults, changes>>

-----------------------------------------------------------------------------
(* What a receive loop holds at its awaits: the sync it handles, the sender
   and whether this is the first one from it. *)
RxPc == {"persist", "compare", "drive", "record", "reply"}
RxIdle == [pc |-> "idle", from |-> None, user |-> None, state |-> None,
           first |-> FALSE]
RxTask == {RxIdle} \cup [pc : RxPc, from : Peers, user : Users,
                         state : TimestampedLockState, first : BOOLEAN]

DevTask == [user : Users, at : Nat]

(* A peer to sync to: one that p has heard from carries its origin, if it has
   one, and a leader that was only discovered does not. *)
SyncTargetOf(q) == [endpoint |-> q, origin |-> Origin[q]]
WithoutOrigin(q) == [endpoint |-> q, origin |-> None]
SyncTarget == {SyncTargetOf(q) : q \in Peers} \cup {WithoutOrigin(q) : q \in Peers}

(* A sync under way: the task it belongs to (at tells device events apart),
   the user and the targets left of it, the users left, the one target of an
   introductory answer, the state that is relayed, and the sync that is about
   to be sent.  late is history: set_destinations was called for the user
   since the check. *)
Tasks == {"timer", "rx", "dev"}
Sync == [by : Tasks, at : Nat, user : Users, targets : SUBSET SyncTarget,
         users : SUBSET Users, only : SyncTarget \cup {None},
         relay : TimestampedLockState \cup {None}, to : Peers \cup {None},
         msg : TimestampedLockState \cup {None}, late : BOOLEAN]

TypeOK ==
    /\ states \in [Peers -> [Users -> TimestampedLockState \cup {None}]]
    /\ persisted \in [Peers -> [Users -> Nat \cup {None}]]
    /\ vault \in [Peers -> [Users -> LockState]]
    /\ destinations \in [Peers -> [Users -> SUBSET Kinds]]
    /\ active \in [Peers -> SUBSET Peers]
    /\ rx \in [Peers -> RxTask]
    /\ dev \in [Peers -> SUBSET DevTask]
    /\ syncs \in [Peers -> SUBSET Sync]
    /\ net \in [Peers -> [Peers -> [Users -> Seq(TimestampedLockState)]]]
    /\ now \in Nat \ {0}
    /\ events \in Nat /\ faults \in Nat /\ changes \in Nat
    /\ made \in [Users -> SUBSET TimestampedLockState]

Init ==
    /\ states = [p \in Peers |-> [u \in Users |-> None]]
    /\ persisted = [p \in Peers |-> [u \in Users |-> None]]
    /\ vault = [p \in Peers |-> [u \in Users |-> "Locked"]]
    /\ destinations = OptIn
    /\ active = [p \in Peers |-> {}]
    /\ rx = [p \in Peers |-> RxIdle]
    /\ dev = [p \in Peers |-> {}]
    /\ syncs = [p \in Peers |-> {}]
    /\ net = [p \in Peers |-> [q \in Peers |-> [u \in Users |-> <<>>]]]
    /\ now = 1
    /\ events = 0 /\ faults = 0 /\ changes = 0
    /\ made = [u \in Users |-> {}]

-----------------------------------------------------------------------------
(* Lock state *)

(* Mutant of Restored: what was persisted is not read back. *)
RestoredRaw(p, u) == states[p][u]
(* The record, or the persisted lock when nothing is recorded. *)
Restored(p, u) ==
    IF states[p][u] = None /\ persisted[p][u] # None
    THEN [lock |-> "Locked", at |-> persisted[p][u]]
    ELSE states[p][u]

Default == [lock |-> "Locked", at |-> 0]
Advertised(p, u) == IF Restored(p, u) = None THEN Default ELSE Restored(p, u)

(* Reading the advertised state of the users us records what was restored. *)
RestoreAll(p, us) ==
    states' = [states EXCEPT ![p] =
                 [u \in Users |-> IF u \in us THEN Restored(p, u) ELSE @[u]]]

-----------------------------------------------------------------------------
(* Sending *)

IsDestination(p, u, q) == Kind[q] \in destinations[p][u]

(* The peers p knows, and its leader. *)
SyncTargets(p, known) ==
    {SyncTargetOf(q) : q \in known} \cup
    {WithoutOrigin(q) : q \in {Leader[p]} \ (known \cup {None})}

(* Mutant of MaySyncUserTo: for a page only the origin is looked at. *)
MaySyncToOrigin(p, u, t) ==
    IF Origin[t.endpoint] = None THEN IsDestination(p, u, t.endpoint)
    ELSE t.origin # None /\ VaultUrl[p][u] = t.origin

(* A web target is refused without an origin. *)
MaySyncUserTo(p, u, t) ==
    /\ IsDestination(p, u, t.endpoint)
    /\ Origin[t.endpoint] # None => t.origin # None /\ VaultUrl[p][u] = t.origin

(* A task syncs u, then the users us, to all targets or to only one: the
   state each user advertises, or the one that is relayed. *)
NewSync(by, at, u, us, targets, only, relay) ==
    [by |-> by, at |-> at, user |-> u, targets |-> targets, users |-> us,
     only |-> only, relay |-> relay, to |-> None, msg |-> None, late |-> FALSE]

Over(w) == w.users = {} /\ w.targets = {} /\ w.to = None
Unless(w) == IF Over(w) THEN {} ELSE {w}

Begin(p, w) == syncs' = [syncs EXCEPT ![p] = @ \cup Unless(w)]
BeginOne(p, by, at, u, relay) ==
    Begin(p, NewSync(by, at, u, {}, SyncTargets(p, active[p]), None, relay))
(* A peer without accounts heard from nobody and has nothing to sync. *)
BeginAll(p, by, targets, only) ==
    \E u \in Accounts[p] :
        Begin(p, NewSync(by, 0, u, Accounts[p] \ {u}, targets, only, None))
Continue(p, w, v) == syncs' = [syncs EXCEPT ![p] = (@ \ {w}) \cup Unless(v)]

(* The receive loop awaits the relay or the introductory answer. *)
RxSyncing(p) == \E w \in syncs[p] : w.by = "rx"

(* The next user of sync_all_users, and sync_targets for it. *)
SyncUser(p, w) ==
    /\ w.targets = {} /\ w.to = None
    /\ \E u \in w.users :
         Continue(p, w, [w EXCEPT !.users = @ \ {u}, !.user = u,
                           !.targets = IF w.only = None THEN SyncTargets(p, active[p])
                                       ELSE {w.only}])
    /\ UNCHANGED <<states, persisted, vault, destinations, active, rx, dev, net,
                   now, counters, made>>

(* The next target is checked; then the state it gets is read. *)
SyncCheck(p, w) ==
    /\ w.to = None
    /\ \E t \in w.targets :
         LET v == [w EXCEPT !.targets = @ \ {t}]
             to == [v EXCEPT !.to = t.endpoint]
         IN  \/ /\ MaySyncUserTo(p, w.user, t) /\ w.relay = None
                /\ Continue(p, w, [to EXCEPT !.msg = Advertised(p, w.user)])
                /\ RestoreAll(p, {w.user})
             \/ /\ MaySyncUserTo(p, w.user, t) /\ w.relay # None
                /\ Continue(p, w, [to EXCEPT !.msg = w.relay])
                /\ UNCHANGED states
             \/ /\ ~MaySyncUserTo(p, w.user, t)
                /\ Continue(p, w, v)
                /\ UNCHANGED states
    /\ UNCHANGED <<persisted, vault, destinations, active, rx, dev, net, now,
                   counters, made>>

SyncSend(p, w) ==
    /\ w.to # None
    /\ net' = [net EXCEPT ![p][w.to][w.user] = Append(@, w.msg)]
    /\ Continue(p, w, [w EXCEPT !.to = None, !.msg = None, !.late = FALSE])
    /\ UNCHANGED <<states, persisted, vault, destinations, active, rx, dev, now,
                   counters, made>>

-----------------------------------------------------------------------------
(* handle_device_event *)

NextDate(p, u) ==
    LET next == IF states[p][u] = None THEN 0 ELSE states[p][u].at + 1
    IN  IF next > now THEN next ELSE now

(* Mutant of AfterRecord: the date of an unlock is persisted as a lock. *)
AfterRecordPersist(p, u, lock, at) ==
    /\ dev' = [dev EXCEPT ![p] = @ \cup {[user |-> u, at |-> at]}]
    /\ UNCHANGED syncs
(* Only a lock is persisted before it is synced. *)
AfterRecord(p, u, lock, at) ==
    \/ /\ lock = "Locked"
       /\ dev' = [dev EXCEPT ![p] = @ \cup {[user |-> u, at |-> at]}]
       /\ UNCHANGED syncs
    \/ /\ lock = "Unlocked"
       /\ BeginOne(p, "dev", at, u, None)
       /\ UNCHANGED dev

(* The user locks or unlocks the vault in the UI; the event is recorded. *)
DeviceEvent(p, u, lock) ==
    /\ events < MaxEvents /\ u \in Accounts[p] /\ vault[p][u] # lock
    /\ events' = events + 1
    /\ vault' = [vault EXCEPT ![p][u] = lock]
    /\ LET s == [lock |-> lock, at |-> NextDate(p, u)] IN
         /\ states' = [states EXCEPT ![p][u] = s]
         /\ made' = [made EXCEPT ![u] = @ \cup {s}]
         /\ AfterRecord(p, u, lock, s.at)
    /\ UNCHANGED <<persisted, destinations, active, rx, net, now,
                   faults, changes>>

DevicePersist(p, t) ==
    /\ persisted' = [persisted EXCEPT ![p][t.user] = t.at]
    /\ dev' = [dev EXCEPT ![p] = @ \ {t}]
    /\ BeginOne(p, "dev", t.at, t.user, None)
    /\ UNCHANGED <<states, vault, destinations, active, rx, net, now, counters, made>>

-----------------------------------------------------------------------------
(* receive_message *)

RxGoto(p, pc) == rx' = [rx EXCEPT ![p].pc = pc]

(* The task t after its state was handled: a first contact is answered. *)
RxDone(t) == IF t.first THEN [t EXCEPT !.pc = "reply"] ELSE RxIdle

(* A sync is accepted from a destination of the user, from the right origin,
   for an account of this device. *)
Accepts(p, q, u) ==
    /\ IsDestination(p, u, q)
    /\ Origin[q] # None => VaultUrl[p][u] = Origin[q]
    /\ u \in Accounts[p]

Take(p, q, u) ==
    /\ rx[p].pc = "idle" /\ ~RxSyncing(p) /\ net[q][p][u] # <<>>
    /\ net' = [net EXCEPT ![q][p][u] = Tail(@)]

(* receive_message up to the comparison of dates. *)
Receive(p, q, u) ==
    /\ Take(p, q, u) /\ Accepts(p, q, u)
    /\ active' = [active EXCEPT ![p] = @ \cup {q}]
    /\ RestoreAll(p, {u})
    /\ LET s == Head(net[q][p][u])
           t == [pc |-> IF s.lock = "Locked" THEN "persist" ELSE "compare",
                 from |-> q, user |-> u, state |-> s, first |-> q \notin active[p]]
       IN  \/ /\ Supersedes(s, Restored(p, u))
              /\ rx' = [rx EXCEPT ![p] = t]
           \/ /\ ~Supersedes(s, Restored(p, u))
              /\ rx' = [rx EXCEPT ![p] = RxDone(t)]
    /\ UNCHANGED <<persisted, vault, destinations, dev, syncs, now, counters, made>>

Ignore(p, q, u) ==
    /\ Take(p, q, u) /\ ~Accepts(p, q, u)
    /\ UNCHANGED <<states, persisted, vault, destinations, active, rx, dev, syncs,
                   now, counters, made>>

(* A lock is persisted before the driver is called. *)
ApplyPersist(p) ==
    /\ rx[p].pc = "persist"
    /\ persisted' = [persisted EXCEPT ![p][rx[p].user] = rx[p].state.at]
    /\ RxGoto(p, "compare")
    /\ UNCHANGED <<states, vault, destinations, active, dev, syncs, net, now,
                   counters, made>>

(* Mutant of ApplyCompare: compared with the raw record. *)
ApplyCompareRaw(p) ==
    /\ rx[p].pc = "compare"
    /\ LET u == rx[p].user
           same == states[p][u] # None /\ states[p][u].lock = rx[p].state.lock
       IN  RxGoto(p, IF same THEN "record" ELSE "drive")
    /\ UNCHANGED <<states, persisted, vault, destinations, active, dev, syncs, net,
                   now, counters, made>>

(* A state that differs from the advertised one is relayed, then driven. *)
ApplyCompare(p) ==
    /\ rx[p].pc = "compare"
    /\ LET u == rx[p].user IN
         /\ RestoreAll(p, {u})
         /\ \/ /\ rx[p].state.lock # Advertised(p, u).lock
               /\ BeginOne(p, "rx", 0, u, rx[p].state)
               /\ RxGoto(p, "drive")
            \/ /\ rx[p].state.lock = Advertised(p, u).lock
               /\ RxGoto(p, "record")
               /\ UNCHANGED syncs
    /\ UNCHANGED <<persisted, vault, destinations, active, dev, net, now, counters, made>>

(* After the relay, lock_user or unlock_user succeeds. *)
ApplyDrive(p) ==
    /\ rx[p].pc = "drive" /\ ~RxSyncing(p)
    /\ vault' = [vault EXCEPT ![p][rx[p].user] = rx[p].state.lock]
    /\ RxGoto(p, "record")
    /\ UNCHANGED <<states, persisted, destinations, active, dev, syncs, net, now,
                   counters, made>>

(* It fails: receive_message returns the error, with nothing recorded and a
   first contact left unanswered. *)
ApplyDriveFails(p) ==
    /\ rx[p].pc = "drive" /\ ~RxSyncing(p) /\ faults < MaxFaults
    /\ faults' = faults + 1
    /\ rx' = [rx EXCEPT ![p] = RxIdle]
    /\ UNCHANGED <<states, persisted, vault, destinations, active, dev, syncs, net,
                   now, events, changes, made>>

(* Mutant of ApplyRecord: the comparison before the awaits is trusted. *)
ApplyRecordAnyway(p) ==
    /\ rx[p].pc = "record"
    /\ states' = [states EXCEPT ![p][rx[p].user] = rx[p].state]
    /\ rx' = [rx EXCEPT ![p] = RxDone(@)]
    /\ UNCHANGED <<persisted, vault, destinations, active, dev, syncs, net, now,
                   counters, made>>

(* record_remote_state compares again, with what is recorded by now. *)
ApplyRecord(p) ==
    /\ rx[p].pc = "record"
    /\ LET u == rx[p].user IN
         \/ /\ Supersedes(rx[p].state, states[p][u])
            /\ states' = [states EXCEPT ![p][u] = rx[p].state]
         \/ ~Supersedes(rx[p].state, states[p][u]) /\ UNCHANGED states
    /\ rx' = [rx EXCEPT ![p] = RxDone(@)]
    /\ UNCHANGED <<persisted, vault, destinations, active, dev, syncs, net, now,
                   counters, made>>

(* The introductory answer begins: every user, to the new peer only.  The
   next sync is received once it is over. *)
Reply(p) ==
    /\ rx[p].pc = "reply"
    /\ LET from == SyncTargetOf(rx[p].from) IN
         BeginAll(p, "rx", {from}, from)
    /\ rx' = [rx EXCEPT ![p] = RxIdle]
    /\ UNCHANGED <<states, persisted, vault, destinations, active, dev, net, now,
                   counters, made>>

-----------------------------------------------------------------------------
(* The timer, set_destinations and the environment *)

(* A tick, or the announcement of start(), begins: silent peers are pruned,
   then every user is synced.  It waits until no sync is under way (a bound on
   them; device events, relays and answers may sync while it runs). *)
TimerSync(p) ==
    /\ \A q, r \in Peers, u \in Users : syncs[q] = {} /\ net[q][r][u] = <<>>
    /\ \E stale \in SUBSET active[p] :
         /\ stale # {} => faults < MaxFaults
         /\ faults' = IF stale = {} THEN faults ELSE faults + 1
         /\ active' = [active EXCEPT ![p] = @ \ stale]
         /\ BeginAll(p, "timer", SyncTargets(p, active[p] \ stale), None)
    /\ UNCHANGED <<states, persisted, vault, destinations, rx, dev, net, now,
                   events, changes, made>>

SetDestinations(p, u, kinds) ==
    /\ changes < MaxChanges
    /\ changes' = changes + 1
    /\ destinations' = [destinations EXCEPT ![p][u] = kinds]
    /\ syncs' = [syncs EXCEPT ![p] =
         {[w EXCEPT !.late = @ \/ (w.to # None /\ w.user = u)] : w \in syncs[p]}]
    /\ UNCHANGED <<states, persisted, vault, active, rx, dev, net, now,
                   events, faults, made>>

(* The process of p is reloaded, possibly inside lock_user: keys, records,
   known peers and tasks are gone, the persisted date stays. *)
Reload(p) ==
    /\ changes < MaxChanges
    /\ changes' = changes + 1
    /\ states' = [states EXCEPT ![p] = [u \in Users |-> None]]
    /\ vault' = [vault EXCEPT ![p] = [u \in Users |-> "Locked"]]
    /\ active' = [active EXCEPT ![p] = {}]
    /\ rx' = [rx EXCEPT ![p] = RxIdle]
    /\ dev' = [dev EXCEPT ![p] = {}]
    /\ syncs' = [syncs EXCEPT ![p] = {}]
    /\ UNCHANGED <<persisted, destinations, net, now, events, faults, made>>

(* A sync is not delivered; send_message only logs it. *)
Lose(p, q, u) ==
    /\ net[p][q][u] # <<>> /\ faults < MaxFaults
    /\ faults' = faults + 1
    /\ net' = [net EXCEPT ![p][q][u] = Tail(@)]
    /\ UNCHANGED <<states, persisted, vault, destinations, active, rx, dev, syncs,
                   now, events, changes, made>>

(* SystemTime moves, and may be set back. *)
Tick ==
    /\ now' \in (1 .. MaxTime) \ {now}
    /\ UNCHANGED <<states, persisted, vault, destinations, active, rx, dev, syncs,
                   net, counters, made>>

-----------------------------------------------------------------------------
RxStep(p) ==
    \/ \E q \in Peers, u \in Users : Receive(p, q, u) \/ Ignore(p, q, u)
    \/ ApplyPersist(p) \/ ApplyCompare(p) \/ ApplyDrive(p) \/ ApplyDriveFails(p)
    \/ ApplyRecord(p) \/ Reply(p)

DevStep(p) == \E t \in dev[p] : DevicePersist(p, t)

SyncStep(p, by) ==
    \E w \in syncs[p] :
        w.by = by /\ (SyncUser(p, w) \/ SyncCheck(p, w) \/ SyncSend(p, w))

Next ==
    \/ \E p \in Peers :
         \/ \E u \in Users, lock \in LockState : DeviceEvent(p, u, lock)
         \/ DevStep(p)
         \/ RxStep(p)
         \/ \E by \in Tasks : SyncStep(p, by)
         \/ TimerSync(p)
         \/ \E u \in Users, kinds \in DestinationSets : SetDestinations(p, u, kinds)
         \/ Reload(p)
         \/ \E q \in Peers, u \in Users : Lose(p, q, u)
    \/ Tick

Spec == Init /\ [][Next]_vars

(* The executor keeps polling the tasks under way and a sync that is not lost
   is delivered, and the timer keeps firing (strongly: the bound on ticks
   holds it back while a sync is under way, the code does not). *)
Fairness ==
    /\ WF_vars(\E p \in Peers : \/ DevStep(p) \/ RxStep(p)
                                \/ \E by \in Tasks : SyncStep(p, by))
    /\ \A p \in Peers : SF_vars(TimerSync(p))

FairSpec == Spec /\ Fairness

-----------------------------------------------------------------------------
(* Properties *)

(* Each device's record is a last-writer-wins register of states that users
   really entered, whatever the interleaving of the receive loop, the timer,
   device events and reloads. *)
Register == INSTANCE LockRegister WITH reg <- states
LastWriterWins == Register!RegSpec

(* No date is invented: what is recorded, persisted, being applied, about to
   be sent or under way is a state some device entered (or the default that loses every
   comparison), and only locks are persisted. *)
Provenance ==
    /\ \A u \in Users : \A s \in made[u] : s.at > 0
    /\ \A p \in Peers, u \in Users :
         /\ states[p][u] # None => states[p][u] \in made[u]
         /\ persisted[p][u] # None =>
              [lock |-> "Locked", at |-> persisted[p][u]] \in made[u]
    /\ \A p \in Peers : rx[p].pc \notin {"idle", "reply"} =>
         /\ rx[p].state \in made[rx[p].user]
         /\ rx[p].pc = "persist" => rx[p].state.lock = "Locked"
    /\ \A p \in Peers : \A t \in dev[p] :
         [lock |-> "Locked", at |-> t.at] \in made[t.user]
    /\ \A p \in Peers : \A w \in syncs[p] :
         /\ w.relay # None => w.users = {} /\ w.relay \in made[w.user]
         /\ w.to # None => w.msg \in made[w.user] \cup {Default}
    /\ \A p, q \in Peers, u \in Users :
         net[p][q][u] \in Seq(made[u] \cup {Default})

Entitled(p, u, q) ==
    /\ u \in Accounts[p] /\ Kind[q] \in destinations[p][u]
    /\ Origin[q] # None => VaultUrl[p][u] = Origin[q]
Sends(p, q, u) == Len(net'[p][q][u]) > Len(net[p][q][u])

(* "A client that is not in the set is never synced that user" (peer.rs).  It
   is: the set is read before the awaits of the vault URL, of the persisted
   date and of the transport, and may be replaced at each of them. *)
OnlyEntitledSyncs ==
    [][\A p, q \in Peers, u \in Users : Sends(p, q, u) => Entitled(p, u, q)]_vars

(* What does hold on every path that sends (tick, device event, relay,
   introductory answer): a sync goes out after the user stopped sharing with
   its recipient only when that one sync was past its check when the user did,
   and "a page served by one vault is never handed another vault's key
   material" (peer.rs). *)
SyncsCleared ==
    [][\A p, q \in Peers, u \in Users : Sends(p, q, u) =>
         \/ Entitled(p, u, q)
         \/ /\ u \in Accounts[p] /\ (Origin[q] # None => VaultUrl[p][u] = Origin[q])
            /\ \E w \in syncs[p] : w.user = u /\ w.to = q /\ w.late]_vars

(* The first state a reloaded process records, other than a new device event,
   is its persisted lock or one that supersedes it: a lock "must come back as
   locked at T+1" (peer.rs), whatever arrives first. *)
LockSurvivesReload ==
    [][\A p \in Peers, u \in Users :
         /\ states[p][u] = None /\ states'[p][u] # None /\ UNCHANGED events
         /\ persisted[p][u] # None
         => LET kept == [lock |-> "Locked", at |-> persisted[p][u]]
            IN  states'[p][u] = kept \/ Supersedes(states'[p][u], kept)]_vars

(* A process that has observed nothing for a user since it started never
   calls lock_user for it, so a client that restarts on lock cannot loop. *)
NoRelockAfterRestart ==
    \A p \in Peers :
        rx[p].pc = "drive" /\ rx[p].state.lock = "Locked"
            => states[p][rx[p].user] # None

(* Once users, reloads and faults stop, all devices that share a user come to
   hold the same state of it, with the same date, and keep it. *)
Converged ==
    \A p, q \in Peers, u \in Users :
        Entitled(p, u, q) /\ Entitled(q, u, p) => Advertised(p, u) = Advertised(q, u)
Convergence == <>[]Converged

(* The persisted date is "the date of the user's last lock, whether made on
   this device or applied from a peer" (drivers.rs), when no task is about to
   write it.  It is not: a remote lock persists its date before it is recorded
   and a device event after, and the older of two dates may be written last. *)
Settled(p) == rx[p].pc = "idle" /\ dev[p] = {}
PersistedIsLastLock ==
    \A p \in Peers, u \in Users :
        Settled(p) /\ states[p][u] # None /\ states[p][u].lock = "Locked"
            => persisted[p][u] = states[p][u].at

(* "Applies a peer's state if it is newer than what this device has recorded"
   (peer.rs): once settled, the vault is in the state that is recorded. *)
VaultFollowsRecord ==
    \A p \in Peers, u \in Users :
        Settled(p) /\ states[p][u] # None => vault[p][u] = states[p][u].lock
=============================================================================
