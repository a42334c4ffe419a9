---------------------------- MODULE NoiseSession ----------------------------
(***************************************************************************)
(* The Noise crypto provider of bitwarden-ipc: sessions between endpoints, *)
(* the handshake a send performs when it has no usable session, the        *)
(* receive loop that answers handshakes, decrypts frames and resets        *)
(* sessions, and the one crypto_state_guard mutex of each client.          *)
(*                                                                         *)
(* Every access to the session repository and every transport send is a    *)
(* step of its own, because each is an await of the source.  A transport   *)
(* send that succeeds puts the frame in the receiver's subscription        *)
(* buffer; latency is the time the receiver leaves it there.               *)
(***************************************************************************)
EXTENDS Naturals, Sequences, FiniteSets

CONSTANTS
    Nodes,        \* endpoints, each running one IPC client
    Senders,      \* tasks of a client that may call send() concurrently
    None,         \* absent session, sender, reply or guard holder
    Durable,      \* may a session repository outlive a reload
    DropsSends,   \* may a caller drop the future of its send()
    MaxEph,       \* bound: ephemeral keys a node may draw
    MaxSends,     \* bound: send() calls of a node
    MaxFaults,    \* bound: reloads, restarted loops, dropped sends, repeated frames
    MaxReplays,   \* bound: frames the transport hands over twice
    MaxAged       \* bound: sessions that live past the rehandshake interval

VARIABLES
    sessions,     \* sessions[n][d]: n's repository entry for destination d
    guard,        \* guard[n]: the task that holds n's crypto_state_guard
    snd,          \* snd[n][s]: where the send task s of n is
    rcv,          \* rcv[n]: where the receive loop of n is
    inbox,        \* inbox[n]: frames handed to n, not yet taken by its loop
    eph,          \* eph[n]: how many ephemeral keys n has drawn
    aged,         \* sending keys whose session is past the rehandshake interval
    sent,         \* sent[n]: how many send() calls n has started
    reloads,      \* reloads, restarts of a loop and dropped sends so far
    replays,      \* duplicated frames so far
    used,         \* history: every encryption, as key, nonce and message
    cut,          \* history: encryptions whose send() ended before its save
    log           \* log[n]: history of the frames n delivered, in order

vars == <<sessions, guard, snd, rcv, inbox, eph, aged, sent, reloads, replays,
          used, cut, log>>
history == <<used, cut, log>>
bounds == <<sent, reloads, replays>>

-----------------------------------------------------------------------------
(* Keys, sessions and frames *)

Roles == {"initiator", "responder"}
OtherRole(r) == IF r = "initiator" THEN "responder" ELSE "initiator"

(* An ephemeral key is fresh randomness, named by the node that drew it, the
   peer it was drawn for and how many the node had drawn. *)
Eph == [by : Nodes, for : Nodes, no : Nat]
NewEph(n, d) == [by |-> n, for |-> d, no |-> eph[n] + 1]

(* A handshake is determined by both ephemeral keys; its two symmetric keys
   are told apart by the role of the side that encrypts with them: i2r is
   the initiator's, r2i the responder's. *)
Key == [init : Eph, resp : Eph, role : Roles]

Session == [key : Key, sendNonce : Nat, recvNonce : Nat]

(* The key of the opposite direction of the same handshake. *)
Flip(k) == [k EXCEPT !.role = OtherRole(@)]
RecvKey(c) == Flip(c.key)

NewSession(i, r, role) ==
    [key |-> [init |-> i, resp |-> r, role |-> role],
     sendNonce |-> 0, recvNonce |-> 0]

(* A message is named by its sender, its place among the sender's calls of
   send() and its destination. *)
Message == [from : Nodes, no : Nat, to : Nodes]

Encryption == [key : Key, nonce : Nat, msg : Message]

(* What a HandshakeFinish answers and adds. *)
Reply == [init : Eph, resp : Eph]

Frame == [type : {"start"}, src : Nodes, init : Eph]
         \cup [type : {"finish"}, src : Nodes, init : Eph, resp : Eph]
         \cup [type : {"frame"}, src : Nodes, body : Encryption]
         \cup [type : {"invalidated"}, src : Nodes]

ASSUME NoneAssumption ==
    /\ None \notin Nodes \cup Senders \cup {"receive"}
    /\ None \notin Session
    /\ None \notin Eph \cup Reply \cup Encryption
ASSUME SendersAssumption == "receive" \notin Senders
ASSUME FaultsAssumption == Durable \in BOOLEAN /\ DropsSends \in BOOLEAN
ASSUME BoundsAssumption ==
    /\ MaxEph \in Nat /\ MaxSends \in Nat
    /\ MaxFaults \in Nat /\ MaxReplays \in Nat /\ MaxAged \in Nat

(* Mutants of Decryptable: no nonce check; the last nonce accepted again. *)
DecryptableAnyNonce(c, e) == e.key = RecvKey(c)
DecryptableSameNonce(c, e) == e.nonce >= c.recvNonce /\ e.key = RecvKey(c)

(* PersistentTransportState::receive accepts a nonce above the last one it
   accepted, under its own receiving key. *)
Decryptable(c, e) == e.nonce > c.recvNonce /\ e.key = RecvKey(c)

-----------------------------------------------------------------------------
(* Tasks *)

SendPc == {"idle", "get", "expire", "start", "wait", "load", "transmit",
           "drop", "save", "panicked"}
Idle == [pc |-> "idle", dest |-> None, no |-> 0, init |-> None,
         reply |-> None, copy |-> None]
SendTask == [pc : SendPc, dest : Nodes \cup {None}, no : Nat,
             init : Eph \cup {None}, reply : Reply \cup {None},
             copy : Session \cup {None}]

RecvPc == {"idle", "respond", "decrypted", "invalidate"}
RecvIdle == [pc |-> "idle", src |-> None, copy |-> None, got |-> None]
RecvTask == [pc : RecvPc, src : Nodes \cup {None}, copy : Session \cup {None},
             got : Encryption \cup {None}]

TypeOK ==
    /\ sessions \in [Nodes -> [Nodes -> Session \cup {None}]]
    /\ guard \in [Nodes -> Senders \cup {"receive", None}]
    /\ snd \in [Nodes -> [Senders -> SendTask]]
    /\ rcv \in [Nodes -> RecvTask]
    /\ inbox \in [Nodes -> Seq(Frame)]
    /\ eph \in [Nodes -> Nat]
    /\ aged \in SUBSET Key
    /\ sent \in [Nodes -> Nat]
    /\ reloads \in Nat
    /\ replays \in Nat
    /\ used \in SUBSET Encryption
    /\ cut \in SUBSET Encryption
    /\ log \in [Nodes -> Seq(Encryption)]

Init ==
    /\ sessions = [n \in Nodes |-> [d \in Nodes |-> None]]
    /\ guard = [n \in Nodes |-> None]
    /\ snd = [n \in Nodes |-> [s \in Senders |-> Idle]]
    /\ rcv = [n \in Nodes |-> RecvIdle]
    /\ inbox = [n \in Nodes |-> <<>>]
    /\ eph = [n \in Nodes |-> 0]
    /\ aged = {}
    /\ sent = [n \in Nodes |-> 0]
    /\ reloads = 0 /\ replays = 0
    /\ used = {} /\ cut = {}
    /\ log = [n \in Nodes |-> <<>>]

Save(n, d, c) == sessions' = [sessions EXCEPT ![n][d] = c]
Remove(n, d) == Save(n, d, None)
(* The receiver's buffer with one more frame. *)
Post(box, d, f) == [box EXCEPT ![d] = Append(@, f)]
(* Mutant of Lock: the guard does not exclude. *)
LockAnyway(n, task) == guard' = [guard EXCEPT ![n] = task]
Lock(n, task) == guard[n] = None /\ guard' = [guard EXCEPT ![n] = task]
Unlock(n) == guard' = [guard EXCEPT ![n] = None]
Become(n, s, t) == snd' = [snd EXCEPT ![n][s] = t]
Goto(n, s, pc) == Become(n, s, [snd[n][s] EXCEPT !.pc = pc])

(* The send future returns, by Ok, Err or an unwinding panic, and drops its
   guard. *)
Return(n, s) == Become(n, s, Idle) /\ Unlock(n)

(* The awaits of send() under the guard, and those at which its message is
   encrypted and the advanced nonce only in its copy of the session. *)
Active == SendPc \ {"idle", "panicked"}
Encrypted == {"transmit", "save", "drop"}

(* What the send task s of n encrypted. *)
EncOf(n, s) ==
    [key |-> snd[n][s].copy.key, nonce |-> snd[n][s].copy.sendNonce,
     msg |-> [from |-> n, no |-> snd[n][s].no, to |-> snd[n][s].dest]]

-----------------------------------------------------------------------------
(* send() *)

SendLock(n, s, d) ==
    /\ snd[n][s].pc = "idle" /\ n # d /\ sent[n] < MaxSends
    /\ Lock(n, s)
    /\ sent' = [sent EXCEPT ![n] = @ + 1]
    /\ Become(n, s, [Idle EXCEPT !.pc = "get", !.dest = d, !.no = sent[n] + 1])
    /\ UNCHANGED <<sessions, rcv, inbox, eph, aged, reloads, replays, history>>

SendGet(n, s) ==
    /\ snd[n][s].pc = "get"
    /\ LET c == sessions[n][snd[n][s].dest] IN
         \/ c = None /\ Goto(n, s, "start")
         \/ c # None /\ c.key \in aged /\ Goto(n, s, "expire")
         \/ c # None /\ c.key \notin aged /\ Goto(n, s, "load")
    /\ UNCHANGED <<sessions, guard, rcv, inbox, eph, aged, bounds, history>>

SendExpire(n, s) ==
    /\ snd[n][s].pc = "expire"
    /\ Remove(n, snd[n][s].dest)
    /\ Goto(n, s, "start")
    /\ UNCHANGED <<guard, rcv, inbox, eph, aged, bounds, history>>

(* perform_handshake up to its wait: subscribe, then send HandshakeStart. *)
HandshakeStart(n, s) ==
    /\ snd[n][s].pc = "start"
    /\ eph[n] < MaxEph
    /\ LET d == snd[n][s].dest
           i == NewEph(n, d)
       IN  /\ Become(n, s, [snd[n][s] EXCEPT !.pc = "wait", !.init = i])
           /\ inbox' = Post(inbox, d, [type |-> "start", src |-> n, init |-> i])
    /\ eph' = [eph EXCEPT ![n] = @ + 1]
    /\ UNCHANGED <<sessions, guard, rcv, aged, bounds, history>>

HandshakeStartFails(n, s) ==
    /\ snd[n][s].pc = "start"
    /\ Return(n, s)
    /\ UNCHANGED <<sessions, rcv, inbox, eph, aged, bounds, history>>

(* The first HandshakeFinish of the destination ends the wait.  It decrypts
   only if it answers this very start message. *)
HandshakeFinish(n, s) ==
    /\ snd[n][s].pc = "wait" /\ snd[n][s].reply # None
    /\ LET t == snd[n][s] IN
         \/ /\ t.reply.init = t.init
            /\ Save(n, t.dest, NewSession(t.init, t.reply.resp, "initiator"))
            /\ Goto(n, s, "load")
            /\ UNCHANGED guard
         \/ /\ t.reply.init # t.init
            /\ Return(n, s)
            /\ UNCHANGED sessions
    /\ UNCHANGED <<rcv, inbox, eph, aged, bounds, history>>

(* Mutants of HandshakeTimeout: the wait has no timeout; the guard outlives
   the call that timed out. *)
HandshakeNoTimeout(n, s) == snd[n][s].pc = "wait" /\ Goto(n, s, "wait") /\ FALSE
HandshakeTimeoutKeepsGuard(n, s) ==
    /\ snd[n][s].pc = "wait" /\ snd[n][s].reply = None
    /\ Become(n, s, Idle)
    /\ UNCHANGED <<sessions, guard, rcv, inbox, eph, aged, bounds, history>>

HandshakeTimeout(n, s) ==
    /\ snd[n][s].pc = "wait" /\ snd[n][s].reply = None
    /\ Return(n, s)
    /\ UNCHANGED <<sessions, rcv, inbox, eph, aged, bounds, history>>

(* The session is read again, with an expect(), and its copy encrypts. *)
SendEncrypt(n, s) ==
    /\ snd[n][s].pc = "load"
    /\ LET t == snd[n][s]
           c == sessions[n][t.dest]
       IN  \/ /\ c = None
              /\ Become(n, s, [Idle EXCEPT !.pc = "panicked"])
              /\ Unlock(n)
              /\ UNCHANGED used
           \/ /\ c # None
              /\ Become(n, s, [t EXCEPT !.pc = "transmit",
                                        !.copy = [c EXCEPT !.sendNonce = @ + 1]])
              /\ used' = used \cup
                   {[key |-> c.key, nonce |-> c.sendNonce + 1,
                     msg |-> [from |-> n, no |-> t.no, to |-> t.dest]]}
              /\ UNCHANGED guard
    /\ UNCHANGED <<sessions, rcv, inbox, eph, aged, bounds, cut, log>>

SendTransmit(n, s) ==
    /\ snd[n][s].pc = "transmit"
    /\ inbox' = Post(inbox, snd[n][s].dest,
                     [type |-> "frame", src |-> n, body |-> EncOf(n, s)])
    /\ Goto(n, s, "save")
    /\ UNCHANGED <<sessions, guard, rcv, eph, aged, bounds, history>>

(* ErrorKind::Other is logged and send() goes on as if it had succeeded;
   Fatal and Unreachable tear the session down. *)
SendTransmitFails(n, s) ==
    /\ snd[n][s].pc = "transmit"
    /\ \/ Goto(n, s, "save")
       \/ Goto(n, s, "drop")
    /\ UNCHANGED <<sessions, guard, rcv, inbox, eph, aged, bounds, history>>

SendDrop(n, s) ==
    /\ snd[n][s].pc = "drop"
    /\ Remove(n, snd[n][s].dest)
    /\ Return(n, s)
    /\ UNCHANGED <<rcv, inbox, eph, aged, bounds, history>>

(* Mutant of SendSave: the advanced nonce is not stored. *)
SendSaveForgets(n, s) ==
    /\ snd[n][s].pc = "save"
    /\ Return(n, s)
    /\ UNCHANGED <<sessions, rcv, inbox, eph, aged, bounds, history>>

SendSave(n, s) ==
    /\ snd[n][s].pc = "save"
    /\ Save(n, snd[n][s].dest, snd[n][s].copy)
    /\ Return(n, s)
    /\ UNCHANGED <<rcv, inbox, eph, aged, bounds, history>>

-----------------------------------------------------------------------------
(* receive() *)

Take(n, type) ==
    rcv[n].pc = "idle" /\ inbox[n] # <<>> /\ Head(inbox[n]).type = type
Rest(n) == [inbox EXCEPT ![n] = Tail(@)]
Pop(n) == inbox' = Rest(n)

(* Every subscriber gets every frame: a waiting handshake keeps the first
   HandshakeFinish from its destination. *)
Answer(m, n, i, r) ==
    snd' = [snd EXCEPT ![m] = [s \in Senders |->
              IF @[s].pc = "wait" /\ @[s].dest = n /\ @[s].reply = None
              THEN [@[s] EXCEPT !.reply = [init |-> i, resp |-> r]] ELSE @[s]]]

(* HandshakeStart is answered first and saved after; no guard is taken. *)
RecvStart(n) ==
    /\ Take(n, "start")
    /\ LET f == Head(inbox[n])
           r == NewEph(n, f.src)
       IN  \/ /\ eph[n] < MaxEph
              /\ eph' = [eph EXCEPT ![n] = @ + 1]
              /\ inbox' = Post(Rest(n), f.src,
                    [type |-> "finish", src |-> n, init |-> f.init, resp |-> r])
              /\ Answer(f.src, n, f.init, r)
              /\ rcv' = [rcv EXCEPT ![n] = [RecvIdle EXCEPT !.pc = "respond",
                    !.src = f.src, !.copy = NewSession(f.init, r, "responder")]]
           \/ Pop(n) /\ UNCHANGED <<eph, snd, rcv>>
    /\ UNCHANGED <<sessions, guard, aged, bounds, history>>

RecvRespondSave(n) ==
    /\ rcv[n].pc = "respond"
    /\ Save(n, rcv[n].src, rcv[n].copy)
    /\ rcv' = [rcv EXCEPT ![n] = RecvIdle]
    /\ UNCHANGED <<guard, snd, inbox, eph, aged, bounds, history>>

RecvFrame(n) ==
    /\ Take(n, "frame") /\ guard[n] = None
    /\ Pop(n)
    /\ LET f == Head(inbox[n])
           c == sessions[n][f.src]
       IN  \/ /\ c = None
              /\ Lock(n, "receive")
              /\ rcv' = [rcv EXCEPT ![n] =
                           [RecvIdle EXCEPT !.pc = "invalidate", !.src = f.src]]
           \/ /\ c # None /\ Decryptable(c, f.body)
              /\ Lock(n, "receive")
              /\ rcv' = [rcv EXCEPT ![n] =
                           [pc |-> "decrypted", src |-> f.src, got |-> f.body,
                            copy |-> [c EXCEPT !.recvNonce = f.body.nonce]]]
           \/ /\ c # None /\ ~Decryptable(c, f.body)
              /\ UNCHANGED <<guard, rcv>>
    /\ UNCHANGED <<sessions, snd, eph, aged, bounds, history>>

RecvSave(n) ==
    /\ rcv[n].pc = "decrypted"
    /\ Save(n, rcv[n].src, rcv[n].copy)
    /\ log' = [log EXCEPT ![n] = Append(@, rcv[n].got)]
    /\ rcv' = [rcv EXCEPT ![n] = RecvIdle]
    /\ Unlock(n)
    /\ UNCHANGED <<snd, inbox, eph, aged, bounds, used, cut>>

(* A frame without a session is answered with CryptoInvalidated, under the
   guard; the answer may fail. *)
RecvInvalidate(n) ==
    /\ rcv[n].pc = "invalidate"
    /\ \/ inbox' = Post(inbox, rcv[n].src, [type |-> "invalidated", src |-> n])
       \/ UNCHANGED inbox
    /\ rcv' = [rcv EXCEPT ![n] = RecvIdle]
    /\ Unlock(n)
    /\ UNCHANGED <<sessions, snd, eph, aged, bounds, history>>

RecvInvalidated(n) ==
    /\ Take(n, "invalidated")
    /\ Pop(n)
    /\ Remove(n, Head(inbox[n]).src)
    /\ UNCHANGED <<guard, snd, rcv, eph, aged, bounds, history>>

RecvIgnore(n) ==
    /\ Take(n, "finish")
    /\ Pop(n)
    /\ UNCHANGED <<sessions, guard, snd, rcv, eph, aged, bounds, history>>

-----------------------------------------------------------------------------
(* Environment *)

(* REHANDSHAKE_INTERVAL_SECS pass for the session n keeps for d. *)
Age(n, d) ==
    /\ sessions[n][d] # None /\ Cardinality(aged) < MaxAged
    /\ aged' = aged \cup {sessions[n][d].key}
    /\ UNCHANGED <<sessions, guard, snd, rcv, inbox, eph, bounds, history>>

(* The process of n is reloaded: every task is gone, and so is an
   InMemorySessionRepository; a client-managed one may keep its sessions, as
   they were saved last.  Frames under way are lost or reach the new process. *)
Reload(n) ==
    /\ reloads + replays < MaxFaults
    /\ reloads' = reloads + 1
    /\ \/ /\ sessions' = [sessions EXCEPT ![n] = [d \in Nodes |-> None]]
          /\ UNCHANGED cut
       \/ /\ Durable /\ UNCHANGED sessions
          /\ cut' = cut \cup
               {EncOf(n, s) : s \in {u \in Senders : snd[n][u].pc \in Encrypted}}
    /\ guard' = [guard EXCEPT ![n] = None]
    /\ snd' = [snd EXCEPT ![n] = [s \in Senders |-> Idle]]
    /\ rcv' = [rcv EXCEPT ![n] = RecvIdle]
    /\ \/ inbox' = [inbox EXCEPT ![n] = <<>>]
       \/ UNCHANGED inbox
    /\ UNCHANGED <<eph, aged, sent, replays, used, log>>

(* The caller of send() drops its future at an await: the guard is released
   and nothing is saved or removed any more. *)
DropSend(n, s) ==
    /\ DropsSends /\ snd[n][s].pc \in Active
    /\ reloads + replays < MaxFaults
    /\ reloads' = reloads + 1
    /\ cut' = IF snd[n][s].pc \in Encrypted THEN cut \cup {EncOf(n, s)} ELSE cut
    /\ Return(n, s)
    /\ UNCHANGED <<sessions, rcv, inbox, eph, aged, sent, replays, used, log>>

(* The client of n is stopped and started again: select! drops receive() where
   it awaits, with the frame it took and the guard it holds, and the new loop
   subscribes anew.  Sessions stay, and so do the tasks in send(). *)
RestartLoop(n) ==
    /\ reloads + replays < MaxFaults
    /\ reloads' = reloads + 1
    /\ guard' = [guard EXCEPT ![n] = IF @ = "receive" THEN None ELSE @]
    /\ rcv' = [rcv EXCEPT ![n] = RecvIdle]
    /\ \/ inbox' = [inbox EXCEPT ![n] = <<>>]
       \/ UNCHANGED inbox
    /\ UNCHANGED <<sessions, snd, eph, aged, sent, replays, history>>

(* The transport hands a frame to n a second time, later: to its receive loop
   and to a handshake that waits. *)
Redeliver(n) ==
    /\ replays < MaxReplays /\ reloads + replays < MaxFaults /\ inbox[n] # <<>>
    /\ replays' = replays + 1
    /\ LET f == Head(inbox[n]) IN
         /\ inbox' = Post(inbox, n, f)
         /\ \/ f.type = "finish" /\ Answer(n, f.src, f.init, f.resp)
            \/ f.type # "finish" /\ UNCHANGED snd
    /\ UNCHANGED <<sessions, guard, rcv, eph, aged, sent, reloads, history>>

-----------------------------------------------------------------------------
(* What a send task does once it holds the guard. *)
SendStep(n, s) ==
    \/ SendGet(n, s) \/ SendExpire(n, s)
    \/ HandshakeStart(n, s) \/ HandshakeStartFails(n, s)
    \/ HandshakeFinish(n, s) \/ HandshakeTimeout(n, s)
    \/ SendEncrypt(n, s) \/ SendTransmit(n, s) \/ SendTransmitFails(n, s)
    \/ SendDrop(n, s) \/ SendSave(n, s)

LoopStep(n) ==
    \/ RecvStart(n) \/ RecvRespondSave(n)
    \/ RecvFrame(n) \/ RecvSave(n) \/ RecvInvalidate(n)
    \/ RecvInvalidated(n) \/ RecvIgnore(n)

Next ==
    \E n \in Nodes :
        \/ \E s \in Senders, d \in Nodes : SendLock(n, s, d)
        \/ \E s \in Senders : SendStep(n, s)
        \/ \E s \in Senders : DropSend(n, s)
        \/ LoopStep(n)
        \/ \E d \in Nodes : Age(n, d)
        \/ Reload(n)
        \/ RestartLoop(n)
        \/ Redeliver(n)

Spec == Init /\ [][Next]_vars

(* The executor keeps polling a task that can proceed, and the timer of the
   handshake fires. *)
Fairness ==
    /\ \A n \in Nodes, s \in Senders : WF_vars(SendStep(n, s))
    /\ \A n \in Nodes : WF_vars(LoopStep(n))

FairSpec == Spec /\ Fairness

-----------------------------------------------------------------------------
(* Properties *)

(* transport_state.rs says of the nonce that it "must be unique for every
   message encrypted with the same key" and is "never reset to a lower value".
   send() saves the advanced nonce only after its transport send: the session
   of a future dropped at that await, or of a reload that keeps the sessions,
   encrypts the next message with the same key and nonce. *)
NonceUnique ==
    \A a, b \in used : a.key = b.key /\ a.nonce = b.nonce => a = b

(* That is the only way: of two encryptions that share a key and a nonce, one
   was made by a send() that was cut off before its save.  It takes two tasks
   of one client, or a task and the receive loop, to break. *)
NonceUniqueUnlessCut ==
    \A a, b \in used : a.key = b.key /\ a.nonce = b.nonce
        => a = b \/ a \in cut \/ b \in cut

(* Under one key the nonces a client delivers only grow, whatever the
   transport repeats and however saves of the session are interleaved. *)
NoReplay ==
    \A n \in Nodes : \A i, j \in DOMAIN log[n] :
        i < j /\ log[n][i].key = log[n][j].key
            => log[n][i].nonce < log[n][j].nonce

(* Across rehandshakes, resets and reloads, what a node delivers from a peer
   is in the order of the peer's send() calls, each at most once, and was
   addressed to it. *)
InOrderDelivery ==
    \A n \in Nodes : \A j \in DOMAIN log[n] :
        /\ log[n][j].msg.to = n
        /\ \A i \in 1 .. j - 1 :
             log[n][i].msg.from = log[n][j].msg.from
                 => log[n][i].msg.no < log[n][j].msg.no

(* Every send() that got the guard ends, so the guard is released and neither
   two peers waiting for each other's handshake nor a lost answer can block a
   client for good. *)
SendCompletes ==
    \A n \in Nodes, s \in Senders :
        snd[n][s].pc # "idle" ~> snd[n][s].pc \in {"idle", "panicked"}

(* The receive loop gets through what it was handed, although frames wait for
   the guard that a handshake may hold. *)
InboxDrains == \A n \in Nodes : inbox[n] # <<>> ~> inbox[n] = <<>>

(* The inductive invariant: first the part behind NonceUniqueUnlessCut and
   NoReplay. *)

(* One task of a client at a time is past its lock. *)
GuardInv ==
    \A n \in Nodes :
        /\ \A s \in Senders : snd[n][s].pc \in Active => guard[n] = s
        /\ rcv[n].pc \in {"decrypted", "invalidate"} => guard[n] = "receive"

(* What a task has in its locals at each await. *)
TaskInv ==
    \A n \in Nodes :
        /\ \A s \in Senders :
             /\ snd[n][s].pc \in Active => snd[n][s].dest \in Nodes
             /\ snd[n][s].pc = "wait" => snd[n][s].init \in Eph
             /\ snd[n][s].pc \in Encrypted => snd[n][s].copy \in Session
        /\ rcv[n].pc # "idle" => rcv[n].src \in Nodes
        /\ rcv[n].pc \in {"respond", "decrypted"} => rcv[n].copy \in Session
        /\ rcv[n].pc = "decrypted" => rcv[n].got \in Encryption

(* The ephemeral key by which the holder of a sending key contributed to it. *)
MyEph(k) == IF k.role = "initiator" THEN k.init ELSE k.resp

Drew(n, e) == e.by = n /\ e.no <= eph[n]
DrewFor(n, d, e) == Drew(n, e) /\ e.for = d

(* A sending key is only ever held by the node that drew its ephemeral key,
   for the peer it drew it for. *)
OwnedInv ==
    /\ \A a \in used : Drew(a.msg.from, MyEph(a.key))
    /\ \A n \in Nodes :
        /\ \A d \in Nodes :
             sessions[n][d] # None => DrewFor(n, d, MyEph(sessions[n][d].key))
        /\ \A s \in Senders :
             /\ snd[n][s].pc = "wait" => DrewFor(n, snd[n][s].dest, snd[n][s].init)
             /\ snd[n][s].pc \in Encrypted =>
                  DrewFor(n, snd[n][s].dest, MyEph(snd[n][s].copy.key))
        /\ rcv[n].pc \in {"respond", "decrypted"} =>
             DrewFor(n, rcv[n].src, MyEph(rcv[n].copy.key))
        /\ \A i \in DOMAIN log[n] : Drew(n, MyEph(Flip(log[n][i].key)))

(* No session was ever built from the ephemeral key e of n. *)
Unspent(n, e) ==
    /\ \A d \in Nodes :
         sessions[n][d] # None => MyEph(sessions[n][d].key) # e
    /\ \A a \in used : MyEph(a.key) # e
    /\ \A i \in DOMAIN log[n] : MyEph(Flip(log[n][i].key)) # e

(* A handshake in progress will save a session with keys never used. *)
FreshInv ==
    \A n \in Nodes :
        /\ \A s \in Senders : snd[n][s].pc = "wait" =>
             /\ Unspent(n, snd[n][s].init)
             /\ rcv[n].pc = "respond" => MyEph(rcv[n].copy.key) # snd[n][s].init
        /\ rcv[n].pc = "respond" =>
             /\ Unspent(n, MyEph(rcv[n].copy.key))
             /\ \A s \in Senders : snd[n][s].pc \in Encrypted =>
                  MyEph(snd[n][s].copy.key) # MyEph(rcv[n].copy.key)

SendCovers(c) == \A a \in used : a.key = c.key => a.nonce <= c.sendNonce
RecvCovers(n, c) ==
    \A i \in DOMAIN log[n] :
        log[n][i].key = Flip(c.key) => log[n][i].nonce <= c.recvNonce

(* The encryptions n may have made with the session it stores for d and not
   saved: those cut off, and that of a send that is still to save. *)
Unsaved(n, d) ==
    cut \cup {EncOf(n, s) : s \in {u \in Senders :
                              snd[n][u].pc \in Encrypted /\ snd[n][u].dest = d}}
(* c is behind what was encrypted with its key by one nonce at most, and that
   only in the encryptions of U. *)
SendCoversBut(c, U) ==
    \A a \in used : a.key = c.key =>
        a.nonce <= c.sendNonce \/ (a.nonce = c.sendNonce + 1 /\ a \in U)

(* A copy of a session is never behind what was encrypted or delivered with
   its keys, except by the encryption a send has not saved. *)
NonceInv ==
    \A n \in Nodes :
        /\ \A d \in Nodes : sessions[n][d] # None =>
             /\ RecvCovers(n, sessions[n][d])
             /\ SendCoversBut(sessions[n][d], Unsaved(n, d))
        /\ \A s \in Senders : snd[n][s].pc \in Encrypted =>
             SendCovers(snd[n][s].copy) /\ RecvCovers(n, snd[n][s].copy)
        /\ rcv[n].pc = "decrypted" =>
             /\ SendCoversBut(rcv[n].copy, cut)
             /\ rcv[n].got.key = Flip(rcv[n].copy.key)
             /\ rcv[n].got.nonce = rcv[n].copy.recvNonce
             /\ \A i \in DOMAIN log[n] : log[n][i].key = rcv[n].got.key
                  => log[n][i].nonce < rcv[n].got.nonce

(* Sends are cut off with their session kept only where a caller drops them or
   the repository is durable. *)
CutInv == cut = {} \/ Durable \/ DropsSends

(* The rest of it, behind InOrderDelivery. *)

(* The calls of send() encrypt one after the other, each at most once. *)
CallInv ==
    /\ \A a \in used : a.msg.no <= sent[a.msg.from]
    /\ \A n \in Nodes, s \in Senders : snd[n][s].pc \in Active =>
         /\ snd[n][s].no = sent[n]
         /\ snd[n][s].pc \notin Encrypted =>
              \A a \in used : a.msg.from = n => a.msg.no < sent[n]

(* The sessions n has for d: the stored one and the copies of its tasks. *)
Held(n, d) ==
    ({sessions[n][d]}
     \cup {snd[n][s].copy : s \in {u \in Senders :
                                 snd[n][u].pc \in Encrypted /\ snd[n][u].dest = d}}
     \cup (IF rcv[n].pc \in {"respond", "decrypted"} /\ rcv[n].src = d
           THEN {rcv[n].copy} ELSE {})) \ {None}

(* The ephemeral key of the other side. *)
PeerEph(k) == MyEph(Flip(k))

(* The peer's part of a session was drawn by the peer, for this node; so a key
   tells who encrypted and for whom. *)
PeerInv ==
    /\ \A a \in used : /\ DrewFor(a.msg.from, a.msg.to, MyEph(a.key))
                       /\ DrewFor(a.msg.to, a.msg.from, PeerEph(a.key))
    /\ \A n, d \in Nodes : \A c \in Held(n, d) : DrewFor(d, n, PeerEph(c.key))
    /\ \A n \in Nodes :
         /\ \A s \in Senders : snd[n][s].reply # None =>
              DrewFor(snd[n][s].dest, n, snd[n][s].reply.resp)
         /\ \A i \in DOMAIN inbox[n] :
              /\ inbox[n][i].type = "start" =>
                   DrewFor(inbox[n][i].src, n, inbox[n][i].init)
              /\ inbox[n][i].type = "finish" =>
                   DrewFor(inbox[n][i].src, n, inbox[n][i].resp)

(* What is under way or delivered was encrypted by a send(), and the nonces of
   a key follow the calls. *)
UsedInv ==
    /\ \A a, b \in used : a.key = b.key /\ a.nonce < b.nonce => a.msg.no < b.msg.no
    /\ \A n \in Nodes :
         /\ \A s \in Senders : snd[n][s].pc = "transmit" => EncOf(n, s) \in used
         /\ \A i \in DOMAIN inbox[n] :
              inbox[n][i].type = "frame" => inbox[n][i].body \in used
         /\ rcv[n].pc = "decrypted" => rcv[n].got \in used
         /\ \A i \in DOMAIN log[n] : log[n][i] \in used

(* a comes after all that n delivered from its sender. *)
Follows(n, a) ==
    \A i \in DOMAIN log[n] :
        log[n][i].msg.from = a.msg.from => log[n][i].msg.no < a.msg.no

(* Whatever a session of n, or one its handshake may still agree on, can
   decrypt comes after all that n has delivered from that peer. *)
OrderedInv ==
    \A n \in Nodes :
        /\ \A d \in Nodes : \A c \in Held(n, d) :
             \A a \in used : Decryptable(c, a) => Follows(n, a)
        /\ \A s \in Senders : snd[n][s].pc = "wait" =>
             \A a \in used : a.key.init = snd[n][s].init => Follows(n, a)
        /\ rcv[n].pc = "decrypted" => Follows(n, rcv[n].got)

SessionInv ==
    /\ GuardInv /\ TaskInv /\ OwnedInv /\ FreshInv /\ NonceInv /\ CutInv
    /\ CallInv /\ PeerInv /\ UsedInv /\ OrderedInv

(* The expect() of send: "Session should exist after handshake". *)
NoPanic == \A n \in Nodes, s \in Senders : snd[n][s].pc # "panicked"
=============================================================================
